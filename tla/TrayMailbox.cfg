SPECIFICATION Spec
CONSTANTS
    Anchors = {a1, a2, a3}
    Timeframes = {week, month}
    Hidden = Hidden
    Stay = Stay
    None = None
    Limits = {0, 1, 2, 3, 32}
INVARIANTS TypeOK ReducedQueue
PROPERTIES EveryClickCounts QuitStops
