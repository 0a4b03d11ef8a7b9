SPECIFICATION Spec
CONSTANTS
    Anchors = {origin}
    Timeframes = {week, month}
    Hidden = Hidden
    None = None
    Origin = origin
    MaxPages = 1
    TrayInputs = {"SetTimeframe", "SetAutostart"}
    WindowInputs = {"SetTimeframe", "SetAutostart"}
INVARIANTS TimeframeAgrees AutostartAgrees
