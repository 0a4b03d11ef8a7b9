SPECIFICATION Spec
CONSTANTS
    None = None
    Timeframes = {"week", "month"}
    MaxPages = 2
    MaxIdle = 3
    Anchors <- MCAnchors
    Screens <- MCScreens
    Largest = 2900
    Width = 300
    Height = 560
INVARIANTS FocusIsKept OpensOnOutput
