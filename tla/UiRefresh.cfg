SPECIFICATION Spec
CONSTANTS
    Anchors = {origin}
    Timeframes = {week}
    Hidden = Hidden
    None = None
    Origin = origin
    MaxPages = 2
    TrayInputs = {"Toggle", "Show", "Refresh", "Quit"}
    WindowInputs = {"Dismiss", "Refresh", "Page", "Quit", "Launch"}
INVARIANTS OneFetch HistoryPageExists IconTellsTruth NeverStranded
PROPERTIES DataSurvives RefreshEnds StaleIsRefreshed QuitEnds
