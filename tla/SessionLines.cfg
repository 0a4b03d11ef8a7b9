SPECIFICATION Spec
CONSTANTS
    None = None
    Output = {"Blank", "Notification", "Garbage", "Invalid", "Oversized", "Unreadable", "Stray", "Init", "InitError", "Usage", "UsageBad", "UsageError", "Limits", "LimitsBad", "LimitsError"}
    Descendants = {}
    MaxPendingMessages = 1
    MaxBlankMessages = 1
    PipeCapacity = 1
INVARIANTS TypeOK
PROPERTIES FloodNamed Unhurried Promise
