SPECIFICATION Spec
CONSTANTS
    None = None
    Output = {"Notification", "Init", "Usage"}
    Descendants = {"group", "escaped"}
    MaxPendingMessages = 1
    MaxBlankMessages = 0
    PipeCapacity = 1
PROPERTIES Returns GroupEnds ReaderEnds
