SPECIFICATION SpecAnswer
CONSTANTS
    Keys <- MCKeys
    Fields <- MCFields
    MaxFields = 5
    Absent = Absent
INVARIANTS
    NothingDropped
    DataIsShown
CHECK_DEADLOCK FALSE
