SPECIFICATION Spec
CONSTANTS
    Values = {v1, v2}
    None = None
    Torn = Torn
    MaxAttempts = 2
    MaxNames = 3
INVARIANTS SavedSurvives NamesSuffice
PROPERTIES OldOrNew
