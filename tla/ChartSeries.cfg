SPECIFICATION SpecSeries
CONSTANTS
    MaxPoints = 8
    MaxDrawPoints = 6
    MaxTokens = 127
    Gaps = {1, 2, 3}
    Tokens = {0, 20, 101}
    MaxBuckets = 5
    Widths = {1, 2, 3, 4, 5, 7}
INVARIANTS
    SeriesIsSample
    IdleDaysAtZero
    CurveIsSample
CHECK_DEADLOCK FALSE
