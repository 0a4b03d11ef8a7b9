SPECIFICATION Spec
CONSTANTS
    MaxTokens = 12
    MaxDigits = 2
    Lexemes <- MCLexemes
    WindowDays <- MCWindowDays
    Days = {3, 4, 5}
    MaxUses = 3
    None = None
INVARIANTS
    CountsAreExact
    TotalIsExact
    AllTimeIsHonest
    FiguresCohere
    BarAgrees
