CONSTANTS
    c1 = c1
    c2 = c2
    empty = empty
    small = small
    medium = medium
    large = large
    huge = huge
    Messages <- MCMessages4
    TokenCount <- MCTokenCount4
    Callers <- MCCallers
    ShortTermMaxTokens = 4
    ShortTermMaxEntries = 2
    ShortTermBudget = 2
    ClearsMidCall = TRUE
    MaxReads = 2
SPECIFICATION Spec
INVARIANTS TotalIsExact WithinLimits NoInvention
CHECK_DEADLOCK FALSE
