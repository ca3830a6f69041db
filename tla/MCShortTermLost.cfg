CONSTANTS
    c1 = c1
    c2 = c2
    empty = empty
    small = small
    medium = medium
    large = large
    huge = huge
    Messages <- MCMessages2
    TokenCount <- MCTokenCount2
    Callers <- MCCallers
    ShortTermMaxTokens = 4
    ShortTermMaxEntries = 3
    ShortTermBudget = 2
    ClearsMidCall = FALSE
    MaxReads = 0
SPECIFICATION Spec
INVARIANTS AddedMessagesStay
CHECK_DEADLOCK FALSE
