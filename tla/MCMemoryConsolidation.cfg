CONSTANTS
    c1 = c1
    empty = empty
    small = small
    full = full
    Messages <- MCMessages
    TokenCount <- MCTokenCount
    Callers <- MCCallers
    ShortTermMaxTokens = 3
    ShortTermMaxEntries = 2
    ShortTermBudget = 1
    ClearsMidCall = FALSE
    MaxReads = 1
    SummaryMinTokens = 1
    ConsolidationInterval = 1
    MaxTime = 3
SPECIFICATION SessionSpec
INVARIANTS SessionTypeOK SourcesArePieces StampIsBacked
PROPERTIES WindowSpec
CHECK_DEADLOCK FALSE
