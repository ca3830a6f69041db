CONSTANTS
    a = a
    b = b
    c = c
    x = x
    y = y
    z = z
    c1 = c1
    c2 = c2
    Documents <- MCDocuments
    Chunks <- MCChunks
    DocumentOf <- MCDocumentOf
    TokensOf <- MCTokensOf
    ContextLists <- MCContextLists
    Callers <- MCCallers
    WorkingMemoryMaxTokens = 3
    MaxLoadedDocuments = 2
    WorkingMemoryTTL = 2
    MaxOps = 6
    LongTermResults <- MCLongTermResults
    TokenBudget = 8
SPECIFICATION Spec
INVARIANTS MemoryIsWhole OneRetrieval WorkingWithinShare
SYMMETRY MCSymmetry
CHECK_DEADLOCK FALSE
