CONSTANTS
    one = one
    two = two
    three = three
    four = four
    five = five
    six = six
    Chunks <- MCChunks
    Content <- MCContent
    TokensOf <- MCTokensOf
    Library <- MCLibrary
    FileOf <- MCFileOf
    Files <- MCFiles
    Indexed <- MCIndexed
    Selections <- MCSelections
    Score <- MCScore
    Tiers <- MCTiers
    Budgets <- MCBudgets
    Documents <- MCDocuments
    DocumentOf <- MCDocumentOf
    SummaryTokens <- MCSummaryTokens
    Limits <- MCLimits
    NoDocument = "none"
    PageSize = 2
    MaxPages = 2
    FileBudgets = {3, 9}
    LengthOf <- MCLengthOf
    HeaderLength = 27
    SeparatorLength = 20
    EndLength = 21
    MaxTokens = 11
    MaxSummaries = 2
    MaxSteps = 2
SPECIFICATION SourcesSpec
INVARIANTS RetrievalTypeOK BreakdownAddsUp BestCopyStays FilesAreIndependent UncutMeansAll OverByLinesOnly ReadsFromTheStart ToolContextFits
PROPERTIES SelectionSpec FetchingEnds
CHECK_DEADLOCK FALSE
