CONSTANTS
    a1 = a1
    r1 = r1
    d1 = d1
    e1 = e1
    e2 = e2
    k1 = k1
    Agents   <- MCAgents
    Requests <- MCRequests
    Deleters <- MCDeleters
    TargetOf <- MCTargetOf
    Editors  <- MCEditors
    Copiers  <- MCCopiers
    Columns  <- MCColumns
    EditTarget <- MCEditTarget
    EditOf     <- MCEditOf
SPECIFICATION FairCatalogSpec
INVARIANTS CatalogTypeOK NoOrphanRows AnswerAgreesWithRow QueuedHasReason AnsweredUpdatesWereStored
PROPERTIES NoUpdateUndone OutcomesAreFinal RecordSpec TrackedSettles
CHECK_DEADLOCK FALSE
