CONSTANTS
    a1 = a1
    a2 = a2
    r1 = r1
    r2 = r2
    d1 = d1
    d2 = d2
    Agents   <- MCAgents
    Requests <- MCRequests
    Deleters <- MCDeleters1
    TargetOf <- MCTargetOf
SPECIFICATION Spec
INVARIANTS NoForeignKeyError
CHECK_DEADLOCK FALSE
