CONSTANTS
    c1 = c1
    c2 = c2
    Callers <- MCCallers
    Invalidators = {v1}
    Requests <- MCRequests
    Patterns <- MCPatterns
    Ttl = 0
    ConfigTtl = 1
    DefaultTtl = 2
    MaxTime = 2
    Nothing = Nothing
    Garbage = Garbage
SPECIFICATION Spec
INVARIANTS ServedAlike InvalidatedStaysGone
PROPERTIES WithinLifetime
SYMMETRY MCSymmetry
CONSTRAINT MCBound
