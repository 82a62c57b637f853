CONSTANTS
    Requests = {r1, r2}
    MaxPairs = 2
    MaxTime = 4
    Second = 2
    AccessLife = 2
    RefreshLife = 4
    Leeway = 2
SPECIFICATION Spec
SYMMETRY Symmetry
INVARIANTS
    TypeOK
    DeadUntilExpiry
CHECK_DEADLOCK FALSE
