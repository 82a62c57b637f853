CONSTANTS
    Requests = {r1}
    MaxPairs = 2
    MaxTime = 3
    AccessLife = 1
    RefreshLife = 2
    Leeway = 1
    Second = 1
SPECIFICATION Spec
SYMMETRY Symmetry
INVARIANTS
    DeadIsRefused
CHECK_DEADLOCK FALSE
