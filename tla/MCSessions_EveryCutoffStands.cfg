CONSTANTS
    Requests = {r1, r2}
    MaxPairs = 2
    MaxTime = 3
    AccessLife = 2
    RefreshLife = 3
    Leeway = 0
    Second = 1
SPECIFICATION Spec
SYMMETRY Symmetry
INVARIANTS
    EveryCutoffStands
CHECK_DEADLOCK FALSE
