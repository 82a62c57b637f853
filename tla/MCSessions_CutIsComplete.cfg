CONSTANTS
    Requests = {r1, r2}
    MaxPairs = 3
    MaxTime = 2
    AccessLife = 2
    RefreshLife = 3
    Leeway = 0
    Second = 1
SPECIFICATION Spec
SYMMETRY Symmetry
INVARIANTS
    CutIsComplete
CHECK_DEADLOCK FALSE
