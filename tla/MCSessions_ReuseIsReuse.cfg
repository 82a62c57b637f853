CONSTANTS
    Requests = {r1}
    MaxPairs = 2
    MaxTime = 2
    AccessLife = 2
    RefreshLife = 3
    Leeway = 0
    Second = 1
SPECIFICATION Spec
SYMMETRY Symmetry
PROPERTIES
    ReuseIsReuse
CHECK_DEADLOCK FALSE
