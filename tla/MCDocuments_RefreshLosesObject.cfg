CONSTANTS
    Docs = {d1}
    Contents = {c1, c2}
    Exts = {x1}
    MaxVersion = 2
    Requests = {r1}
    Faults = {"database"}
    None = None
SPECIFICATION Spec
SYMMETRY Symmetry
INVARIANTS
    EveryRowHasItsObject
CHECK_DEADLOCK FALSE
