CONSTANTS
    Docs = {d1, d2, d3}
    Contents = {c1, c2}
    Exts = {x1}
    MaxVersion = 2
    Requests = {r1}
    Faults = {}
    None = None
SPECIFICATION Spec
SYMMETRY Symmetry
PROPERTIES
    DuplicatesAreFound
CHECK_DEADLOCK FALSE
