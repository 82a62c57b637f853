CONSTANTS
    Docs = {d1}
    Contents = {c1, c2}
    Exts = {x1, x2}
    MaxVersion = 2
    Requests = {r1, r2}
    Faults = {"storage", "database", "crash"}
    None = None
SPECIFICATION Spec
SYMMETRY Symmetry
INVARIANTS
    TypeOK
    CurrentIsLatest
    RowsKeepObjects
    NoOrphans
PROPERTIES
    ImplementsHistory
CHECK_DEADLOCK FALSE
