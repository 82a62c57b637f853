CONSTANTS
    Uploads = {u1, u2}
    Keys = {k1}
    PartSize = 2
    MaxChunk = 3
    MaxBytes = 3
    Retries = 0
    None = None
SPECIFICATION Spec
SYMMETRY Symmetry
INVARIANTS
    TypeOK
    WholeOrNothing
    PartsAreFull
    KnownUploadsEnd
CHECK_DEADLOCK FALSE
