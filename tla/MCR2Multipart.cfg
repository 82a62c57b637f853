CONSTANTS
    Uploads = {u1}
    Keys = {k1}
    PartSize = 2
    MaxChunk = 3
    MaxBytes = 5
    Retries = 1
    None = None
SPECIFICATION Spec
INVARIANTS
    TypeOK
    WholeOrNothing
    PartsAreFull
    KnownUploadsEnd
CHECK_DEADLOCK FALSE
