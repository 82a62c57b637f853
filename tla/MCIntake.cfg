CONSTANTS
    Classes = {"plain", "tag", "nul", "cont", "lead4", "pdf", "zip"}
    SniffBytes = 5
    ReadChunk = 2
    Limit = 8
    Envelope = 1
    MaxBody = 11
    None = None
SPECIFICATION Spec
INVARIANTS
    StoredIsUploaded
    LimitIsExact
    TextIsNeverRefused
    EvidenceWasSeen
CHECK_DEADLOCK FALSE
