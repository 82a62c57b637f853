CONSTANTS
    Orgs = {o1, o2}
    Docs = {d1, d2}
    Titles = {t1, t2}
    Hashes = {h1, h2}
    MaxVersion = 2
    MaxAudit = 1
    Requests = {r1, r2}
    None = None
SPECIFICATION Spec
SYMMETRY Symmetry
INVARIANTS
    TypeOK
    AnswersStayInside
    RowsBelongTogether
    TotalMissesOnlyDeleted
PROPERTIES
    WritesStayInside
    EachHasItsHistory
CHECK_DEADLOCK FALSE
