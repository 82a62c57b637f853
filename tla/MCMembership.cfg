CONSTANTS
    Users = {u1, u2, u3}
    Requests = {r1, r2}
    MaxCeiling = 2
    DefaultMax = 2
SPECIFICATION Spec
SYMMETRY Symmetry
INVARIANTS
    TypeOK
    RangeHolds
    PersonalStaysSolo
    ActiveMeansJoined
PROPERTIES
    OnlyRacesAreRefused
    RangeVerdictIsConflict
    ImplementsAdminRange
