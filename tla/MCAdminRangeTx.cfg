CONSTANTS
    Members = {m1, m2}
    Orgs = {o1, o2}
    Txs = {t1, t2}
    MaxCeiling = 2
    DefaultMax = 2
SPECIFICATION Spec
SYMMETRY Symmetry
INVARIANTS
    TypeOK
    CounterExact
PROPERTIES
    ImplementsAdminRange
