CONSTANTS
    Users = {u1, u2, u3}
    Requests = {r1, r2}
    MaxCeiling = 2
    DefaultMax = 2
SPECIFICATION Spec
PROPERTIES
    OnlyReinstateReturns
