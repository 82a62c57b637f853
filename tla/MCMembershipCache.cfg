CONSTANTS
    Readers = {r1, r2}
    Writers = {w1, w2}
    TTL = 2
SPECIFICATION FairSpec
INVARIANTS
    CacheTypeOK
    RolesWereHeld
    CoherentUnlessTainted
PROPERTIES
    Converges
