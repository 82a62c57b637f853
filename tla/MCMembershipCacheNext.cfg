CONSTANTS
    Readers = {r1, r2}
    Writers = {w1}
    TTL = 2
SPECIFICATION CacheSpec
INVARIANTS
    NextRequestSeesIt
