SPECIFICATION FairSpec
CONSTANTS
    Proc = {p1, p2}
    NBUF = 2
    Block = {k1, k2, k3}
    Val = {v1, v2}
    NoBlock = NoBlock
    NIL = NIL
    MaxPins = 1
INVARIANTS
    CacheSound
PROPERTIES
    StoreSpec
    BreadReturns
