SPECIFICATION FairSpec
CONSTANTS
    r1 = r1
    r2 = r2
    w1 = w1
    Request <- MCRequest
    Writer <- MCWriter
    MaxVersion = 2
    PosTTL = 2
    NegTTL = 1
    BufCap = 2
    None = None
INVARIANT CacheInv
INVARIANT StaleIsDoomed
INVARIANT DeletedStays404
PROPERTY Converges
