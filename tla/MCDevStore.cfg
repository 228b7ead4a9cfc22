CONSTANTS
    Request = {r1, r2}
    Key <- MCKey
    Dest = {W, G}
    Pattern <- MCPattern
    MaxSlug = 2
    Starts = {2}
    Ends = {1}
    Keep = Keep
    MaxLink = 4
    MaxCalls = 4
    BatchSize = 2
    wiki = wiki
    gh = gh
    k1 = k1
    k2 = k2
    W = W
    G = G
    None = None
    Absent = Absent
SPECIFICATION Spec
SYMMETRY Symmetry
CHECK_DEADLOCK FALSE
INVARIANT StoreInv
PROPERTY BatchWhole
PROPERTY DriftsOnlyWhenStale
