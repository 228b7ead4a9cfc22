SPECIFICATION Spec
CONSTANTS
    c1 = c1
    c2 = c2
    k1 = k1
    k2 = k2
    d1 = d1
    d2 = d2
    Creator <- MCCreator
    Key <- MCKey
    Dest <- MCOneDest
    Wanted = {d1}
    Meta = {m1}
    Blank = Blank
    None = None
    BatchSize = 2
    MaxEdits = 0
INVARIANT NoDuplicate
