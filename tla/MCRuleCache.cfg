SPECIFICATION FairSpec
CONSTANTS
    c1 = c1
    c2 = c2
    a1 = a1
    Creator <- MCCreator
    Admin <- MCAdmin
    Dest = {d1}
    MaxVersion = 2
    TTL = 2
    None = None
INVARIANT FreshAfterAck
INVARIANT NoBypass
INVARIANT RulesInv
PROPERTY RefinesBoard
PROPERTY EventuallyCurrent
