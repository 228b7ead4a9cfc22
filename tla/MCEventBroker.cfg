SPECIFICATION FairSpec
CONSTANTS
    u1 = u1
    u2 = u2
    t1 = t1
    t2 = t2
    p1 = p1
    p2 = p2
    User <- MCUser
    Tab <- MCTab
    Owner <- MCOwner
    Creator <- MCCreator
    MaxLinks = 2
    BufCap = 1
INVARIANT BrokerInv
INVARIANT NoSendOnClosed
PROPERTY PublishReturns
PROPERTY EventuallyShown
