CONSTANTS
    User = {u1}
    Ceremony = {k1}
    Finish = {f1}
    Check = {q1}
    Op = {o1, o2}
    None = None
    TTL = 1
    MaxClock = 1
SPECIFICATION FairSpec
CHECK_DEADLOCK FALSE
PROPERTY EveryRequestEnds
