CONSTANTS
    User = {u1}
    Ceremony = {k1, k2}
    Finish = {f1, f2}
    Check = {q1}
    Op = {o1, o2}
    None = None
    TTL = 1
    MaxClock = 0
SPECIFICATION Spec
SYMMETRY Symmetry
CHECK_DEADLOCK FALSE
INVARIANT SessionsInv
INVARIANT OneSessionPerCeremony
PROPERTY InactiveNeverServed
PROPERTY DeactivationSignsOut
