CONSTANTS
    Email = {adm, ann}
    AdminEmail = adm
    Token = {t1, t2}
    Verify = {v1, v2}
    Finish = {f1, f2}
    Revoke = {w1, w2}
    OldKey = {k1, k2}
    Setups <- MCSetups
    None = None
SPECIFICATION Spec
SYMMETRY Symmetry
VIEW View
CHECK_DEADLOCK FALSE
INVARIANT AccountsInv
INVARIANT TokenSpentOnce
INVARIANT NeverStuck
PROPERTY NeverLockedOut
PROPERTY CeremonyAtomic
