---------------------------- MODULE MCEventBroker ----------------------------
(* Instances of EventBroker for TLC: two dashboards of one user, and *)
(* another user who creates links.                                   *)
EXTENDS EventBroker

CONSTANTS u1, u2, t1, t2, p1, p2

MCUser == {u1, u2}
MCTab == {t1, t2}
MCCreator == {p1, p2}
MCOwner == [t \in MCTab |-> u1]
==============================================================================
