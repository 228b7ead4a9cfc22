----------------------------- MODULE MCLinkStore -----------------------------
(* Instances of LinkStore for TLC: two requests, two keys, one URL that is *)
(* asked for and one that a PATCH can point a link to.                    *)
EXTENDS LinkStore

CONSTANTS c1, c2, k1, k2, d1, d2

MCCreator == {c1, c2}
MCKey == {k1, k2}
MCOneDest == {d1}
MCDest == {d1, d2}
==============================================================================
