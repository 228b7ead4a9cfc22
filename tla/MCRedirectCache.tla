--------------------------- MODULE MCRedirectCache ---------------------------
(* Instances of RedirectCache for TLC: two redirects and one writer. *)
EXTENDS RedirectCache

CONSTANTS r1, r2, w1

MCRequest == {r1, r2}
MCWriter == {w1}
==============================================================================
