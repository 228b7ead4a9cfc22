------------------------------ MODULE MCSessions ------------------------------
(* Sessions with the constants of its .cfg files. *)
EXTENDS Sessions, TLC

Symmetry ==
    Permutations(Finish) \cup Permutations(Ceremony) \cup Permutations(Op)
==============================================================================
