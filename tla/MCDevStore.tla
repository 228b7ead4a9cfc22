------------------------------ MODULE MCDevStore ------------------------------
(* DevStore with the constants of its .cfg file. *)
EXTENDS DevStore, TLC

CONSTANTS k1, k2

MCPattern == {{W}}
MCKey == {wiki, gh, k1, k2}

Symmetry == Permutations({k1, k2}) \cup Permutations(Request)
==============================================================================
