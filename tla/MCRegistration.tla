--------------------------- MODULE MCRegistration ----------------------------
(* Registration with the constants of its .cfg file. *)
EXTENDS Registration, TLC

\* A pool of two is too small for two ceremonies, one of three is not.
MCSetups == {[pool |-> 2, admin |-> FALSE, keys |-> {}],
             [pool |-> 3, admin |-> FALSE, keys |-> {}],
             [pool |-> 3, admin |-> TRUE, keys |-> OldKey]}

Symmetry == Permutations(Token) \cup Permutations(Verify) \cup Permutations(Finish)
            \cup Permutations(Revoke) \cup Permutations(OldKey)

\* The setting only matters to a start that is to come.
View == <<IF \E t \in Token : pc[t] = "idle" THEN enabled ELSE TRUE, pool, rows, locks, pc, job>>
==============================================================================
