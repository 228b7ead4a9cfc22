---------------------------- MODULE MCClickStats -----------------------------
(* Click statistics with the constants of its .cfg file: link 1 has a        *)
(* utm_source of its own, link 2 none.                                        *)
EXTENDS ClickStats

CONSTANT Past

MCUtm == [l \in Link |-> IF l = 1 THEN 1 ELSE 0]
MCSchedules == {[from |-> None, to |-> None],
                [from |-> MaxDay, to |-> None], [from |-> None, to |-> MaxDay],
                [from |-> 0, to |-> MaxDay],
                [from |-> MaxDay, to |-> MaxDay]}
MCEarlier == [k \in Click |->
    IF k # Past THEN None
    ELSE [link |-> 2, day |-> 0, bot |-> FALSE, src |-> 0, camp |-> CHOOSE c \in Campaign : TRUE]]
MCAsked == {[from |-> None, to |-> None], [from |-> 0, to |-> None],
            [from |-> 1, to |-> 0]}
Symmetry == Permutations(Click \ {Past})
==============================================================================
