---------------------------- MODULE CampaignDates ----------------------------
(***************************************************************************)
(* The dates of a campaign and what a PATCH may do to them, as both stores *)
(* of campaigns and the handlers above them understand them.               *)
(***************************************************************************)
EXTENDS Naturals

CONSTANTS Starts,  \* the dates a starts_at may be given
          Ends,    \* and those of an ends_at
          Keep     \* a column a PATCH leaves alone

ASSUME DatesAssumption ==
    /\ Starts \subseteq Nat \ {0} /\ Ends \subseteq Nat \ {0}
    /\ Keep \notin Nat

NoDate == 0
Dates == [starts : Starts \cup {NoDate}, ends : Ends \cup {NoDate}]
Changes == [starts : Starts \cup {NoDate, Keep}, ends : Ends \cup {NoDate, Keep}]

\* No date, or an end that is not before the start: the handlers' rule, and over
\* PostgreSQL a CHECK of the table.
Ordered(w) == w.starts = NoDate \/ w.ends = NoDate \/ w.starts <= w.ends

Window == {w \in Dates : Ordered(w)}

\* What a PATCH makes of a row.
Merge(old, new) ==
    [starts |-> IF new.starts = Keep THEN old.starts ELSE new.starts,
     ends |-> IF new.ends = Keep THEN old.ends ELSE new.ends]
==============================================================================
