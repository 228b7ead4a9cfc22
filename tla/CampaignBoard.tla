---------------------------- MODULE CampaignBoard ----------------------------
(***************************************************************************)
(* What the campaign endpoints promise to a user, with no transaction, no  *)
(* lock and no second look at anything in it: campaigns are created with a *)
(* slug of their own, edited and deleted; a link is in at most one         *)
(* campaign, and only in one that exists; deleting a campaign frees its    *)
(* links and nobody else's.  Campaigns implements this board over          *)
(* PostgreSQL; DevStore says where a store under a mutex leaves it.        *)
(***************************************************************************)
CONSTANTS Campaign,  \* campaign ids
          Link,      \* links of the user, present and future
          Slug,      \* campaign slugs
          Detail,    \* what else a campaign row may hold
          None,      \* no campaign
          Absent     \* no such link yet

VARIABLES camp,  \* camp[c]: the campaign's row, or None
          at     \* at[l]: the campaign link l is in, None or Absent

vars == <<camp, at>>

Live == {c \in Campaign : camp[c] # None}

Init ==
    /\ camp \in [Campaign -> [slug : Slug, detail : Detail] \cup {None}]
    /\ \A c, d \in Live : camp[c].slug = camp[d].slug => c = d
    /\ at \in [Link -> Live \cup {None, Absent}]

Create(c) ==
    /\ camp[c] = None
    /\ \E s \in Slug, w \in Detail :
          /\ \A d \in Live : camp[d].slug # s
          /\ camp' = [camp EXCEPT ![c] = [slug |-> s, detail |-> w]]
    /\ UNCHANGED at

\* The slug of a campaign never changes.
Edit(c) ==
    /\ c \in Live
    /\ \E w \in Detail : camp' = [camp EXCEPT ![c].detail = w]
    /\ UNCHANGED at

Delete(c) ==
    /\ c \in Live
    /\ camp' = [camp EXCEPT ![c] = None]
    /\ at' = [l \in Link |-> IF at[l] = c THEN None ELSE at[l]]

\* A link is moved into a campaign from wherever it was.
Assign(l, c) ==
    /\ at[l] # Absent /\ c \in Live
    /\ at' = [at EXCEPT ![l] = c]
    /\ UNCHANGED camp

Unassign(l) ==
    /\ at[l] \in Campaign
    /\ at' = [at EXCEPT ![l] = None]
    /\ UNCHANGED camp

\* New links, all at once, in a campaign or in none.
AddLinks(S, c) ==
    /\ \A l \in S : at[l] = Absent
    /\ c \in Live \cup {None}
    /\ at' = [l \in Link |-> IF l \in S THEN c ELSE at[l]]
    /\ UNCHANGED camp

Next ==
    \/ \E c \in Campaign : Create(c) \/ Edit(c) \/ Delete(c)
    \/ \E l \in Link : Unassign(l) \/ \E c \in Campaign : Assign(l, c)
    \/ \E S \in SUBSET Link, c \in Campaign \cup {None} : AddLinks(S, c)

Spec == Init /\ [][Next]_vars
==============================================================================
