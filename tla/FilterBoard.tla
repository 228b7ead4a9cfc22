----------------------------- MODULE FilterBoard -----------------------------
(***************************************************************************)
(* What the URL filter promises to a link creation, with no cache in it.   *)
(*                                                                         *)
(* The active rules have versions: every committed rule mutation makes the *)
(* next one.  `floor' is a version every later check must have caught up   *)
(* with: the newest mutation an admin has been told is in effect.  A check *)
(* is judged by some version between the floor of the moment it began and  *)
(* the newest version at the moment it is decided.  internal/cache/rules.go*)
(* implements this board with a snapshot, a mutex and a TTL (RuleCache).   *)
(***************************************************************************)
EXTENDS Naturals

CONSTANTS Creator,     \* in-flight POST /api/links requests
          Dest,        \* destination URLs
          MaxVersion   \* bound on the number of rule mutations

VARIABLES blocked,  \* blocked[v]: the destinations version v of the rules denies
          newest,   \* the newest committed version
          floor,    \* the newest version that was reported to be in effect
          phase,    \* phase[c]: where the filter check of request c is
          from,     \* from[c]: the floor when the check of c began
          url       \* url[c]: the destination c submits

vars == <<blocked, newest, floor, phase, from, url>>

Version == 0 .. MaxVersion

Phase == {"idle", "checking", "allowed", "denied"}

Init ==
    /\ \E rules \in SUBSET Dest : blocked = [v \in Version |-> IF v = 0 THEN rules ELSE {}]
    /\ newest = 0
    /\ floor = 0
    /\ phase = [c \in Creator |-> "idle"]
    /\ from = [c \in Creator |-> 0]
    /\ url \in [Creator -> Dest]

\* A rule is created, updated or deleted.
Mutate ==
    /\ newest < MaxVersion
    /\ newest' = newest + 1
    /\ \E rules \in SUBSET Dest : blocked' = [blocked EXCEPT ![newest + 1] = rules]
    /\ UNCHANGED <<floor, phase, from, url>>

\* Some committed version is reported to be in effect from now on.
Report ==
    /\ \E v \in Version : /\ v <= newest
                          /\ floor' = IF v > floor THEN v ELSE floor
    /\ UNCHANGED <<blocked, newest, phase, from, url>>

Begin(c) ==
    /\ phase[c] = "idle"
    /\ phase' = [phase EXCEPT ![c] = "checking"]
    /\ from' = [from EXCEPT ![c] = floor]
    /\ \E d \in Dest : url' = [url EXCEPT ![c] = d]
    /\ UNCHANGED <<blocked, newest, floor>>

\* The check ends with the verdict of one version that is recent enough.
Decide(c) ==
    /\ phase[c] = "checking"
    /\ \E v \in Version :
          /\ from[c] <= v /\ v <= newest
          /\ phase' = [phase EXCEPT ![c] =
                          IF url[c] \in blocked[v] THEN "denied" ELSE "allowed"]
    /\ UNCHANGED <<blocked, newest, floor, from, url>>

\* Requests end: answered, failed with a 500, or lost with the process.
Leave ==
    /\ \E gone \in SUBSET Creator :
          phase' = [c \in Creator |-> IF c \in gone THEN "idle" ELSE phase[c]]
    /\ UNCHANGED <<blocked, newest, floor, from, url>>

Next ==
    \/ Mutate
    \/ Report
    \/ Leave
    \/ \E c \in Creator : Begin(c) \/ Decide(c)

Spec == Init /\ [][Next]_vars
==============================================================================
