------------------------------ MODULE DevStore -------------------------------
(***************************************************************************)
(* The store behind ./scripts/dev.sh (internal/devstore): slices in memory *)
(* under one mutex, so each method is one atomic action here, while the    *)
(* HTTP handlers call several of them in turn and act on what an earlier   *)
(* one returned.                                                           *)
(*                                                                         *)
(* Everybody is the seeded administrator.  Slices keep the order in which  *)
(* rows were made.  A campaign's dates stand for the columns that a PATCH  *)
(* writes; UTM columns and titles of links are left out.  A pattern is     *)
(* known by the URLs it matches.  Left out: statistics and passkeys, of    *)
(* which there are none here, and the sessions and settings.               *)
(***************************************************************************)
EXTENDS CampaignDates, Sequences, FiniteSets, SequencesExt

CONSTANTS Request,   \* handlers that make more than one call
          Key,       \* short keys, generated or chosen
          Dest,      \* destination URLs
          Pattern,   \* filter patterns, each a set of destinations
          MaxSlug,   \* maxSlugAttempts
          MaxLink,   \* bound: links
          MaxCalls,  \* bound: HTTP requests
          BatchSize, \* rows of a batch
          wiki, gh, W, G,  \* the sample links' keys and URLs
          None, Absent

ASSUME DevStoreAssumption ==
    /\ {wiki, gh} \subseteq Key /\ wiki # gh /\ {W, G} \subseteq Dest
    /\ Pattern \subseteq SUBSET Dest
    /\ MaxSlug \in Nat \ {0} /\ BatchSize \in Nat \ {0}
    /\ MaxLink \in Nat \ {0, 1} /\ MaxCalls \in Nat
    /\ None \notin Key \cup Nat \cup [slug : 1 .. MaxSlug, detail : Dates]
    /\ Absent # None /\ Absent \notin Nat

VARIABLES links, campaigns, rules,           \* the slices
          nextLink, nextCampaign, nextRule,  \* and their counters
          pc,                                \* control of each handler
          job,                               \* what it works on
          calls                              \* HTTP requests so far

linkVars == <<links, nextLink>>
campVars == <<campaigns, nextCampaign>>
ruleVars == <<rules, nextRule>>
data == <<linkVars, campVars, ruleVars>>
vars == <<data, pc, job, calls>>

Slug == 1 .. MaxSlug
NoJob == [dest |-> None, key |-> None, id |-> None, patch |-> None]

Sample(id, k, d) ==
    [id |-> id, key |-> k, dest |-> d, active |-> TRUE, denied |-> FALSE, camp |-> None]

Init ==
    /\ links = <<Sample(1, wiki, W), Sample(2, gh, G)>> /\ nextLink = 3
    /\ campaigns = << >> /\ nextCampaign = 1
    /\ rules = << >> /\ nextRule = 1
    /\ pc = [r \in Request |-> "idle"]
    /\ job = [r \in Request |-> NoJob]
    /\ calls = 0

\* A request comes in.
Call == calls < MaxCalls /\ calls' = calls + 1

Goto(r, label) == pc' = [pc EXCEPT ![r] = label]

\* The handler answers.
Answer(r) ==
    /\ Goto(r, "idle")
    /\ job' = [job EXCEPT ![r] = NoJob]

------------------------------------------------------------------------------
(* Campaigns *)

Taken(s) == \E i \in DOMAIN campaigns : campaigns[i].slug = s

\* Mutant: ids are positions in the slice.
FreshByLength == Len(campaigns) + 1

Fresh == nextCampaign

\* POST /api/campaigns, its window checked: the first slug of base, base-2, ...
\* that is free.
CreateCampaign ==
    /\ Call
    /\ \E s \in Slug, w \in Window :
          /\ ~Taken(s) /\ \A t \in 1 .. s - 1 : Taken(t)
          /\ campaigns' = Append(campaigns, [id |-> Fresh, slug |-> s, detail |-> w])
    /\ nextCampaign' = nextCampaign + 1
    /\ UNCHANGED <<linkVars, ruleVars, pc, job>>

\* PATCH /api/campaigns/{slug}: the handler reads the campaign and judges the
\* window the PATCH would make of it ...
Patch(r) ==
    /\ pc[r] = "idle" /\ Call
    /\ \E i \in DOMAIN campaigns, w \in Changes :
          /\ Ordered(Merge(campaigns[i].detail, w))
          /\ job' = [job EXCEPT ![r] = [NoJob EXCEPT !.patch =
                [slug |-> campaigns[i].slug, seen |-> campaigns[i].detail, change |-> w]]]
    /\ Goto(r, "patch")
    /\ UNCHANGED data

\* ... and the store writes to the campaign that has the slug by then, if there
\* is one.  It has no CHECK.
UpdateCampaign(r) ==
    /\ pc[r] = "patch"
    /\ \/ ~Taken(job[r].patch.slug) /\ UNCHANGED campaigns
       \/ \E i \in DOMAIN campaigns :
             /\ campaigns[i].slug = job[r].patch.slug
             /\ campaigns' = [campaigns EXCEPT ![i].detail = Merge(@, job[r].patch.change)]
    /\ Answer(r)
    /\ UNCHANGED <<linkVars, nextCampaign, ruleVars, calls>>

\* The mirror of ON DELETE SET NULL.
Freed(c) == [j \in DOMAIN links |-> IF links[j].camp = c THEN [links[j] EXCEPT !.camp = None]
                                    ELSE links[j]]

DeleteCampaign(i) ==
    /\ Call
    /\ links' = Freed(campaigns[i].id)
    /\ campaigns' = RemoveAt(campaigns, i)
    /\ UNCHANGED <<nextLink, nextCampaign, ruleVars, pc, job>>

------------------------------------------------------------------------------
(* Filter rules *)

CreateRule ==
    /\ Call
    /\ \E p \in Pattern :
          rules' = Append(rules, [id |-> nextRule, bans |-> p, active |-> TRUE])
    /\ nextRule' = nextRule + 1
    /\ UNCHANGED <<linkVars, campVars, pc, job>>

\* A rule is changed or deleted, in its place in the slice.
ChangeRule(i) ==
    /\ Call
    /\ \/ rules' = RemoveAt(rules, i)
       \/ \E p \in Pattern, a \in BOOLEAN :
             rules' = [rules EXCEPT ![i].bans = p, ![i].active = a]
    /\ UNCHANGED <<linkVars, campVars, nextRule, pc, job>>

\* Evaluate(Rules()): does an active rule, tried in order, match?
Denied(d) == \E i \in DOMAIN rules : rules[i].active /\ d \in rules[i].bans

------------------------------------------------------------------------------
(* Links: one call each *)

\* PATCH and DELETE /api/links/{key}.
UpdateLink(j) ==
    /\ Call
    /\ \E d \in Dest : links' = [links EXCEPT ![j].dest = d]
    /\ UNCHANGED <<nextLink, campVars, ruleVars, pc, job>>

DeactivateLink(j) ==
    /\ Call
    /\ links' = [links EXCEPT ![j].active = FALSE]
    /\ UNCHANGED <<nextLink, campVars, ruleVars, pc, job>>

------------------------------------------------------------------------------
(* Links: handlers that first look for a campaign or at the rules *)

CampaignIds == {campaigns[i].id : i \in DOMAIN campaigns}

\* POST /api/links: the campaign it names, if any, is found; then the filter.
Create(r) ==
    /\ pc[r] = "idle" /\ Call
    /\ \E d \in Dest, k \in Key \cup {None}, c \in CampaignIds \cup {None} :
          job' = [job EXCEPT ![r] = [NoJob EXCEPT !.dest = d, !.key = k, !.id = c]]
    /\ Goto(r, "filter")
    /\ UNCHANGED data

Filter(r) ==
    /\ pc[r] = "filter"
    /\ Goto(r, CASE Denied(job[r].dest) -> "denied"
                 [] job[r].key # None -> "custom"
                 [] OTHER -> "dedup")
    /\ UNCHANGED <<data, job, calls>>

FreeKeys == Key \ {links[j].key : j \in DOMAIN links}

Row(r, n, k) ==
    [id |-> nextLink + n, key |-> k, dest |-> job[r].dest, active |-> pc[r] # "denied",
     denied |-> pc[r] = "denied", camp |-> job[r].id]

Insert(rows) ==
    /\ links' = links \o rows
    /\ nextLink' = nextLink + Len(rows)

\* CreateLink: an alias in use is ErrKeyTaken.
CreateLink(r) ==
    /\ pc[r] = "custom"
    /\ IF job[r].key \in FreeKeys THEN nextLink <= MaxLink /\ Insert(<<Row(r, 0, job[r].key)>>)
       ELSE UNCHANGED linkVars
    /\ Answer(r)
    /\ UNCHANGED <<campVars, ruleVars, calls>>

Matches(r) == {j \in DOMAIN links : links[j].dest = job[r].dest /\ ~links[j].denied}

\* GenerateUniqueKey finds a key nobody has, or gives up after some that are.
InsertGenerated(r) ==
    \/ nextLink <= MaxLink /\ \E k \in FreeKeys : Insert(<<Row(r, 0, k)>>)
    \/ UNCHANGED linkVars

\* CreateOrReactivateLink: the oldest match is made active, and moved when a
\* campaign was named.
CreateOrReactivateLink(r) ==
    /\ pc[r] = "dedup"
    /\ \/ Matches(r) = {} /\ InsertGenerated(r)
       \/ \E j \in Matches(r) :
             /\ \A i \in Matches(r) : j <= i
             /\ links' = [links EXCEPT ![j].active = TRUE,
                                       ![j].camp = IF job[r].id = None THEN @ ELSE job[r].id]
             /\ UNCHANGED nextLink
    /\ Answer(r)
    /\ UNCHANGED <<campVars, ruleVars, calls>>

CreateDeniedLink(r) ==
    /\ pc[r] = "denied"
    /\ InsertGenerated(r)
    /\ Answer(r)
    /\ UNCHANGED <<campVars, ruleVars, calls>>

\* POST and DELETE .../campaigns/{slug}/links find the campaign, then the link,
\* and use their ids.  A request that names several keys does for each what a
\* request of its own would.
Resolve(r) ==
    /\ pc[r] = "idle" /\ Call
    /\ \E c \in CampaignIds : job' = [job EXCEPT ![r] = [NoJob EXCEPT !.id = c]]
    /\ \E label \in {"assign", "unassign"} : Goto(r, label)
    /\ UNCHANGED data

AssignLinkToCampaign(r) ==
    /\ pc[r] = "assign"
    /\ \E j \in DOMAIN links : links' = [links EXCEPT ![j].camp = job[r].id]
    /\ Answer(r)
    /\ UNCHANGED <<nextLink, campVars, ruleVars, calls>>

\* Only from the campaign that was found.
UnassignLinkFromCampaign(r) ==
    /\ pc[r] = "unassign"
    /\ \E j \in DOMAIN links :
          links' = [links EXCEPT ![j].camp = IF @ = job[r].id THEN None ELSE @]
    /\ Answer(r)
    /\ UNCHANGED <<nextLink, campVars, ruleVars, calls>>

\* POST .../links/batch.
BatchCreateLinks(r) ==
    /\ pc[r] = "idle" /\ Call
    /\ \E c \in CampaignIds, d \in Dest :
          job' = [job EXCEPT ![r] = [NoJob EXCEPT !.dest = d, !.id = c]]
    /\ Goto(r, "check")
    /\ UNCHANGED data

CheckRows(r) ==
    /\ pc[r] = "check"
    /\ IF Denied(job[r].dest) THEN Answer(r) ELSE Goto(r, "batch") /\ UNCHANGED job
    /\ UNCHANGED <<data, calls>>

\* Mutant: every row's key is compared with the links there were before.
KeysOfBefore(n) == [1 .. n -> FreeKeys]

\* Keys for n rows, each unlike those of all links and of the rows before it.
KeysFor(n) == {ks \in [1 .. n -> FreeKeys] : \A i, j \in 1 .. n : i # j => ks[i] # ks[j]}

Rows(r, ks) == [n \in DOMAIN ks |-> Row(r, n - 1, ks[n])]

\* Mutant: the rows made before the failure stay.
KeepRows(rows) == Insert(rows)

\* s.links and s.nextLinkID are put back.
Restore(rows) == UNCHANGED linkVars

\* CreateLinksBatch: all rows, or, when a key cannot be found, none.
CreateLinksBatch(r) ==
    /\ pc[r] = "batch"
    /\ nextLink + BatchSize - 1 <= MaxLink
    /\ \/ \E ks \in KeysFor(BatchSize) : Insert(Rows(r, ks))
       \/ \E n \in 0 .. BatchSize - 1 : \E ks \in KeysFor(n) : Restore(Rows(r, ks))
    /\ Answer(r)
    /\ UNCHANGED <<campVars, ruleVars, calls>>

Handle(r) ==
    \/ Create(r) \/ Filter(r) \/ CreateLink(r) \/ CreateOrReactivateLink(r) \/ CreateDeniedLink(r)
    \/ Resolve(r) \/ AssignLinkToCampaign(r) \/ UnassignLinkFromCampaign(r)
    \/ BatchCreateLinks(r) \/ CheckRows(r) \/ CreateLinksBatch(r)
    \/ Patch(r) \/ UpdateCampaign(r)

Next ==
    \/ CreateCampaign \/ CreateRule
    \/ \E i \in DOMAIN campaigns : DeleteCampaign(i)
    \/ \E i \in DOMAIN rules : ChangeRule(i)
    \/ \E j \in DOMAIN links : UpdateLink(j) \/ DeactivateLink(j)
    \/ \E r \in Request : Handle(r)

Spec == Init /\ [][Next]_vars

------------------------------------------------------------------------------
(* Properties *)

Label == {"idle", "filter", "denied", "custom", "dedup", "assign", "unassign", "check",
          "batch", "patch"}

\* Types; in particular ids grow along the slices and stay below the counters.
TypeOK ==
    /\ \A j \in DOMAIN links :
          links[j] \in [id : 1 .. MaxLink, key : Key, dest : Dest, active : BOOLEAN,
                        denied : BOOLEAN, camp : (1 .. MaxCalls) \cup {None}]
    /\ \A j \in DOMAIN links : links[j].id = j
    /\ nextLink = Len(links) + 1
    /\ \A i \in DOMAIN campaigns :
          /\ campaigns[i].id < nextCampaign
          /\ campaigns[i].slug \in Slug /\ campaigns[i].detail \in Dates
          /\ \A j \in 1 .. i - 1 : campaigns[j].id < campaigns[i].id
    /\ \A i \in DOMAIN rules :
          /\ rules[i].id < nextRule /\ rules[i].bans \in Pattern
          /\ \A j \in 1 .. i - 1 : rules[j].id < rules[i].id
    /\ pc \in [Request -> Label]
    /\ \A r \in Request : DOMAIN job[r] = DOMAIN NoJob

\* A key names one link: redirects, PATCH and DELETE, which all take the first
\* row that has the key, never disagree on which one that is.
KeyUnique == \A i, j \in DOMAIN links : links[i].key = links[j].key => i = j

\* A denied link never redirects, whichever create comes after it and whatever
\* the rules are by then.
DeniedNeverActive == \A j \in DOMAIN links : ~(links[j].denied /\ links[j].active)

\* The state invariant: types, ids and counters, and what every link obeys.
StoreInv == TypeOK /\ KeyUnique /\ DeniedNeverActive

\* A batch leaves all of its rows or no trace, not even in the counter.
BatchWhole ==
    [][\A r \in Request : pc[r] = "batch" /\ pc'[r] = "idle" =>
          /\ Len(links') \in {Len(links), Len(links) + BatchSize}
          /\ nextLink' - nextLink = Len(links') - Len(links)]_vars

\* The campaigns of this store on the board that the store over PostgreSQL
\* implements: whatever campaign_id a link holds, that of a deleted campaign
\* included, because cloneLink and the API pass it on.
Board == INSTANCE CampaignBoard WITH
    Campaign <- 1 .. MaxCalls, Link <- 1 .. MaxLink, Detail <- Window,
    camp <- [c \in 1 .. MaxCalls |->
                LET S == {i \in DOMAIN campaigns : campaigns[i].id = c}
                IN  IF S = {} THEN None
                    ELSE [slug |-> campaigns[CHOOSE i \in S : TRUE].slug,
                          detail |-> campaigns[CHOOSE i \in S : TRUE].detail]],
    at <- [l \in 1 .. MaxLink |-> IF l <= Len(links) THEN links[l].camp ELSE Absent]

\* No link holds the id of a campaign that this step makes.
NewIdUnused ==
    \A i \in DOMAIN campaigns' :
        campaigns'[i].id \in CampaignIds \/ \A j \in DOMAIN links : links[j].camp # campaigns'[i].id

\* A handler puts links into the campaign it found, which is deleted by now.
StaleMove(r) ==
    /\ pc[r] # "idle" /\ pc'[r] = "idle"
    /\ job[r].id \notin CampaignIds \cup {None}
    /\ UNCHANGED campaigns
    /\ \A j \in DOMAIN links' :
          \/ links'[j].camp = job[r].id
          \/ j \in DOMAIN links /\ links'[j].camp = links[j].camp

\* A PATCH leaves dates out of order: they have changed since it was judged, or
\* are those of another campaign, which has taken the slug.
StalePatch(r) ==
    /\ pc[r] = "patch" /\ pc'[r] = "idle" /\ UNCHANGED links
    /\ \E i \in DOMAIN campaigns :
          LET w == Merge(campaigns[i].detail, job[r].patch.change)
          IN  /\ campaigns[i].slug = job[r].patch.slug
              /\ campaigns[i].detail # job[r].patch.seen /\ ~Ordered(w)
              /\ campaigns' = [campaigns EXCEPT ![i].detail = w]

\* This store departs from the one over PostgreSQL in two ways only, both when
\* what a handler acts on has changed since it looked: links get the id of a
\* campaign deleted meanwhile (where the foreign key refuses), and dates are put
\* out of order (where the CHECK refuses).  Any other step is one of the board's,
\* and no later campaign takes over the links that hold a dead id.
DriftsOnlyWhenStale ==
    /\ Board!Init
    /\ [][\/ Board!Next /\ NewIdUnused
          \/ \E r \in Request : StaleMove(r) \/ StalePatch(r)]_(Board!vars)
==============================================================================
