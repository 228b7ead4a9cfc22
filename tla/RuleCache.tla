------------------------------ MODULE RuleCache ------------------------------
(***************************************************************************)
(* The URL filter rule cache of internal/cache/rules.go between its two    *)
(* users: the admin handlers of internal/handlers/url_filters.go, which    *)
(* commit a mutation and then invalidate the snapshot, and the filter      *)
(* check of POST /api/links, which reads the rules through the cache.      *)
(*                                                                         *)
(* A rule set is abstracted to the set of destinations it blocks, and each *)
(* committed set has a version.  The database is `blocked' and `dbVer'.    *)
(* The process memory is the snapshot: valid, snap, age.  age counts ticks *)
(* since the snapshot was loaded; TTL stands for FilterRuleTTL.            *)
(* acked and must are history variables: the newest version whose admin    *)
(* got past Invalidate, and its value when a check began.                  *)
(***************************************************************************)
EXTENDS Naturals

CONSTANTS Creator,     \* in-flight POST /api/links requests
          Admin,       \* in-flight admin requests on /admin/url-filters
          Dest,        \* destination URLs
          MaxVersion,  \* bound: committed rule mutations
          TTL,         \* FilterRuleTTL, in ticks
          None         \* no lock owner

ASSUME ConstAssumption ==
    /\ MaxVersion \in Nat
    /\ TTL \in Nat \ {0}
    /\ None \notin Creator

VARIABLES blocked,  \* blocked[v]: destinations the rules of version v deny
          dbVer,    \* version of the rules in url_filter_rules
          valid,    \* RuleCache.valid
          snap,     \* version of RuleCache.rules
          age,      \* now - RuleCache.loadedAt, capped at TTL
          mu,       \* owner of RuleCache.mu across a load
          pc,       \* control of each create request
          got,      \* rules version Rules() returned, or load() is holding
          url,      \* destination the request submits
          must,     \* history: acked when the check began
          apc,      \* control of each admin request
          wrote,    \* version the admin request committed
          acked     \* history: newest version whose Invalidate returned

dbVars    == <<blocked, dbVer>>
cacheVars == <<valid, snap, age>>
reqVars   == <<pc, got, url, must>>
adminVars == <<apc, wrote, acked>>
vars == <<dbVars, cacheVars, mu, reqVars, adminVars>>

Version == 0 .. MaxVersion

Init ==
    /\ \E rules \in SUBSET Dest : blocked = [v \in Version |-> IF v = 0 THEN rules ELSE {}]
    /\ dbVer = 0
    /\ valid = FALSE /\ snap = 0 /\ age = 0
    /\ mu = None
    /\ pc = [c \in Creator |-> "idle"]
    /\ got = [c \in Creator |-> 0]
    /\ url \in [Creator -> Dest]
    /\ must = [c \in Creator |-> 0]
    /\ apc = [a \in Admin |-> "idle"]
    /\ wrote = [a \in Admin |-> 0]
    /\ acked = 0

------------------------------------------------------------------------------
(* POST /api/links: the filter check *)

Goto(c, label) == pc' = [pc EXCEPT ![c] = label]

\* A valid request reaches h.rules.Rules(ctx) with its destination.
Submit(c) ==
    /\ pc[c] = "idle"
    /\ Goto(c, "rules")
    /\ \E d \in Dest : url' = [url EXCEPT ![c] = d]
    /\ must' = [must EXCEPT ![c] = acked]
    /\ UNCHANGED <<dbVars, cacheVars, mu, got, adminVars>>

\* Mutant: a snapshot is served for as long as nobody invalidates it.
FreshNoTTL == valid

Fresh == valid /\ age < TTL

\* Rules(): the snapshot is usable.  Lock, test, return and unlock touch
\* nothing another goroutine can see in between.
RulesHit(c) ==
    /\ pc[c] = "rules" /\ mu = None
    /\ Fresh
    /\ got' = [got EXCEPT ![c] = snap]
    /\ Goto(c, "have")
    /\ UNCHANGED <<dbVars, cacheVars, mu, url, must, adminVars>>

\* Mutant: the lock is not kept for the duration of the load.
RulesMissUnlocked(c) ==
    /\ pc[c] = "rules" /\ mu = None
    /\ ~Fresh
    /\ Goto(c, "loading")
    /\ UNCHANGED <<dbVars, cacheVars, mu, got, url, must, adminVars>>

\* Rules(): no usable snapshot; load() runs with mu held.
RulesMiss(c) ==
    /\ pc[c] = "rules" /\ mu = None
    /\ ~Fresh
    /\ mu' = c
    /\ Goto(c, "loading")
    /\ UNCHANGED <<dbVars, cacheVars, got, url, must, adminVars>>

\* The loader's SELECT takes its snapshot of the active rules.
LoadSelect(c) ==
    /\ pc[c] = "loading"
    /\ got' = [got EXCEPT ![c] = dbVer]
    /\ Goto(c, "loaded")
    /\ UNCHANGED <<dbVars, cacheVars, mu, url, must, adminVars>>

\* load() returned the rules: they become the snapshot and the result.
LoadStore(c) ==
    /\ pc[c] = "loaded"
    /\ snap' = got[c] /\ age' = 0 /\ valid' = TRUE
    /\ mu' = None
    /\ Goto(c, "have")
    /\ UNCHANGED <<dbVars, got, url, must, adminVars>>

\* Mutant: the loader's error is swallowed and the old snapshot evaluated.
LoadErrorIgnored(c) ==
    /\ pc[c] \in {"loading", "loaded"}
    /\ mu' = None
    /\ got' = [got EXCEPT ![c] = snap]
    /\ Goto(c, "have")
    /\ UNCHANGED <<dbVars, cacheVars, url, must, adminVars>>

\* load() failed: the snapshot fields stay as they are, the request gets 500.
LoadError(c) ==
    /\ pc[c] \in {"loading", "loaded"}
    /\ mu' = None
    /\ Goto(c, "failed")
    /\ UNCHANGED <<dbVars, cacheVars, got, url, must, adminVars>>

\* Mutant: the verdict of a match is inverted.
VerdictInverted(c) ==
    /\ pc[c] = "have"
    /\ Goto(c, IF url[c] \in blocked[got[c]] THEN "allowed" ELSE "denied")
    /\ UNCHANGED <<dbVars, cacheVars, mu, got, url, must, adminVars>>

\* filters.Evaluate: deny on a match, otherwise go on to dedup and insert.
Verdict(c) ==
    /\ pc[c] = "have"
    /\ Goto(c, IF url[c] \in blocked[got[c]] THEN "denied" ELSE "allowed")
    /\ UNCHANGED <<dbVars, cacheVars, mu, got, url, must, adminVars>>

\* The response is written.
Respond(c) ==
    /\ pc[c] \in {"allowed", "denied", "failed"}
    /\ Goto(c, "idle")
    /\ UNCHANGED <<dbVars, cacheVars, mu, got, url, must, adminVars>>

------------------------------------------------------------------------------
(* POST, PATCH, DELETE /admin/url-filters *)

\* One INSERT, UPDATE or DELETE on url_filter_rules, autocommitted.
Commit(rules) ==
    /\ dbVer < MaxVersion
    /\ dbVer' = dbVer + 1
    /\ blocked' = [blocked EXCEPT ![dbVer + 1] = rules]

MutateRule(a) ==
    /\ apc[a] = "idle"
    /\ \E rules \in SUBSET Dest : Commit(rules)
    /\ wrote' = [wrote EXCEPT ![a] = dbVer + 1]
    /\ apc' = [apc EXCEPT ![a] = "written"]
    /\ UNCHANGED <<cacheVars, mu, reqVars, acked>>

\* The statement commits but its result is lost: the handler answers 500 and
\* returns before Invalidate.
MutateRuleLost(a) ==
    /\ apc[a] = "idle"
    /\ \E rules \in SUBSET Dest : Commit(rules)
    /\ UNCHANGED <<cacheVars, mu, reqVars, adminVars>>

\* Mutant: Invalidate does not wait for a load in progress.
InvalidateUnlocked(a) ==
    /\ apc[a] = "written"
    /\ valid' = FALSE
    /\ apc' = [apc EXCEPT ![a] = "idle"]
    /\ acked' = IF wrote[a] > acked THEN wrote[a] ELSE acked
    /\ UNCHANGED <<dbVars, snap, age, mu, reqVars, wrote>>

\* Invalidate() drops the snapshot under mu; the handler then answers.
Invalidate(a) ==
    /\ apc[a] = "written"
    /\ mu = None
    /\ valid' = FALSE
    /\ apc' = [apc EXCEPT ![a] = "idle"]
    /\ acked' = IF wrote[a] > acked THEN wrote[a] ELSE acked
    /\ UNCHANGED <<dbVars, snap, age, mu, reqVars, wrote>>

------------------------------------------------------------------------------
(* The clock and the process *)

Tick ==
    /\ valid /\ age < TTL
    /\ age' = age + 1
    /\ UNCHANGED <<dbVars, valid, snap, mu, reqVars, adminVars>>

\* The process dies and restarts: NewRuleCache has no snapshot, and every
\* request in flight is gone.  The database stays.
Restart ==
    /\ valid' = FALSE /\ snap' = 0 /\ age' = 0
    /\ mu' = None
    /\ pc' = [c \in Creator |-> "idle"]
    /\ apc' = [a \in Admin |-> "idle"]
    /\ UNCHANGED <<dbVars, got, url, must, wrote, acked>>

Create(c) ==
    \/ Submit(c) \/ RulesHit(c) \/ RulesMiss(c) \/ LoadSelect(c)
    \/ LoadStore(c) \/ LoadError(c) \/ Verdict(c) \/ Respond(c)

Next ==
    \/ \E c \in Creator : Create(c)
    \/ \E a \in Admin : MutateRule(a) \/ MutateRuleLost(a) \/ Invalidate(a)
    \/ Tick
    \/ Restart

Spec == Init /\ [][Next]_vars

\* Handlers run to their end, the clock moves, and the dashboards keep
\* creating links; nobody has to mutate a rule, fail or restart.
Fairness ==
    /\ \A c \in Creator :
          /\ WF_vars(Submit(c)) /\ SF_vars(RulesHit(c)) /\ SF_vars(RulesMiss(c))
          /\ WF_vars(LoadSelect(c)) /\ WF_vars(LoadStore(c))
          /\ WF_vars(Verdict(c)) /\ WF_vars(Respond(c))
    /\ \A a \in Admin : SF_vars(Invalidate(a))
    /\ WF_vars(Tick)

FairSpec == Spec /\ Fairness

------------------------------------------------------------------------------
(* Properties *)

\* Types, and: whoever evaluates rules evaluates the rules of some version
\* that Rules() returned to it without an error.
TypeOK ==
    /\ blocked \in [Version -> SUBSET Dest]
    /\ dbVer \in Version
    /\ valid \in BOOLEAN /\ snap \in Version /\ age \in 0 .. TTL
    /\ mu \in Creator \cup {None}
    /\ pc \in [Creator -> {"idle", "rules", "loading", "loaded", "have",
                           "allowed", "denied", "failed"}]
    /\ got \in [Creator -> Version]
    /\ url \in [Creator -> Dest]
    /\ must \in [Creator -> Version]
    /\ apc \in [Admin -> {"idle", "written"}]
    /\ wrote \in [Admin -> Version]
    /\ acked \in Version

Judging(c) == pc[c] \in {"have", "allowed", "denied"}

\* internal/cache/rules.go: "the cache is invalidated immediately on any rule
\* create/update/delete".  Rules returned to a create request are never older
\* than a mutation that was answered before the request asked for them, even
\* when a load was under way while the mutation committed.
FreshAfterAck ==
    \A c \in Creator : Judging(c) => must[c] <= got[c] /\ got[c] <= dbVer

\* A destination gets past the filter only if some rule set that was in force
\* during the check lets it pass, and is denied only if one denies it.
NoBypass ==
    \A c \in Creator :
        /\ pc[c] = "allowed" =>
              \E v \in must[c] .. dbVer : url[c] \notin blocked[v]
        /\ pc[c] = "denied" =>
              \E v \in must[c] .. dbVer : url[c] \in blocked[v]

\* The strengthening that is inductive: a valid snapshot, and a load that has
\* read, are at least as new as every mutation already answered, because
\* answering one needs the mutex the loader holds.
LockInv ==
    /\ mu # None => pc[mu] \in {"loading", "loaded"}
    /\ \A c \in Creator : pc[c] \in {"loading", "loaded"} => mu = c

SnapInv ==
    /\ acked <= dbVer /\ snap <= dbVer
    /\ \A a \in Admin : wrote[a] <= dbVer
    /\ valid => acked <= snap
    /\ \A c \in Creator :
          /\ must[c] <= acked /\ got[c] <= dbVer
          /\ pc[c] = "loaded" => acked <= got[c]

\* What TLC checks and what is proved inductive: the strengthening together
\* with the properties it supports.
RulesInv == TypeOK /\ LockInv /\ SnapInv /\ FreshAfterAck /\ NoBypass

\* Every behaviour of the cached filter is one of the board without a cache.
Phase(c) ==
    CASE pc[c] \in {"rules", "loading", "loaded", "have"} -> "checking"
      [] pc[c] \in {"idle", "failed"} -> "idle"
      [] OTHER -> pc[c]

Board == INSTANCE FilterBoard
           WITH newest <- dbVer, floor <- acked, from <- must,
                phase <- [c \in Creator |-> Phase(c)]

RefinesBoard == Board!Spec

\* When rules stop changing, every check is eventually judged by the newest
\* rules, including those whose mutation ended in a 500 after committing and
\* was never followed by an Invalidate: the TTL is what brings them in.
EventuallyCurrent ==
    <>[](\A c \in Creator : Judging(c) => got[c] = dbVer)
==============================================================================
