--------------------------- MODULE RuleCacheProofs ---------------------------
(***************************************************************************)
(* Proofs about RuleCache for any number of requests, admins, mutations    *)
(* and destinations.  RulesInv is inductive; the theorems follow from it.  *)
(***************************************************************************)
EXTENDS RuleCache, TLAPS

\* The initial states satisfy the inductive invariant.
LEMMA InitInv == Init => RulesInv
  <1> SUFFICES ASSUME Init PROVE RulesInv
    OBVIOUS
  <1>1. 0 \in Version
    BY ConstAssumption DEF Version
  <1>2. TypeOK
    <2>1. PICK rules \in SUBSET Dest :
              blocked = [v \in Version |-> IF v = 0 THEN rules ELSE {}]
      BY DEF Init
    <2>2. blocked \in [Version -> SUBSET Dest]
      BY <2>1
    <2>3. 0 \in 0 .. TTL
      BY ConstAssumption
    <2> QED
      BY <1>1, <2>2, <2>3 DEF Init, TypeOK
  <1>3. LockInv
    BY DEF Init, LockInv
  <1>4. SnapInv
    BY DEF Init, SnapInv
  <1>5. FreshAfterAck /\ NoBypass
    BY DEF Init, FreshAfterAck, NoBypass, Judging
  <1> QED
    BY <1>2, <1>3, <1>4, <1>5 DEF RulesInv

\* A step of a create request preserves the invariant.
LEMMA CreateStep ==
  ASSUME RulesInv, NEW c \in Creator, Create(c)
  PROVE  RulesInv'
  <1> USE ConstAssumption DEF RulesInv
  <1>1. CASE Submit(c)
    <2> USE <1>1 DEF Submit, Goto, dbVars, cacheVars, adminVars
    <2>1. TypeOK'
      BY DEF TypeOK
    <2>2. LockInv'
      BY DEF TypeOK, LockInv
    <2>3. SnapInv'
      BY DEF TypeOK, SnapInv, Version
    <2>4. FreshAfterAck' /\ NoBypass'
      BY DEF TypeOK, FreshAfterAck, NoBypass, Judging
    <2> QED
      BY <2>1, <2>2, <2>3, <2>4
  <1>2. CASE RulesHit(c)
    <2> USE <1>2 DEF RulesHit, Fresh, Goto, dbVars, cacheVars, adminVars
    <2>1. TypeOK'
      BY DEF TypeOK
    <2>2. LockInv'
      BY DEF TypeOK, LockInv
    <2>3. SnapInv'
      BY DEF TypeOK, SnapInv
    <2>4. must[c] <= snap /\ snap <= dbVer
      BY DEF TypeOK, SnapInv, Version
    <2>5. FreshAfterAck' /\ NoBypass'
      BY <2>4 DEF TypeOK, FreshAfterAck, NoBypass, Judging
    <2> QED
      BY <2>1, <2>2, <2>3, <2>5
  <1>3. CASE RulesMiss(c)
    <2> USE <1>3 DEF RulesMiss, Goto, dbVars, cacheVars, adminVars
    <2>1. TypeOK'
      BY DEF TypeOK
    <2>2. LockInv'
      BY DEF TypeOK, LockInv
    <2>3. SnapInv'
      BY DEF TypeOK, SnapInv
    <2>4. FreshAfterAck' /\ NoBypass'
      BY DEF TypeOK, FreshAfterAck, NoBypass, Judging
    <2> QED
      BY <2>1, <2>2, <2>3, <2>4
  <1>4. CASE LoadSelect(c)
    <2> USE <1>4 DEF LoadSelect, Goto, dbVars, cacheVars, adminVars
    <2>1. TypeOK'
      BY DEF TypeOK
    <2>2. LockInv'
      BY DEF TypeOK, LockInv
    <2>3. SnapInv'
      BY DEF TypeOK, SnapInv, Version
    <2>4. FreshAfterAck' /\ NoBypass'
      BY DEF TypeOK, FreshAfterAck, NoBypass, Judging
    <2> QED
      BY <2>1, <2>2, <2>3, <2>4
  <1>5. CASE LoadStore(c)
    <2> USE <1>5 DEF LoadStore, Goto, dbVars, cacheVars, adminVars
    <2>1. TypeOK'
      BY DEF TypeOK
    <2>2. LockInv'
      BY DEF TypeOK, LockInv
    <2>3. SnapInv'
      BY <2>2 DEF TypeOK, SnapInv, LockInv
    <2>4. must[c] <= got[c] /\ got[c] <= dbVer
      BY DEF TypeOK, SnapInv, Version
    <2>5. FreshAfterAck' /\ NoBypass'
      BY <2>4 DEF TypeOK, FreshAfterAck, NoBypass, Judging
    <2> QED
      BY <2>1, <2>2, <2>3, <2>5
  <1>6. CASE LoadError(c)
    <2> USE <1>6 DEF LoadError, Goto, dbVars, cacheVars, adminVars
    <2>1. TypeOK'
      BY DEF TypeOK
    <2>2. LockInv'
      BY DEF TypeOK, LockInv
    <2>3. SnapInv'
      BY DEF TypeOK, SnapInv
    <2>4. FreshAfterAck' /\ NoBypass'
      BY DEF TypeOK, FreshAfterAck, NoBypass, Judging
    <2> QED
      BY <2>1, <2>2, <2>3, <2>4
  <1>7. CASE Verdict(c)
    <2> USE <1>7 DEF Verdict, Goto, dbVars, cacheVars, adminVars
    <2>1. TypeOK'
      BY DEF TypeOK
    <2>2. LockInv'
      BY DEF TypeOK, LockInv
    <2>3. SnapInv'
      BY DEF TypeOK, SnapInv
    <2>4. got[c] \in must[c] .. dbVer
      BY DEF TypeOK, FreshAfterAck, Judging, Version
    <2>5. FreshAfterAck' /\ NoBypass'
      BY <2>4 DEF TypeOK, FreshAfterAck, NoBypass, Judging
    <2> QED
      BY <2>1, <2>2, <2>3, <2>5
  <1>8. CASE Respond(c)
    <2> USE <1>8 DEF Respond, Goto, dbVars, cacheVars, adminVars
    <2>1. TypeOK'
      BY DEF TypeOK
    <2>2. LockInv'
      BY DEF TypeOK, LockInv
    <2>3. SnapInv'
      BY DEF TypeOK, SnapInv
    <2>4. FreshAfterAck' /\ NoBypass'
      BY DEF TypeOK, FreshAfterAck, NoBypass, Judging
    <2> QED
      BY <2>1, <2>2, <2>3, <2>4
  <1> QED
    BY <1>1, <1>2, <1>3, <1>4, <1>5, <1>6, <1>7, <1>8 DEF Create

\* A committed mutation makes a newer version and changes no older one, so
\* what was true of a version a check may use stays true.
LEMMA CommitKeeps ==
  ASSUME TypeOK, FreshAfterAck, NoBypass, SnapInv,
         NEW rules \in SUBSET Dest, Commit(rules),
         UNCHANGED reqVars
  PROVE  /\ blocked' \in [Version -> SUBSET Dest]
         /\ dbVer' \in Version /\ dbVer' = dbVer + 1
         /\ FreshAfterAck' /\ NoBypass'
  <1> USE ConstAssumption
  <1>1. dbVer' \in Version /\ dbVer' = dbVer + 1
    BY DEF Commit, TypeOK, Version
  <1>2. blocked' \in [Version -> SUBSET Dest]
    BY <1>1 DEF Commit, TypeOK
  <1>3. FreshAfterAck'
    BY <1>1 DEF FreshAfterAck, Judging, reqVars, TypeOK, Version
  <1>4. ASSUME NEW c \in Creator, NEW v \in must[c] .. dbVer
        PROVE  v \in must[c] .. dbVer' /\ blocked'[v] = blocked[v]
    BY <1>1 DEF Commit, TypeOK, Version
  <1>5. NoBypass'
    BY <1>4 DEF NoBypass, reqVars
  <1> QED
    BY <1>1, <1>2, <1>3, <1>5

\* A step of an admin request preserves the invariant.
LEMMA AdminStep ==
  ASSUME RulesInv, NEW a \in Admin,
         MutateRule(a) \/ MutateRuleLost(a) \/ Invalidate(a)
  PROVE  RulesInv'
  <1> USE ConstAssumption DEF RulesInv
  <1>1. CASE MutateRule(a)
    <2>1. PICK rules \in SUBSET Dest : Commit(rules)
      BY <1>1 DEF MutateRule
    <2>2. /\ blocked' \in [Version -> SUBSET Dest]
          /\ dbVer' \in Version /\ dbVer' = dbVer + 1
          /\ FreshAfterAck' /\ NoBypass'
      BY <1>1, <2>1, CommitKeeps DEF MutateRule
    <2>3. TypeOK'
      BY <1>1, <2>2 DEF MutateRule, TypeOK, cacheVars, reqVars
    <2>4. LockInv'
      BY <1>1 DEF MutateRule, LockInv, reqVars
    <2>5. SnapInv'
      BY <1>1, <2>2 DEF MutateRule, SnapInv, TypeOK, cacheVars, reqVars, Version
    <2> QED
      BY <2>2, <2>3, <2>4, <2>5
  <1>2. CASE MutateRuleLost(a)
    <2>1. PICK rules \in SUBSET Dest : Commit(rules)
      BY <1>2 DEF MutateRuleLost
    <2>2. /\ blocked' \in [Version -> SUBSET Dest]
          /\ dbVer' \in Version /\ dbVer' = dbVer + 1
          /\ FreshAfterAck' /\ NoBypass'
      BY <1>2, <2>1, CommitKeeps DEF MutateRuleLost
    <2>3. TypeOK'
      BY <1>2, <2>2 DEF MutateRuleLost, TypeOK, cacheVars, reqVars, adminVars
    <2>4. LockInv'
      BY <1>2 DEF MutateRuleLost, LockInv, reqVars
    <2>5. SnapInv'
      BY <1>2, <2>2 DEF MutateRuleLost, SnapInv, TypeOK, cacheVars, reqVars,
                        adminVars, Version
    <2> QED
      BY <2>2, <2>3, <2>4, <2>5
  <1>3. CASE Invalidate(a)
    <2> USE <1>3 DEF Invalidate, dbVars, reqVars
    <2>1. TypeOK'
      BY DEF TypeOK
    <2>2. LockInv'
      BY DEF LockInv
    <2>3. \A c \in Creator : pc[c] # "loaded"
      BY DEF LockInv
    <2>4. SnapInv'
      BY <2>3 DEF SnapInv, TypeOK, Version
    <2>5. FreshAfterAck' /\ NoBypass'
      BY DEF FreshAfterAck, NoBypass, Judging
    <2> QED
      BY <2>1, <2>2, <2>4, <2>5
  <1> QED
    BY <1>1, <1>2, <1>3

\* Every step preserves the invariant.
LEMMA NextInv == RulesInv /\ [Next]_vars => RulesInv'
  <1> SUFFICES ASSUME RulesInv, [Next]_vars PROVE RulesInv'
    OBVIOUS
  <1>1. CASE \E c \in Creator : Create(c)
    BY <1>1, CreateStep
  <1>2. CASE \E a \in Admin : MutateRule(a) \/ MutateRuleLost(a) \/ Invalidate(a)
    BY <1>2, AdminStep
  <1>3. CASE Tick
    <2>1. TypeOK'
      BY <1>3, ConstAssumption DEF Tick, RulesInv, TypeOK, dbVars, reqVars, adminVars
    <2> QED
      BY <1>3, <2>1 DEF Tick, RulesInv, LockInv, SnapInv, FreshAfterAck, NoBypass,
                        Judging, dbVars, reqVars, adminVars
  <1>4. CASE Restart
    <2> USE <1>4 DEF Restart, RulesInv, dbVars
    <2>0. 0 \in Version /\ 0 \in 0 .. TTL
      BY ConstAssumption DEF Version
    <2>1. TypeOK'
      BY <2>0 DEF TypeOK
    <2>2. LockInv'
      BY DEF LockInv
    <2>3. SnapInv'
      BY DEF SnapInv, TypeOK, Version
    <2>4. FreshAfterAck' /\ NoBypass'
      BY DEF FreshAfterAck, NoBypass, Judging
    <2> QED
      BY <2>1, <2>2, <2>3, <2>4
  <1>5. CASE UNCHANGED vars
    BY <1>5 DEF vars, dbVars, cacheVars, reqVars, adminVars, RulesInv, TypeOK,
                LockInv, SnapInv, FreshAfterAck, NoBypass, Judging
  <1> QED
    BY <1>1, <1>2, <1>3, <1>4, <1>5 DEF Next

\* internal/cache/rules.go under any interleaving of its users: the mutex
\* excludes Invalidate during a load, so the strengthening holds throughout.
THEOREM RulesInvariant == Spec => []RulesInv
  BY InitInv, NextInv, PTL DEF Spec

\* Every variable of the filter cache keeps its type.
THEOREM TypeCorrect == Spec => []TypeOK
  <1>1. RulesInv => TypeOK
    BY DEF RulesInv
  <1> QED
    BY <1>1, RulesInvariant, PTL

\* A create request never evaluates rules older than a mutation that was
\* answered before the request asked for them.
THEOREM ChecksAreFresh == Spec => []FreshAfterAck
  <1>1. RulesInv => FreshAfterAck
    BY DEF RulesInv
  <1> QED
    BY <1>1, RulesInvariant, PTL

\* A verdict of the filter is the verdict of a rule set in force during it.
THEOREM VerdictsAreJustified == Spec => []NoBypass
  <1>1. RulesInv => NoBypass
    BY DEF RulesInv
  <1> QED
    BY <1>1, RulesInvariant, PTL

------------------------------------------------------------------------------
(* The cache implements the board without a cache. *)

\* The initial states of the cache are initial states of the board.
LEMMA InitMaps == Init => Board!Init
  BY DEF Init, Board!Init, Phase, Version, Board!Version

\* A step of a create request is a step of the board or invisible to it: the
\* version a verdict comes from lies between the floor of the moment the check
\* began and the newest version, which is what RulesInv is for.
LEMMA CreateMaps ==
  ASSUME RulesInv, NEW c \in Creator, Create(c)
  PROVE  [Board!Next]_(Board!vars)
  <1> DEFINE phase == [k \in Creator |-> Phase(k)]
  <1>0. TypeOK
    BY DEF RulesInv
  <1>1. CASE Submit(c)
    <2>1. phase[c] = "idle"
      BY <1>1 DEF Submit, Phase
    <2>2. phase' = [phase EXCEPT ![c] = "checking"]
      BY <1>0, <1>1 DEF Submit, Goto, Phase, TypeOK
    <2>3. Board!Begin(c)
      BY <1>1, <2>1, <2>2 DEF Submit, Board!Begin, dbVars, adminVars
    <2> QED
      BY <2>3 DEF Board!Next
  <1>2. CASE \/ RulesHit(c) \/ RulesMiss(c) \/ LoadSelect(c) \/ LoadStore(c)
    <2>1. phase' = phase
      BY <1>0, <1>2 DEF RulesHit, RulesMiss, LoadSelect, LoadStore, Goto, Phase, TypeOK
    <2> QED
      BY <1>2, <2>1 DEF RulesHit, RulesMiss, LoadSelect, LoadStore, Board!vars,
                        dbVars, adminVars
  <1>3. CASE LoadError(c) \/ Respond(c)
    <2>1. phase' = [k \in Creator |-> IF k \in {c} THEN "idle" ELSE phase[k]]
      BY <1>0, <1>3 DEF LoadError, Respond, Goto, Phase, TypeOK
    <2>2. Board!Leave
      BY <1>3, <2>1 DEF LoadError, Respond, Board!Leave, dbVars, adminVars
    <2> QED
      BY <2>2 DEF Board!Next
  <1>4. CASE Verdict(c)
    <2>1. got[c] \in Version /\ must[c] <= got[c] /\ got[c] <= dbVer
      BY <1>0, <1>4 DEF Verdict, RulesInv, FreshAfterAck, Judging, TypeOK
    <2>2. phase[c] = "checking"
      BY <1>4 DEF Verdict, Phase
    <2>3. phase' = [phase EXCEPT ![c] =
                      IF url[c] \in blocked[got[c]] THEN "denied" ELSE "allowed"]
      BY <1>0, <1>4 DEF Verdict, Goto, Phase, TypeOK
    <2>4. Board!Decide(c)
      BY <1>4, <2>1, <2>2, <2>3 DEF Verdict, Board!Decide, Board!Version, Version,
                                    dbVars, adminVars
    <2> QED
      BY <2>4 DEF Board!Next
  <1> QED
    BY <1>1, <1>2, <1>3, <1>4 DEF Create

\* A step of an admin request maps to a mutation or to a report.
LEMMA AdminMaps ==
  ASSUME RulesInv, NEW a \in Admin,
         MutateRule(a) \/ MutateRuleLost(a) \/ Invalidate(a)
  PROVE  Board!Next
  <1> DEFINE phase == [k \in Creator |-> Phase(k)]
  <1>1. CASE MutateRule(a) \/ MutateRuleLost(a)
    <2>1. phase' = phase
      BY <1>1 DEF MutateRule, MutateRuleLost, reqVars, Phase
    <2>2. Board!Mutate
      BY <1>1, <2>1 DEF MutateRule, MutateRuleLost, Commit, Board!Mutate, reqVars,
                        adminVars
    <2> QED
      BY <2>2 DEF Board!Next
  <1>2. CASE Invalidate(a)
    <2>1. phase' = phase
      BY <1>2 DEF Invalidate, reqVars, Phase
    <2>2. wrote[a] \in Version /\ wrote[a] <= dbVer
      BY DEF RulesInv, TypeOK, SnapInv
    <2>3. Board!Report
      BY <1>2, <2>1, <2>2 DEF Invalidate, Board!Report, Board!Version, Version,
                              dbVars, reqVars
    <2> QED
      BY <2>3 DEF Board!Next
  <1> QED
    BY <1>1, <1>2

\* Every step of the cache is a step of the board or leaves it unchanged.
LEMMA NextMaps == RulesInv /\ [Next]_vars => [Board!Next]_(Board!vars)
  <1> SUFFICES ASSUME RulesInv, [Next]_vars PROVE [Board!Next]_(Board!vars)
    OBVIOUS
  <1> DEFINE phase == [k \in Creator |-> Phase(k)]
  <1>1. CASE \E c \in Creator : Create(c)
    BY <1>1, CreateMaps
  <1>2. CASE \E a \in Admin : MutateRule(a) \/ MutateRuleLost(a) \/ Invalidate(a)
    BY <1>2, AdminMaps
  <1>3. CASE Tick \/ UNCHANGED vars
    <2>1. phase' = phase
      BY <1>3 DEF Tick, vars, reqVars, Phase
    <2> QED
      BY <1>3, <2>1 DEF Tick, vars, Board!vars, dbVars, reqVars, adminVars
  <1>4. CASE Restart
    <2>1. phase' = [k \in Creator |-> IF k \in Creator THEN "idle" ELSE phase[k]]
      BY <1>4 DEF Restart, Phase
    <2>2. Board!Leave
      BY <1>4, <2>1 DEF Restart, Board!Leave, dbVars
    <2> QED
      BY <2>2 DEF Board!Next
  <1> QED
    BY <1>1, <1>2, <1>3, <1>4 DEF Next

\* internal/cache/rules.go with its snapshot, its mutex and its TTL gives a
\* link creation nothing but what a filter without a cache could give it.
THEOREM CacheImplementsBoard == Spec => RefinesBoard
  BY InitMaps, RulesInvariant, NextMaps, PTL DEF Spec, RefinesBoard, Board!Spec
==============================================================================
