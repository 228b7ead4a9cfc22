--------------------------- MODULE LinkStoreProofs ---------------------------
(***************************************************************************)
(* Proofs about LinkStore for any number of requests, keys, URLs, batch    *)
(* sizes and edits.  IInv is inductive.  The actions that end a request    *)
(* share a lemma: what they may do to the table is TableStep.              *)
(***************************************************************************)
EXTENDS LinkStore, FiniteSetTheorems, TLAPS

\* The inductive invariant, each part of which MCLinkStore checks.
IInv == LinksInv /\ MatchStable

\* What a request may do to the table when it ends: write the row it has locked
\* without taking anything from it, and insert keys no other transaction has
\* inserted.
TableStep(c) ==
    /\ tbl' \in [Key -> Row \cup {None}]
    /\ \A k \in Key : tbl[k] # None =>
          /\ tbl'[k] # None
          /\ tbl'[k].dest = tbl[k].dest /\ tbl'[k].denied = tbl[k].denied
          /\ tbl[k].active => tbl'[k].active
          /\ tbl[k].meta # Blank => tbl'[k].meta # Blank
    /\ \A k \in Key : tbl[k] # None /\ lock[k] # c => tbl'[k] = tbl[k]
    /\ \A k \in Key : tbl[k] = None /\ tbl'[k] # None =>
          \A e \in Creator \ {c} : k \notin pend[e]
    /\ DeniedNeverActive'

LEMMA InitInv == Init => IInv
  <1> SUFFICES ASSUME Init PROVE IInv
    OBVIOUS
  <1> USE ConstAssumption, NoneAssumption DEF Init
  <1>1. TypeOK
    BY DEF TypeOK, Outcome
  <1>2. DeniedNeverActive /\ MatchStable
    BY DEF DeniedNeverActive, MatchStable
  <1>3. Holdings
    BY FS_EmptySet DEF Holdings, Holding
  <1> QED
    BY <1>1, <1>2, <1>3 DEF IInv, LinksInv

------------------------------------------------------------------------------
(* The end of a request *)

LEMMA EndKeepsTypes ==
  ASSUME TypeOK, NEW c \in Creator, NEW o \in Outcome, End(c, o),
         req[c] # None, tbl' \in [Key -> Row \cup {None}]
  PROVE  TypeOK'
  <1> USE DEF TypeOK, End, Goto, Unlock, ForgetLocals
  <1>1. [req[c] EXCEPT !.meta = Blank] \in Request
    <2>1. req[c] \in Request
      BY DEF TypeOK
    <2>2. Blank \in MetaOrBlank
      BY DEF MetaOrBlank
    <2> HIDE DEF TypeOK, End
    <2> QED
      BY <2>1, <2>2 DEF Request
  <1>2. req' \in [Creator -> Request \cup {None}]
    BY <1>1
  <1>3. ASSUME NEW e \in Creator, pc'[e] \notin InTx
        PROVE  pend'[e] = {} /\ \A k \in Key : lock'[k] # e
    BY <1>3, ConstAssumption DEF InTx
  <1> QED
    BY <1>2, <1>3 DEF InTx

LEMMA EndStep ==
  ASSUME IInv, NEW c \in Creator, NEW o \in Outcome, pc[c] # "idle",
         End(c, o), TableStep(c)
  PROVE  IInv'
  <1> USE ConstAssumption, NoneAssumption
  <1>1. TypeOK /\ Holding(c) /\ req[c] # None
    BY DEF IInv, LinksInv, Holdings, Holding
  <1>2. TypeOK'
    BY <1>1, EndKeepsTypes DEF TableStep
  <1>3. [req[c] EXCEPT !.meta = Blank] \in Request /\ req'[c] # None
    BY <1>1 DEF TypeOK, Request, MetaOrBlank, End
  <1>4. ASSUME NEW e \in Creator PROVE Holding(e)'
    <2>1. Holding(e)
      BY DEF IInv, LinksInv, Holdings
    <2>2. CASE e = c
      BY <1>1, <1>3, <2>2, FS_EmptySet
         DEF Holding, TypeOK, End, Goto, Unlock, ForgetLocals
    <2>3. CASE e # c
      <3>1. /\ pc'[e] = pc[e] /\ req'[e] = req[e] /\ key'[e] = key[e]
            /\ cand'[e] = cand[e] /\ stay'[e] = stay[e] /\ pend'[e] = pend[e]
            /\ \A k \in Key : lock'[k] = e <=> lock[k] = e
            /\ \A f \in Creator : pend'[f] \subseteq pend[f]
        BY <1>1, <2>3 DEF TypeOK, End, Goto, Unlock, ForgetLocals
      <3>2. \A k \in pend[e] : tbl'[k] = None
        BY <1>1, <2>1, <2>3 DEF Holding, TableStep, TypeOK
      <3>3. pc[e] = "locking" => \A k \in stay[e] : Matches(k, req[e].dest)'
        BY <1>1, <2>1, <3>1 DEF Holding, TableStep, TypeOK, Matches
      <3> QED
        BY <1>1, <2>1, <3>1, <3>2, <3>3 DEF Holding, TypeOK, Size
    <2> QED
      BY <2>2, <2>3
  <1>5. ASSUME NEW e \in Creator, pc'[e] = "matched"
        PROVE  (key[e] \in Existing(req[e].dest) /\ tbl[key[e]] = seen[e])'
    <2>1. /\ e # c /\ pc[e] = "matched" /\ req'[e] = req[e] /\ key'[e] = key[e]
          /\ seen'[e] = seen[e]
      BY <1>1, <1>5 DEF TypeOK, End, Goto, ForgetLocals
    <2>2. key[e] \in Existing(req[e].dest) /\ tbl[key[e]] = seen[e] /\ lock[key[e]] = e
      BY <2>1 DEF IInv, LinksInv, MatchStable, Holdings, Holding
    <2>3. tbl'[key[e]] = tbl[key[e]] /\ key[e] \in Key /\ tbl[key[e]] # None
      BY <2>1, <2>2 DEF TableStep, Existing
    <2> QED
      BY <2>1, <2>2, <2>3 DEF Existing
  <1> QED
    BY <1>2, <1>4, <1>5 DEF IInv, LinksInv, Holdings, MatchStable, TableStep

\* A request that ends without having touched the table.
LEMMA EndWithoutWrite ==
  ASSUME IInv, NEW c \in Creator, NEW o \in Outcome, pc[c] # "idle",
         End(c, o), UNCHANGED tbl
  PROVE  IInv' /\ TableStep(c)
  <1>1. TableStep(c)
    BY DEF TableStep, IInv, LinksInv, TypeOK, DeniedNeverActive
  <1> QED
    BY <1>1, EndStep

\* The row a create has matched is written: reactivated, merged into.
LEMMA FinishMatchStep ==
  ASSUME IInv, NEW c \in Creator, FinishMatch(c)
  PROVE  IInv' /\ TableStep(c)
  <1> USE ConstAssumption, NoneAssumption
  <1>1. PICK o \in Outcome : End(c, o)
    BY DEF FinishMatch, Outcome
  <1> DEFINE k0 == key[c]
  <1>2. /\ k0 \in Key /\ tbl[k0] \in Row /\ lock[k0] = c
        /\ req[c] \in Request /\ ~tbl[k0].denied
    BY DEF FinishMatch, IInv, LinksInv, TypeOK, Holdings, Holding, MatchStable, Existing
  <1> DEFINE new == [tbl[k0] EXCEPT !.active = @ \/ ~seen[c].active,
                                    !.meta = Merge(@, req[c].meta)]
  <1>3. /\ new \in Row /\ new.denied = tbl[k0].denied /\ new.dest = tbl[k0].dest
        /\ tbl[k0].active => new.active
        /\ tbl[k0].meta # Blank => new.meta # Blank
    <2>1. Merge(tbl[k0].meta, req[c].meta) \in MetaOrBlank
      BY <1>2 DEF Merge, Row, Request
    <2>2. (tbl[k0].active \/ ~seen[c].active) \in BOOLEAN
      OBVIOUS
    <2> QED
      BY <1>2, <2>1, <2>2 DEF Row, Merge
  <1>4. tbl' = [tbl EXCEPT ![k0] = new]
    BY <1>2 DEF FinishMatch, IInv, LinksInv, TypeOK, Row
  <1> HIDE DEF new, k0
  <1>5. TableStep(c)
    BY <1>2, <1>3, <1>4 DEF TableStep, IInv, LinksInv, TypeOK, DeniedNeverActive
  <1> QED
    BY <1>1, <1>5, EndStep DEF FinishMatch

\* The row a request inserts is a link of its own, and redirects only if it is
\* not denied.
LEMMA NewRowType ==
  ASSUME NEW c \in Creator, req[c] \in Request
  PROVE  NewRow(c) \in Row /\ NewRow(c) # None /\ ~(NewRow(c).denied /\ NewRow(c).active)
  <1>1. NewRow(c) \in Row
    BY ConstAssumption DEF NewRow, Row, Request
  <1>2. ~(NewRow(c).denied /\ NewRow(c).active)
    BY DEF NewRow
  <1> QED
    BY <1>1, <1>2, NoneAssumption

\* The autocommitted INSERT of a free key.
LEMMA InsertNowStep ==
  ASSUME IInv, NEW c \in Creator, InsertNow(c)
  PROVE  IInv' /\ TableStep(c)
  <1> USE ConstAssumption, NoneAssumption
  <1>1. PICK o \in Outcome : End(c, o)
    BY DEF InsertNow, Outcome
  <1>2. key[c] \in Key /\ req[c] \in Request
    BY DEF InsertNow, IInv, LinksInv, TypeOK, Holdings, Holding
  <1>3. NewRow(c) \in Row /\ NewRow(c) # None /\ ~(NewRow(c).denied /\ NewRow(c).active)
    BY <1>2, NewRowType
  <1>4. /\ tbl' = [tbl EXCEPT ![key[c]] = NewRow(c)]
        /\ tbl[key[c]] = None /\ \A e \in Creator : key[c] \notin pend[e]
    BY DEF InsertNow, Free
  <1>5. TableStep(c)
    BY <1>2, <1>3, <1>4 DEF TableStep, IInv, LinksInv, TypeOK, DeniedNeverActive
  <1> QED
    BY <1>1, <1>5, EndStep DEF InsertNow

\* The commit of a transaction's inserts.
LEMMA CommitStep ==
  ASSUME IInv, NEW c \in Creator, Commit(c)
  PROVE  IInv' /\ TableStep(c)
  <1> USE ConstAssumption, NoneAssumption
  <1>1. PICK o \in Outcome : End(c, o)
    BY DEF Commit, Outcome
  <1>2. /\ pend[c] \subseteq Key /\ req[c] \in Request
        /\ \A k \in pend[c] : tbl[k] = None /\ \A e \in Creator \ {c} : k \notin pend[e]
    BY DEF Commit, IInv, LinksInv, TypeOK, Holdings, Holding
  <1>3. NewRow(c) \in Row /\ NewRow(c) # None /\ ~(NewRow(c).denied /\ NewRow(c).active)
    BY <1>2, NewRowType
  <1>4. tbl' = [k \in Key |-> IF k \in pend[c] THEN NewRow(c) ELSE tbl[k]]
    BY DEF Commit
  <1>5. TableStep(c)
    BY <1>2, <1>3, <1>4 DEF TableStep, IInv, LinksInv, TypeOK, DeniedNeverActive
  <1> QED
    BY <1>1, <1>5, EndStep DEF Commit

\* Whatever ends a request.
LEMMA EndingStep ==
  ASSUME IInv, NEW c \in Creator,
         \/ FinishMatch(c) \/ GenFail(c) \/ InsertNow(c) \/ InsertTaken(c)
         \/ DeadlockAbort(c) \/ Commit(c) \/ Rollback(c)
  PROVE  IInv' /\ TableStep(c)
  <1>1. "error" \in Outcome
    BY DEF Outcome
  <1>2. CASE GenFail(c)
    BY <1>1, <1>2, EndWithoutWrite DEF GenFail
  <1>3. CASE InsertTaken(c)
    BY <1>1, <1>3, EndWithoutWrite DEF InsertTaken
  <1>4. CASE DeadlockAbort(c)
    BY <1>1, <1>4, EndWithoutWrite DEF DeadlockAbort, WaitsFor
  <1>5. CASE Rollback(c)
    BY <1>1, <1>5, EndWithoutWrite DEF Rollback, InTx
  <1> QED
    BY <1>2, <1>3, <1>4, <1>5, FinishMatchStep, InsertNowStep, CommitStep

------------------------------------------------------------------------------
(* A request under way: the table stays as it is *)

\* A step of one request that writes no row: what the others hold is as it was,
\* so only what this one holds has to be looked at.
LEMMA LocalStep ==
  ASSUME IInv, NEW c \in Creator, TypeOK', UNCHANGED tbl, Holding(c)',
         \A k \in Key : lock'[k] = lock[k] \/ (lock[k] = None /\ lock'[k] = c),
         \A e \in Creator \ {c} :
             /\ pc'[e] = pc[e] /\ req'[e] = req[e] /\ key'[e] = key[e] /\ pend'[e] = pend[e]
             /\ cand'[e] = cand[e] /\ stay'[e] = stay[e] /\ seen'[e] = seen[e],
         \A k \in pend'[c] : \A e \in Creator \ {c} : k \notin pend[e],
         (pc[c] = "matched" => key[c] \in Existing(req[c].dest) /\ tbl[key[c]] = seen[c])'
  PROVE  IInv'
  <1> USE ConstAssumption
  <1>1. TypeOK
    BY DEF IInv, LinksInv
  <1>2. ASSUME NEW e \in Creator \ {c} PROVE Holding(e)'
    <2>1. Holding(e)
      BY DEF IInv, LinksInv, Holdings
    <2>2. pc[e] = "locking" => \A k \in stay[e] : Matches(k, req[e].dest)'
      BY <2>1 DEF Holding, Matches
    <2> QED
      BY <1>1, <2>1, <2>2 DEF Holding, TypeOK, Size
  <1>3. ASSUME NEW e \in Creator \ {c}, pc'[e] = "matched"
        PROVE  (key[e] \in Existing(req[e].dest) /\ tbl[key[e]] = seen[e])'
    BY <1>3 DEF IInv, MatchStable, Existing
  <1> QED
    BY <1>2, <1>3 DEF IInv, LinksInv, Holdings, MatchStable, DeniedNeverActive

LEMMA SubmitStep ==
  ASSUME IInv, NEW c \in Creator, Submit(c)
  PROVE  IInv'
  <1> USE ConstAssumption, NoneAssumption DEF IInv, LinksInv, Submit, Goto
  <1>1. TypeOK'
    BY DEF TypeOK, InTx
  <1>2. Holding(c)
    BY DEF Holdings
  <1>3. Holding(c)'
    BY <1>2, FS_EmptySet DEF TypeOK, Holding, Size, Request, Kind, InTx
  <1> QED
    BY <1>1, <1>2, <1>3, LocalStep DEF TypeOK, Holding

LEMMA LookupStep ==
  ASSUME IInv, NEW c \in Creator, Lookup(c)
  PROVE  IInv'
  <1> USE ConstAssumption, NoneAssumption DEF IInv, LinksInv, Lookup, Goto
  <1>1. TypeOK'
    BY DEF TypeOK, InTx, Matches, Existing
  <1>2. Holding(c)
    BY DEF Holdings
  <1>3. Holding(c)'
    BY <1>2, FS_EmptySet DEF TypeOK, Holding, Size, Request, Matches, Existing, InTx
  <1> QED
    BY <1>1, <1>2, <1>3, LocalStep DEF TypeOK, Holding

LEMMA LockRowStep ==
  ASSUME IInv, NEW c \in Creator, LockRow(c)
  PROVE  IInv'
  <1> USE ConstAssumption, NoneAssumption DEF IInv, LinksInv, LockRow, Goto
  <1>1. TypeOK'
    BY DEF TypeOK, InTx, Matches
  <1>2. Holding(c)
    BY DEF Holdings
  <1>3. Holding(c)'
    BY <1>2 DEF TypeOK, Holding, Size
  <1>4. (key[c] \in Existing(req[c].dest) /\ tbl[key[c]] = seen[c])'
    BY DEF TypeOK, Matches, Existing
  <1> QED
    BY <1>1, <1>2, <1>3, <1>4, LocalStep DEF TypeOK, Holding

LEMMA SkipRowStep ==
  ASSUME IInv, NEW c \in Creator, SkipRow(c)
  PROVE  IInv'
  <1> USE ConstAssumption, NoneAssumption DEF IInv, LinksInv, SkipRow
  <1>1. TypeOK'
    BY DEF TypeOK
  <1>2. Holding(c)
    BY DEF Holdings
  <1>3. Holding(c)'
    BY <1>2 DEF TypeOK, Holding, Size, Matches
  <1> QED
    BY <1>1, <1>2, <1>3, LocalStep DEF TypeOK, Holding

LEMMA NoRowStep ==
  ASSUME IInv, NEW c \in Creator, NoRow(c)
  PROVE  IInv'
  <1> USE ConstAssumption, NoneAssumption DEF IInv, LinksInv, NoRow, Goto, txVars
  <1>1. TypeOK'
    BY DEF TypeOK, InTx
  <1>2. Holding(c)
    BY DEF Holdings
  <1>3. Holding(c)'
    BY <1>2, FS_EmptySet DEF TypeOK, Holding, Size
  <1> QED
    BY <1>1, <1>2, <1>3, LocalStep DEF TypeOK, Holding

LEMMA GenKeyStep ==
  ASSUME IInv, NEW c \in Creator, GenKey(c)
  PROVE  IInv'
  <1> USE ConstAssumption, NoneAssumption DEF IInv, LinksInv, GenKey, Goto
  <1>1. TypeOK'
    BY DEF TypeOK, InTx
  <1>2. Holding(c)
    BY DEF Holdings
  <1>3. Holding(c)'
    BY <1>2 DEF TypeOK, Holding, Size
  <1> QED
    BY <1>1, <1>2, <1>3, LocalStep DEF TypeOK, Holding

LEMMA InsertTxStep ==
  ASSUME IInv, NEW c \in Creator, InsertTx(c)
  PROVE  IInv'
  <1> USE ConstAssumption, NoneAssumption DEF IInv, LinksInv, InsertTx, Goto
  <1>1. TypeOK'
    BY DEF TypeOK, InTx, Holdings, Holding
  <1>2. Holding(c) /\ TypeOK
    BY DEF Holdings
  <1>3. /\ IsFiniteSet(pend'[c]) /\ Cardinality(pend'[c]) = Cardinality(pend[c]) + 1
        /\ Cardinality(pend[c]) \in Nat
    BY <1>2, FS_AddElement, FS_CardinalityType DEF TypeOK, Holding, Free
  <1>4. Holding(c)'
    BY <1>2, <1>3 DEF TypeOK, Holding, Size, Free
  <1> QED
    BY <1>1, <1>2, <1>4, LocalStep DEF TypeOK, Holding, Free

LEMMA RespondStep ==
  ASSUME IInv, NEW c \in Creator, Respond(c)
  PROVE  IInv'
  <1> USE ConstAssumption, NoneAssumption DEF IInv, LinksInv, Respond, Goto, txVars
  <1>1. TypeOK'
    BY DEF TypeOK, InTx, Outcome
  <1>2. Holding(c)
    BY DEF Holdings
  <1>3. Holding(c)'
    BY <1>2 DEF TypeOK, Holding
  <1> QED
    BY <1>1, <1>2, <1>3, LocalStep DEF TypeOK, Holding

------------------------------------------------------------------------------
(* PATCH, DELETE and the restart *)

\* An edit finds the row unlocked, so no request has matched it; it may only
\* take it from the rows that matched at all times.
LEMMA EditStep ==
  ASSUME IInv, NEW k \in Key, NEW new \in Row, Edit(k, new),
         new.denied = tbl[k].denied, new.active => tbl[k].active
  PROVE  IInv'
  <1> USE ConstAssumption, NoneAssumption
  <1>1. TypeOK /\ DeniedNeverActive /\ Holdings /\ MatchStable
    BY DEF IInv, LinksInv
  <1>2. TypeOK'
    BY <1>1 DEF Edit, TypeOK, InTx
  <1>3. DeniedNeverActive'
    BY <1>1 DEF Edit, TypeOK, DeniedNeverActive
  <1>4. ASSUME NEW e \in Creator PROVE Holding(e)'
    <2>1. Holding(e)
      BY <1>1 DEF Holdings
    <2>2. /\ UNCHANGED <<lock, pc, req, cand, key, pend>> /\ stay'[e] \subseteq stay[e]
          /\ \A j \in Key : tbl'[j] = None <=> tbl[j] = None
      BY <1>1 DEF Edit, TypeOK
    <2>3. pc[e] = "locking" => \A j \in stay'[e] : Matches(j, req[e].dest)'
      BY <1>1, <2>1 DEF Edit, TypeOK, Holding, Matches
    <2> QED
      BY <1>1, <2>1, <2>2, <2>3 DEF Holding, TypeOK, Size
  <1>5. MatchStable'
    BY <1>1 DEF Edit, TypeOK, Holdings, Holding, MatchStable, Existing
  <1> QED
    BY <1>2, <1>3, <1>4, <1>5 DEF IInv, LinksInv, Holdings

LEMMA PatchStep ==
  ASSUME IInv, NEW k \in Key, UpdateLink(k) \/ DeactivateLink(k)
  PROVE  IInv'
  <1>1. tbl[k] \in Row
    <2>1. tbl[k] # None
      BY DEF UpdateLink, DeactivateLink, Edit
    <2> QED
      BY <2>1 DEF IInv, LinksInv, TypeOK
  <1>2. CASE UpdateLink(k)
    <2>1. PICK d \in Dest, m \in MetaOrBlank : Edit(k, [tbl[k] EXCEPT !.dest = d, !.meta = m])
      BY <1>2 DEF UpdateLink
    <2>2. [tbl[k] EXCEPT !.dest = d, !.meta = m] \in Row
      BY <1>1 DEF Row
    <2> QED
      BY <1>1, <2>1, <2>2, EditStep DEF Row
  <1>3. CASE DeactivateLink(k)
    <2>1. [tbl[k] EXCEPT !.active = FALSE] \in Row
      BY <1>1 DEF Row
    <2> QED
      BY <1>1, <1>3, <2>1, EditStep DEF Row, DeactivateLink
  <1> QED
    BY <1>2, <1>3

LEMMA RestartStep ==
  ASSUME IInv, Restart
  PROVE  IInv'
  <1> USE ConstAssumption, NoneAssumption DEF IInv, LinksInv, Restart, ForgetLocals
  <1>1. TypeOK'
    BY DEF TypeOK, Outcome, InTx
  <1>2. Holdings'
    BY FS_EmptySet DEF TypeOK, Holdings, Holding
  <1> QED
    BY <1>1, <1>2 DEF DeniedNeverActive, MatchStable

LEMMA StutterStep ==
  ASSUME IInv, UNCHANGED vars
  PROVE  IInv'
  BY DEF IInv, LinksInv, vars, txVars, TypeOK, DeniedNeverActive, Holdings, Holding,
         MatchStable, Matches, Existing, Size

\* A step either leaves every row of the table as it is, edits one of them by
\* PATCH or DELETE, or ends the request of one creator.
LEMMA NextStep ==
  ASSUME IInv, [Next]_vars
  PROVE  IInv'
  <1>1. ASSUME NEW c \in Creator, Create(c) PROVE IInv'
    BY <1>1, EndingStep, SubmitStep, LookupStep, LockRowStep, SkipRowStep, NoRowStep,
       GenKeyStep, InsertTxStep, RespondStep DEF Create, Advance
  <1> QED
    BY <1>1, PatchStep, RestartStep, StutterStep DEF Next

\* Types hold, no denied link is ever active, and open transactions hold
\* exactly what their progress says, whatever creates, PATCHes, DELETEs and
\* restarts do and in whatever order.
THEOREM LinksInvariant == Spec => []LinksInv
  <1> QED
    BY InitInv, NextStep, PTL DEF Spec, IInv

\* The row a create has matched and locked is the row it read until it commits.
THEOREM MatchIsStable == Spec => []MatchStable
  <1> QED
    BY InitInv, NextStep, PTL DEF Spec, IInv

\* A dedup create inserts only when no link had the URL all along: the
\* candidates that always matched are never skipped, so once it is past the
\* locking SELECT there was none.
THEOREM InsertIsNeeded == Spec => []NoNeedlessInsert
  <1>1. IInv => NoNeedlessInsert
    BY DEF IInv, LinksInv, Holdings, Holding, NoNeedlessInsert
  <1> QED
    BY <1>1, InitInv, NextStep, PTL DEF Spec

------------------------------------------------------------------------------
(* Action properties *)

\* A create never takes a key from a link, deactivates or re-points one, or
\* clears metadata: only the end of a request writes the table, and TableStep
\* says how; PATCH and DELETE move no request.
THEOREM CreatesPreserve == Spec => CreatePreserves
  <1> DEFINE A == pc' # pc =>
        \A k \in Key : tbl[k] # None =>
           /\ tbl'[k] # None
           /\ tbl'[k].dest = tbl[k].dest /\ tbl'[k].denied = tbl[k].denied
           /\ tbl[k].active => tbl'[k].active
           /\ tbl[k].meta # Blank => tbl'[k].meta # Blank
  <1>1. ASSUME IInv, [Next]_vars PROVE A
    <2>1. ASSUME NEW c \in Creator, Create(c) PROVE UNCHANGED tbl \/ TableStep(c)
      BY <1>1, <2>1, EndingStep DEF Create, Advance, Submit, Lookup, LockRow, SkipRow, NoRow,
         GenKey, InsertTx, Respond
    <2>2. ASSUME NEW k \in Key, UpdateLink(k) \/ DeactivateLink(k) PROVE UNCHANGED pc
      BY <2>2 DEF UpdateLink, DeactivateLink, Edit
    <2>3. Restart \/ UNCHANGED vars => UNCHANGED tbl
      BY DEF Restart, vars
    <2> QED
      BY <1>1, <2>1, <2>2, <2>3 DEF Next, TableStep
  <1> QED
    BY <1>1, InitInv, NextStep, PTL DEF Spec, CreatePreserves

\* The keys that get a row in a step.
Made == {k \in Key : tbl[k] = None /\ tbl'[k] # None}

\* A request that ends has made every link it asked for or none, and all if its
\* caller is told so.
WholeOrNone(c) ==
    /\ Cardinality(Made) \in {0, Size(c)}
    /\ outcome'[c] = "inserted" => Cardinality(Made) = Size(c)

LEMMA EndingIsWhole ==
  ASSUME IInv, NEW c \in Creator,
         \/ FinishMatch(c) \/ GenFail(c) \/ InsertNow(c) \/ InsertTaken(c)
         \/ DeadlockAbort(c) \/ Commit(c) \/ Rollback(c)
  PROVE  WholeOrNone(c)
  <1> USE ConstAssumption, NoneAssumption
  <1>1. TypeOK /\ Holding(c) /\ MatchStable
    BY DEF IInv, LinksInv, Holdings
  <1>2. CASE UNCHANGED tbl /\ End(c, "error")
    <2>1. Made = {} /\ outcome'[c] = "error"
      BY <1>1, <1>2 DEF Made, End, TypeOK
    <2> QED
      BY <2>1, FS_EmptySet DEF WholeOrNone
  <1>3. CASE FinishMatch(c)
    <2>1. outcome'[c] # "inserted"
      BY <1>1, <1>3 DEF FinishMatch, End, TypeOK
    <2>2. key[c] \in Key /\ tbl[key[c]] # None
      BY <1>1, <1>3 DEF FinishMatch, MatchStable, Existing
    <2>3. Made = {}
      BY <1>1, <1>3, <2>2 DEF FinishMatch, Made, TypeOK
    <2> QED
      BY <2>1, <2>3, FS_EmptySet DEF WholeOrNone
  <1>4. CASE InsertNow(c)
    <2>1. Size(c) = 1 /\ key[c] \in Key /\ NewRow(c) # None
      BY <1>1, <1>4, NewRowType DEF InsertNow, Holding, TypeOK, Size
    <2>2. Made = {key[c]}
      BY <1>1, <1>4, <2>1 DEF InsertNow, Free, Made, TypeOK
    <2> QED
      BY <2>1, <2>2, FS_Singleton DEF WholeOrNone
  <1>5. CASE Commit(c)
    <2>1. Cardinality(pend[c]) = Size(c) /\ NewRow(c) # None
      BY <1>1, <1>5, NewRowType DEF Commit, Holding, TypeOK
    <2>2. Made = pend[c]
      BY <1>1, <1>5, <2>1 DEF Commit, Holding, Made, TypeOK
    <2> QED
      BY <2>1, <2>2 DEF WholeOrNone
  <1> QED
    BY <1>2, <1>3, <1>4, <1>5 DEF GenFail, InsertTaken, DeadlockAbort, Rollback

\* The links of a request appear all at once or not at all, whether it is a
\* batch, a dedup create or an alias, and however it ends.
THEOREM RequestsAreAtomic == Spec => AllOrNothing
  <1> DEFINE A == \A c \in Creator : pc[c] \in InTx /\ pc'[c] = "done" => WholeOrNone(c)
  <1>1. ASSUME IInv, [Next]_vars PROVE A
    <2> SUFFICES ASSUME NEW c \in Creator, pc[c] \in InTx, pc'[c] = "done"
                 PROVE  WholeOrNone(c)
      OBVIOUS
    <2>1. TypeOK
      BY <1>1 DEF IInv, LinksInv
    <2>2. ASSUME NEW e \in Creator, Create(e), e # c PROVE pc'[c] = pc[c]
      BY <2>1, <2>2 DEF TypeOK, Create, Advance, Submit, Lookup, LockRow, SkipRow, NoRow,
         GenKey, InsertTx, Respond, FinishMatch, GenFail, InsertNow, InsertTaken,
         DeadlockAbort, Commit, Rollback, End, Goto
    <2>3. CASE Create(c)
      BY <1>1, <2>1, <2>3, EndingIsWhole DEF TypeOK, InTx, Create, Advance, Submit, Lookup,
         LockRow, SkipRow, NoRow, GenKey, InsertTx, Respond, Goto
    <2>4. ASSUME NEW k \in Key, UpdateLink(k) \/ DeactivateLink(k) PROVE UNCHANGED pc
      BY <2>4 DEF UpdateLink, DeactivateLink, Edit
    <2>5. CASE Restart
      BY <2>5 DEF Restart
    <2> QED
      BY <1>1, <2>2, <2>3, <2>4, <2>5 DEF Next, InTx, vars
  <1>2. [][A]_vars => AllOrNothing
    BY PTL DEF AllOrNothing, WholeOrNone, Made
  <1> QED
    BY <1>1, <1>2, InitInv, NextStep, PTL DEF Spec
=============================================================================
