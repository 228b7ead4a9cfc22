------------------------------ MODULE LinkStore ------------------------------
(***************************************************************************)
(* Link creation in internal/links/store.go over PostgreSQL at READ        *)
(* COMMITTED: the dedup transaction CreateOrReactivateLink, the direct     *)
(* inserts CreateLink (custom alias) and CreateDeniedLink (a filter match),*)
(* and the transaction CreateLinksBatch, interleaved statement by statement*)
(* with each other and with PATCH and DELETE of the same links.            *)
(*                                                                         *)
(* The links of one user are modelled: dedup, PATCH and DELETE are scoped  *)
(* to the owner, and other users only take keys, as a custom alias does.   *)
(* A key never changes and no link is ever removed, so a row is known by   *)
(* its key.  tbl holds the committed rows; lock, the row locks taken by    *)
(* FOR UPDATE; pend, the keys a transaction has inserted and not committed.*)
(* meta stands for campaign_id, utm_* and placement together.              *)
(***************************************************************************)
EXTENDS Naturals, FiniteSets

CONSTANTS Creator,    \* in-flight create requests
          Key,        \* short keys, generated or chosen
          Dest,       \* destination URLs
          Wanted,     \* bound: those that create requests ask for
          Meta,       \* campaign, UTM and placement values
          Blank,      \* none supplied, or the columns are NULL
          None,       \* no row, no key, no lock owner
          BatchSize,  \* links in one batch
          MaxEdits    \* bound: PATCH and DELETE requests

ASSUME ConstAssumption ==
    /\ Blank \notin Meta
    /\ Wanted \subseteq Dest
    /\ None \notin Key /\ None \notin Creator
    /\ BatchSize \in Nat \ {0} /\ MaxEdits \in Nat

VARIABLES tbl,      \* tbl[k]: the committed row with key k, or None
          lock,     \* lock[k]: the transaction holding a row lock on it
          pc,       \* control of each request
          req,      \* what it asks for
          cand,     \* rows its locking SELECT has found and not yet tried
          seen,     \* the row it locked, as it read it
          key,      \* the key it locked, generated, or was given
          pend,     \* keys it has inserted in its open transaction
          outcome,  \* what its caller is told
          stay,     \* history: candidates that matched at all times since
          edits     \* PATCH and DELETE requests so far

txVars  == <<cand, seen, key, pend, stay>>
vars == <<tbl, lock, pc, req, outcome, txVars, edits>>

MetaOrBlank == Meta \cup {Blank}
Row == [dest : Dest, active : BOOLEAN, denied : BOOLEAN, meta : MetaOrBlank]
Kind == {"dedup", "custom", "denied", "batch"}
Request == [kind : Kind, dest : Wanted, meta : MetaOrBlank]

\* NULL is no row and no request.
ASSUME NoneAssumption == None \notin Row \cup Request

Outcome == {"none", "inserted", "duplicate", "reactivated", "denied", "error"}

Init ==
    /\ tbl = [k \in Key |-> None]
    /\ lock = [k \in Key |-> None]
    /\ pc = [c \in Creator |-> "idle"]
    /\ req = [c \in Creator |-> None]
    /\ outcome = [c \in Creator |-> "none"]
    /\ cand = [c \in Creator |-> {}] /\ stay = [c \in Creator |-> {}]
    /\ seen = [c \in Creator |-> None] /\ key = [c \in Creator |-> None]
    /\ pend = [c \in Creator |-> {}]
    /\ edits = 0

Goto(c, label) == pc' = [pc EXCEPT ![c] = label]

------------------------------------------------------------------------------
(* Create: a request that needs no look at existing links *)

\* A valid body with a custom alias, one the filter denied, or a batch.
Submit(c) ==
    /\ pc[c] = "idle"
    /\ \E r \in Request :
          /\ req' = [req EXCEPT ![c] = r]
          /\ \/ r.kind \in {"denied", "batch"} /\ Goto(c, "gen") /\ UNCHANGED key
             \/ /\ r.kind = "custom"
                /\ Goto(c, "insert")
                /\ \E k \in Key : key' = [key EXCEPT ![c] = k]
    /\ UNCHANGED <<tbl, lock, outcome, cand, seen, pend, stay, edits>>

------------------------------------------------------------------------------
(* lockExisting: SELECT ... LIMIT 1 FOR UPDATE *)

\* Mutant: only an active link counts as existing.
MatchesActive(k, d) ==
    tbl[k] # None /\ tbl[k].dest = d /\ ~tbl[k].denied /\ tbl[k].active

\* Mutant: denied links take part in deduplication.
MatchesDenied(k, d) ==
    tbl[k] # None /\ tbl[k].dest = d

Matches(k, d) ==
    tbl[k] # None /\ tbl[k].dest = d /\ ~tbl[k].denied

\* The user's own links to the URL, as a reader of the API sees them.
Existing(d) ==
    {k \in Key : tbl[k] # None /\ tbl[k].dest = d /\ ~tbl[k].denied}

\* A valid body the filter let pass, without an alias: the transaction begins,
\* and its SELECT takes the snapshot of the committed rows.
Lookup(c) ==
    /\ pc[c] = "idle"
    /\ \E r \in Request :
          /\ r.kind = "dedup"
          /\ req' = [req EXCEPT ![c] = r]
          /\ cand' = [cand EXCEPT ![c] = {k \in Key : Matches(k, r.dest)}]
          /\ stay' = [stay EXCEPT ![c] = Existing(r.dest)]
    /\ Goto(c, "locking")
    /\ UNCHANGED <<tbl, lock, outcome, seen, key, pend, edits>>

\* Mutant: the SELECT reads the row without FOR UPDATE.
LockRowUnlocked(c) ==
    /\ pc[c] = "locking"
    /\ \E k \in cand[c] :
          /\ Matches(k, req[c].dest)
          /\ key' = [key EXCEPT ![c] = k]
          /\ seen' = [seen EXCEPT ![c] = tbl[k]]
    /\ cand' = [cand EXCEPT ![c] = {}] /\ stay' = [stay EXCEPT ![c] = {}]
    /\ Goto(c, "matched")
    /\ UNCHANGED <<tbl, lock, req, outcome, pend, edits>>

\* A candidate nobody has locked still matches in its newest version: locked.
LockRow(c) ==
    /\ pc[c] = "locking"
    /\ \E k \in cand[c] :
          /\ lock[k] = None /\ Matches(k, req[c].dest)
          /\ lock' = [lock EXCEPT ![k] = c]
          /\ key' = [key EXCEPT ![c] = k]
          /\ seen' = [seen EXCEPT ![c] = tbl[k]]
    /\ cand' = [cand EXCEPT ![c] = {}] /\ stay' = [stay EXCEPT ![c] = {}]
    /\ Goto(c, "matched")
    /\ UNCHANGED <<tbl, req, outcome, pend, edits>>

\* It was changed since the snapshot and no longer matches: the next one.
\* PostgreSQL may keep the lock it tested the row under until the transaction
\* ends; this only makes others wait for c, so the lock is let go here.
SkipRow(c) ==
    /\ pc[c] = "locking"
    /\ \E k \in cand[c] :
          /\ lock[k] = None /\ ~Matches(k, req[c].dest)
          /\ cand' = [cand EXCEPT ![c] = @ \ {k}]
    /\ UNCHANGED <<tbl, lock, pc, req, outcome, seen, key, pend, stay, edits>>

\* ErrNoRows: on to the insert.
NoRow(c) ==
    /\ pc[c] = "locking" /\ cand[c] = {}
    /\ Goto(c, "gen")
    /\ UNCHANGED <<tbl, lock, req, outcome, txVars, edits>>

------------------------------------------------------------------------------
(* The end of a transaction *)

Unlock(c) == lock' = [k \in Key |-> IF lock[k] = c THEN None ELSE lock[k]]

ForgetLocals(C) ==
    /\ cand' = [c \in Creator |-> IF c \in C THEN {} ELSE cand[c]]
    /\ stay' = [c \in Creator |-> IF c \in C THEN {} ELSE stay[c]]
    /\ seen' = [c \in Creator |-> IF c \in C THEN None ELSE seen[c]]
    /\ key' = [c \in Creator |-> IF c \in C THEN None ELSE key[c]]
    /\ pend' = [c \in Creator |-> IF c \in C THEN {} ELSE pend[c]]

\* The transaction is over, and its caller learns o; the metadata asked for
\* plays no further part.
End(c, o) ==
    /\ Goto(c, "done")
    /\ outcome' = [outcome EXCEPT ![c] = o]
    /\ Unlock(c)
    /\ ForgetLocals({c})
    /\ req' = [req EXCEPT ![c].meta = Blank]
    /\ UNCHANGED edits

\* Mutant: what the request did not supply is cleared.
MergeOverwrite(old, new) == new

\* applyRequestedMetadataTx: only what the request supplied is written.
Merge(old, new) == IF new = Blank THEN old ELSE new

\* An active match is merged into, an inactive one reactivated first; commit.
\* Here and below a commit whose confirmation is lost is told as an error.
FinishMatch(c) ==
    /\ pc[c] = "matched"
    /\ tbl' = [tbl EXCEPT ![key[c]].active = @ \/ ~seen[c].active,
                          ![key[c]].meta = Merge(@, req[c].meta)]
    /\ \E o \in {IF seen[c].active THEN "duplicate" ELSE "reactivated", "error"} : End(c, o)

\* GenerateUniqueKey: the key is free in what the statement can see, the
\* committed rows and those of its own transaction.
GenKey(c) ==
    /\ pc[c] = "gen"
    /\ \E k \in Key : /\ tbl[k] = None /\ k \notin pend[c]
                      /\ key' = [key EXCEPT ![c] = k]
    /\ Goto(c, "insert")
    /\ UNCHANGED <<tbl, lock, req, outcome, cand, seen, pend, stay, edits>>

\* ErrKeyCollision: five keys in a row were taken.
GenFail(c) ==
    /\ pc[c] = "gen"
    /\ \E k \in Key : tbl[k] # None \/ k \in pend[c]
    /\ End(c, "error")
    /\ UNCHANGED tbl

NewRow(c) ==
    [dest |-> req[c].dest, active |-> req[c].kind # "denied",
     denied |-> req[c].kind = "denied", meta |-> req[c].meta]

\* UNIQUE(key): an insert of a key that another open transaction has inserted
\* waits for that transaction.
Free(c) == tbl[key[c]] = None /\ \A e \in Creator : key[c] \notin pend[e]

\* CreateLink and CreateDeniedLink: one autocommitted INSERT.
InsertNow(c) ==
    /\ pc[c] = "insert" /\ req[c].kind \in {"custom", "denied"}
    /\ Free(c)
    /\ tbl' = [tbl EXCEPT ![key[c]] = NewRow(c)]
    /\ \E o \in {IF req[c].kind = "denied" THEN "denied" ELSE "inserted", "error"} : End(c, o)

\* INSERT inside a transaction; a batch goes on to its next row.
InsertTx(c) ==
    /\ pc[c] = "insert" /\ req[c].kind \in {"dedup", "batch"}
    /\ Free(c)
    /\ pend' = [pend EXCEPT ![c] = @ \cup {key[c]}]
    /\ Goto(c, IF req[c].kind = "batch" /\ Cardinality(pend[c]) + 1 < BatchSize
               THEN "gen" ELSE "commit")
    /\ UNCHANGED <<tbl, lock, req, outcome, cand, seen, key, stay, edits>>

\* unique_violation: ErrKeyTaken, and the transaction is rolled back; 409 for
\* an alias, told from the other errors by its status alone.
InsertTaken(c) ==
    /\ pc[c] = "insert" /\ tbl[key[c]] # None
    /\ End(c, "error")
    /\ UNCHANGED tbl

\* c waits for e to end before it knows whether its key is free.
WaitsFor(c, e) == pc[c] = "insert" /\ e # c /\ key[c] \in pend[e]

\* PostgreSQL breaks a circle of waiting transactions by aborting one.
DeadlockAbort(c) ==
    /\ \E S \in SUBSET Creator :
          /\ c \in S
          /\ \A e \in S : (\E f \in S : WaitsFor(e, f)) /\ (\E f \in S : WaitsFor(f, e))
    /\ End(c, "error")
    /\ UNCHANGED tbl

\* Mutant: a batch commits row by row and one of them is lost.
CommitPartly(c) ==
    /\ pc[c] = "commit"
    /\ tbl' = [k \in Key |-> IF k = key[c] THEN NewRow(c) ELSE tbl[k]]
    /\ \E o \in {"inserted", "error"} : End(c, o)

\* The inserted rows become visible together.
Commit(c) ==
    /\ pc[c] = "commit"
    /\ tbl' = [k \in Key |-> IF k \in pend[c] THEN NewRow(c) ELSE tbl[k]]
    /\ \E o \in {"inserted", "error"} : End(c, o)

InTx == {"locking", "matched", "gen", "insert", "commit"}

\* Mutant: an error path returns without the rollback.
RollbackForgotten(c) ==
    /\ pc[c] \in InTx
    /\ Goto(c, "done")
    /\ outcome' = [outcome EXCEPT ![c] = "error"]
    /\ cand' = [cand EXCEPT ![c] = {}] /\ stay' = [stay EXCEPT ![c] = {}]
    /\ seen' = [seen EXCEPT ![c] = None] /\ key' = [key EXCEPT ![c] = None]
    /\ UNCHANGED <<tbl, lock, req, pend, edits>>

\* A statement fails: the deferred Rollback undoes everything; 500.
Rollback(c) ==
    /\ pc[c] \in InTx
    /\ End(c, "error")
    /\ UNCHANGED tbl

\* 201, 200, 409, 422 or 500 is written and the request is forgotten.
Respond(c) ==
    /\ pc[c] = "done"
    /\ Goto(c, "idle")
    /\ req' = [req EXCEPT ![c] = None]
    /\ outcome' = [outcome EXCEPT ![c] = "none"]
    /\ UNCHANGED <<tbl, lock, txVars, edits>>

------------------------------------------------------------------------------
(* PATCH and DELETE by the owner: one UPDATE, which waits for the row lock *)

Edit(k, new) ==
    /\ tbl[k] # None /\ lock[k] = None
    /\ edits < MaxEdits
    /\ edits' = edits + 1
    /\ tbl' = [tbl EXCEPT ![k] = new]
    /\ stay' = [c \in Creator |-> {j \in stay[c] : j # k \/ new.dest = req[c].dest}]
    /\ UNCHANGED <<lock, pc, req, outcome, cand, seen, key, pend>>

\* UpdateLink: any of destination and metadata; Blank clears.
UpdateLink(k) ==
    \E d \in Dest, m \in MetaOrBlank : Edit(k, [tbl[k] EXCEPT !.dest = d, !.meta = m])

DeactivateLink(k) == Edit(k, [tbl[k] EXCEPT !.active = FALSE])

\* The process dies: PostgreSQL rolls its transactions back.
Restart ==
    /\ pc' = [c \in Creator |-> "idle"]
    /\ lock' = [k \in Key |-> None]
    /\ req' = [c \in Creator |-> None]
    /\ outcome' = [c \in Creator |-> "none"]
    /\ ForgetLocals(Creator)
    /\ UNCHANGED <<tbl, edits>>

\* What a request does when no statement fails.
Advance(c) ==
    \/ LockRow(c) \/ SkipRow(c) \/ NoRow(c) \/ FinishMatch(c)
    \/ GenKey(c) \/ GenFail(c) \/ InsertNow(c) \/ InsertTx(c) \/ InsertTaken(c)
    \/ DeadlockAbort(c) \/ Commit(c) \/ Respond(c)

Create(c) == Submit(c) \/ Lookup(c) \/ Advance(c) \/ Rollback(c)

Next ==
    \/ \E c \in Creator : Create(c)
    \/ \E k \in Key : UpdateLink(k) \/ DeactivateLink(k)
    \/ Restart

Spec == Init /\ [][Next]_vars

\* Handlers run to their end.  PostgreSQL queues the waiters of a row lock and
\* of an uncommitted key, and looks for deadlocks among them.  No statement
\* has to fail and nobody has to create, PATCH or DELETE.
Fairness == \A c \in Creator : SF_vars(Advance(c))

FairSpec == Spec /\ Fairness

------------------------------------------------------------------------------
(* Properties *)

\* Types; in particular nothing is left inserted or locked by a request that
\* is over.
TypeOK ==
    /\ tbl \in [Key -> Row \cup {None}]
    /\ lock \in [Key -> Creator \cup {None}]
    /\ pc \in [Creator -> InTx \cup {"idle", "done"}]
    /\ req \in [Creator -> Request \cup {None}]
    /\ cand \in [Creator -> SUBSET Key] /\ stay \in [Creator -> SUBSET Key]
    /\ seen \in [Creator -> Row \cup {None}]
    /\ key \in [Creator -> Key \cup {None}]
    /\ pend \in [Creator -> SUBSET Key]
    /\ outcome \in [Creator -> Outcome]
    /\ edits \in 0 .. MaxEdits
    /\ \A c \in Creator : pc[c] \notin InTx => pend[c] = {} /\ \A k \in Key : lock[k] # c

\* Between the locking SELECT and the commit, the row a create matched is the
\* one it read: still the caller's URL, still not denied, whatever PATCH,
\* DELETE or another create attempts.  The answer (duplicate or reactivated,
\* and the link in it) is true at the commit.
MatchStable ==
    \A c \in Creator :
        pc[c] = "matched" => /\ key[c] \in Existing(req[c].dest)
                             /\ tbl[key[c]] = seen[c]

\* A dedup create inserts only if no link of the user had the URL throughout
\* its transaction: duplicates need a create, a PATCH or a batch in parallel.
NoNeedlessInsert ==
    \A c \in Creator :
        pc[c] \in {"gen", "insert", "commit"} /\ req[c].kind = "dedup" => stay[c] = {}

\* No order of creates, PATCHes and DELETEs makes a denied link redirect.
DeniedNeverActive ==
    \A k \in Key : tbl[k] # None => ~(tbl[k].denied /\ tbl[k].active)

Size(c) == IF req[c].kind = "batch" THEN BatchSize ELSE 1

\* What requests hold between their statements: candidates while they lock,
\* among them those that matched at all times; a row lock once one is matched;
\* keys of their own, inserted where the table has no row, as many as the
\* request has come to.
Holding(c) ==
    /\ pc[c] # "idle" => req[c] # None
    /\ pc[c] # "locking" => cand[c] = {} /\ stay[c] = {}
    /\ pc[c] = "locking" =>
          stay[c] \subseteq cand[c] /\ \A k \in stay[c] : Matches(k, req[c].dest)
    /\ pc[c] \in {"matched", "insert"} => key[c] # None
    /\ pc[c] = "matched" => lock[key[c]] = c
    /\ \A k \in Key : lock[k] = c => pc[c] = "matched"
    /\ \A k \in pend[c] : tbl[k] = None /\ \A e \in Creator \ {c} : k \notin pend[e]
    /\ IsFiniteSet(pend[c])
    /\ pc[c] \in {"locking", "matched"} => pend[c] = {} /\ req[c].kind = "dedup"
    /\ pc[c] \in {"gen", "insert"} => Cardinality(pend[c]) < Size(c)
    /\ pc[c] = "commit" => Cardinality(pend[c]) = Size(c)

Holdings == \A c \in Creator : Holding(c)

\* The state invariant: types, what every row of the table obeys, and what
\* open transactions hold.
LinksInv == TypeOK /\ DeniedNeverActive /\ Holdings

\* A create never takes a key from a link, deactivates or re-points one, or
\* clears its campaign, UTM or placement ("a field the request left blank is
\* NEVER cleared here").
CreatePreserves ==
    [][pc' # pc =>
         \A k \in Key : tbl[k] # None =>
            /\ tbl'[k] # None
            /\ tbl'[k].dest = tbl[k].dest /\ tbl'[k].denied = tbl[k].denied
            /\ tbl[k].active => tbl'[k].active
            /\ tbl[k].meta # Blank => tbl'[k].meta # Blank]_vars

\* The links of a request appear all at once or not at all, and a request told
\* that it inserted has inserted every link it asked for.
AllOrNothing ==
    [][\A c \in Creator : pc[c] \in InTx /\ pc'[c] = "done" =>
         LET made == {k \in Key : tbl[k] = None /\ tbl'[k] # None}
         IN  /\ Cardinality(made) \in {0, Size(c)}
             /\ outcome'[c] = "inserted" => Cardinality(made) = Size(c)]_vars

\* Every create is eventually answered, though requests wait for each other's
\* row locks and keys, and two batches may wait in a circle.
EveryCreateIsAnswered ==
    \A c \in Creator : (pc[c] # "idle") ~> (pc[c] = "idle")

\* store.go: "two concurrent creates of the same URL cannot both insert a
\* duplicate" (run without PATCH and DELETE).
NoDuplicate ==
    \A c, e \in Creator :
        /\ c # e /\ pc[c] = "done" /\ pc[e] = "done"
        /\ req[c].kind = "dedup" /\ outcome[c] = "inserted"
        /\ req[e].kind = "dedup" /\ outcome[e] = "inserted"
        => req[c].dest # req[e].dest
==============================================================================
