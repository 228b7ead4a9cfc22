------------------------------- MODULE Sessions -------------------------------
(***************************************************************************)
(* Who is signed in.  The ceremonies that end in a session (FinishLogin,   *)
(* FinishRecovery), the session guard of every request (ResolveSession),   *)
(* sign-out (Logout, LogoutAll) and an administrator's DeactivateUser and  *)
(* ReactivateUser, interleaved statement by statement over PostgreSQL at   *)
(* READ COMMITTED, with the row locks their statements take.               *)
(*                                                                         *)
(* A session's token is random and fresh, so a session is known by the     *)
(* request that created it.  Users are not administrators (DeactivateUser  *)
(* refuses those) and each has one passkey.  A login locks its passkey's   *)
(* row just before its user's row and nobody else locks passkeys, so the   *)
(* user's row stands for both.  A crash of the server aborts its           *)
(* transactions, which Abort does one at a time.                           *)
(***************************************************************************)
EXTENDS Naturals, FiniteSets

CONSTANTS User,
          Ceremony,   \* login and recovery challenges
          Finish,     \* FinishLogin and FinishRecovery requests
          Check,      \* requests passing the session guard
          Op,         \* deactivate, reactivate and sign-out-everywhere requests
          None,
          TTL,        \* lifetime of a session that is not used
          MaxClock    \* bound: the clock stops here

ASSUME SessionsAssumption ==
    /\ TTL \in Nat \ {0} /\ MaxClock \in Nat
    /\ None \notin Ceremony \cup Finish
    /\ Finish \cap Op = {} /\ Finish \cap Check = {} /\ Op \cap Check = {}
    /\ User \cap Ceremony = {} /\ User \cap Finish = {} /\ Ceremony \cap Finish = {}

VARIABLES active,    \* users.active
          stored,    \* passkey_credentials.sign_count
          device,    \* the counter inside the user's authenticator
          ceremony,  \* ceremony[k]: what its client signed, or None
          challenge, \* challenge[k]: the row in webauthn_challenges
          session,   \* session[f]: the row in sessions that f created
          expires,   \* its expires_at
          locks,     \* row locks held by open transactions
          pc,        \* control of each request
          job,       \* what a Finish, a Check or an Op is working on
          doomed,    \* the sessions an Op's DELETE found
          clock

rows == <<active, stored, session, expires, challenge>>
vars == <<rows, device, ceremony, locks, pc, job, doomed, clock>>

Tx == Finish \cup Op
Mode == {"share", "nokey", "update"}
Kind == {"login", "synced", "recovery"}
OpKind == {"deactivate", "reactivate", "logout_all"}

Init ==
    /\ active = [u \in User |-> TRUE]
    /\ stored = [u \in User |-> 0] /\ device = [u \in User |-> 0]
    /\ ceremony = [k \in Ceremony |-> None]
    /\ challenge = [k \in Ceremony |-> "none"]
    /\ session = [f \in Finish |-> "none"] /\ expires = [f \in Finish |-> 0]
    /\ locks = {}
    /\ pc = [t \in Tx \cup Check |-> "idle"]
    /\ job = [t \in Tx \cup Check |-> None]
    /\ doomed = [o \in Op |-> {}]
    /\ clock = 0

Goto(t, label) == pc' = [pc EXCEPT ![t] = label]

UserOf(f) == ceremony[job[f].ceremony].user
Live(u) == {f \in Finish : session[f] = "live" /\ UserOf(f) = u}

------------------------------------------------------------------------------
(* Row locks *)

\* FOR UPDATE and DELETE, UPDATE of other columns than a key, a foreign key.
Conflict(m, n) == "update" \in {m, n} \/ (m = "nokey" /\ n = "nokey")

Free(t, row, mode) ==
    \A lk \in locks : lk.on = row /\ Conflict(lk.mode, mode) => lk.tx = t

Lock(t, row, mode) ==
    /\ Free(t, row, mode)
    /\ locks' = locks \cup {[tx |-> t, on |-> row, mode |-> mode]}

\* Mutant: an error path leaves the transaction open.
EndOpen(t, label) == Goto(t, label) /\ UNCHANGED locks

\* Commit or Rollback: the request is over and its locks are released.
End(t, label) ==
    /\ Goto(t, label)
    /\ locks' = {lk \in locks : lk.tx # t}

------------------------------------------------------------------------------
(* Ceremonies *)

\* StartLogin and the authenticator's answer, which counts (device-bound) or
\* not (a synced passkey always answers 0); or VerifyRecovery for an account
\* that is active, and the new passkey's answer.
Start(k) ==
    /\ ceremony[k] = None
    /\ \E u \in User, kind \in Kind :
          LET count == IF kind = "login" THEN device[u] + 1 ELSE 0
          IN  /\ kind = "recovery" => active[u]
              /\ kind = "synced" => device[u] = 0
              /\ ceremony' = [ceremony EXCEPT ![k] = [user |-> u, kind |-> kind, count |-> count]]
              /\ device' = IF kind = "login" THEN [device EXCEPT ![u] = count] ELSE device
    /\ challenge' = [challenge EXCEPT ![k] = "live"]
    /\ UNCHANGED <<active, stored, session, expires, locks, pc, job, doomed, clock>>

\* Its TTL runs out.
Lapse(k) ==
    /\ challenge[k] = "live" /\ \A lk \in locks : lk.on # k
    /\ challenge' = [challenge EXCEPT ![k] = "stale"]
    /\ UNCHANGED <<active, stored, session, expires, device, ceremony, locks, pc, job, doomed, clock>>

\* The client posts its answer; it may post the same one twice.
Post(f) ==
    /\ pc[f] = "idle"
    /\ \E k \in Ceremony :
          /\ ceremony[k] # None
          /\ job' = [job EXCEPT ![f] = [ceremony |-> k, now |-> clock, count |-> 0]]
          /\ Goto(f, IF ceremony[k].kind = "recovery" THEN "consume" ELSE "lookup")
    /\ UNCHANGED <<rows, device, ceremony, locks, doomed, clock>>

\* CredentialByID, before the transaction: the stored counter, and the active
\* flag, which ends the login of a deactivated account.
Lookup(f) ==
    /\ pc[f] = "lookup"
    /\ job' = [job EXCEPT ![f].count = stored[UserOf(f)]]
    /\ Goto(f, IF active[UserOf(f)] THEN "consume" ELSE "denied")
    /\ UNCHANGED <<rows, device, ceremony, locks, doomed, clock>>

\* Mutant: the challenge is read, and deleted at the end.
ConsumeUnlocked(f) ==
    /\ pc[f] = "consume"
    /\ challenge[job[f].ceremony] = "live"
    /\ Goto(f, "touch")
    /\ UNCHANGED <<rows, device, ceremony, locks, job, doomed, clock>>

\* DELETE FROM webauthn_challenges ... RETURNING, inside the transaction.
Consume(f) ==
    LET k == job[f].ceremony
    IN  /\ pc[f] = "consume"
        /\ Free(f, k, "update")
        /\ \/ /\ challenge[k] = "live"
              /\ Lock(f, k, "update") /\ Goto(f, "touch")
           \/ challenge[k] # "live" /\ End(f, "failed")
        /\ UNCHANGED <<rows, device, ceremony, job, doomed, clock>>

\* Mutant: last_login_at is not written.
TouchNothing(f) ==
    /\ pc[f] = "touch"
    /\ Goto(f, "commit")
    /\ UNCHANGED <<rows, device, ceremony, locks, job, doomed, clock>>

\* The counter, backup state and last_used_at of the passkey and last_login_at
\* of the user; or a recovery's INSERT of a passkey that references the user.
Touch(f) ==
    /\ pc[f] = "touch"
    /\ Lock(f, UserOf(f), IF ceremony[job[f].ceremony].kind = "recovery" THEN "share" ELSE "nokey")
    /\ Goto(f, "commit")
    /\ UNCHANGED <<rows, device, ceremony, job, doomed, clock>>

\* The counter the assertion carries is stored if it is above the one read;
\* otherwise (0 and 0, or a possible clone) it is left alone.
Counted(f) ==
    LET count == ceremony[job[f].ceremony].count
    IN  IF count > job[f].count THEN [stored EXCEPT ![UserOf(f)] = count] ELSE stored

\* CreateSession and Commit: the challenge is gone and the session is there.
CreateSession(f) ==
    /\ pc[f] = "commit"
    /\ challenge' = [challenge EXCEPT ![job[f].ceremony] = "used"]
    /\ stored' = Counted(f)
    /\ session' = [session EXCEPT ![f] = "live"]
    /\ expires' = [expires EXCEPT ![f] = job[f].now + TTL]
    /\ End(f, "signed_in")
    /\ UNCHANGED <<active, device, ceremony, job, doomed, clock>>

------------------------------------------------------------------------------
(* The session guard: ResolveSession *)

\* UPDATE ... FROM users: what its snapshot says of the session and its user.
Match(q) ==
    /\ pc[q] = "idle"
    /\ \E f \in Finish :
          /\ session[f] # "none"
          /\ job' = [job EXCEPT ![q] = [session |-> f, now |-> clock]]
          /\ Goto(q, IF session[f] = "live" /\ expires[f] > clock /\ active[UserOf(f)]
                     THEN "bump" ELSE "diagnose")
    /\ UNCHANGED <<rows, device, ceremony, locks, doomed, clock>>

\* It waits for the row, checks it again as it now is, and slides the window.
Bump(q) ==
    LET f == job[q].session
    IN  /\ pc[q] = "bump"
        /\ Free(q, f, "nokey")
        /\ \/ /\ session[f] = "live" /\ expires[f] > job[q].now
              /\ expires' = [expires EXCEPT ![f] = job[q].now + TTL]
              /\ Goto(q, "served")
           \/ /\ session[f] # "live" \/ expires[f] <= job[q].now
              /\ Goto(q, "diagnose") /\ UNCHANGED expires
        /\ UNCHANGED <<active, stored, session, challenge, device, ceremony, locks, job, doomed, clock>>

\* Why nothing matched: an expired session is deleted; 401 in every case.
Diagnose(q) ==
    LET f == job[q].session
    IN  /\ pc[q] = "diagnose"
        /\ Goto(q, IF session[f] = "live" /\ expires[f] <= job[q].now THEN "drop" ELSE "idle")
        /\ UNCHANGED <<rows, device, ceremony, locks, job, doomed, clock>>

\* DeleteSession: by token, whatever the row is by now.
Delete(f) ==
    /\ \A lk \in locks : lk.on # f
    /\ session' = [session EXCEPT ![f] = IF @ = "live" THEN "gone" ELSE @]
    /\ UNCHANGED <<active, stored, expires, challenge, device, ceremony, locks, job, doomed, clock>>

Drop(q) ==
    /\ pc[q] = "drop"
    /\ Delete(job[q].session)
    /\ Goto(q, "idle")

\* The handler behind the guard has answered.
Reply(q) ==
    /\ pc[q] = "served"
    /\ Goto(q, "idle")
    /\ UNCHANGED <<rows, device, ceremony, locks, job, doomed, clock>>

Logout(f) ==
    /\ session[f] = "live"
    /\ Delete(f)
    /\ UNCHANGED pc

------------------------------------------------------------------------------
(* DeactivateUser, ReactivateUser, LogoutAll *)

\* The administrator's requests begin by locking the user; LogoutAll, which a
\* served request of the user runs, by deleting.
Begin(o) ==
    /\ pc[o] = "idle"
    /\ \E u \in User, kind \in OpKind :
          /\ kind = "logout_all" =>
                \E q \in Check : pc[q] = "served" /\ UserOf(job[q].session) = u
          /\ job' = [job EXCEPT ![o] = [user |-> u, kind |-> kind]]
          /\ Goto(o, IF kind = "logout_all" THEN "find" ELSE "lock")
    /\ UNCHANGED <<rows, device, ceremony, locks, doomed, clock>>

\* SELECT ... FOR UPDATE, and ErrUserAlreadyInactive or ErrUserAlreadyActive.
LockUser(o) ==
    LET u == job[o].user
    IN  /\ pc[o] = "lock"
        /\ Free(o, u, "update")
        /\ \/ /\ active[u] <=> job[o].kind = "deactivate"
              /\ Lock(o, u, "update")
              /\ Goto(o, IF job[o].kind = "deactivate" THEN "find" ELSE "commit")
           \/ ~(active[u] <=> job[o].kind = "deactivate") /\ End(o, "refused")
        /\ UNCHANGED <<rows, device, ceremony, job, doomed, clock>>

\* Mutant: the sessions are left to expire.
FindNone(o) ==
    /\ pc[o] = "find"
    /\ Goto(o, "reap")
    /\ UNCHANGED <<rows, device, ceremony, locks, job, doomed, clock>>

\* DELETE FROM sessions WHERE user_id: the snapshot of the statement.
Find(o) ==
    /\ pc[o] = "find"
    /\ doomed' = [doomed EXCEPT ![o] = Live(job[o].user)]
    /\ Goto(o, "reap")
    /\ UNCHANGED <<rows, device, ceremony, locks, job, clock>>

Held(o) == {f \in Finish : \E lk \in locks : lk.tx = o /\ lk.on = f}

\* What it found and neither it nor another has deleted.
Todo(o) == {f \in doomed[o] : session[f] = "live"} \ Held(o)

\* Row by row it waits for whoever has the row.
Reap(o) ==
    /\ pc[o] = "reap"
    /\ \E f \in Todo(o) : Lock(o, f, "update")
    /\ UNCHANGED <<rows, device, ceremony, pc, job, doomed, clock>>

\* Mutant: rows that another transaction is deleting are skipped.
ReapedSkipLocked(o) ==
    /\ pc[o] = "reap"
    /\ \A f \in Todo(o) : ~Free(o, f, "update")
    /\ Goto(o, IF job[o].kind = "deactivate" THEN "commit" ELSE "audit")
    /\ UNCHANGED <<rows, device, ceremony, locks, job, doomed, clock>>

Reaped(o) ==
    /\ pc[o] = "reap"
    /\ Todo(o) = {}
    /\ Goto(o, IF job[o].kind = "deactivate" THEN "commit" ELSE "audit")
    /\ UNCHANGED <<rows, device, ceremony, locks, job, doomed, clock>>

\* LogoutAll's audit row references the user.
Audit(o) ==
    /\ pc[o] = "audit"
    /\ Lock(o, job[o].user, "share")
    /\ Goto(o, "commit")
    /\ UNCHANGED <<rows, device, ceremony, job, doomed, clock>>

CommitOp(o) ==
    /\ pc[o] = "commit"
    /\ active' = IF job[o].kind = "logout_all" THEN active
                 ELSE [active EXCEPT ![job[o].user] = job[o].kind = "reactivate"]
    /\ session' = [f \in Finish |-> IF f \in Held(o) THEN "gone" ELSE session[f]]
    /\ End(o, "done")
    /\ UNCHANGED <<stored, expires, challenge, device, ceremony, job, doomed, clock>>

------------------------------------------------------------------------------
(* Failure, and time *)

InTx(t) == pc[t] \in {"consume", "touch", "lock", "find", "reap", "audit", "commit"}

\* A statement fails, the ceremony does not verify, or the server dies.
Abort(t) ==
    /\ InTx(t)
    /\ End(t, "failed")
    /\ UNCHANGED <<rows, device, ceremony, job, doomed, clock>>

\* The row locks t waits for at its next step.
Wants(t) ==
    CASE pc[t] = "consume" -> {<<job[t].ceremony, "update">>}
      [] pc[t] = "touch" ->
           {<<UserOf(t), IF ceremony[job[t].ceremony].kind = "recovery" THEN "share" ELSE "nokey">>}
      [] pc[t] = "lock" -> {<<job[t].user, "update">>}
      [] pc[t] = "audit" -> {<<job[t].user, "share">>}
      [] pc[t] = "reap" -> {<<f, "update">> : f \in Todo(t)}
      [] OTHER -> {}

WaitsFor(t, e) ==
    /\ e # t
    /\ \A w \in Wants(t) : ~Free(t, w[1], w[2])
    /\ \E w \in Wants(t), lk \in locks :
          lk.tx = e /\ lk.on = w[1] /\ Conflict(lk.mode, w[2])

\* PostgreSQL breaks a circle of waiting transactions by aborting one.
DeadlockAbort(t) ==
    /\ \E S \in SUBSET Tx :
          /\ t \in S
          /\ \A e \in S : (\E g \in S : WaitsFor(e, g)) /\ (\E g \in S : WaitsFor(g, e))
    /\ End(t, "failed")
    /\ UNCHANGED <<rows, device, ceremony, job, doomed, clock>>

Tick ==
    /\ clock < MaxClock
    /\ clock' = clock + 1
    /\ UNCHANGED <<rows, device, ceremony, locks, pc, job, doomed>>

\* What a request does when no statement fails.
AdvanceFinish(f) ==
    Lookup(f) \/ Consume(f) \/ Touch(f) \/ CreateSession(f) \/ DeadlockAbort(f)

AdvanceCheck(q) == Bump(q) \/ Diagnose(q) \/ Drop(q) \/ Reply(q)

AdvanceOp(o) ==
    LockUser(o) \/ Find(o) \/ Reap(o) \/ Reaped(o) \/ Audit(o) \/ CommitOp(o) \/ DeadlockAbort(o)

Next ==
    \/ \E k \in Ceremony : Start(k) \/ Lapse(k)
    \/ \E f \in Finish : Post(f) \/ AdvanceFinish(f) \/ Logout(f)
    \/ \E q \in Check : Match(q) \/ AdvanceCheck(q)
    \/ \E o \in Op : Begin(o) \/ AdvanceOp(o)
    \/ \E t \in Tx : Abort(t)
    \/ Tick

Spec == Init /\ [][Next]_vars

\* Handlers run to their end; PostgreSQL queues those that wait for a row and
\* looks for deadlocks among them.  No statement has to fail, nobody has to
\* sign in or out, and time need not pass.
Fairness ==
    /\ \A f \in Finish : SF_vars(AdvanceFinish(f))
    /\ \A q \in Check : SF_vars(AdvanceCheck(q))
    /\ \A o \in Op : SF_vars(AdvanceOp(o))

FairSpec == Spec /\ Fairness

------------------------------------------------------------------------------
(* Properties *)

FinishJob == [ceremony : Ceremony, now : 0 .. MaxClock, count : Nat]
CheckJob == [session : Finish, now : 0 .. MaxClock]
OpJob == [user : User, kind : OpKind]

\* What a request is working on, and where it is.
FinishTyped(f) ==
    /\ pc[f] \in {"idle", "lookup", "consume", "touch", "commit",
                 "signed_in", "denied", "failed"}
    /\ pc[f] # "idle" => job[f] \in FinishJob /\ ceremony[job[f].ceremony] # None

CheckTyped(q) ==
    /\ pc[q] \in {"idle", "bump", "diagnose", "drop", "served"}
    /\ pc[q] # "idle" => job[q] \in CheckJob

OpTyped(o) ==
    /\ pc[o] \in {"idle", "lock", "find", "reap", "audit", "commit", "done", "refused", "failed"}
    /\ pc[o] # "idle" => job[o] \in OpJob

\* The rows, the locks, the authenticators and the clock.
RowsTyped ==
    /\ active \in [User -> BOOLEAN]
    /\ stored \in [User -> Nat] /\ device \in [User -> Nat]
    /\ ceremony \in [Ceremony -> [user : User, kind : Kind, count : Nat] \cup {None}]
    /\ challenge \in [Ceremony -> {"none", "live", "stale", "used"}]
    /\ session \in [Finish -> {"none", "live", "gone"}]
    /\ expires \in [Finish -> 0 .. MaxClock + TTL]
    /\ locks \subseteq [tx : Tx, on : User \cup Ceremony \cup Finish, mode : Mode]
    /\ DOMAIN pc = Tx \cup Check /\ DOMAIN job = Tx \cup Check
    /\ doomed \in [Op -> SUBSET Finish]
    /\ clock \in 0 .. MaxClock

\* Types.
TypeOK ==
    /\ RowsTyped
    /\ \A f \in Finish : FinishTyped(f)
    /\ \A q \in Check : CheckTyped(q)
    /\ \A o \in Op : OpTyped(o)

\* No two transactions hold conflicting locks on a row, one that is over holds
\* none, and a session is only locked by an Op whose DELETE found it.
LocksOK ==
    /\ \A lk \in locks : InTx(lk.tx)
    /\ \A lk, l2 \in locks : lk.on = l2.on /\ Conflict(lk.mode, l2.mode) => lk.tx = l2.tx
    /\ \A lk \in locks : lk.on \in Finish => lk.tx \in Op /\ lk.on \in doomed[lk.tx]

\* A ceremony that got past its challenge holds the only right to it; from the
\* Touch on it has its user's row locked as well.
FinishOK(f) ==
    /\ session[f] = "none" <=> pc[f] # "signed_in"
    /\ pc[f] \in {"touch", "commit"} =>
          /\ challenge[job[f].ceremony] = "live"
          /\ [tx |-> f, on |-> job[f].ceremony, mode |-> "update"] \in locks
    /\ pc[f] = "commit" => \E lk \in locks : lk.tx = f /\ lk.on = UserOf(f)
    /\ pc[f] = "signed_in" => challenge[job[f].ceremony] = "used"

\* A session that may still be served belongs to an active account.
CheckOK(q) ==
    /\ pc[q] # "idle" => session[job[q].session] # "none"
    /\ pc[q] = "bump" /\ session[job[q].session] = "live" => active[UserOf(job[q].session)]

\* What a DELETE found is gone or locked when it has ended, and when it is a
\* deactivation's, whose lock on the user keeps new sessions out, that is all.
OpOK(o) ==
    /\ \A f \in doomed[o] : session[f] # "none"
    /\ pc[o] \in {"idle", "lock", "find"} => doomed[o] = {}
    /\ pc[o] # "idle" /\ job[o].kind = "reactivate" => doomed[o] = {}
    /\ pc[o] \in {"find", "reap"} => job[o].kind # "reactivate"
    /\ pc[o] = "audit" => job[o].kind = "logout_all"
    /\ pc[o] \in {"audit", "commit"} => \A f \in doomed[o] : session[f] = "gone" \/ f \in Held(o)
    /\ pc[o] \in {"find", "reap", "commit"} /\ job[o].kind = "deactivate" =>
          [tx |-> o, on |-> job[o].user, mode |-> "update"] \in locks
    /\ pc[o] \in {"reap", "commit"} /\ job[o].kind = "deactivate" =>
          Live(job[o].user) \subseteq doomed[o]

\* A request is let through only while its account is active, although the
\* guard reads the account, then waits for the session's row, and does not
\* look at the account again.
InactiveNeverServed ==
    [][\A q \in Check : pc[q] = "bump" /\ pc'[q] = "served" => active[UserOf(job[q].session)]]_vars

\* The commit that deactivates an account leaves it without a session: also
\* those of logins and recoveries that ran in parallel (docs/auth.md).
DeactivationSignsOut ==
    [][\A u \in User : active[u] /\ ~active'[u] =>
         \A f \in Finish : session'[f] = "live" => UserOf(f) # u]_vars

\* A challenge signs in at most once, even if its answer is posted twice at
\* the same time.
OneSessionPerCeremony ==
    \A f, g \in Finish :
        pc[f] = "signed_in" /\ pc[g] = "signed_in" /\ f # g => job[f].ceremony # job[g].ceremony

\* When sign-out-everywhere or a deactivation answers, the sessions its DELETE
\* found are gone for good, whoever else was deleting or renewing them.
RevokedForGood ==
    \A o \in Op : pc[o] = "done" => \A f \in doomed[o] : session[f] = "gone"

\* The state invariant: types, exclusive locks, what each request holds and
\* relies on between its statements, and revoked sessions stay gone.
SessionsInv ==
    /\ TypeOK /\ LocksOK
    /\ \A f \in Finish : FinishOK(f)
    /\ \A q \in Check : CheckOK(q)
    /\ \A o \in Op : OpOK(o)
    /\ RevokedForGood

\* Every request ends, though requests wait for each other's rows and
\* LogoutAll and DeactivateUser may wait in a circle.
EveryRequestEnds ==
    /\ \A f \in Finish : (pc[f] # "idle") ~> (pc[f] \in {"signed_in", "denied", "failed"})
    /\ \A q \in Check : (pc[q] # "idle") ~> (pc[q] = "idle")
    /\ \A o \in Op : (pc[o] # "idle") ~> (pc[o] \in {"done", "refused", "failed"})
==============================================================================
