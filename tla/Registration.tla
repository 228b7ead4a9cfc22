---------------------------- MODULE Registration -----------------------------
(***************************************************************************)
(* How an account is made and kept: registration and recovery              *)
(* (internal/auth/registration.go and recovery.go), the gate that opens    *)
(* registration, and the removal of passkeys (Store.RevokeCredential),     *)
(* interleaved statement by statement over PostgreSQL at READ COMMITTED    *)
(* and over a small connection pool.                                       *)
(*                                                                         *)
(* A token is random and fresh, so a pending registration is known by its  *)
(* token, a challenge by the request that issued it, a passkey by the      *)
(* request that added it.  Registration and recovery share the table       *)
(* pending_registrations, which does not say which of them made a row.     *)
(* Accounts stay active here (Sessions has deactivation).  InsertCredential*)
(* and CreateSession write rows nobody can see before the commit, and are  *)
(* part of the statements next to them.                                    *)
(***************************************************************************)
EXTENDS Naturals, FiniteSets

CONSTANTS Email,
          AdminEmail,  \* ADMIN_EMAIL, or None
          Token,       \* start requests and the tokens they mail
          Verify,      \* verify requests and the challenges they issue
          Finish,      \* finish requests and the passkeys they add
          Revoke,      \* requests that remove a passkey
          OldKey,      \* passkeys there from the beginning
          Setups,      \* databases and pools a server may start with
          None

ASSUME RegistrationAssumption ==
    /\ Setups \subseteq [pool : Nat \ {0}, admin : BOOLEAN, keys : SUBSET OldKey]
    /\ \A s \in Setups : (s.admin => AdminEmail \in Email) /\ (s.keys # {} => s.admin)
    /\ IsFiniteSet(Finish) /\ IsFiniteSet(Revoke)
    /\ None \notin Email \cup Token \cup Verify \cup Finish \cup Revoke
    \* Rows of different tables, and requests to different endpoints, are distinct.
    /\ Finish \cap Revoke = {} /\ Finish \cap OldKey = {}
    /\ Token \cap (Verify \cup Finish \cup Revoke) = {} /\ Verify \cap (Finish \cup Revoke) = {}
    /\ Email \cap (Token \cup Verify \cup Finish \cup OldKey) = {}
    /\ OldKey \cap (Token \cup Verify) = {}

VARIABLES enabled,  \* the setting registrations_enabled
          pool,     \* connections of the pgx pool, a parameter of DATABASE_URL
          users,    \* users[e]: "none", "user" or "admin"
          pend,     \* pend[t]: the row of pending_registrations
          chal,     \* the rows of webauthn_challenges
          key,      \* key[x]: the row of passkey_credentials
          locks,    \* row and index locks of open transactions
          pc,       \* control of each request
          job       \* what it is working on

rows == <<users, pend, chal, key>>
vars == <<enabled, pool, rows, locks, pc, job>>

Tx == Finish \cup Revoke
Request == Token \cup Verify \cup Tx
Passkey == Finish \cup OldKey
Purpose == {"registration", "recovery"}
PendRow == [email : Email, live : BOOLEAN]
KeyRow == [email : Email, by : Purpose \cup {None}, token : Token \cup {None}]

\* NULL is no row.
ASSUME NoneAssumption == None \notin PendRow \cup KeyRow

Keys(e) == {x \in Passkey : key[x] # None /\ key[x].email = e}
Accounts == {e \in Email : users[e] # "none"}

\* A database without accounts, or one that seed has given its administrator,
\* who may have passkeys by now.
Init ==
    /\ enabled \in BOOLEAN
    /\ \E s \in Setups :
          /\ pool = s.pool
          /\ users = [e \in Email |-> IF s.admin /\ e = AdminEmail THEN "admin" ELSE "none"]
          /\ key = [x \in Passkey |->
                        IF x \in s.keys THEN [email |-> AdminEmail, by |-> None, token |-> None]
                        ELSE None]
    /\ pend = [t \in Token |-> None]
    /\ chal = {}
    /\ locks = {}
    /\ pc = [q \in Request |-> "idle"]
    /\ job = [q \in Request |-> None]

Goto(q, label) == pc' = [pc EXCEPT ![q] = label]

------------------------------------------------------------------------------
(* Locks, connections and the end of a request *)

Blockers(q, S) == {lk.tx : lk \in {k \in locks : k.on \in S /\ k.tx # q}}

Lock(q, S) == locks' = locks \cup {[tx |-> q, on |-> x] : x \in S}

Outside == {"idle", "begin", "done"}

\* Connections no transaction holds.
Connected == {q \in Tx : pc[q] \notin Outside}
Spare == pool - Cardinality(Connected)

\* Mutant: an error path returns without the rollback.
EndOpen(q) ==
    /\ Goto(q, "done")
    /\ job' = [job EXCEPT ![q] = None]
    /\ UNCHANGED locks

\* Commit or Rollback: locks and the connection are given back.
End(q) ==
    /\ Goto(q, "done")
    /\ locks' = {lk \in locks : lk.tx # q}
    /\ job' = [job EXCEPT ![q] = None]

Stop(q) == End(q) /\ UNCHANGED <<enabled, pool, rows>>

------------------------------------------------------------------------------
(* Starting: the gate and the mail *)

\* PATCH /admin/settings.
Toggle ==
    /\ enabled' = ~enabled
    /\ UNCHANGED <<pool, rows, locks, pc, job>>

\* StartRegistration, its gate open.
StartRegistration(t) ==
    /\ pc[t] = "idle" /\ Spare > 0
    /\ enabled
    /\ \E e \in Email : job' = [job EXCEPT ![t] = e]
    /\ Goto(t, "email")
    /\ UNCHANGED <<enabled, pool, rows, locks>>

EmailRegistered(t) ==
    /\ pc[t] = "email" /\ Spare > 0
    /\ IF job[t] \in Accounts THEN Goto(t, "done") ELSE Goto(t, "insert")
    /\ UNCHANGED <<enabled, pool, rows, locks, job>>

\* StartRecovery, for an account there is.
StartRecovery(t) ==
    /\ pc[t] = "idle" /\ Spare > 0
    /\ \E e \in Accounts : job' = [job EXCEPT ![t] = e]
    /\ Goto(t, "insert")
    /\ UNCHANGED <<enabled, pool, rows, locks>>

\* CreatePendingRegistration or CreateRecoveryToken; the mail goes out.
CreatePending(t) ==
    /\ pc[t] = "insert" /\ Spare > 0
    /\ pend' = [pend EXCEPT ![t] = [email |-> job[t], live |-> TRUE]]
    /\ Goto(t, "done")
    /\ job' = [job EXCEPT ![t] = None]
    /\ UNCHANGED <<enabled, pool, users, chal, key, locks>>

\* Its TTL runs out; its challenges outlive it.
Expire(t) ==
    /\ pend[t] # None /\ pend[t].live /\ Blockers(None, {t}) = {}
    /\ pend' = [pend EXCEPT ![t].live = FALSE]
    /\ UNCHANGED <<enabled, pool, users, chal, key, locks, pc, job>>

------------------------------------------------------------------------------
(* Verifying: a challenge for the browser *)

\* VerifyRegistration and VerifyRecovery find the row of the token alike.
LookupToken(v) ==
    /\ pc[v] = "idle" /\ Spare > 0
    /\ \E t \in Token, p \in Purpose :
          /\ pend[t] # None /\ pend[t].live
          /\ p = "recovery" => pend[t].email \in Accounts
          /\ job' = [job EXCEPT ![v] = [token |-> t, purpose |-> p]]
    /\ Goto(v, "save")
    /\ UNCHANGED <<enabled, pool, rows, locks>>

\* SaveRegistrationChallenge, SaveRecoveryChallenge: the foreign key waits for
\* a transaction that deletes the row of the token, and fails when it is gone.
SaveChallenge(v) ==
    /\ pc[v] = "save" /\ Spare > 0
    /\ Blockers(v, {job[v].token}) = {}
    /\ IF pend[job[v].token] # None
       THEN /\ chal' = chal \cup {v}
            /\ Goto(v, "issued")
            /\ UNCHANGED job
       ELSE /\ job' = [job EXCEPT ![v] = None]
            /\ Goto(v, "done")
            /\ UNCHANGED chal
    /\ UNCHANGED <<enabled, pool, users, pend, key, locks>>

------------------------------------------------------------------------------
(* Finishing: FinishRegistration and FinishRecovery *)

TokenOf(f) == job[job[f].answer].token
PurposeOf(f) == job[job[f].answer].purpose
EmailOf(f) == job[f].email
Mine(f) == {v \in chal : [tx |-> f, on |-> v] \in locks}

\* The browser answers a challenge, maybe more than once; the deadline is
\* judged by the time the request arrives.
Post(f) ==
    /\ pc[f] = "idle"
    /\ \E v \in Verify :
          /\ pc[v] = "issued"
          /\ LET t == job[v].token IN
             job' = [job EXCEPT ![f] = [answer |-> v, returned |-> None, email |-> None,
                                        promote |-> FALSE,
                                        late |-> pend[t] # None /\ ~pend[t].live]]
    /\ Goto(f, "begin")
    /\ UNCHANGED <<enabled, pool, rows, locks>>

Begin(f) ==
    /\ pc[f] = "begin" /\ Spare > 0
    /\ Goto(f, "consume")
    /\ UNCHANGED <<enabled, pool, rows, locks, job>>

\* The challenges the DELETE matches: one for each time the mail was followed.
Matches(f) == {v \in chal : job[v].token = TokenOf(f) /\ job[v].purpose = PurposeOf(f)}

\* Mutant: the DELETE goes through the pool, outside the transaction.
ConsumeInPool(f) ==
    /\ pc[f] = "consume"
    /\ IF Matches(f) = {} THEN Stop(f)
       ELSE /\ \E v \in Matches(f) : job' = [job EXCEPT ![f].returned = v]
            /\ chal' = chal \ Matches(f)
            /\ Goto(f, "lookup")
            /\ UNCHANGED <<enabled, pool, users, pend, key, locks>>

\* DELETE ... RETURNING takes every challenge of the token; the first row that
\* comes back is used, whichever that is.
Consume(f) ==
    /\ pc[f] = "consume" /\ Blockers(f, Matches(f)) = {}
    /\ IF Matches(f) = {} THEN Stop(f)
       ELSE /\ \E v \in Matches(f) : job' = [job EXCEPT ![f].returned = v]
            /\ Lock(f, Matches(f))
            /\ Goto(f, "lookup")
            /\ UNCHANGED <<enabled, pool, rows>>

\* LookupPendingRegistration, LookupRecoveryToken: on a second connection; then
\* the browser's answer is checked against the challenge.
Lookup(f) ==
    /\ pc[f] = "lookup" /\ Spare > 0
    /\ IF pend[TokenOf(f)] # None /\ ~job[f].late /\ job[f].returned = job[f].answer
       THEN /\ job' = [job EXCEPT ![f].email = pend[TokenOf(f)].email]
            /\ Goto(f, IF PurposeOf(f) = "registration" THEN "count" ELSE "pending")
            /\ UNCHANGED <<enabled, pool, rows, locks>>
       ELSE Stop(f)

Promoted(f) == Accounts = {} \/ EmailOf(f) = AdminEmail

\* UserCount sees what is committed.
Count(f) ==
    /\ pc[f] = "count"
    /\ job' = [job EXCEPT ![f].promote = Promoted(f)]
    /\ Goto(f, "create")
    /\ UNCHANGED <<enabled, pool, rows, locks>>

\* Mutant: an account there is already is taken for the new one.
CreateUserAnyway(f) ==
    /\ pc[f] = "create" /\ Blockers(f, {EmailOf(f)}) = {}
    /\ Lock(f, {EmailOf(f)})
    /\ Goto(f, "pending")
    /\ UNCHANGED <<enabled, pool, rows, job>>

\* INSERT INTO users: the unique index on email waits for an uncommitted row.
CreateUser(f) ==
    /\ pc[f] = "create" /\ Blockers(f, {EmailOf(f)}) = {}
    /\ IF EmailOf(f) \in Accounts THEN Stop(f)
       ELSE /\ Lock(f, {EmailOf(f)})
            /\ Goto(f, "pending")
            /\ UNCHANGED <<enabled, pool, rows, job>>

\* InsertCredential, then DeletePendingRegistration.
DeletePending(f) ==
    /\ pc[f] = "pending" /\ Blockers(f, {TokenOf(f)}) = {}
    /\ Lock(f, {TokenOf(f)})
    /\ Goto(f, "refs")
    /\ UNCHANGED <<enabled, pool, rows, job>>

\* Challenges of the token that the request has not deleted.
Leftover(f) == {v \in chal : job[v].token = TokenOf(f)} \ Mine(f)

\* ... whose foreign key lets no challenge keep the token.
CheckReferences(f) ==
    /\ pc[f] = "refs" /\ Blockers(f, Leftover(f)) = {}
    /\ IF Leftover(f) # {} THEN Stop(f)
       ELSE /\ Goto(f, "commit")
            /\ UNCHANGED <<enabled, pool, rows, locks, job>>

\* Mutant: the row of the token stays.
CommitKeepsPending(f) ==
    /\ pc[f] = "commit"
    /\ key' = [key EXCEPT ![f] = [email |-> EmailOf(f), by |-> PurposeOf(f), token |-> TokenOf(f)]]
    /\ users' = IF PurposeOf(f) = "recovery" THEN users
                ELSE [users EXCEPT ![EmailOf(f)] = IF job[f].promote THEN "admin" ELSE "user"]
    /\ chal' = chal \ Mine(f)
    /\ End(f)
    /\ UNCHANGED <<enabled, pool, pend>>

\* CreateSession and Commit.
Commit(f) ==
    /\ pc[f] = "commit"
    /\ key' = [key EXCEPT ![f] = [email |-> EmailOf(f), by |-> PurposeOf(f), token |-> TokenOf(f)]]
    /\ users' = IF PurposeOf(f) = "recovery" THEN users
                ELSE [users EXCEPT ![EmailOf(f)] = IF job[f].promote THEN "admin" ELSE "user"]
    /\ pend' = [pend EXCEPT ![TokenOf(f)] = None]
    /\ chal' = chal \ Mine(f)
    /\ End(f)
    /\ UNCHANGED <<enabled, pool>>

------------------------------------------------------------------------------
(* Removing a passkey: RevokeCredential *)

\* SELECT id ... FOR UPDATE takes its snapshot.
FindKeys(w) ==
    /\ pc[w] = "idle" /\ Spare > 0
    /\ \E e \in Accounts, x \in Passkey :
          /\ key[x] # None
          /\ job' = [job EXCEPT ![w] = [email |-> e, key |-> x, found |-> Keys(e)]]
    /\ Goto(w, "lock")
    /\ UNCHANGED <<enabled, pool, rows, locks>>

\* Mutant: the rows are counted without FOR UPDATE.
CountKeys(w) ==
    /\ pc[w] = "lock"
    /\ IF job[w].key \notin job[w].found \/ Cardinality(job[w].found) <= 1 THEN Stop(w)
       ELSE Goto(w, "delete") /\ UNCHANGED <<enabled, pool, rows, locks, job>>

\* ... and has locked those of its rows that are still there.
LockKeys(w) ==
    /\ pc[w] = "lock" /\ Blockers(w, job[w].found) = {}
    /\ LET held == {x \in job[w].found : key[x] # None} IN
       IF job[w].key \notin held \/ Cardinality(held) <= 1 THEN Stop(w)
       ELSE /\ Lock(w, held)
            /\ Goto(w, "delete")
            /\ UNCHANGED <<enabled, pool, rows, job>>

DeleteKey(w) ==
    /\ pc[w] = "delete"
    /\ key' = [key EXCEPT ![job[w].key] = None]
    /\ End(w)
    /\ UNCHANGED <<enabled, pool, users, pend, chal>>

------------------------------------------------------------------------------
(* Requests that fail *)

\* A statement fails, the client leaves or the server stops: a rollback.
Fail(q) == q \in Tx /\ pc[q] \notin {"idle", "done"} /\ Stop(q)

\* q cannot go on before e has ended.
WaitsFor(q, e) ==
    \/ pc[q] = "consume" /\ e \in Blockers(q, Matches(q))
    \/ pc[q] = "create" /\ e \in Blockers(q, {EmailOf(q)})
    \/ pc[q] = "pending" /\ e \in Blockers(q, {TokenOf(q)})
    \/ pc[q] = "refs" /\ e \in Blockers(q, Leftover(q))

InCircle(f) ==
    \E S \in SUBSET Finish :
        f \in S /\ \A q \in S : (\E e \in S : WaitsFor(q, e)) /\ (\E e \in S : WaitsFor(e, q))

\* The pool has no second connection for it.
Starved(f) == pc[f] = "lookup" /\ Spare = 0

Advance(f) ==
    \/ Begin(f) \/ Consume(f) \/ Lookup(f) \/ Count(f) \/ CreateUser(f)
    \/ DeletePending(f) \/ CheckReferences(f) \/ Commit(f)

Remove(w) == LockKeys(w) \/ DeleteKey(w)

Next ==
    \/ Toggle
    \/ \E t \in Token : StartRegistration(t) \/ EmailRegistered(t) \/ StartRecovery(t)
                        \/ CreatePending(t) \/ Expire(t)
    \/ \E v \in Verify : LookupToken(v) \/ SaveChallenge(v)
    \/ \E f \in Finish : Post(f) \/ Advance(f)
    \/ \E w \in Revoke : FindKeys(w) \/ Remove(w)
    \/ \E q \in Tx : Fail(q)

Spec == Init /\ [][Next]_vars

------------------------------------------------------------------------------
(* Properties *)

\* Where a ceremony holds the challenges of its token.
Consumed == {"lookup", "count", "create", "pending", "refs", "commit"}

Challenge == [token : Token, purpose : Purpose]
Ceremony == [answer : Verify, returned : Verify \cup {None}, email : Email \cup {None},
             promote : BOOLEAN, late : BOOLEAN]
Removal == [email : Email, key : Passkey, found : SUBSET Passkey]

StartTyped(t) ==
    /\ pc[t] \in {"idle", "email", "insert", "done"}
    /\ pc[t] \in {"email", "insert"} => job[t] \in Email

VerifyTyped(v) ==
    /\ pc[v] \in {"idle", "save", "issued", "done"}
    /\ pc[v] \in {"save", "issued"} => job[v] \in Challenge

FinishTyped(f) ==
    /\ pc[f] \in {"idle", "begin", "consume", "done"} \cup Consumed
    /\ pc[f] \in {"begin", "consume"} \cup Consumed => job[f] \in Ceremony
    /\ pc[f] \in {"pending", "refs", "commit"} => EmailOf(f) \in Email

RevokeTyped(w) ==
    /\ pc[w] \in {"idle", "lock", "delete", "done"}
    /\ pc[w] \in {"lock", "delete"} => job[w] \in Removal

RowsTyped ==
    /\ enabled \in BOOLEAN /\ pool \in Nat
    /\ users \in [Email -> {"none", "user", "admin"}]
    /\ pend \in [Token -> PendRow \cup {None}]
    /\ chal \subseteq Verify
    /\ key \in [Passkey -> KeyRow \cup {None}]
    /\ locks \subseteq [tx : Tx, on : Email \cup Token \cup Verify \cup Passkey]
    /\ DOMAIN pc = Request /\ DOMAIN job = Request

\* Types.
TypeOK ==
    /\ RowsTyped
    /\ \A t \in Token : StartTyped(t)
    /\ \A v \in Verify : VerifyTyped(v)
    /\ \A f \in Finish : FinishTyped(f)
    /\ \A w \in Revoke : RevokeTyped(w)

Holds(q, x) == [tx |-> q, on |-> x] \in locks

\* A request that is over holds no lock, a row is locked once, and there are
\* never more transactions than connections.
LocksOK ==
    /\ \A lk \in locks : pc[lk.tx] \notin Outside
    /\ \A lk, l2 \in locks : lk.on = l2.on => lk.tx = l2.tx
    /\ Spare >= 0

\* A token has its row when its mail has gone out.
StartOK(t) == pc[t] # "done" => pend[t] = None

\* A challenge there is refers to a token there is, and a mail of recovery went
\* to an account.
VerifyOK(v) ==
    /\ v \in chal => pc[v] = "issued" /\ pend[job[v].token] # None
    /\ pc[v] \in {"save", "issued"} =>
          /\ pc[job[v].token] = "done"
          /\ job[v].purpose = "recovery" /\ pend[job[v].token] # None =>
                pend[job[v].token].email \in Accounts

\* What a ceremony has locked: challenges of its token and no others, among them
\* the one it goes by; in the end all of them, and the token.
AnswerOK(f) ==
    /\ pc[f] \in {"begin", "consume"} \cup Consumed => pc[job[f].answer] = "issued"
    /\ \A v \in Verify : Holds(f, v) => v \in chal /\ job[v].token = TokenOf(f)
    /\ pc[f] \in Consumed => job[f].returned \in Mine(f)
    /\ pc[f] \in {"refs", "commit"} => Holds(f, TokenOf(f))
    /\ pc[f] = "commit" => Leftover(f) = {}

\* The account it makes or adds to: the address of the token, and when it
\* registers one nobody has, with an administrator if it is the first.
AccountOK(f) ==
    /\ pc[f] \in Consumed \ {"lookup"} => EmailOf(f) = pend[TokenOf(f)].email
    /\ pc[f] \in {"count", "create"} => PurposeOf(f) = "registration"
    /\ pc[f] \in {"create", "pending", "refs", "commit"} /\ PurposeOf(f) = "registration" =>
          Accounts # {} \/ job[f].promote
    /\ pc[f] \in {"pending", "refs", "commit"} /\ PurposeOf(f) = "registration" =>
          Holds(f, EmailOf(f)) /\ EmailOf(f) \notin Accounts

\* Its passkey: none before the end, and then that of a token that was mailed
\* and of an account.
PasskeyOK(f) ==
    /\ pc[f] # "done" => key[f] = None
    /\ key[f] # None => key[f].token \in Token /\ pc[key[f].token] = "done"

\* A removal locks the passkeys of one account, among them one that stays.
RevokeOK(w) ==
    /\ pc[w] = "lock" => \A x \in job[w].found :
          /\ x \in Finish => pc[x] = "done"
          /\ key[x] # None => key[x].email = job[w].email
    /\ pc[w] = "delete" => \E x \in Passkey \ {job[w].key} :
          /\ Holds(w, x) /\ Holds(w, job[w].key)
          /\ key[x] # None /\ key[job[w].key] # None /\ key[x].email = key[job[w].key].email

RequestsOK ==
    /\ \A t \in Token : StartOK(t)
    /\ \A v \in Verify : VerifyOK(v)
    /\ \A f \in Finish : AnswerOK(f) /\ AccountOK(f) /\ PasskeyOK(f)
    /\ \A w \in Revoke : RevokeOK(w)

\* A passkey belongs to an account: users.id is its foreign key.
KeysOwned == \A x \in Passkey : key[x] # None => key[x].email \in Accounts

\* One mail, one passkey: however often the answer is posted, at the same time
\* or again, and whichever of registration and recovery the token is used for.
TokenSpentOnce ==
    \A f, g \in Finish :
        /\ key[f] # None /\ key[g] # None /\ key[f].token = key[g].token => f = g
        /\ key[f] # None => pend[key[f].token] = None

\* An account is registered once, whatever two pending registrations of one
\* address, or a recovery mail followed to the registration page, do.
RegisteredOnce ==
    \A f, g \in Finish :
        /\ key[f] # None /\ key[g] # None
        /\ key[f].by = "registration" /\ key[g].by = "registration"
        /\ key[f].email = key[g].email
        => f = g

\* Who registers first administers: there is no account without an
\* administrator to go to.
AdminExists == Accounts # {} => \E e \in Email : users[e] = "admin"

\* The state invariant: types, locks and connections accounted for, what each
\* request holds and relies on between its statements, and what the accounts
\* obey.
AccountsInv ==
    /\ TypeOK /\ LocksOK /\ RequestsOK
    /\ KeysOwned /\ RegisteredOnce /\ AdminExists

\* An account that has a passkey never loses its last one, to any number of
\* concurrent requests to remove one.
NeverLockedOut == [][\A e \in Email : Keys(e) # {} => Keys(e)' # {}]_vars

\* A ceremony happens as a whole: a challenge or a pending row disappears only
\* in the step in which the token's passkey, and with it the account, appear.
CeremonyAtomic ==
    [][\A t \in Token :
          \/ pend[t] # None /\ pend'[t] = None
          \/ \E v \in chal \ chal' : job[v].token = t
          => /\ pend'[t] = None
             /\ \A v \in chal' : job[v].token # t
             /\ \E f \in Finish : key[f] = None /\ key'[f] # None /\ key'[f].token = t
                                  /\ users'[key'[f].email] # "none"]_vars

\* Neither a lock nor the pool keeps q from its next statement.
Ready(q) ==
    \/ pc[q] \in {"begin", "lookup"} /\ Spare > 0
    \/ pc[q] = "consume" /\ Blockers(q, Matches(q)) = {}
    \/ pc[q] = "create" /\ Blockers(q, {EmailOf(q)}) = {}
    \/ pc[q] = "pending" /\ Blockers(q, {TokenOf(q)}) = {}
    \/ pc[q] = "refs" /\ Blockers(q, Leftover(q)) = {}
    \/ pc[q] = "lock" /\ Blockers(q, job[q].found) = {}
    \/ pc[q] \in {"count", "commit", "delete"}

\* As long as a ceremony or a removal is under way, one of them is ready, is
\* failed by PostgreSQL to break a circle of waits, or has a client that gives
\* up (a browser or the proxy in front of the server, after waiting for an
\* exhausted pool), which cancels its context.
SomeoneReady ==
    (\E q \in Tx : pc[q] \notin {"idle", "done"}) =>
        \/ \E q \in Tx : Ready(q)
        \/ \E f \in Finish : InCircle(f) \/ Starved(f)

\* Those that are ready are those that can take a step, and one is, or ends as
\* above, while any is under way.  All take finitely many steps, so none of them
\* waits for ever.
NeverStuck ==
    /\ \A f \in Finish : Ready(f) <=> ENABLED Advance(f)
    /\ \A w \in Revoke : Ready(w) <=> ENABLED Remove(w)
    /\ SomeoneReady
==============================================================================
