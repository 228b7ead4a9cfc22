-------------------------- MODULE RegistrationProofs --------------------------
(***************************************************************************)
(* Proofs about Registration for any number of addresses, tokens, requests *)
(* and passkeys and any size of the pool.  AccountsInv is inductive.  A    *)
(* step moves one request, or none: it is sound if that request is right   *)
(* afterwards and (RowsKept) it wrote no row that another has locked or    *)
(* relies on.                                                              *)
(***************************************************************************)
EXTENDS Registration, FiniteSetTheorems, WellFoundedInduction, TLAPS

LEMMA InitInv == Init => AccountsInv
  <1> SUFFICES ASSUME Init PROVE AccountsInv
    OBVIOUS
  <1>0. PICK s \in Setups :
          /\ pool = s.pool
          /\ users = [e \in Email |-> IF s.admin /\ e = AdminEmail THEN "admin" ELSE "none"]
          /\ key = [x \in Passkey |->
                        IF x \in s.keys THEN [email |-> AdminEmail, by |-> None, token |-> None]
                        ELSE None]
    BY DEF Init
  <1>1. /\ enabled \in BOOLEAN /\ pend = [t \in Token |-> None] /\ chal = {} /\ locks = {}
        /\ pc = [q \in Request |-> "idle"] /\ job = [q \in Request |-> None]
    BY DEF Init
  <1>2. /\ s.pool \in Nat /\ s.pool > 0 /\ s.keys \subseteq OldKey
        /\ s.admin => AdminEmail \in Email
        /\ s.keys # {} => AdminEmail \in Email /\ s.admin
    BY RegistrationAssumption
  <1>3. key \in [Passkey -> KeyRow \cup {None}]
    BY <1>0, <1>2 DEF KeyRow
  <1>4. RowsTyped
    BY <1>0, <1>1, <1>2, <1>3 DEF RowsTyped
  <1>5. TypeOK
    BY <1>1, <1>4 DEF TypeOK, StartTyped, VerifyTyped, FinishTyped, RevokeTyped, Request, Tx,
                      Consumed
  <1>6. Spare >= 0
    <2>1. Connected = {}
      BY <1>1 DEF Connected, Outside, Request
    <2> QED
      BY <1>0, <1>2, <2>1, FS_EmptySet DEF Spare
  <1>7. LocksOK
    BY <1>1, <1>6 DEF LocksOK
  <1>8. \A f \in Finish : key[f] = None
    BY <1>0, <1>2, RegistrationAssumption DEF Passkey
  <1>9. RequestsOK
    BY <1>1, <1>8 DEF RequestsOK, StartOK, VerifyOK, AnswerOK, AccountOK, PasskeyOK, RevokeOK,
                      Request, Tx, Consumed, Holds
  <1>10. KeysOwned
    <2> SUFFICES ASSUME NEW x \in Passkey, key[x] # None PROVE key[x].email \in Accounts
      BY DEF KeysOwned
    <2>1. x \in s.keys /\ key[x].email = AdminEmail
      BY <1>0
    <2> QED
      BY <1>0, <1>2, <2>1 DEF Accounts
  <1>11. RegisteredOnce
    BY <1>8 DEF RegisteredOnce
  <1>12. AdminExists
    BY <1>0 DEF AdminExists, Accounts
  <1> QED
    BY <1>5, <1>7, <1>9, <1>10, <1>11, <1>12 DEF AccountsInv

------------------------------------------------------------------------------
(* What a step of q, or of nobody, leaves to the others *)

\* A challenge that is issued and a request that is over stay what they are.
OnlyMoves(q) ==
    /\ DOMAIN pc' = Request /\ DOMAIN job' = Request
    /\ \A e \in Request \ {q} : pc'[e] = pc[e] /\ job'[e] = job[e]
    /\ \A e \in Request : pc[e] \in {"issued", "done"} => pc'[e] = pc[e] /\ job'[e] = job[e]
    /\ \A lk \in locks : lk.tx # q => lk \in locks'
    /\ \A lk \in locks' : lk.tx # q => lk \in locks

\* An account appears only where nobody else has locked its address.
UsersKept(q) ==
    \A e \in Email : users'[e] # users[e] =>
        users[e] = "none" /\ users'[e] # "none" /\ \A lk \in locks : lk.on = e => lk.tx = q

\* The row of a token is made before its mail is sent, its address never
\* changes, and it goes with the challenges that refer to it.
PendKept(q) ==
    \A t \in Token : pend'[t] # pend[t] =>
        IF pend[t] = None THEN t = q /\ pc[t] # "done"
        ELSE IF pend'[t] = None THEN \A v \in chal' : job'[v].token # t
        ELSE pend'[t].email = pend[t].email

\* A challenge is deleted by who has locked it, and issued only while nobody
\* has locked its token.
ChalKept(q) ==
    /\ \A v \in chal : v \notin chal' => Holds(q, v)
    /\ \A v \in chal' : v \notin chal =>
          v = q /\ job'[v] = job[v] /\ \A lk \in locks : lk.on # job[v].token

\* A passkey is added by its ceremony and deleted by who has locked it.
KeysKept(q) ==
    \A x \in Passkey : key'[x] # key[x] =>
        IF key[x] = None THEN x = q /\ x \in Finish /\ pc[x] # "done"
        ELSE key'[x] = None /\ \A lk \in locks : lk.on = x => lk.tx = q

RowsKept(q) == UsersKept(q) /\ PendKept(q) /\ ChalKept(q) /\ KeysKept(q)

\* What the invariant says of one request.
Sound(q) ==
    /\ q \in Token => StartTyped(q) /\ StartOK(q)
    /\ q \in Verify => VerifyTyped(q) /\ VerifyOK(q)
    /\ q \in Finish => FinishTyped(q) /\ AnswerOK(q) /\ AccountOK(q) /\ PasskeyOK(q)
    /\ q \in Revoke => RevokeTyped(q) /\ RevokeOK(q)

LEMMA Facts ==
  ASSUME AccountsInv
  PROVE  /\ RowsTyped /\ LocksOK /\ KeysOwned /\ RegisteredOnce /\ AdminExists
         /\ \A q \in Request : Sound(q)
  BY DEF AccountsInv, TypeOK, RequestsOK, Sound

LEMMA Collected ==
  ASSUME RowsTyped, LocksOK, KeysOwned, RegisteredOnce, AdminExists,
         \A q \in Request : Sound(q)
  PROVE  AccountsInv
  BY DEF AccountsInv, TypeOK, RequestsOK, Sound, Request, Tx

\* The challenge a ceremony answers.
LEMMA CeremonyIs ==
  ASSUME AccountsInv, NEW f \in Finish, pc[f] \in {"begin", "consume"} \cup Consumed
  PROVE  /\ job[f] \in Ceremony /\ job[f].answer \in Verify /\ pc[job[f].answer] = "issued"
         /\ job[job[f].answer] \in Challenge /\ pc[TokenOf(f)] = "done"
         /\ TokenOf(f) \in Token /\ PurposeOf(f) \in Purpose
  <1>1. FinishTyped(f) /\ AnswerOK(f)
    BY Facts DEF Sound, Request, Tx
  <1>2. PICK v \in Verify : v = job[f].answer
    BY <1>1 DEF FinishTyped, Ceremony
  <1>3. VerifyTyped(v) /\ VerifyOK(v)
    BY Facts DEF Sound, Request
  <1>4. pc[v] = "issued"
    BY <1>1, <1>2 DEF AnswerOK
  <1>5. job[v] \in Challenge /\ pc[job[v].token] = "done"
    BY <1>3, <1>4 DEF VerifyTyped, VerifyOK
  <1> QED
    BY <1>1, <1>2, <1>4, <1>5 DEF FinishTyped, TokenOf, PurposeOf, Challenge

\* A ceremony goes by the same token and the same purpose as long as it runs.
LEMMA CeremonyStays ==
  ASSUME AccountsInv, NEW f \in Finish, pc[f] \in {"begin", "consume"} \cup Consumed,
         NEW q, OnlyMoves(q), job'[f].answer = job[f].answer
  PROVE  /\ TokenOf(f)' = TokenOf(f) /\ PurposeOf(f)' = PurposeOf(f)
         /\ pc'[job'[f].answer] = "issued"
  <1>1. PICK v \in Verify : v = job[f].answer /\ pc[v] = "issued"
    BY CeremonyIs
  <1>2. pc'[v] = "issued" /\ job'[v] = job[v]
    BY <1>1 DEF OnlyMoves, Request
  <1> QED
    BY <1>1, <1>2 DEF TokenOf, PurposeOf

\* The challenge it has deleted, and the row of its token.
LEMMA ReturnedIs ==
  ASSUME AccountsInv, NEW f \in Finish, pc[f] \in Consumed
  PROVE  /\ job[f].returned \in chal /\ job[f].returned \in Verify
         /\ Holds(f, job[f].returned) /\ job[job[f].returned].token = TokenOf(f)
         /\ pc[job[f].returned] = "issued" /\ pend[TokenOf(f)] \in PendRow
  <1>1. RowsTyped /\ AnswerOK(f)
    BY Facts DEF Sound, Request, Tx
  <1>2. PICK v \in chal : v = job[f].returned /\ Holds(f, v) /\ v \in Verify
    BY <1>1 DEF AnswerOK, Mine, Holds, RowsTyped
  <1>3. job[v].token = TokenOf(f)
    BY <1>1, <1>2 DEF AnswerOK
  <1>4. pc[v] = "issued" /\ pend[job[v].token] # None
    BY <1>2, Facts DEF Sound, Request, VerifyOK
  <1>5. pend[TokenOf(f)] \in PendRow
    BY <1>1, <1>3, <1>4, CeremonyIs DEF RowsTyped
  <1> QED
    BY <1>2, <1>3, <1>4, <1>5

LEMMA HoldsKept ==
  ASSUME NEW q, OnlyMoves(q), NEW e, e # q, NEW x
  PROVE  [tx |-> e, on |-> x] \in locks <=> [tx |-> e, on |-> x] \in locks'
  BY DEF OnlyMoves

------------------------------------------------------------------------------
(* The requests that do not move *)

LEMMA StartKept ==
  ASSUME NEW q, OnlyMoves(q), RowsKept(q), NEW t \in Token \ {q}, StartTyped(t), StartOK(t)
  PROVE  StartTyped(t)' /\ StartOK(t)'
  BY DEF OnlyMoves, RowsKept, PendKept, Request, StartTyped, StartOK

LEMMA AccountsGrow ==
  ASSUME NEW q, UsersKept(q)
  PROVE  Accounts \subseteq Accounts'
  BY DEF UsersKept, Accounts

LEMMA VerifyKept ==
  ASSUME NEW q, OnlyMoves(q), RowsKept(q), NEW v \in Verify \ {q}, RowsTyped, RowsTyped',
         VerifyTyped(v), VerifyOK(v)
  PROVE  VerifyTyped(v)' /\ VerifyOK(v)'
  <1>1. pc'[v] = pc[v] /\ job'[v] = job[v]
    BY DEF OnlyMoves, Request
  <1>2. VerifyTyped(v)'
    BY <1>1 DEF VerifyTyped
  <1>3. ASSUME pc[v] \in {"save", "issued"}, NEW t \in Token, t = job[v].token, pc[t] = "done"
        PROVE  pc'[t] = "done" /\ (pend'[t] # None => pend[t] # None /\ pend'[t].email = pend[t].email)
    BY <1>3 DEF OnlyMoves, RowsKept, PendKept, Request
  <1>4. ASSUME v \in chal'
        PROVE  pc'[v] = "issued" /\ pend'[job'[v].token] # None
    <2>1. v \in chal
      BY <1>4 DEF RowsKept, ChalKept
    <2>2. PICK t \in Token : t = job[v].token
      BY <2>1 DEF VerifyTyped, VerifyOK, Challenge
    <2>3. pend[t] # None
      BY <2>1, <2>2 DEF VerifyOK
    <2>4. pend'[t] # None
      BY <1>1, <1>4, <2>2, <2>3 DEF RowsKept, PendKept
    <2> QED
      BY <1>1, <2>1, <2>2, <2>4 DEF VerifyOK
  <1>5. ASSUME pc[v] \in {"save", "issued"}
        PROVE  /\ pc'[job'[v].token] = "done"
               /\ job'[v].purpose = "recovery" /\ pend'[job'[v].token] # None =>
                     pend'[job'[v].token].email \in Accounts'
    <2>1. PICK t \in Token : t = job[v].token /\ pc[t] = "done"
      BY <1>5 DEF VerifyTyped, VerifyOK, Challenge
    <2>2. pc'[t] = "done" /\ (pend'[t] # None => pend[t] # None /\ pend'[t].email = pend[t].email)
      BY <1>3, <1>5, <2>1
    <2>3. job[v].purpose = "recovery" /\ pend[t] # None => pend[t].email \in Accounts
      BY <1>5, <2>1 DEF VerifyOK
    <2> QED
      BY <1>1, <2>1, <2>2, <2>3, AccountsGrow DEF RowsKept
  <1> QED
    BY <1>1, <1>2, <1>4, <1>5 DEF VerifyOK

\* The token of a ceremony that does not move keeps its row.
LEMMA TokenKept ==
  ASSUME AccountsInv, NEW q, OnlyMoves(q), RowsKept(q), NEW f \in Finish \ {q}, pc[f] \in Consumed
  PROVE  /\ job[f].returned \in chal' /\ job'[job[f].returned] = job[job[f].returned]
         /\ pend'[TokenOf(f)] # None /\ pend'[TokenOf(f)].email = pend[TokenOf(f)].email
  <1>1. PICK v \in chal : /\ v = job[f].returned /\ Holds(f, v) /\ v \in Verify
                          /\ pc[v] = "issued" /\ job[v].token = TokenOf(f)
    BY ReturnedIs
  <1>2. v \in chal'
    BY <1>1, Facts DEF RowsKept, ChalKept, LocksOK, Holds
  <1>3. job'[v] = job[v]
    BY <1>1 DEF OnlyMoves, Request
  <1>4. PICK t \in Token : t = TokenOf(f) /\ pend[t] # None
    BY ReturnedIs, CeremonyIs, NoneAssumption
  <1>5. pend'[t] # None /\ pend'[t].email = pend[t].email
    BY <1>1, <1>2, <1>3, <1>4 DEF RowsKept, PendKept
  <1> QED
    BY <1>1, <1>2, <1>3, <1>4, <1>5

LEMMA AnswerKept ==
  ASSUME AccountsInv, NEW q, OnlyMoves(q), RowsKept(q), NEW f \in Finish \ {q}, RowsTyped'
  PROVE  AnswerOK(f)'
  <1>1. pc'[f] = pc[f] /\ job'[f] = job[f]
    BY DEF OnlyMoves, Request, Tx
  <1>2. RowsTyped /\ LocksOK /\ FinishTyped(f) /\ AnswerOK(f)
    BY Facts DEF Sound, Request, Tx
  <1>3. CASE pc[f] \notin {"consume"} \cup Consumed
    <2>1. \A v \in Verify : ~Holds(f, v)
      BY <1>2, <1>3 DEF LocksOK, Holds, FinishTyped, Outside, AnswerOK, Consumed
    <2>2. \A v \in Verify : ~Holds(f, v)'
      BY <2>1, HoldsKept DEF Holds
    <2>3. pc[f] = "begin" => pc'[job'[f].answer] = "issued"
      BY <1>1, CeremonyStays
    <2> QED
      BY <1>1, <1>3, <2>2, <2>3 DEF AnswerOK, Consumed
  <1>4. CASE pc[f] \in {"consume"} \cup Consumed
    <2>1. PICK t \in Token : t = TokenOf(f)
      BY <1>4, CeremonyIs
    <2>2. TokenOf(f)' = t /\ pc'[job'[f].answer] = "issued"
      BY <1>1, <1>4, <2>1, CeremonyStays
    <2>3. \A v \in Verify : Holds(f, v)' <=> Holds(f, v)
      BY HoldsKept DEF Holds
    <2>4. \A v \in Verify : Holds(f, v) =>
             v \in chal /\ v \in chal' /\ job[v].token = t /\ job'[v] = job[v]
      <3> SUFFICES ASSUME NEW v \in Verify, Holds(f, v)
                   PROVE  v \in chal /\ v \in chal' /\ job[v].token = t /\ job'[v] = job[v]
        OBVIOUS
      <3>1. v \in chal /\ job[v].token = t
        BY <1>2, <2>1 DEF AnswerOK
      <3>2. v \in chal'
        BY <1>2, <3>1 DEF RowsKept, ChalKept, LocksOK, Holds
      <3>3. pc[v] = "issued"
        BY <3>1, Facts DEF Sound, VerifyOK, Request
      <3> QED
        BY <3>1, <3>2, <3>3 DEF OnlyMoves, Request
    <2>5. ASSUME pc[f] \in Consumed
          PROVE  job'[f].returned \in Mine(f)'
      <3>1. job[f].returned \in chal' /\ job[f].returned \in Verify /\ Holds(f, job[f].returned)
        BY <2>5, ReturnedIs, TokenKept
      <3> QED
        BY <1>1, <2>3, <3>1 DEF Mine, Holds
    <2>6. Holds(f, t) <=> Holds(f, t)'
      BY HoldsKept DEF Holds
    <2>7. ASSUME pc[f] = "commit"
          PROVE  Leftover(f)' = {}
      <3>1. Holds(f, t) /\ \A v \in chal : job[v].token = t => Holds(f, v)
        BY <1>2, <2>1, <2>7 DEF AnswerOK, Leftover, Mine, Holds
      <3>2. ASSUME NEW v \in chal', job'[v].token = t
            PROVE  Holds(f, v)'
        <4>1. CASE v \in chal
          <5>1. v \in Verify /\ pc[v] = "issued"
            BY <1>2, <4>1, Facts DEF Sound, VerifyOK, Request, RowsTyped
          <5>2. job'[v] = job[v]
            BY <5>1 DEF OnlyMoves, Request
          <5> QED
            BY <2>3, <3>1, <3>2, <4>1, <5>1, <5>2
        <4>2. CASE v \notin chal
          BY <3>1, <3>2, <4>2 DEF RowsKept, ChalKept, Holds
        <4> QED
          BY <4>1, <4>2
      <3> QED
        BY <2>2, <3>2 DEF Leftover, Mine, Holds
    <2>8. \A v \in Verify : Holds(f, v)' => v \in chal' /\ job'[v].token = TokenOf(f)'
      BY <2>2, <2>3, <2>4
    <2>9. pc'[f] \in {"refs", "commit"} => Holds(f, TokenOf(f))'
      BY <1>1, <1>2, <2>1, <2>2, <2>6 DEF AnswerOK, Holds
    <2> QED
      BY <1>1, <2>2, <2>5, <2>7, <2>8, <2>9 DEF AnswerOK
  <1> QED
    BY <1>3, <1>4

LEMMA AccountKept ==
  ASSUME AccountsInv, NEW q, OnlyMoves(q), RowsKept(q), NEW f \in Finish \ {q}
  PROVE  AccountOK(f)'
  <1>1. pc'[f] = pc[f] /\ job'[f] = job[f]
    BY DEF OnlyMoves, Request, Tx
  <1>2. LocksOK /\ FinishTyped(f) /\ AccountOK(f)
    BY Facts DEF Sound, Request, Tx
  <1>3. CASE pc[f] \notin Consumed
    BY <1>1, <1>3 DEF AccountOK, Consumed
  <1>4. CASE pc[f] \in Consumed
    <2>1. TokenOf(f)' = TokenOf(f) /\ PurposeOf(f)' = PurposeOf(f) /\ EmailOf(f)' = EmailOf(f)
      BY <1>1, <1>4, CeremonyStays DEF EmailOf
    <2>2. pend'[TokenOf(f)].email = pend[TokenOf(f)].email
      BY <1>4, TokenKept
    <2>3. Accounts \subseteq Accounts'
      BY AccountsGrow DEF RowsKept
    <2>4. ASSUME pc[f] \in {"pending", "refs", "commit"}, PurposeOf(f) = "registration"
          PROVE  Holds(f, EmailOf(f))' /\ EmailOf(f) \notin Accounts'
      <3>1. PICK e \in Email : e = EmailOf(f)
        BY <1>2, <2>4 DEF FinishTyped
      <3>2. Holds(f, e) /\ e \notin Accounts
        BY <1>2, <2>4, <3>1 DEF AccountOK
      <3>3. users'[e] = users[e]
        BY <1>2, <3>2 DEF RowsKept, UsersKept, LocksOK, Holds
      <3>4. [tx |-> f, on |-> e] \in locks'
        BY <3>2, HoldsKept DEF Holds
      <3> QED
        BY <2>1, <3>1, <3>2, <3>3, <3>4 DEF Holds, Accounts
    <2> QED
      BY <1>1, <1>2, <2>1, <2>2, <2>3, <2>4 DEF AccountOK
  <1> QED
    BY <1>3, <1>4

LEMMA PasskeyKept ==
  ASSUME NEW q, OnlyMoves(q), RowsKept(q), NEW f \in Finish \ {q}, PasskeyOK(f)
  PROVE  PasskeyOK(f)'
  <1>1. pc'[f] = pc[f]
    BY DEF OnlyMoves, Request, Tx
  <1>2. key'[f] # None => key'[f] = key[f]
    BY DEF RowsKept, KeysKept, Passkey
  <1>3. key'[f] = None \/ key[f] # None
    BY <1>2
  <1>4. \A t \in Token : pc[t] = "done" => pc'[t] = "done"
    BY DEF OnlyMoves, Request
  <1> QED
    BY <1>1, <1>2, <1>3, <1>4 DEF PasskeyOK

LEMMA RevokeKept ==
  ASSUME NEW q, OnlyMoves(q), RowsKept(q), NEW w \in Revoke \ {q}, RowsTyped, LocksOK,
         RevokeTyped(w), RevokeOK(w)
  PROVE  RevokeOK(w)'
  <1>1. pc'[w] = pc[w] /\ job'[w] = job[w]
    BY DEF OnlyMoves, Request, Tx
  <1>2. \A x \in Finish : pc[x] = "done" => pc'[x] = "done"
    BY DEF OnlyMoves, Request, Tx
  <1>3. \A x \in Passkey : Holds(w, x) /\ key[x] # None => Holds(w, x)' /\ key'[x] = key[x]
    <2> SUFFICES ASSUME NEW x \in Passkey, Holds(w, x), key[x] # None
                 PROVE  Holds(w, x)' /\ key'[x] = key[x]
      OBVIOUS
    <2>1. Holds(w, x)'
      BY HoldsKept DEF Holds
    <2> QED
      BY <2>1 DEF RowsKept, KeysKept, LocksOK, Holds
  <1>4. ASSUME pc[w] = "lock", NEW x \in job[w].found
        PROVE  /\ x \in Finish => pc'[x] = "done"
               /\ key'[x] # None => key'[x].email = job[w].email
    <2>1. x \in Passkey
      BY <1>4 DEF RevokeTyped, Removal
    <2>2. x \in Finish => pc[x] = "done"
      BY <1>4 DEF RevokeOK
    <2>3. key'[x] # None => key'[x] = key[x]
      BY <2>1, <2>2 DEF RowsKept, KeysKept
    <2> QED
      BY <1>2, <1>4, <2>2, <2>3 DEF RevokeOK
  <1>5. ASSUME pc[w] = "delete"
        PROVE  \E x \in Passkey \ {job[w].key} :
                  /\ Holds(w, x)' /\ Holds(w, job[w].key)'
                  /\ key'[x] # None /\ key'[job[w].key] # None
                  /\ key'[x].email = key'[job[w].key].email
    <2>1. PICK y \in Passkey : y = job[w].key
      BY <1>5 DEF RevokeTyped, Removal
    <2>2. PICK x \in Passkey \ {y} : /\ Holds(w, x) /\ Holds(w, y)
                                     /\ key[x] # None /\ key[y] # None /\ key[x].email = key[y].email
      BY <1>5, <2>1 DEF RevokeOK
    <2>3. Holds(w, x)' /\ key'[x] = key[x] /\ Holds(w, y)' /\ key'[y] = key[y]
      BY <1>3, <2>2
    <2> QED
      BY <1>1, <2>1, <2>2, <2>3 DEF Holds
  <1> QED
    BY <1>1, <1>4, <1>5 DEF RevokeOK, Holds

\* A step is sound if the request that moves is, and no row is written that
\* another relies on.
LEMMA OthersKept ==
  ASSUME AccountsInv, NEW q, OnlyMoves(q), RowsKept(q), RowsTyped', LocksOK',
         q \in Request => Sound(q)', KeysOwned', RegisteredOnce', AdminExists'
  PROVE  AccountsInv'
  <1>1. /\ RowsTyped /\ LocksOK /\ \A e \in Request : Sound(e)
        /\ Token \subseteq Request /\ Verify \subseteq Request
        /\ Finish \subseteq Request /\ Revoke \subseteq Request
    BY Facts DEF Request, Tx
  <1>2. ASSUME NEW t \in Token PROVE StartTyped(t)' /\ StartOK(t)'
    <2>1. CASE t = q
      BY <1>1, <2>1 DEF Sound
    <2>2. CASE t # q
      BY <1>1, <2>2, StartKept DEF Sound
    <2> QED
      BY <2>1, <2>2
  <1>3. ASSUME NEW v \in Verify PROVE VerifyTyped(v)' /\ VerifyOK(v)'
    <2>1. CASE v = q
      BY <1>1, <2>1 DEF Sound
    <2>2. CASE v # q
      BY <1>1, <2>2, VerifyKept DEF Sound
    <2> QED
      BY <2>1, <2>2
  <1>4. ASSUME NEW f \in Finish PROVE FinishTyped(f)' /\ AnswerOK(f)' /\ AccountOK(f)' /\ PasskeyOK(f)'
    <2>1. CASE f = q
      BY <1>1, <2>1 DEF Sound
    <2>2. CASE f # q
      <3>1. FinishTyped(f)'
        BY <1>1, <2>2 DEF Sound, OnlyMoves, FinishTyped, EmailOf
      <3>2. AnswerOK(f)' /\ AccountOK(f)' /\ PasskeyOK(f)'
        BY <1>1, <2>2, AnswerKept, AccountKept, PasskeyKept DEF Sound
      <3> QED
        BY <3>1, <3>2
    <2> QED
      BY <2>1, <2>2
  <1>5. ASSUME NEW w \in Revoke PROVE RevokeTyped(w)' /\ RevokeOK(w)'
    <2>1. CASE w = q
      BY <1>1, <2>1 DEF Sound
    <2>2. CASE w # q
      <3>1. RevokeTyped(w)'
        BY <1>1, <2>2 DEF Sound, OnlyMoves, RevokeTyped
      <3> QED
        BY <1>1, <2>2, <3>1, RevokeKept DEF Sound
    <2> QED
      BY <2>1, <2>2
  <1> QED
    BY <1>2, <1>3, <1>4, <1>5 DEF AccountsInv, TypeOK, RequestsOK

------------------------------------------------------------------------------
(* Locks and connections *)

LEMMA TxFinite == IsFiniteSet(Tx)
  BY RegistrationAssumption, FS_Union DEF Tx

LEMMA SpareKept ==
  ASSUME RowsTyped, Spare >= 0, pool' = pool, NEW q,
         \A e \in Request \ {q} : pc'[e] = pc[e],
         q \in Tx /\ pc'[q] \notin Outside => pc[q] \notin Outside \/ Spare > 0
  PROVE  Spare' >= 0
  <1>1. IsFiniteSet(Connected) /\ Cardinality(Connected) \in Nat
    BY TxFinite, FS_Subset, FS_CardinalityType DEF Connected
  <1>2. Connected' \subseteq Connected \cup {q}
    BY DEF Connected, Request, Tx
  <1>3. pool \in Nat
    BY DEF RowsTyped
  <1>4. CASE q \in Tx /\ pc'[q] \notin Outside /\ pc[q] \in Outside
    <2>1. Spare > 0
      BY <1>4
    <2>2. IsFiniteSet(Connected \cup {q}) /\ Cardinality(Connected \cup {q}) <= Cardinality(Connected) + 1
      BY <1>1, FS_AddElement
    <2>3. Cardinality(Connected') <= Cardinality(Connected) + 1 /\ Cardinality(Connected') \in Nat
      <3>1. Cardinality(Connected') <= Cardinality(Connected \cup {q}) /\ IsFiniteSet(Connected')
        BY <1>2, <2>2, FS_Subset
      <3> QED
        BY <1>1, <2>2, <3>1, FS_CardinalityType
    <2>4. Spare' = pool - Cardinality(Connected') /\ Spare = pool - Cardinality(Connected)
      BY DEF Spare
    <2> QED
      BY <1>1, <1>3, <2>1, <2>3, <2>4
  <1>5. CASE ~(q \in Tx /\ pc'[q] \notin Outside /\ pc[q] \in Outside)
    <2>1. Connected' \subseteq Connected
      BY <1>2, <1>5 DEF Connected
    <2>2. Cardinality(Connected') <= Cardinality(Connected) /\ Cardinality(Connected') \in Nat
      BY <1>1, <2>1, FS_Subset, FS_CardinalityType
    <2>3. Spare' = pool - Cardinality(Connected') /\ Spare = pool - Cardinality(Connected)
      BY DEF Spare
    <2> QED
      BY <1>1, <1>3, <2>2, <2>3
  <1> QED
    BY <1>4, <1>5

\* A step of q that locks the rows of S, which may be none.
LEMMA LockTaken ==
  ASSUME AccountsInv, NEW q \in Request, NEW S \in SUBSET (Email \cup Token \cup Verify \cup Passkey),
         Blockers(q, S) = {}, Lock(q, S), pool' = pool,
         S # {} => q \in Tx /\ pc[q] \notin Outside,
         \A e \in Request \ {q} : pc'[e] = pc[e],
         q \in Tx /\ pc[q] \notin Outside => pc'[q] \notin Outside,
         q \in Tx /\ pc'[q] \notin Outside => pc[q] \notin Outside \/ Spare > 0
  PROVE  /\ LocksOK'
         /\ locks' \subseteq [tx : Tx, on : Email \cup Token \cup Verify \cup Passkey]
         /\ \A lk \in locks' : lk.tx # q => lk \in locks
         /\ locks \subseteq locks'
         /\ \A x : [tx |-> q, on |-> x] \in locks' <=> Holds(q, x) \/ x \in S
  <1>1. locks' = locks \cup {[tx |-> q, on |-> x] : x \in S}
    BY DEF Lock
  <1>2. \A lk \in locks : lk.on \in S => lk.tx = q
    BY DEF Blockers
  <1>3. RowsTyped /\ LocksOK
    BY Facts
  <1>4. \A lk \in locks' : lk \in locks \/ (lk.tx = q /\ lk.on \in S)
    BY <1>1
  <1>5. \A lk \in locks' : pc'[lk.tx] \notin Outside
    <2>1. \A lk \in locks : lk.tx \in Tx /\ lk.tx \in Request /\ pc[lk.tx] \notin Outside
      BY <1>3 DEF RowsTyped, LocksOK, Request
    <2> QED
      BY <1>4, <2>1
  <1>6. \A lk, l2 \in locks' : lk.on = l2.on => lk.tx = l2.tx
    BY <1>2, <1>3, <1>4 DEF LocksOK
  <1>7. Spare' >= 0
    BY <1>3, SpareKept DEF LocksOK
  <1>8. locks' \subseteq [tx : Tx, on : Email \cup Token \cup Verify \cup Passkey]
    BY <1>1, <1>3 DEF RowsTyped
  <1>9. \A x : [tx |-> q, on |-> x] \in locks' <=> Holds(q, x) \/ x \in S
    BY <1>1 DEF Holds
  <1> QED
    BY <1>1, <1>4, <1>5, <1>6, <1>7, <1>8, <1>9 DEF LocksOK

\* A step that writes no row: q moves on and may lock the rows of S.
LEMMA Walked ==
  ASSUME AccountsInv, NEW q \in Request, NEW S \in SUBSET (Email \cup Token \cup Verify \cup Passkey),
         Blockers(q, S) = {}, locks' = locks \cup {[tx |-> q, on |-> x] : x \in S},
         NEW label, Goto(q, label), UNCHANGED <<pool, rows>>, enabled' \in BOOLEAN,
         DOMAIN job' = Request, \A e \in Request \ {q} : job'[e] = job[e],
         pc[q] \notin {"issued", "done"},
         S # {} => q \in Tx /\ pc[q] \notin Outside,
         q \in Tx /\ pc[q] \notin Outside => label \notin Outside,
         q \in Tx /\ label \notin Outside => pc[q] \notin Outside \/ Spare > 0,
         /\ OnlyMoves(q) /\ pc'[q] = label
         /\ \A x : [tx |-> q, on |-> x] \in locks' <=> Holds(q, x) \/ x \in S
         => Sound(q)'
  PROVE  AccountsInv'
  <1>1. RowsTyped
    BY Facts
  <1>2. pc'[q] = label /\ DOMAIN pc' = Request /\ \A e \in Request \ {q} : pc'[e] = pc[e]
    BY <1>1 DEF RowsTyped, Goto
  <1>3. /\ LocksOK'
        /\ locks' \subseteq [tx : Tx, on : Email \cup Token \cup Verify \cup Passkey]
        /\ \A lk \in locks' : lk.tx # q => lk \in locks
        /\ locks \subseteq locks'
        /\ \A x : [tx |-> q, on |-> x] \in locks' <=> Holds(q, x) \/ x \in S
    BY <1>2, LockTaken DEF Lock
  <1>4. OnlyMoves(q)
    BY <1>2, <1>3 DEF OnlyMoves
  <1>5. RowsTyped'
    BY <1>1, <1>2, <1>3 DEF RowsTyped, rows
  <1>6. RowsKept(q)
    BY DEF rows, RowsKept, UsersKept, PendKept, ChalKept, KeysKept
  <1>7. KeysOwned' /\ RegisteredOnce' /\ AdminExists'
    BY Facts DEF rows, KeysOwned, RegisteredOnce, AdminExists, Accounts
  <1> QED
    BY <1>2, <1>3, <1>4, <1>5, <1>6, <1>7, OthersKept

\* The request is over, and what it has written is right.
LEMMA Ended ==
  ASSUME AccountsInv, NEW q \in Tx, End(q), pc[q] \notin {"idle", "done"}, UNCHANGED <<enabled, pool>>,
         RowsTyped /\ OnlyMoves(q) => RowsKept(q),
         users' \in [Email -> {"none", "user", "admin"}],
         pend' \in [Token -> PendRow \cup {None}], chal' \subseteq Verify,
         key' \in [Passkey -> KeyRow \cup {None}],
         q \in Finish /\ OnlyMoves(q) => PasskeyOK(q)',
         KeysOwned', RegisteredOnce', AdminExists'
  PROVE  AccountsInv'
  <1>1. RowsTyped /\ LocksOK /\ Sound(q) /\ q \in Request
    BY Facts DEF Request, Tx
  <1>2. /\ pc'[q] = "done" /\ DOMAIN pc' = Request /\ DOMAIN job' = Request
        /\ \A e \in Request \ {q} : pc'[e] = pc[e] /\ job'[e] = job[e]
        /\ locks' = {lk \in locks : lk.tx # q}
    BY <1>1 DEF RowsTyped, End, Goto
  <1>3. pc[q] \notin {"issued", "done"}
    BY <1>1 DEF Sound, Tx, FinishTyped, RevokeTyped, Consumed
  <1>4. OnlyMoves(q)
    BY <1>2, <1>3 DEF OnlyMoves
  <1>5. RowsTyped'
    BY <1>1, <1>2 DEF RowsTyped
  <1>6. LocksOK'
    <2>1. Spare' >= 0
      BY <1>1, <1>2, SpareKept DEF LocksOK, Outside
    <2>2. \A lk \in locks' : pc'[lk.tx] \notin Outside
      BY <1>1, <1>2 DEF LocksOK, RowsTyped, Request
    <2> QED
      BY <1>1, <1>2, <2>1, <2>2 DEF LocksOK
  <1>7. Sound(q)'
    <2>1. CASE q \in Finish
      <3>1. \A x : [tx |-> q, on |-> x] \notin locks'
        BY <1>2
      <3>2. FinishTyped(q)' /\ AnswerOK(q)' /\ AccountOK(q)'
        BY <1>2, <3>1 DEF FinishTyped, AnswerOK, AccountOK, Consumed, Holds
      <3> QED
        BY <1>4, <2>1, <3>2, RegistrationAssumption DEF Sound
    <2>2. CASE q \in Revoke
      BY <1>2, <2>2, RegistrationAssumption DEF Sound, RevokeTyped, RevokeOK
    <2> QED
      BY <2>1, <2>2 DEF Tx
  <1> QED
    BY <1>1, <1>4, <1>5, <1>6, <1>7, OthersKept

LEMMA Stopped ==
  ASSUME AccountsInv, NEW q \in Tx, pc[q] \notin {"idle", "done"}, Stop(q)
  PROVE  AccountsInv'
  <1>1. End(q) /\ UNCHANGED <<enabled, pool, rows>>
    BY DEF Stop
  <1>2. RowsTyped /\ Sound(q)
    BY Facts DEF Request, Tx
  <1>3. RowsKept(q)
    BY <1>1 DEF rows, RowsKept, UsersKept, PendKept, ChalKept, KeysKept
  <1>4. KeysOwned' /\ RegisteredOnce' /\ AdminExists'
    BY <1>1, Facts DEF rows, KeysOwned, RegisteredOnce, AdminExists, Accounts
  <1>5. q \in Finish => PasskeyOK(q)'
    BY <1>1, <1>2 DEF Sound, PasskeyOK, rows
  <1> QED
    BY <1>1, <1>2, <1>3, <1>4, <1>5, Ended DEF rows, RowsTyped

------------------------------------------------------------------------------
(* Starting and verifying *)

LEMMA StartStep ==
  ASSUME AccountsInv, NEW t \in Token,
         StartRegistration(t) \/ EmailRegistered(t) \/ StartRecovery(t)
  PROVE  AccountsInv'
  <1>1. RowsTyped /\ StartTyped(t) /\ StartOK(t) /\ t \in Request /\ t \notin Tx \cup Verify
    BY Facts, RegistrationAssumption DEF Sound, Request, Tx
  <1>2. PICK label \in {"email", "insert", "done"} : Goto(t, label)
    BY DEF StartRegistration, EmailRegistered, StartRecovery
  <1>3. /\ pc[t] \in {"idle", "email"} /\ UNCHANGED <<enabled, pool, rows, locks>>
        /\ DOMAIN job' = Request /\ \A e \in Request \ {t} : job'[e] = job[e]
        /\ label # "done" => job'[t] \in Email
    BY <1>1, <1>2 DEF StartRegistration, EmailRegistered, StartRecovery, RowsTyped, StartTyped,
                      Accounts, Goto
  <1>4. ASSUME pc'[t] = label PROVE Sound(t)'
    <2>1. StartTyped(t)' /\ StartOK(t)'
      BY <1>1, <1>2, <1>3, <1>4 DEF StartTyped, StartOK, rows
    <2> QED
      BY <1>1, <2>1 DEF Sound, Tx
  <1>5. Blockers(t, {}) = {} /\ locks' = locks \cup {[tx |-> t, on |-> x] : x \in {}}
    BY <1>3 DEF Blockers
  <1> QED
    BY <1>1, <1>2, <1>3, <1>4, <1>5, Walked DEF RowsTyped

LEMMA CreatePendingStep ==
  ASSUME AccountsInv, NEW t \in Token, CreatePending(t)
  PROVE  AccountsInv'
  <1>1. /\ pc[t] = "insert" /\ Goto(t, "done") /\ job' = [job EXCEPT ![t] = None]
        /\ UNCHANGED <<enabled, pool, users, chal, key, locks>>
    BY DEF CreatePending
  <1>2. /\ RowsTyped /\ LocksOK /\ StartTyped(t) /\ StartOK(t)
        /\ t \in Request /\ t \notin Tx \cup Verify
    BY Facts, RegistrationAssumption DEF Sound, Request, Tx
  <1>3. PICK e \in Email : e = job[t]
    BY <1>1, <1>2 DEF StartTyped
  <1>4. pend' = [pend EXCEPT ![t] = [email |-> e, live |-> TRUE]] /\ pend[t] = None
    BY <1>1, <1>2, <1>3 DEF CreatePending, StartOK
  <1>5. /\ pc'[t] = "done" /\ DOMAIN pc' = Request /\ DOMAIN job' = Request
        /\ \A x \in Request \ {t} : pc'[x] = pc[x] /\ job'[x] = job[x]
    BY <1>1, <1>2 DEF RowsTyped, Goto
  <1>6. OnlyMoves(t)
    BY <1>1, <1>5 DEF OnlyMoves
  <1>7. RowsKept(t)
    BY <1>1, <1>2, <1>4 DEF RowsKept, UsersKept, PendKept, ChalKept, KeysKept, RowsTyped
  <1>8. RowsTyped'
    <2>1. pend' \in [Token -> PendRow \cup {None}]
      BY <1>2, <1>4 DEF RowsTyped, PendRow
    <2> QED
      BY <1>1, <1>2, <1>5, <2>1 DEF RowsTyped
  <1>9. LocksOK'
    <2>1. Spare' >= 0
      BY <1>1, <1>2, <1>5, SpareKept DEF LocksOK
    <2>2. \A lk \in locks : lk.tx \in Request \ {t}
      BY <1>2 DEF RowsTyped, Request
    <2> QED
      BY <1>1, <1>2, <1>5, <2>1, <2>2 DEF LocksOK
  <1>10. Sound(t)'
    BY <1>2, <1>5 DEF Sound, StartTyped, StartOK, Tx
  <1>11. KeysOwned' /\ RegisteredOnce' /\ AdminExists'
    BY <1>1, Facts DEF KeysOwned, RegisteredOnce, AdminExists, Accounts
  <1> QED
    BY <1>6, <1>7, <1>8, <1>9, <1>10, <1>11, OthersKept

\* What happens to no request: the setting changes, a token expires.
LEMMA UnaskedStep ==
  ASSUME AccountsInv, Toggle \/ \E t \in Token : Expire(t)
  PROVE  AccountsInv'
  <1>1. /\ UNCHANGED <<pool, users, chal, key, locks, pc, job>> /\ enabled' \in BOOLEAN
        /\ \/ pend' = pend
           \/ \E t \in Token : pend[t] # None /\ pend' = [pend EXCEPT ![t].live = FALSE]
    BY Facts DEF Toggle, Expire, rows, RowsTyped
  <1>2. RowsTyped /\ LocksOK /\ None \notin Request
    BY Facts, RegistrationAssumption DEF Request, Tx
  <1>3. /\ pend' \in [Token -> PendRow \cup {None}]
        /\ \A t \in Token : pend'[t] # pend[t] =>
              pend[t] # None /\ pend'[t] # None /\ pend'[t].email = pend[t].email
    <2>1. CASE pend' = pend
      BY <1>2, <2>1 DEF RowsTyped
    <2>2. CASE pend' # pend
      <3>1. PICK t \in Token : pend[t] # None /\ pend' = [pend EXCEPT ![t].live = FALSE]
        BY <1>1, <2>2
      <3>2. pend[t] \in [email : Email, live : BOOLEAN]
        BY <1>2, <3>1 DEF RowsTyped, PendRow
      <3>3. PICK new : new = [pend[t] EXCEPT !.live = FALSE]
        OBVIOUS
      <3>4. new \in PendRow /\ new.email = pend[t].email
        BY <3>2, <3>3 DEF PendRow
      <3>5. pend' = [pend EXCEPT ![t] = new] /\ new # None
        BY <1>2, <3>1, <3>3, <3>4, NoneAssumption DEF RowsTyped
      <3> QED
        BY <1>2, <3>1, <3>4, <3>5 DEF RowsTyped
    <2> QED
      BY <1>1, <2>1, <2>2
  <1>4. OnlyMoves(None)
    BY <1>1, <1>2 DEF OnlyMoves, RowsTyped
  <1>5. RowsKept(None)
    BY <1>1, <1>3 DEF RowsKept, UsersKept, PendKept, ChalKept, KeysKept
  <1>6. RowsTyped' /\ LocksOK'
    BY <1>1, <1>2, <1>3 DEF RowsTyped, LocksOK, Spare, Connected
  <1>7. KeysOwned' /\ RegisteredOnce' /\ AdminExists'
    BY <1>1, Facts DEF KeysOwned, RegisteredOnce, AdminExists, Accounts
  <1> QED
    BY <1>2, <1>4, <1>5, <1>6, <1>7, OthersKept

LEMMA LookupTokenStep ==
  ASSUME AccountsInv, NEW v \in Verify, LookupToken(v)
  PROVE  AccountsInv'
  <1>1. /\ pc[v] = "idle" /\ Goto(v, "save") /\ UNCHANGED <<enabled, pool, rows, locks>>
    BY DEF LookupToken
  <1>2. PICK t \in Token, p \in Purpose :
          /\ pend[t] # None
          /\ p = "recovery" => pend[t].email \in Accounts
          /\ job' = [job EXCEPT ![v] = [token |-> t, purpose |-> p]]
    BY DEF LookupToken
  <1>3. /\ RowsTyped /\ VerifyOK(v) /\ StartOK(t) /\ t # v
        /\ v \in Request /\ v \notin Tx \cup Token
    BY Facts, RegistrationAssumption DEF Sound, Request, Tx
  <1>4. /\ job'[v] \in Challenge /\ job'[v].token = t /\ job'[v].purpose = p
        /\ DOMAIN job' = Request /\ \A e \in Request \ {v} : job'[e] = job[e]
    BY <1>2, <1>3 DEF RowsTyped, Challenge
  <1>5. ASSUME OnlyMoves(v), pc'[v] = "save" PROVE Sound(v)'
    <2>1. pc'[t] = "done"
      BY <1>2, <1>3, <1>5 DEF StartOK, OnlyMoves, Request
    <2>2. v \notin chal
      BY <1>1, <1>3 DEF VerifyOK
    <2>3. VerifyTyped(v)'
      BY <1>4, <1>5 DEF VerifyTyped
    <2>4. VerifyOK(v)'
      BY <1>1, <1>2, <1>4, <1>5, <2>1, <2>2 DEF VerifyOK, rows, Accounts
    <2> QED
      BY <1>3, <2>3, <2>4 DEF Sound, Tx
  <1>6. Blockers(v, {}) = {} /\ locks' = locks \cup {[tx |-> v, on |-> x] : x \in {}}
    BY <1>1 DEF Blockers
  <1> QED
    BY <1>1, <1>3, <1>4, <1>5, <1>6, Walked DEF RowsTyped

LEMMA SaveChallengeStep ==
  ASSUME AccountsInv, NEW v \in Verify, SaveChallenge(v)
  PROVE  AccountsInv'
  <1>1. /\ pc[v] = "save" /\ UNCHANGED <<enabled, pool, users, pend, key, locks>>
    BY DEF SaveChallenge
  <1>2. /\ RowsTyped /\ LocksOK /\ VerifyTyped(v) /\ VerifyOK(v)
        /\ v \in Request /\ v \notin Tx \cup Token
    BY Facts, RegistrationAssumption DEF Sound, Request, Tx
  <1>3. PICK t \in Token : t = job[v].token
    BY <1>1, <1>2 DEF VerifyTyped, Challenge
  <1>4. v \notin chal
    BY <1>1, <1>2 DEF VerifyOK
  <1>5. CASE pend[t] = None
    <2>1. Goto(v, "done") /\ job' = [job EXCEPT ![v] = None] /\ chal' = chal
      BY <1>3, <1>5 DEF SaveChallenge
    <2>2. ASSUME pc'[v] = "done" PROVE Sound(v)'
      BY <1>2, <1>4, <2>1, <2>2 DEF Sound, VerifyTyped, VerifyOK, Tx
    <2>3. Blockers(v, {}) = {} /\ locks' = locks \cup {[tx |-> v, on |-> x] : x \in {}}
      BY <1>1 DEF Blockers
    <2>4. DOMAIN job' = Request /\ \A e \in Request \ {v} : job'[e] = job[e]
      BY <1>2, <2>1 DEF RowsTyped
    <2> QED
      BY <1>1, <1>2, <2>1, <2>2, <2>3, <2>4, Walked DEF RowsTyped, rows
  <1>6. CASE pend[t] # None
    <2>1. chal' = chal \cup {v} /\ Goto(v, "issued") /\ job' = job
      BY <1>3, <1>6 DEF SaveChallenge
    <2>2. \A lk \in locks : lk.on # t
      BY <1>2, <1>3 DEF SaveChallenge, Blockers, RowsTyped
    <2>3. pc'[v] = "issued" /\ DOMAIN pc' = Request /\ \A e \in Request \ {v} : pc'[e] = pc[e]
      BY <1>2, <2>1 DEF RowsTyped, Goto
    <2>4. OnlyMoves(v)
      BY <1>1, <1>2, <2>1, <2>3 DEF OnlyMoves, RowsTyped
    <2>5. RowsKept(v)
      BY <1>1, <1>3, <2>1, <2>2 DEF RowsKept, UsersKept, PendKept, ChalKept, KeysKept
    <2>6. RowsTyped'
      BY <1>1, <1>2, <2>1, <2>3 DEF RowsTyped
    <2>7. LocksOK'
      <3>1. Spare' >= 0
        BY <1>1, <1>2, <2>3, SpareKept DEF LocksOK
      <3>2. \A lk \in locks : lk.tx \in Request \ {v}
        BY <1>2 DEF RowsTyped, Request
      <3> QED
        BY <1>1, <1>2, <2>3, <3>1, <3>2 DEF LocksOK
    <2>8. Sound(v)'
      <3>1. pc'[t] = "done"
        BY <1>1, <1>2, <1>3, <2>4 DEF VerifyOK, OnlyMoves, Request
      <3>2. VerifyTyped(v)' /\ VerifyOK(v)'
        BY <1>1, <1>2, <1>3, <1>6, <2>1, <2>3, <3>1 DEF VerifyTyped, VerifyOK, Accounts
      <3> QED
        BY <1>2, <3>2 DEF Sound, Tx
    <2>9. KeysOwned' /\ RegisteredOnce' /\ AdminExists'
      BY <1>1, Facts DEF KeysOwned, RegisteredOnce, AdminExists, Accounts
    <2> QED
      BY <2>4, <2>5, <2>6, <2>7, <2>8, <2>9, OthersKept
  <1> QED
    BY <1>5, <1>6

------------------------------------------------------------------------------
(* Finishing *)

LEMMA PostStep ==
  ASSUME AccountsInv, NEW f \in Finish, Post(f)
  PROVE  AccountsInv'
  <1>1. /\ pc[f] = "idle" /\ Goto(f, "begin") /\ UNCHANGED <<enabled, pool, rows, locks>>
    BY DEF Post
  <1>2. PICK v \in Verify, late \in BOOLEAN :
          /\ pc[v] = "issued"
          /\ job' = [job EXCEPT ![f] = [answer |-> v, returned |-> None, email |-> None,
                                        promote |-> FALSE, late |-> late]]
    BY DEF Post
  <1>3. /\ RowsTyped /\ LocksOK /\ AnswerOK(f) /\ PasskeyOK(f)
        /\ f \in Request /\ f \notin Token \cup Verify \cup Revoke
    BY Facts, RegistrationAssumption DEF Sound, Request, Tx
  <1>4. /\ job'[f] \in Ceremony /\ job'[f].answer = v
        /\ DOMAIN job' = Request /\ \A e \in Request \ {f} : job'[e] = job[e]
    BY <1>2, <1>3 DEF RowsTyped, Ceremony
  <1>5. ASSUME OnlyMoves(f), pc'[f] = "begin" PROVE Sound(f)'
    <2>1. pc'[v] = "issued"
      BY <1>2, <1>5 DEF OnlyMoves, Request
    <2>2. \A x : ~Holds(f, x) /\ ~Holds(f, x)'
      BY <1>1, <1>3 DEF LocksOK, Holds, Outside
    <2>3. FinishTyped(f)' /\ AccountOK(f)'
      BY <1>4, <1>5 DEF FinishTyped, AccountOK, Consumed
    <2>4. AnswerOK(f)'
      BY <1>4, <1>5, <2>1, <2>2 DEF AnswerOK, Consumed
    <2>5. PasskeyOK(f)'
      BY <1>1, <1>3, <1>5 DEF PasskeyOK, rows
    <2> QED
      BY <1>3, <2>3, <2>4, <2>5 DEF Sound
  <1>6. Blockers(f, {}) = {} /\ locks' = locks \cup {[tx |-> f, on |-> x] : x \in {}}
    BY <1>1 DEF Blockers
  <1> QED
    BY <1>1, <1>3, <1>4, <1>5, <1>6, Walked DEF RowsTyped, Outside

LEMMA BeginStep ==
  ASSUME AccountsInv, NEW f \in Finish, Begin(f)
  PROVE  AccountsInv'
  <1>1. /\ pc[f] = "begin" /\ Spare > 0 /\ Goto(f, "consume")
        /\ UNCHANGED <<enabled, pool, rows, locks, job>>
    BY DEF Begin
  <1>2. /\ RowsTyped /\ FinishTyped(f) /\ AnswerOK(f) /\ AccountOK(f) /\ PasskeyOK(f)
        /\ f \in Request /\ f \notin Token \cup Verify \cup Revoke
    BY Facts, RegistrationAssumption DEF Sound, Request, Tx
  <1>3. ASSUME OnlyMoves(f), pc'[f] = "consume" PROVE Sound(f)'
    <2>1. TokenOf(f)' = TokenOf(f) /\ pc'[job'[f].answer] = "issued"
      BY <1>1, <1>3, CeremonyStays
    <2>2. FinishTyped(f)' /\ AccountOK(f)'
      BY <1>1, <1>2, <1>3 DEF FinishTyped, AccountOK, Consumed
    <2>3. AnswerOK(f)'
      <3>1. \A v \in Verify : Holds(f, v)' => v \in chal' /\ job'[v].token = TokenOf(f)'
        BY <1>1, <1>2, <2>1 DEF AnswerOK, Holds, rows
      <3> QED
        BY <1>3, <2>1, <3>1 DEF AnswerOK, Consumed
    <2>4. PasskeyOK(f)'
      BY <1>1, <1>2, <1>3 DEF PasskeyOK, rows, OnlyMoves, Request
    <2> QED
      BY <1>2, <2>2, <2>3, <2>4 DEF Sound
  <1>4. Blockers(f, {}) = {} /\ locks' = locks \cup {[tx |-> f, on |-> x] : x \in {}}
    BY <1>1 DEF Blockers
  <1> QED
    BY <1>1, <1>2, <1>3, <1>4, Walked DEF RowsTyped, Outside

LEMMA ConsumeStep ==
  ASSUME AccountsInv, NEW f \in Finish, Consume(f)
  PROVE  AccountsInv'
  <1>1. pc[f] = "consume" /\ Blockers(f, Matches(f)) = {}
    BY DEF Consume
  <1>2. /\ RowsTyped /\ FinishTyped(f) /\ AnswerOK(f) /\ PasskeyOK(f) /\ job[f] \in Ceremony
        /\ f \in Request /\ f \notin Token \cup Verify \cup Revoke
    BY <1>1, Facts, RegistrationAssumption DEF Sound, Request, Tx, FinishTyped
  <1>3. CASE Matches(f) = {}
    BY <1>1, <1>3, Stopped DEF Consume, Tx
  <1>4. CASE Matches(f) # {}
    <2>1. PICK v \in Matches(f) : job' = [job EXCEPT ![f].returned = v]
      BY <1>4 DEF Consume
    <2>2. Lock(f, Matches(f)) /\ Goto(f, "lookup") /\ UNCHANGED <<enabled, pool, rows>>
      BY <1>4 DEF Consume
    <2>3. PICK S : S = Matches(f)
      OBVIOUS
    <2>4. \A x \in S : x \in chal /\ x \in Verify /\ job[x].token = TokenOf(f)
      BY <1>2, <2>3 DEF Matches, RowsTyped
    <2>5. /\ job'[f] \in Ceremony /\ job'[f].answer = job[f].answer /\ job'[f].returned = v
          /\ DOMAIN job' = Request /\ \A e \in Request \ {f} : job'[e] = job[e]
      <3>1. v \in Verify
        BY <2>1, <2>3, <2>4
      <3> QED
        BY <1>2, <2>1, <3>1 DEF RowsTyped, Ceremony
    <2>6. ASSUME OnlyMoves(f), pc'[f] = "lookup",
                 \A x : [tx |-> f, on |-> x] \in locks' <=> Holds(f, x) \/ x \in S
          PROVE  Sound(f)'
      <3>1. TokenOf(f)' = TokenOf(f) /\ pc'[job'[f].answer] = "issued"
        BY <1>1, <2>5, <2>6, CeremonyStays
      <3>2. FinishTyped(f)' /\ AccountOK(f)'
        BY <2>5, <2>6 DEF FinishTyped, AccountOK, Consumed
      <3>3. \A x \in Verify : Holds(f, x)' => x \in chal' /\ job'[x].token = TokenOf(f)'
        BY <1>2, <2>2, <2>4, <2>5, <2>6, <3>1 DEF AnswerOK, Holds, rows, Request
      <3>4. v \in chal' /\ [tx |-> f, on |-> v] \in locks'
        BY <2>1, <2>2, <2>3, <2>4, <2>6 DEF rows
      <3>5. AnswerOK(f)'
        BY <2>5, <2>6, <3>1, <3>3, <3>4 DEF AnswerOK, Mine, Consumed
      <3>6. PasskeyOK(f)'
        BY <1>1, <1>2, <2>2, <2>6 DEF PasskeyOK, rows, OnlyMoves, Request
      <3> QED
        BY <1>2, <3>2, <3>5, <3>6 DEF Sound
    <2>7. /\ S \in SUBSET (Email \cup Token \cup Verify \cup Passkey) /\ Blockers(f, S) = {}
          /\ locks' = locks \cup {[tx |-> f, on |-> x] : x \in S}
      BY <1>1, <2>2, <2>3, <2>4 DEF Lock
    <2> QED
      BY <1>1, <1>2, <2>2, <2>5, <2>6, <2>7, Walked DEF RowsTyped, Outside, Tx
  <1> QED
    BY <1>3, <1>4

\* A ceremony that has its challenges and locks the rows of S: it still holds
\* them, and still goes by its token.
LEMMA AnswerStays ==
  ASSUME AccountsInv, NEW f \in Finish, pc[f] \in Consumed, pc'[f] \in Consumed, OnlyMoves(f),
         UNCHANGED rows, job'[f].answer = job[f].answer, job'[f].returned = job[f].returned,
         NEW S, S \cap Verify = {},
         \A x : [tx |-> f, on |-> x] \in locks' <=> Holds(f, x) \/ x \in S,
         pc'[f] \in {"refs", "commit"} => pc[f] \in {"refs", "commit"} \/ TokenOf(f) \in S,
         pc'[f] = "commit" => Leftover(f) = {}
  PROVE  AnswerOK(f)' /\ PasskeyOK(f)'
  <1>1. /\ TokenOf(f)' = TokenOf(f) /\ PurposeOf(f)' = PurposeOf(f)
        /\ pc'[job'[f].answer] = "issued"
    BY CeremonyStays
  <1>2. RowsTyped /\ AnswerOK(f) /\ PasskeyOK(f)
    BY Facts DEF Sound, Request, Tx
  <1>3. PICK t \in Token : t = TokenOf(f)
    BY CeremonyIs
  <1>4. \A v \in Verify : [tx |-> f, on |-> v] \in locks' <=> Holds(f, v)
    OBVIOUS
  <1>5. chal' = chal /\ \A v \in chal : job'[v] = job[v]
    BY <1>2, Facts DEF rows, OnlyMoves, Sound, VerifyOK, Request, RowsTyped
  <1>6. \A v \in Verify : Holds(f, v)' => v \in chal' /\ job'[v].token = TokenOf(f)'
    BY <1>1, <1>2, <1>4, <1>5 DEF AnswerOK, Holds
  <1>7. job'[f].returned \in Mine(f)'
    <2>1. job[f].returned \in Verify /\ job[f].returned \in chal /\ Holds(f, job[f].returned)
      BY ReturnedIs
    <2> QED
      BY <1>4, <1>5, <2>1 DEF Mine
  <1>8. pc'[f] \in {"refs", "commit"} => Holds(f, TokenOf(f))'
    <2>1. pc'[f] \in {"refs", "commit"} => Holds(f, t) \/ t \in S
      BY <1>2, <1>3 DEF AnswerOK
    <2> QED
      BY <1>1, <1>3, <2>1 DEF Holds
  <1>9. pc'[f] = "commit" => Leftover(f)' = {}
    <2>1. Mine(f)' = Mine(f)
      BY <1>2, <1>4, <1>5 DEF Mine, Holds, RowsTyped
    <2>2. Leftover(f)' = Leftover(f)
      BY <1>1, <1>5, <2>1 DEF Leftover
    <2> QED
      BY <2>2
  <1>10. AnswerOK(f)'
    BY <1>1, <1>6, <1>7, <1>8, <1>9 DEF AnswerOK
  <1>11. PasskeyOK(f)'
    BY <1>2 DEF PasskeyOK, rows, OnlyMoves, Request, Consumed
  <1> QED
    BY <1>10, <1>11

\* The row of its token has an address, which is its address.
LEMMA EmailIs ==
  ASSUME AccountsInv, NEW f \in Finish, pc[f] \in Consumed \ {"lookup"}
  PROVE  EmailOf(f) \in Email /\ EmailOf(f) = pend[TokenOf(f)].email
  <1>1. AccountOK(f)
    BY Facts DEF Sound, Request, Tx
  <1>2. pend[TokenOf(f)].email \in Email
    BY ReturnedIs DEF PendRow
  <1> QED
    BY <1>1, <1>2 DEF AccountOK

LEMMA LookupStep ==
  ASSUME AccountsInv, NEW f \in Finish, Lookup(f)
  PROVE  AccountsInv'
  <1>1. pc[f] = "lookup" /\ pc[f] \in Consumed
    BY DEF Lookup, Consumed
  <1>2. /\ RowsTyped /\ job[f] \in Ceremony /\ f \in Request /\ f \notin Token \cup Verify \cup Revoke
    BY <1>1, Facts, CeremonyIs, RegistrationAssumption DEF Request, Tx
  <1>3. CASE Stop(f)
    BY <1>1, <1>3, Stopped DEF Tx
  <1>4. CASE ~Stop(f)
    <2>1. PICK t \in Token : t = TokenOf(f) /\ pend[t] \in PendRow
      BY <1>1, CeremonyIs, ReturnedIs
    <2>2. PICK e \in Email : e = pend[t].email
      BY <2>1 DEF PendRow
    <2>3. /\ job' = [job EXCEPT ![f].email = e] /\ UNCHANGED <<enabled, pool, rows, locks>>
          /\ Goto(f, IF PurposeOf(f) = "registration" THEN "count" ELSE "pending")
      BY <1>4, <2>1, <2>2 DEF Lookup
    <2>4. PICK label : label = IF PurposeOf(f) = "registration" THEN "count" ELSE "pending"
      OBVIOUS
    <2>5. /\ job'[f] \in Ceremony /\ job'[f].email = e /\ job'[f].answer = job[f].answer
          /\ job'[f].returned = job[f].returned
          /\ DOMAIN job' = Request /\ \A x \in Request \ {f} : job'[x] = job[x]
      BY <1>2, <2>3 DEF RowsTyped, Ceremony
    <2>6. ASSUME OnlyMoves(f), pc'[f] = label,
                 \A x : [tx |-> f, on |-> x] \in locks' <=> Holds(f, x) \/ x \in {}
          PROVE  Sound(f)'
      <3>1. TokenOf(f)' = t /\ PurposeOf(f)' = PurposeOf(f) /\ EmailOf(f)' = e
        BY <1>1, <2>1, <2>5, <2>6, CeremonyStays DEF EmailOf
      <3>2. AnswerOK(f)' /\ PasskeyOK(f)'
        <4>1. {} \cap Verify = {} /\ pc'[f] \in Consumed \ {"refs", "commit"}
          BY <2>4, <2>6 DEF Consumed
        <4> QED
          BY <1>1, <2>3, <2>5, <2>6, <4>1, AnswerStays
      <3>3. FinishTyped(f)'
        BY <2>4, <2>5, <2>6, <3>1 DEF FinishTyped, Consumed
      <3>4. AccountOK(f)'
        BY <1>1, <2>2, <2>3, <2>4, <2>6, <3>1 DEF AccountOK, rows
      <3> QED
        BY <1>2, <3>2, <3>3, <3>4 DEF Sound
    <2>7. Blockers(f, {}) = {} /\ locks' = locks \cup {[tx |-> f, on |-> x] : x \in {}}
      BY <2>3 DEF Blockers
    <2>8. label \notin Outside /\ pc[f] \notin Outside \cup {"issued"}
      BY <1>1, <2>4 DEF Outside
    <2> QED
      BY <1>2, <2>3, <2>4, <2>5, <2>6, <2>7, <2>8, Walked DEF RowsTyped, Outside
  <1> QED
    BY <1>3, <1>4

LEMMA CountStep ==
  ASSUME AccountsInv, NEW f \in Finish, Count(f)
  PROVE  AccountsInv'
  <1>1. /\ pc[f] = "count" /\ pc[f] \in Consumed /\ Goto(f, "create")
        /\ UNCHANGED <<enabled, pool, rows, locks>>
    BY DEF Count, Consumed
  <1>2. /\ RowsTyped /\ job[f] \in Ceremony /\ AccountOK(f)
        /\ f \in Request /\ f \notin Token \cup Verify \cup Revoke
    BY <1>1, Facts, CeremonyIs, RegistrationAssumption DEF Sound, Request, Tx
  <1>3. PICK p \in BOOLEAN : p = Promoted(f) /\ job' = [job EXCEPT ![f].promote = p]
    BY DEF Count, Promoted
  <1>4. /\ job'[f] \in Ceremony /\ job'[f].email = job[f].email /\ job'[f].answer = job[f].answer
        /\ job'[f].returned = job[f].returned /\ job'[f].promote = p
        /\ DOMAIN job' = Request /\ \A x \in Request \ {f} : job'[x] = job[x]
    BY <1>2, <1>3 DEF RowsTyped, Ceremony
  <1>5. ASSUME OnlyMoves(f), pc'[f] = "create",
               \A x : [tx |-> f, on |-> x] \in locks' <=> Holds(f, x) \/ x \in {}
        PROVE  Sound(f)'
    <2>1. TokenOf(f)' = TokenOf(f) /\ PurposeOf(f)' = PurposeOf(f) /\ EmailOf(f)' = EmailOf(f)
      BY <1>1, <1>4, <1>5, CeremonyStays DEF EmailOf
    <2>2. AnswerOK(f)' /\ PasskeyOK(f)'
      <3>1. {} \cap Verify = {} /\ pc'[f] \in Consumed \ {"refs", "commit"}
        BY <1>5 DEF Consumed
      <3> QED
        BY <1>1, <1>4, <1>5, <3>1, AnswerStays
    <2>3. FinishTyped(f)'
      BY <1>4, <1>5 DEF FinishTyped, Consumed
    <2>4. AccountOK(f)'
      <3>1. EmailOf(f)' = pend'[TokenOf(f)'].email /\ PurposeOf(f)' = "registration"
        BY <1>1, <1>2, <2>1 DEF AccountOK, rows
      <3>2. Accounts' # {} \/ job'[f].promote
        BY <1>1, <1>3, <1>4 DEF Promoted, Accounts, rows
      <3> QED
        BY <1>5, <3>1, <3>2 DEF AccountOK
    <2> QED
      BY <1>2, <2>2, <2>3, <2>4 DEF Sound
  <1>6. Blockers(f, {}) = {} /\ locks' = locks \cup {[tx |-> f, on |-> x] : x \in {}}
    BY <1>1 DEF Blockers
  <1> QED
    BY <1>1, <1>2, <1>4, <1>5, <1>6, Walked DEF RowsTyped, Outside

LEMMA CreateUserStep ==
  ASSUME AccountsInv, NEW f \in Finish, CreateUser(f)
  PROVE  AccountsInv'
  <1>1. pc[f] = "create" /\ pc[f] \in Consumed /\ Blockers(f, {EmailOf(f)}) = {}
    BY DEF CreateUser, Consumed
  <1>2. /\ RowsTyped /\ job[f] \in Ceremony /\ AccountOK(f)
        /\ f \in Request /\ f \notin Token \cup Verify \cup Revoke
    BY <1>1, Facts, CeremonyIs, RegistrationAssumption DEF Sound, Request, Tx
  <1>3. PICK e \in Email : e = EmailOf(f)
    BY <1>1, EmailIs
  <1>4. CASE e \in Accounts
    BY <1>1, <1>3, <1>4, Stopped DEF CreateUser, Tx
  <1>5. CASE e \notin Accounts
    <2>1. /\ Lock(f, {e}) /\ Goto(f, "pending") /\ UNCHANGED <<enabled, pool, rows, job>>
      BY <1>3, <1>5 DEF CreateUser
    <2>2. e \notin Verify
      BY RegistrationAssumption
    <2>3. ASSUME OnlyMoves(f), pc'[f] = "pending",
                 \A x : [tx |-> f, on |-> x] \in locks' <=> Holds(f, x) \/ x \in {e}
          PROVE  Sound(f)'
      <3>1. TokenOf(f)' = TokenOf(f) /\ PurposeOf(f)' = PurposeOf(f) /\ EmailOf(f)' = e
        BY <1>1, <1>3, <2>1, <2>3, CeremonyStays DEF EmailOf
      <3>2. AnswerOK(f)' /\ PasskeyOK(f)'
        BY <1>1, <2>1, <2>2, <2>3, AnswerStays DEF Consumed
      <3>3. FinishTyped(f)'
        BY <1>2, <2>1, <2>3, <3>1 DEF FinishTyped, Consumed
      <3>4. AccountOK(f)'
        BY <1>1, <1>2, <1>3, <1>5, <2>1, <2>3, <3>1 DEF AccountOK, rows, Accounts, Holds, Consumed
      <3> QED
        BY <1>2, <3>2, <3>3, <3>4 DEF Sound
    <2>4. Blockers(f, {e}) = {} /\ locks' = locks \cup {[tx |-> f, on |-> x] : x \in {e}}
      BY <1>1, <1>3, <2>1 DEF Lock
    <2> QED
      BY <1>1, <1>2, <2>1, <2>3, <2>4, Walked DEF RowsTyped, Outside, Tx
  <1> QED
    BY <1>4, <1>5

LEMMA DeletePendingStep ==
  ASSUME AccountsInv, NEW f \in Finish, DeletePending(f)
  PROVE  AccountsInv'
  <1>1. /\ pc[f] = "pending" /\ pc[f] \in Consumed /\ Blockers(f, {TokenOf(f)}) = {}
        /\ Lock(f, {TokenOf(f)}) /\ Goto(f, "refs") /\ UNCHANGED <<enabled, pool, rows, job>>
    BY DEF DeletePending, Consumed
  <1>2. /\ RowsTyped /\ job[f] \in Ceremony /\ AccountOK(f) /\ EmailOf(f) \in Email
        /\ f \in Request /\ f \notin Token \cup Verify \cup Revoke
    BY <1>1, Facts, CeremonyIs, EmailIs, RegistrationAssumption DEF Sound, Request, Tx
  <1>3. PICK t \in Token : t = TokenOf(f)
    BY <1>1, CeremonyIs
  <1>4. t \notin Verify
    BY RegistrationAssumption
  <1>5. ASSUME OnlyMoves(f), pc'[f] = "refs",
               \A x : [tx |-> f, on |-> x] \in locks' <=> Holds(f, x) \/ x \in {t}
        PROVE  Sound(f)'
    <2>1. TokenOf(f)' = t /\ PurposeOf(f)' = PurposeOf(f) /\ EmailOf(f)' = EmailOf(f)
      BY <1>1, <1>3, <1>5, CeremonyStays DEF EmailOf
    <2>2. AnswerOK(f)' /\ PasskeyOK(f)'
      BY <1>1, <1>3, <1>4, <1>5, AnswerStays DEF Consumed
    <2>3. FinishTyped(f)'
      BY <1>1, <1>2, <1>5, <2>1 DEF FinishTyped, Consumed
    <2>4. AccountOK(f)'
      BY <1>1, <1>2, <1>3, <1>5, <2>1 DEF AccountOK, rows, Accounts, Holds, Consumed
    <2> QED
      BY <1>2, <2>2, <2>3, <2>4 DEF Sound
  <1>6. Blockers(f, {t}) = {} /\ locks' = locks \cup {[tx |-> f, on |-> x] : x \in {t}}
    BY <1>1, <1>3 DEF Lock
  <1> QED
    BY <1>1, <1>2, <1>5, <1>6, Walked DEF RowsTyped, Outside, Tx

LEMMA CheckReferencesStep ==
  ASSUME AccountsInv, NEW f \in Finish, CheckReferences(f)
  PROVE  AccountsInv'
  <1>1. pc[f] = "refs" /\ pc[f] \in Consumed
    BY DEF CheckReferences, Consumed
  <1>2. /\ RowsTyped /\ job[f] \in Ceremony /\ AccountOK(f) /\ EmailOf(f) \in Email
        /\ f \in Request /\ f \notin Token \cup Verify \cup Revoke
    BY <1>1, Facts, CeremonyIs, EmailIs, RegistrationAssumption DEF Sound, Request, Tx
  <1>3. CASE Stop(f)
    BY <1>1, <1>3, Stopped DEF Tx
  <1>4. CASE ~Stop(f)
    <2>1. /\ Leftover(f) = {} /\ Goto(f, "commit") /\ UNCHANGED <<enabled, pool, rows, locks, job>>
      BY <1>4 DEF CheckReferences
    <2>2. ASSUME OnlyMoves(f), pc'[f] = "commit",
                 \A x : [tx |-> f, on |-> x] \in locks' <=> Holds(f, x) \/ x \in {}
          PROVE  Sound(f)'
      <3>1. /\ TokenOf(f)' = TokenOf(f) /\ PurposeOf(f)' = PurposeOf(f)
            /\ EmailOf(f)' = EmailOf(f)
        BY <1>1, <2>1, <2>2, CeremonyStays DEF EmailOf
      <3>2. AnswerOK(f)' /\ PasskeyOK(f)'
        <4>1. {} \cap Verify = {} /\ pc'[f] \in Consumed
          BY <2>2 DEF Consumed
        <4> QED
          BY <1>1, <2>1, <2>2, <4>1, AnswerStays
      <3>3. FinishTyped(f)'
        BY <1>2, <2>1, <2>2, <3>1 DEF FinishTyped, Consumed
      <3>4. AccountOK(f)'
        BY <1>1, <1>2, <2>1, <2>2, <3>1 DEF AccountOK, rows, Accounts, Holds, Consumed
      <3> QED
        BY <1>2, <3>2, <3>3, <3>4 DEF Sound
    <2>3. Blockers(f, {}) = {} /\ locks' = locks \cup {[tx |-> f, on |-> x] : x \in {}}
      BY <2>1 DEF Blockers
    <2> QED
      BY <1>1, <1>2, <2>1, <2>2, <2>3, Walked DEF RowsTyped, Outside
  <1> QED
    BY <1>3, <1>4

\* What a ceremony commits, and what the invariant says of it.
LEMMA CommitIs ==
  ASSUME AccountsInv, NEW f \in Finish, Commit(f)
  PROVE  \E e \in Email, t \in Token, p \in Purpose :
           /\ pc[f] = "commit" /\ pc[t] = "done" /\ End(f) /\ UNCHANGED <<enabled, pool>>
           /\ key[f] = None /\ key' = [key EXCEPT ![f] = [email |-> e, by |-> p, token |-> t]]
           /\ pend[t] # None /\ pend' = [pend EXCEPT ![t] = None]
           /\ \A v \in chal : v \in chal' <=> ~Holds(f, v)
           /\ chal' \subseteq chal
           /\ \A v \in chal : Holds(f, v) <=> job[v].token = t
           /\ IF p = "registration"
              THEN /\ Holds(f, e) /\ e \notin Accounts
                   /\ \E role \in {"user", "admin"} :
                        /\ users' = [users EXCEPT ![e] = role]
                        /\ Accounts = {} => role = "admin"
              ELSE e \in Accounts /\ users' = users
  <1>1. pc[f] = "commit" /\ pc[f] \in Consumed /\ End(f) /\ UNCHANGED <<enabled, pool>>
    BY DEF Commit, Consumed
  <1>2. /\ RowsTyped /\ job[f] \in Ceremony /\ AccountOK(f) /\ AnswerOK(f) /\ PasskeyOK(f)
        /\ pc[TokenOf(f)] = "done" /\ pend[TokenOf(f)] \in PendRow
    BY <1>1, Facts, CeremonyIs, ReturnedIs DEF Sound, Request, Tx
  <1>3. PICK e \in Email, t \in Token, p \in Purpose :
          e = EmailOf(f) /\ t = TokenOf(f) /\ p = PurposeOf(f) /\ e = pend[t].email
    BY <1>1, CeremonyIs, EmailIs
  <1>4. /\ key[f] = None /\ key' = [key EXCEPT ![f] = [email |-> e, by |-> p, token |-> t]]
        /\ pend' = [pend EXCEPT ![t] = None] /\ chal' = chal \ Mine(f)
    BY <1>1, <1>2, <1>3 DEF Commit, PasskeyOK
  <1>5. pend[t] # None /\ pc[t] = "done"
    BY <1>2, <1>3, NoneAssumption
  <1>6. \A v \in chal : Holds(f, v) <=> job[v].token = t
    BY <1>1, <1>2, <1>3 DEF AnswerOK, Leftover, Mine, Holds, RowsTyped
  <1>7. chal' \subseteq chal /\ \A v \in chal : v \in chal' <=> ~Holds(f, v)
    BY <1>4 DEF Mine, Holds
  <1>8. CASE p = "registration"
    <2>1. PICK role \in {"user", "admin"} : role = IF job[f].promote THEN "admin" ELSE "user"
      OBVIOUS
    <2>2. users' = [users EXCEPT ![e] = role]
      BY <1>3, <1>8, <2>1 DEF Commit
    <2>3. Holds(f, e) /\ e \notin Accounts /\ (Accounts = {} => role = "admin")
      BY <1>1, <1>2, <1>3, <1>8, <2>1 DEF AccountOK
    <2> QED
      BY <1>1, <1>4, <1>5, <1>6, <1>7, <1>8, <2>2, <2>3
  <1>9. CASE p # "registration"
    <2>1. p = "recovery" /\ users' = users
      BY <1>3, <1>9 DEF Commit, Purpose
    <2>2. PICK v \in Verify : v = job[f].answer /\ pc[v] = "issued"
      BY <1>1, CeremonyIs
    <2>3. VerifyOK(v) /\ job[v].token = t /\ job[v].purpose = p
      BY <1>3, <2>2, Facts DEF Sound, Request, TokenOf, PurposeOf
    <2>4. e \in Accounts
      BY <1>3, <1>5, <2>1, <2>2, <2>3 DEF VerifyOK
    <2> QED
      BY <1>1, <1>4, <1>5, <1>6, <1>7, <1>9, <2>1, <2>4
  <1> QED
    BY <1>8, <1>9

LEMMA CommitStep ==
  ASSUME AccountsInv, NEW f \in Finish, Commit(f)
  PROVE  AccountsInv'
  <1>1. PICK e \in Email, t \in Token, p \in Purpose :
           /\ pc[f] = "commit" /\ pc[t] = "done" /\ End(f) /\ UNCHANGED <<enabled, pool>>
           /\ key[f] = None /\ key' = [key EXCEPT ![f] = [email |-> e, by |-> p, token |-> t]]
           /\ pend[t] # None /\ pend' = [pend EXCEPT ![t] = None]
           /\ \A v \in chal : v \in chal' <=> ~Holds(f, v)
           /\ chal' \subseteq chal
           /\ \A v \in chal : Holds(f, v) <=> job[v].token = t
           /\ IF p = "registration"
              THEN /\ Holds(f, e) /\ e \notin Accounts
                   /\ \E role \in {"user", "admin"} :
                        /\ users' = [users EXCEPT ![e] = role]
                        /\ Accounts = {} => role = "admin"
              ELSE e \in Accounts /\ users' = users
    BY CommitIs
  <1>2. RowsTyped /\ LocksOK /\ KeysOwned /\ RegisteredOnce /\ AdminExists /\ f \in Tx
    BY Facts DEF Tx
  <1>3. PICK new \in KeyRow : new = [email |-> e, by |-> p, token |-> t]
    BY DEF KeyRow
  <1>4. /\ key'[f] = new /\ new # None /\ new.email = e /\ new.by = p /\ new.token = t
        /\ \A x \in Passkey \ {f} : key'[x] = key[x]
        /\ key' \in [Passkey -> KeyRow \cup {None}]
    BY <1>1, <1>2, <1>3, NoneAssumption DEF RowsTyped, Passkey
  <1>5. /\ pend'[t] = None /\ \A s \in Token \ {t} : pend'[s] = pend[s]
        /\ pend' \in [Token -> PendRow \cup {None}]
    BY <1>1, <1>2 DEF RowsTyped
  <1>6. /\ users' \in [Email -> {"none", "user", "admin"}]
        /\ \A x \in Email \ {e} : users'[x] = users[x]
        /\ users'[e] # "none" /\ (users'[e] # users[e] => users[e] = "none" /\ Holds(f, e))
        /\ Accounts = {} => users'[e] = "admin"
    BY <1>1, <1>2 DEF RowsTyped, Accounts
  <1>7. chal' \subseteq Verify
    BY <1>1, <1>2 DEF RowsTyped
  <1>8. ASSUME OnlyMoves(f) PROVE RowsKept(f)
    <2>1. UsersKept(f)
      BY <1>2, <1>6 DEF UsersKept, LocksOK, Holds
    <2>2. \A v \in chal : job'[v] = job[v]
      BY <1>8, <1>2, Facts DEF OnlyMoves, Sound, VerifyOK, Request, RowsTyped
    <2>3. PendKept(f)
      BY <1>1, <1>5, <2>2 DEF PendKept
    <2>4. ChalKept(f) /\ KeysKept(f)
      BY <1>1, <1>4 DEF ChalKept, KeysKept
    <2> QED
      BY <2>1, <2>3, <2>4 DEF RowsKept
  <1>9. ASSUME OnlyMoves(f) PROVE PasskeyOK(f)'
    <2>1. pc'[f] = "done" /\ pc'[t] = "done"
      BY <1>1, <1>2, <1>9 DEF End, Goto, RowsTyped, OnlyMoves, Request, Tx
    <2> QED
      BY <1>4, <2>1 DEF PasskeyOK
  <1>10. KeysOwned'
    BY <1>2, <1>4, <1>6 DEF KeysOwned, Accounts
  <1>11. RegisteredOnce'
    <2>1. p = "registration" => \A g \in Finish : key[g] # None => key[g].email # e
      BY <1>1, <1>2 DEF KeysOwned, Passkey
    <2>2. \A g \in Finish \ {f} : key'[g] = key[g]
      BY <1>4 DEF Passkey
    <2> QED
      BY <1>2, <1>4, <2>1, <2>2 DEF RegisteredOnce
  <1>12. AdminExists'
    <2>1. CASE Accounts = {}
      BY <1>6, <2>1 DEF AdminExists
    <2>2. CASE Accounts # {}
      <3>1. PICK a \in Email : users[a] = "admin"
        BY <1>2, <2>2 DEF AdminExists
      <3>2. users'[a] = "admin"
        BY <1>6, <3>1
      <3> QED
        BY <3>2 DEF AdminExists
    <2> QED
      BY <2>1, <2>2
  <1> QED
    BY <1>1, <1>2, <1>4, <1>5, <1>6, <1>7, <1>8, <1>9, <1>10, <1>11, <1>12, Ended

------------------------------------------------------------------------------
(* Removing passkeys *)

LEMMA FindKeysStep ==
  ASSUME AccountsInv, NEW w \in Revoke, FindKeys(w)
  PROVE  AccountsInv'
  <1>1. /\ pc[w] = "idle" /\ Spare > 0 /\ Goto(w, "lock") /\ UNCHANGED <<enabled, pool, rows, locks>>
    BY DEF FindKeys
  <1>2. PICK e \in Email, k \in Passkey :
          job' = [job EXCEPT ![w] = [email |-> e, key |-> k, found |-> Keys(e)]]
    BY DEF FindKeys, Accounts
  <1>3. RowsTyped /\ w \in Request /\ w \notin Token \cup Verify \cup Finish
    BY Facts, RegistrationAssumption DEF Request, Tx
  <1>4. PICK S \in SUBSET Passkey : S = Keys(e)
    BY DEF Keys
  <1>5. /\ job'[w] = [email |-> e, key |-> k, found |-> S]
        /\ DOMAIN job' = Request /\ \A x \in Request \ {w} : job'[x] = job[x]
    BY <1>2, <1>3, <1>4 DEF RowsTyped
  <1>6. ASSUME OnlyMoves(w), pc'[w] = "lock" PROVE Sound(w)'
    <2>1. RevokeTyped(w)'
      BY <1>5, <1>6 DEF RevokeTyped, Removal
    <2>2. \A x \in S : (x \in Finish => pc'[x] = "done") /\ key'[x].email = e
      BY <1>1, <1>4, <1>6, Facts DEF Keys, rows, OnlyMoves, Sound, PasskeyOK, Request, Tx
    <2>3. RevokeOK(w)'
      BY <1>5, <1>6, <2>2 DEF RevokeOK
    <2> QED
      BY <1>3, <2>1, <2>3 DEF Sound
  <1>7. Blockers(w, {}) = {} /\ locks' = locks \cup {[tx |-> w, on |-> x] : x \in {}}
    BY <1>1 DEF Blockers
  <1> QED
    BY <1>1, <1>3, <1>5, <1>6, <1>7, Walked DEF RowsTyped, Outside

LEMMA LockKeysStep ==
  ASSUME AccountsInv, NEW w \in Revoke, LockKeys(w)
  PROVE  AccountsInv'
  <1>1. pc[w] = "lock" /\ Blockers(w, job[w].found) = {}
    BY DEF LockKeys
  <1>2. /\ RowsTyped /\ RevokeTyped(w) /\ RevokeOK(w)
        /\ w \in Request /\ w \in Tx /\ w \notin Token \cup Verify \cup Finish
    BY Facts, RegistrationAssumption DEF Sound, Request, Tx
  <1>3. PICK k \in Passkey, found \in SUBSET Passkey : k = job[w].key /\ found = job[w].found
    BY <1>1, <1>2 DEF RevokeTyped, Removal
  <1>4. PICK held : held = {x \in found : key[x] # None}
    OBVIOUS
  <1>5. CASE k \notin held \/ Cardinality(held) <= 1
    BY <1>1, <1>2, <1>3, <1>4, <1>5, Stopped DEF LockKeys
  <1>6. CASE ~(k \notin held \/ Cardinality(held) <= 1)
    <2>1. Lock(w, held) /\ Goto(w, "delete") /\ UNCHANGED <<enabled, pool, rows, job>>
      BY <1>3, <1>4, <1>6 DEF LockKeys
    \* Two are found: one of them stays.
    <2>2. PICK x \in held \ {k} : TRUE
      <3>1. held # {k}
        BY <1>6, FS_Singleton
      <3> QED
        BY <1>6, <3>1
    <2>3. /\ x \in Passkey /\ x # k /\ key[x] # None /\ key[k] # None
          /\ key[x].email = key[k].email
      BY <1>1, <1>2, <1>3, <1>4, <1>6, <2>2 DEF RevokeOK
    <2>4. ASSUME pc'[w] = "delete",
                 \A y : [tx |-> w, on |-> y] \in locks' <=> Holds(w, y) \/ y \in held
          PROVE  Sound(w)'
      <3>1. RevokeTyped(w)'
        BY <1>1, <1>2, <2>1, <2>4 DEF RevokeTyped
      <3>2. [tx |-> w, on |-> x] \in locks' /\ [tx |-> w, on |-> k] \in locks'
        BY <1>6, <2>2, <2>4
      <3>3. RevokeOK(w)'
        BY <1>3, <2>1, <2>3, <2>4, <3>2 DEF RevokeOK, Holds, rows
      <3> QED
        BY <1>2, <3>1, <3>3 DEF Sound
    <2>5. /\ held \in SUBSET (Email \cup Token \cup Verify \cup Passkey) /\ Blockers(w, held) = {}
          /\ locks' = locks \cup {[tx |-> w, on |-> y] : y \in held}
      BY <1>1, <1>3, <1>4, <2>1 DEF Lock, Blockers
    <2> QED
      BY <1>1, <1>2, <2>1, <2>4, <2>5, Walked DEF RowsTyped, Outside
  <1> QED
    BY <1>5, <1>6

\* A removal deletes a passkey it has locked, and another of the account stays.
LEMMA DeleteKeyIs ==
  ASSUME AccountsInv, NEW w \in Revoke, DeleteKey(w)
  PROVE  \E k \in Passkey, x \in Passkey :
           /\ pc[w] = "delete" /\ End(w) /\ UNCHANGED <<enabled, pool, users, pend, chal>>
           /\ key' = [key EXCEPT ![k] = None] /\ Holds(w, k) /\ key[k] # None
           /\ x # k /\ key[x] # None /\ key[x].email = key[k].email
  <1>1. pc[w] = "delete" /\ End(w) /\ UNCHANGED <<enabled, pool, users, pend, chal>>
    BY DEF DeleteKey
  <1>2. RevokeTyped(w) /\ RevokeOK(w)
    BY Facts DEF Sound, Request, Tx
  <1>3. PICK k \in Passkey : k = job[w].key
    BY <1>1, <1>2 DEF RevokeTyped, Removal
  <1>4. key' = [key EXCEPT ![k] = None]
    BY <1>3 DEF DeleteKey
  <1>5. PICK x \in Passkey \ {k} : /\ Holds(w, k) /\ key[x] # None /\ key[k] # None
                                   /\ key[x].email = key[k].email
    BY <1>1, <1>2, <1>3 DEF RevokeOK
  <1> QED
    BY <1>1, <1>4, <1>5

LEMMA DeleteKeyStep ==
  ASSUME AccountsInv, NEW w \in Revoke, DeleteKey(w)
  PROVE  AccountsInv'
  <1>1. PICK k \in Passkey :
          /\ pc[w] = "delete" /\ End(w) /\ UNCHANGED <<enabled, pool, users, pend, chal>>
          /\ key' = [key EXCEPT ![k] = None] /\ Holds(w, k) /\ key[k] # None
    BY DeleteKeyIs
  <1>2. RowsTyped /\ LocksOK /\ KeysOwned /\ RegisteredOnce /\ AdminExists
        /\ w \in Tx /\ w \notin Finish
    BY Facts, RegistrationAssumption DEF Tx
  <1>3. /\ key'[k] = None /\ \A x \in Passkey \ {k} : key'[x] = key[x]
        /\ key' \in [Passkey -> KeyRow \cup {None}]
    BY <1>1, <1>2 DEF RowsTyped
  <1>4. RowsKept(w)
    BY <1>1, <1>2, <1>3 DEF RowsKept, UsersKept, PendKept, ChalKept, KeysKept, LocksOK, Holds
  <1>5. KeysOwned' /\ RegisteredOnce' /\ AdminExists'
    BY <1>1, <1>2, <1>3 DEF KeysOwned, RegisteredOnce, AdminExists, Accounts, Passkey
  <1> QED
    BY <1>1, <1>2, <1>3, <1>4, <1>5, Ended DEF RowsTyped

------------------------------------------------------------------------------
(* The invariant *)

LEMMA NextInv ==
  ASSUME AccountsInv, [Next]_vars
  PROVE  AccountsInv'
  <1>1. ASSUME NEW t \in Token,
               \/ StartRegistration(t) \/ EmailRegistered(t) \/ StartRecovery(t)
               \/ CreatePending(t) \/ Expire(t)
        PROVE  AccountsInv'
    BY <1>1, StartStep, CreatePendingStep, UnaskedStep
  <1>2. ASSUME NEW v \in Verify, LookupToken(v) \/ SaveChallenge(v)
        PROVE  AccountsInv'
    BY <1>2, LookupTokenStep, SaveChallengeStep
  <1>3. ASSUME NEW f \in Finish, Post(f) \/ Advance(f)
        PROVE  AccountsInv'
    BY <1>3, PostStep, BeginStep, ConsumeStep, LookupStep, CountStep, CreateUserStep,
       DeletePendingStep, CheckReferencesStep, CommitStep DEF Advance
  <1>4. ASSUME NEW w \in Revoke, FindKeys(w) \/ Remove(w)
        PROVE  AccountsInv'
    BY <1>4, FindKeysStep, LockKeysStep, DeleteKeyStep DEF Remove
  <1>5. ASSUME NEW q \in Tx, Fail(q)
        PROVE  AccountsInv'
    BY <1>5, Stopped DEF Fail
  <1>6. CASE UNCHANGED vars
    <2>1. RowsTyped /\ LocksOK /\ None \notin Request
      BY Facts, RegistrationAssumption DEF Request, Tx
    <2>2. OnlyMoves(None)
      BY <1>6, <2>1 DEF OnlyMoves, RowsTyped, vars
    <2>3. RowsKept(None)
      BY <1>6 DEF RowsKept, UsersKept, PendKept, ChalKept, KeysKept, vars, rows
    <2>4. RowsTyped' /\ LocksOK'
      BY <1>6, <2>1 DEF RowsTyped, LocksOK, Spare, Connected, vars, rows
    <2>5. KeysOwned' /\ RegisteredOnce' /\ AdminExists'
      BY <1>6, Facts DEF KeysOwned, RegisteredOnce, AdminExists, Accounts, vars, rows
    <2> QED
      BY <2>1, <2>2, <2>3, <2>4, <2>5, OthersKept
  <1> QED
    BY <1>1, <1>2, <1>3, <1>4, <1>5, <1>6, UnaskedStep DEF Next

\* Every account has one registration, and one of them an administrator; every
\* ceremony has locked what it relies on and there are no more transactions
\* than connections, however registrations, recoveries and removals of passkeys
\* interleave and whichever of their statements fail.
THEOREM AccountsInvariant == Spec => []AccountsInv
  <1>1. Init => AccountsInv
    BY InitInv
  <1>2. AccountsInv /\ [Next]_vars => AccountsInv'
    BY NextInv
  <1> QED
    BY <1>1, <1>2, PTL DEF Spec

------------------------------------------------------------------------------
(* What a step may write *)

\* Nothing is deleted, no passkey and no account is written, and a token gets
\* its row before its mail goes out.
Additive ==
    /\ UNCHANGED <<key, users>> /\ chal \subseteq chal'
    /\ \A t \in Token : pend[t] # None => pend'[t] # None
    /\ \A t \in Token : pend'[t] # None => pend[t] # None \/ pc[t] # "done"

LEMMA OnlyThese ==
  ASSUME AccountsInv, Next
  PROVE  \/ \E f \in Finish : Commit(f)
         \/ \E w \in Revoke : DeleteKey(w)
         \/ Additive
  <1>1. CASE UNCHANGED rows
    BY <1>1 DEF rows, Additive
  <1>2. CASE Toggle
    BY <1>1, <1>2 DEF Toggle
  <1>3. ASSUME NEW t \in Token, StartRegistration(t) \/ EmailRegistered(t) \/ StartRecovery(t)
        PROVE  Additive
    BY <1>3 DEF StartRegistration, EmailRegistered, StartRecovery, rows, Additive
  <1>4. ASSUME NEW t \in Token, CreatePending(t)
        PROVE  Additive
    <2>1. RowsTyped /\ StartTyped(t)
      BY Facts DEF Sound, Request
    <2>2. PICK e \in Email : e = job[t]
      BY <1>4, <2>1 DEF CreatePending, StartTyped
    <2>3. [email |-> e, live |-> TRUE] # None
      <3>1. [email |-> e, live |-> TRUE] \in PendRow
        BY DEF PendRow
      <3> QED
        BY <3>1, NoneAssumption
    <2>4. /\ pend' = [pend EXCEPT ![t] = [email |-> e, live |-> TRUE]] /\ pc[t] = "insert"
          /\ UNCHANGED <<key, users, chal>>
      BY <1>4, <2>2 DEF CreatePending
    <2> QED
      BY <2>1, <2>3, <2>4 DEF Additive, RowsTyped
  <1>5. ASSUME NEW t \in Token, Expire(t)
        PROVE  Additive
    <2>1. RowsTyped /\ pend[t] # None
      BY <1>5, Facts DEF Expire
    <2>2. PICK new : new = [pend[t] EXCEPT !.live = FALSE]
      OBVIOUS
    <2>3. new # None
      BY <2>1, <2>2, NoneAssumption DEF RowsTyped, PendRow
    <2>4. pend' = [pend EXCEPT ![t] = new] /\ UNCHANGED <<key, users, chal>>
      BY <1>5, <2>2 DEF Expire
    <2> QED
      BY <2>1, <2>3, <2>4 DEF Additive, RowsTyped
  <1>6. ASSUME NEW v \in Verify, LookupToken(v) \/ SaveChallenge(v)
        PROVE  Additive
    BY <1>6 DEF LookupToken, SaveChallenge, Additive, rows
  <1>7. ASSUME NEW f \in Finish, Post(f) \/ Begin(f) \/ Consume(f) \/ Lookup(f) \/ Count(f)
        PROVE  UNCHANGED rows
    BY <1>7 DEF Post, Begin, Consume, Lookup, Count, Stop
  <1>8. ASSUME NEW f \in Finish, CreateUser(f) \/ DeletePending(f) \/ CheckReferences(f)
        PROVE  UNCHANGED rows
    BY <1>8 DEF CreateUser, DeletePending, CheckReferences, Stop
  <1>9. ASSUME NEW w \in Revoke, FindKeys(w) \/ LockKeys(w)
        PROVE  UNCHANGED rows
    BY <1>9 DEF FindKeys, LockKeys, Stop
  <1>10. ASSUME NEW q \in Tx, Fail(q)
         PROVE  UNCHANGED rows
    BY <1>10 DEF Fail, Stop
  <1> QED
    BY <1>1, <1>2, <1>3, <1>4, <1>5, <1>6, <1>7, <1>8, <1>9, <1>10 DEF Next, Advance, Remove

LEMMA SpentOnceNext ==
  ASSUME AccountsInv, TokenSpentOnce, [Next]_vars
  PROVE  TokenSpentOnce'
  <1>1. RowsTyped /\ \A f \in Finish : PasskeyOK(f)
    BY Facts DEF Sound, Request, Tx
  <1>2. ASSUME NEW f \in Finish, Commit(f)
        PROVE  TokenSpentOnce'
    <2>1. PICK e \in Email, t \in Token, p \in Purpose :
            /\ key[f] = None /\ key' = [key EXCEPT ![f] = [email |-> e, by |-> p, token |-> t]]
            /\ pend[t] # None /\ pend' = [pend EXCEPT ![t] = None]
      BY <1>2, CommitIs
    <2>2. PICK new \in KeyRow : new = [email |-> e, by |-> p, token |-> t]
      BY DEF KeyRow
    <2>3. /\ key'[f] = new /\ new.token = t /\ \A g \in Finish \ {f} : key'[g] = key[g]
          /\ pend'[t] = None /\ \A s \in Token \ {t} : pend'[s] = pend[s]
      BY <1>1, <2>1, <2>2 DEF RowsTyped, Passkey
    <2>4. \A g \in Finish : key[g] # None => key[g].token \in Token \ {t}
      BY <1>1, <2>1 DEF TokenSpentOnce, PasskeyOK
    <2> QED
      BY <2>3, <2>4 DEF TokenSpentOnce
  <1>3. ASSUME NEW w \in Revoke, DeleteKey(w)
        PROVE  TokenSpentOnce'
    <2>1. PICK k \in Passkey : key' = [key EXCEPT ![k] = None] /\ pend' = pend
      BY <1>3, DeleteKeyIs
    <2>2. \A g \in Finish : key'[g] = key[g] \/ key'[g] = None
      BY <1>1, <2>1 DEF RowsTyped, Passkey
    <2> QED
      BY <2>1, <2>2 DEF TokenSpentOnce
  <1>4. CASE Additive
    BY <1>1, <1>4 DEF Additive, TokenSpentOnce, PasskeyOK
  <1>5. CASE UNCHANGED vars
    BY <1>5 DEF vars, rows, TokenSpentOnce
  <1> QED
    BY <1>2, <1>3, <1>4, <1>5, OnlyThese

\* A mailed token makes one passkey, however often its answer is posted and
\* whether registration or recovery uses it.
THEOREM TokensAreSpentOnce == Spec => []TokenSpentOnce
  <1>1. Init => TokenSpentOnce
    <2> SUFFICES ASSUME Init PROVE TokenSpentOnce
      OBVIOUS
    <2>1. \A f \in Finish : PasskeyOK(f) /\ pc[f] # "done"
      BY InitInv, Facts DEF Sound, Init, Request, Tx
    <2> QED
      BY <2>1 DEF TokenSpentOnce, PasskeyOK
  <1>2. AccountsInv /\ TokenSpentOnce /\ [Next]_vars => TokenSpentOnce'
    BY SpentOnceNext
  <1> QED
    BY <1>1, <1>2, AccountsInvariant, PTL DEF Spec

\* Nobody loses a last passkey: a removal has locked two of the account before
\* it deletes one.
THEOREM LastPasskeyStays == Spec => NeverLockedOut
  <1> DEFINE Keeps == \A e \in Email : Keys(e) # {} => Keys(e)' # {}
  <1>1. AccountsInv /\ [Next]_vars => [Keeps]_vars
    <2> SUFFICES ASSUME AccountsInv, Next, NEW e \in Email, Keys(e) # {}
                 PROVE  Keys(e)' # {}
      OBVIOUS
    <2>1. RowsTyped
      BY Facts
    <2>2. PICK x \in Passkey : key[x] # None /\ key[x].email = e
      BY DEF Keys
    <2>3. ASSUME NEW f \in Finish, Commit(f)
          PROVE  Keys(e)' # {}
      <3>1. key[f] = None /\ \A y \in Passkey \ {f} : key'[y] = key[y]
        BY <2>1, <2>3, CommitIs DEF RowsTyped
      <3>2. key'[x] = key[x]
        BY <2>2, <3>1
      <3> QED
        BY <2>2, <3>2 DEF Keys
    <2>4. ASSUME NEW w \in Revoke, DeleteKey(w)
          PROVE  Keys(e)' # {}
      <3>1. PICK k \in Passkey, y \in Passkey :
              /\ key' = [key EXCEPT ![k] = None] /\ key[k] # None
              /\ y # k /\ key[y] # None /\ key[y].email = key[k].email
        BY <2>4, DeleteKeyIs
      <3>2. key'[y] = key[y] /\ (x # k => key'[x] = key[x])
        BY <2>1, <3>1 DEF RowsTyped
      <3>3. CASE x = k
        BY <2>2, <3>1, <3>2, <3>3 DEF Keys
      <3>4. CASE x # k
        BY <2>2, <3>2, <3>4 DEF Keys
      <3> QED
        BY <3>3, <3>4
    <2>5. CASE Additive
      BY <2>2, <2>5 DEF Additive, Keys
    <2> QED
      BY <2>3, <2>4, <2>5, OnlyThese
  <1>2. Spec => [][Keeps]_vars
    BY <1>1, AccountsInvariant, PTL DEF Spec
  <1> QED
    BY <1>2 DEF NeverLockedOut

\* The body of CeremonyAtomic.
Whole ==
    \A t \in Token :
        \/ pend[t] # None /\ pend'[t] = None
        \/ \E v \in chal \ chal' : job[v].token = t
        => /\ pend'[t] = None
           /\ \A v \in chal' : job[v].token # t
           /\ \E f \in Finish : key[f] = None /\ key'[f] # None /\ key'[f].token = t
                                /\ users'[key'[f].email] # "none"

LEMMA WholeStep ==
  ASSUME AccountsInv, Next
  PROVE  Whole
  <1>1. RowsTyped
    BY Facts
  <1>2. ASSUME NEW f \in Finish, Commit(f)
        PROVE  Whole
    <2>1. PICK e \in Email, t \in Token, p \in Purpose :
            /\ key[f] = None /\ key' = [key EXCEPT ![f] = [email |-> e, by |-> p, token |-> t]]
            /\ pend' = [pend EXCEPT ![t] = None]
            /\ \A v \in chal : v \in chal' <=> ~Holds(f, v)
            /\ chal' \subseteq chal
            /\ \A v \in chal : Holds(f, v) <=> job[v].token = t
            /\ IF p = "registration"
               THEN \E role \in {"user", "admin"} : users' = [users EXCEPT ![e] = role]
               ELSE e \in Accounts /\ users' = users
      BY <1>2, CommitIs
    <2>2. PICK new \in KeyRow : new = [email |-> e, by |-> p, token |-> t]
      BY DEF KeyRow
    <2>3. key'[f] = new /\ new # None /\ new.token = t /\ new.email = e
      BY <1>1, <2>1, <2>2, NoneAssumption DEF RowsTyped, Passkey
    <2>4. users'[e] # "none"
      BY <1>1, <2>1 DEF RowsTyped, Accounts
    <2>5. pend'[t] = None /\ \A s \in Token \ {t} : pend'[s] = pend[s]
      BY <1>1, <2>1 DEF RowsTyped
    <2>6. \A v \in chal \ chal' : job[v].token = t
      BY <2>1
    <2>7. \A v \in chal' : job[v].token # t
      BY <2>1
    <2> SUFFICES ASSUME NEW s \in Token,
                        \/ pend[s] # None /\ pend'[s] = None
                        \/ \E v \in chal \ chal' : job[v].token = s
                 PROVE  /\ pend'[s] = None
                        /\ \A v \in chal' : job[v].token # s
                        /\ \E g \in Finish : key[g] = None /\ key'[g] # None /\ key'[g].token = s
                                             /\ users'[key'[g].email] # "none"
      BY DEF Whole
    <2>8. s = t
      BY <2>5, <2>6
    <2> QED
      BY <2>1, <2>3, <2>4, <2>5, <2>7, <2>8
  <1>3. ASSUME NEW w \in Revoke, DeleteKey(w)
        PROVE  Whole
    BY <1>3 DEF DeleteKey, Whole
  <1>4. CASE Additive
    BY <1>4 DEF Additive, Whole
  <1> QED
    BY <1>2, <1>3, <1>4, OnlyThese

\* Challenge, pending row, passkey and account change in one step, whatever
\* fails on the way there.
THEOREM CeremoniesAreAtomic == Spec => CeremonyAtomic
  <1>1. AccountsInv /\ [Next]_vars => [Whole]_vars
    BY WholeStep
  <1>2. Spec => [][Whole]_vars
    BY <1>1, AccountsInvariant, PTL DEF Spec
  <1> QED
    BY <1>2 DEF CeremonyAtomic, Whole

------------------------------------------------------------------------------
(* Waiting *)

\* A ceremony locks no passkey, and a removal has locks only where it deletes:
\* it takes them in one statement.
LocksApart ==
    \A lk \in locks : \/ lk.tx \in Finish /\ lk.on \notin Passkey
                      \/ lk.tx \in Revoke /\ pc[lk.tx] = "delete"

\* A step of q that may lock the rows of S.
LEMMA ApartKept ==
  ASSUME RowsTyped, LocksApart, NEW q, NEW S,
         \A e \in Request \ {q} : pc'[e] = pc[e],
         \A lk \in locks' : lk \in locks \/ (lk.tx = q /\ lk.on \in S),
         \/ q \notin Tx /\ S = {}
         \/ q \in Finish /\ S \cap Passkey = {}
         \/ q \in Revoke /\ pc'[q] = "delete"
         \/ \A lk \in locks' : lk.tx # q
  PROVE  LocksApart'
  <1> SUFFICES ASSUME NEW lk \in locks'
               PROVE  \/ lk.tx \in Finish /\ lk.on \notin Passkey
                      \/ lk.tx \in Revoke /\ pc'[lk.tx] = "delete"
    BY DEF LocksApart
  <1>1. lk \in locks => lk.tx \in Request
    BY DEF RowsTyped, Request
  <1>2. Finish \cap Revoke = {}
    BY RegistrationAssumption
  <1> QED
    BY <1>1, <1>2 DEF LocksApart, Tx

LEMMA ApartNext ==
  ASSUME AccountsInv, LocksApart, [Next]_vars
  PROVE  LocksApart'
  <1>1. RowsTyped /\ LocksOK /\ DOMAIN pc = Request
    BY Facts DEF RowsTyped
  <1>2. ASSUME NEW q \in Request, NEW label, Goto(q, label)
        PROVE  pc'[q] = label /\ \A e \in Request \ {q} : pc'[e] = pc[e]
    BY <1>1, <1>2 DEF Goto
  <1>3. /\ Email \cap Passkey = {} /\ Token \cap Passkey = {} /\ Verify \cap Passkey = {}
        /\ Token \cap Tx = {} /\ Verify \cap Tx = {}
        /\ Finish \subseteq Tx /\ Revoke \subseteq Tx /\ Tx \subseteq Request
    BY RegistrationAssumption DEF Passkey, Tx, Request
  <1>4. ASSUME NEW q \in Tx, End(q)
        PROVE  LocksApart'
    <2>1. \A lk \in locks' : lk \in locks /\ lk.tx # q
      BY <1>4 DEF End
    <2>2. \A e \in Request \ {q} : pc'[e] = pc[e]
      BY <1>2, <1>3, <1>4 DEF End
    <2> QED
      BY <1>1, <2>1, <2>2, ApartKept
  <1>5. ASSUME NEW q \in (Request \ Tx) \cup Finish, NEW label, Goto(q, label), locks' = locks
        PROVE  LocksApart'
    <2>1. \A e \in Request \ {q} : pc'[e] = pc[e]
      BY <1>2, <1>3, <1>5
    <2>2. (q \notin Tx /\ {} = {}) \/ (q \in Finish /\ {} \cap Passkey = {})
      OBVIOUS
    <2> QED
      BY <1>1, <1>5, <2>1, <2>2, ApartKept
  <1>6. ASSUME pc' = pc, locks' = locks
        PROVE  LocksApart'
    BY <1>6 DEF LocksApart
  <1>7. ASSUME NEW t \in Token,
               \/ StartRegistration(t) \/ EmailRegistered(t) \/ StartRecovery(t)
               \/ CreatePending(t) \/ Expire(t)
        PROVE  LocksApart'
    <2>1. t \in (Request \ Tx) \cup Finish
      BY <1>3 DEF Request
    <2> QED
      BY <1>5, <1>6, <1>7, <2>1 DEF StartRegistration, EmailRegistered, StartRecovery, CreatePending, Expire
  <1>8. ASSUME NEW v \in Verify, LookupToken(v) \/ SaveChallenge(v)
        PROVE  LocksApart'
    <2>1. v \in (Request \ Tx) \cup Finish
      BY <1>3 DEF Request
    <2> QED
      BY <1>5, <1>8, <2>1 DEF LookupToken, SaveChallenge
  <1>9. ASSUME NEW f \in Finish, NEW S, S \cap Passkey = {}, NEW label, Goto(f, label), Lock(f, S)
        PROVE  LocksApart'
    <2>1. \A e \in Request \ {f} : pc'[e] = pc[e]
      BY <1>2, <1>3, <1>9
    <2>2. \A lk \in locks' : lk \in locks \/ (lk.tx = f /\ lk.on \in S)
      BY <1>9 DEF Lock
    <2> QED
      BY <1>1, <1>9, <2>1, <2>2, ApartKept
  <1>10. ASSUME NEW f \in Finish, Post(f) \/ Begin(f) \/ Lookup(f) \/ Count(f) \/ CheckReferences(f) \/ Commit(f)
         PROVE  LocksApart'
    BY <1>3, <1>4, <1>5, <1>10 DEF Post, Begin, Lookup, Count, CheckReferences, Commit, Stop
  <1>11. ASSUME NEW f \in Finish, Consume(f)
         PROVE  LocksApart'
    <2>1. Matches(f) \cap Passkey = {}
      BY <1>1, <1>3 DEF Matches, RowsTyped
    <2> QED
      BY <1>3, <1>4, <1>9, <1>11, <2>1 DEF Consume, Stop
  <1>12. ASSUME NEW f \in Finish, CreateUser(f)
         PROVE  LocksApart'
    <2>1. EmailOf(f) \in Email
      <3>1. pc[f] = "create"
        BY <1>12 DEF CreateUser
      <3> QED
        BY <3>1, EmailIs DEF Consumed
    <2>2. {EmailOf(f)} \cap Passkey = {}
      BY <1>3, <2>1
    <2> QED
      BY <1>3, <1>4, <1>9, <1>12, <2>2 DEF CreateUser, Stop
  <1>13. ASSUME NEW f \in Finish, DeletePending(f)
         PROVE  LocksApart'
    <2>1. TokenOf(f) \in Token
      BY <1>13, CeremonyIs DEF DeletePending, Consumed
    <2>2. {TokenOf(f)} \cap Passkey = {}
      BY <1>3, <2>1
    <2> QED
      BY <1>9, <1>13, <2>2 DEF DeletePending
  <1>14. ASSUME NEW w \in Revoke, FindKeys(w)
         PROVE  LocksApart'
    <2>1. \A lk \in locks : lk.tx # w
      BY <1>1, <1>14 DEF FindKeys, LocksOK, Outside
    <2>2. \A e \in Request \ {w} : pc'[e] = pc[e]
      BY <1>2, <1>3, <1>14 DEF FindKeys
    <2> QED
      BY <1>1, <1>14, <2>1, <2>2, ApartKept DEF FindKeys
  <1>15. ASSUME NEW w \in Revoke, LockKeys(w)
         PROVE  LocksApart'
    <2>1. CASE Stop(w)
      BY <1>3, <1>4, <2>1 DEF Stop
    <2>2. CASE ~Stop(w)
      <3>1. PICK S : Lock(w, S) /\ Goto(w, "delete")
        BY <1>15, <2>2 DEF LockKeys
      <3>2. pc'[w] = "delete" /\ \A e \in Request \ {w} : pc'[e] = pc[e]
        BY <1>2, <1>3, <3>1
      <3>3. \A lk \in locks' : lk \in locks \/ (lk.tx = w /\ lk.on \in S)
        BY <3>1 DEF Lock
      <3> QED
        BY <1>1, <3>2, <3>3, ApartKept
    <2> QED
      BY <2>1, <2>2
  <1>16. ASSUME NEW w \in Revoke, DeleteKey(w)
         PROVE  LocksApart'
    BY <1>3, <1>4, <1>16 DEF DeleteKey
  <1>17. ASSUME NEW q \in Tx, Fail(q)
         PROVE  LocksApart'
    BY <1>4, <1>17 DEF Fail, Stop
  <1>18. CASE Toggle \/ UNCHANGED vars
    BY <1>6, <1>18 DEF Toggle, vars
  <1> QED
    BY <1>7, <1>8, <1>10, <1>11, <1>12, <1>13, <1>14, <1>15, <1>16, <1>17, <1>18
    DEF Next, Advance, Remove

LEMMA ApartAlways == Spec => []LocksApart
  <1>1. Init => LocksApart
    BY DEF Init, LocksApart
  <1> QED
    BY <1>1, ApartNext, AccountsInvariant, PTL DEF Spec

\* Of finite sets one has the fewest elements.
LEMMA Fewest ==
  ASSUME NEW C, C # {}, \A T \in C : IsFiniteSet(T)
  PROVE  \E T \in C : \A U \in C : ~(Cardinality(U) < Cardinality(T))
  <1> DEFINE Sizes == {Cardinality(T) : T \in C}
  <1>1. \A T \in C : Cardinality(T) \in Nat
    BY FS_CardinalityType
  <1>2. Sizes \subseteq Nat /\ Sizes # {}
    BY <1>1
  <1>3. PICK n \in Sizes : \A m \in Sizes : ~(<<m, n>> \in OpToRel(<, Nat))
    <2> HIDE DEF Sizes
    <2> QED
      BY <1>2, NatLessThanWellFounded, WFMin, Zenon
  <1>4. \A m \in Sizes : ~(m < n)
    BY <1>2, <1>3 DEF OpToRel
  <1> QED
    BY <1>4

\* Where each of finitely many waits for another of them, some wait in a circle.
LEMMA CircleOfWaits ==
  ASSUME NEW S, IsFiniteSet(S), S # {}, NEW W, \A e \in S : \E f \in S : <<e, f>> \in W
  PROVE  \E T \in SUBSET S :
            T # {} /\ \A e \in T : (\E f \in T : <<e, f>> \in W) /\ (\E f \in T : <<f, e>> \in W)
  <1> DEFINE Closed == {T \in SUBSET S : T # {} /\ \A e \in T : \E f \in T : <<e, f>> \in W}
  <1>1. \A T \in Closed : IsFiniteSet(T)
    BY FS_Subset
  <1>2. S \in Closed
    OBVIOUS
  <1>3. PICK T \in Closed : \A U \in Closed : ~(Cardinality(U) < Cardinality(T))
    <2> HIDE DEF Closed
    <2> QED
      BY <1>1, <1>2, Fewest
  <1>4. ASSUME NEW e \in T, \A f \in T : <<f, e>> \notin W
        PROVE  FALSE
    <2>1. PICK f \in T : <<e, f>> \in W
      OBVIOUS
    <2>2. f # e
      BY <1>4, <2>1
    <2>3. \A g \in T \ {e} : \E h \in T \ {e} : <<g, h>> \in W
      BY <1>4
    <2>4. T \ {e} \in Closed
      BY <2>1, <2>2, <2>3
    <2>5. IsFiniteSet(T)
      BY <1>1
    <2>6. Cardinality(T) \in Nat /\ Cardinality(T \ {e}) = Cardinality(T) - 1
      BY <2>5, FS_CardinalityType, FS_RemoveElement
    <2> HIDE DEF Closed
    <2>7. ~(Cardinality(T \ {e}) < Cardinality(T))
      BY <1>3, <2>4
    <2> QED
      BY <2>6, <2>7
  <1> QED
    BY <1>4

\* A removal under way that is not ready waits for one that is about to delete.
LEMMA RemovalGoesOn ==
  ASSUME AccountsInv, LocksApart, NEW w \in Revoke, pc[w] \notin {"idle", "done"}
  PROVE  \E q \in Tx : Ready(q)
  <1>1. RowsTyped /\ RevokeTyped(w) /\ w \in Tx
    BY Facts DEF Sound, Request, Tx
  <1>2. CASE Ready(w)
    BY <1>1, <1>2
  <1>3. CASE ~Ready(w)
    <2>1. pc[w] = "lock" /\ job[w] \in Removal
      BY <1>1, <1>3 DEF RevokeTyped, Ready
    <2>2. PICK lk \in locks : lk.on \in job[w].found
      BY <1>3, <2>1 DEF Ready, Blockers
    <2>3. lk.on \in Passkey
      BY <2>1, <2>2 DEF Removal
    <2>4. lk.tx \in Revoke /\ pc[lk.tx] = "delete"
      BY <2>3 DEF LocksApart
    <2> QED
      BY <2>4 DEF Ready, Tx
  <1> QED
    BY <1>2, <1>3

\* Ceremonies that have a connection.
Open == {f \in Finish : pc[f] \in {"consume"} \cup Consumed}

\* One of them that can neither go on nor give up waits for another.
LEMMA CeremonyWaits ==
  ASSUME AccountsInv, \A w \in Revoke : pc[w] \in {"idle", "done"},
         NEW f \in Open, ~Ready(f), ~Starved(f)
  PROVE  \E e \in Open : WaitsFor(f, e)
  <1>1. RowsTyped /\ LocksOK /\ f \in Finish
    BY Facts DEF Open
  <1>2. Spare \in Int /\ Spare >= 0
    <2>1. Cardinality(Connected) \in Nat
      BY TxFinite, FS_Subset, FS_CardinalityType DEF Connected
    <2> QED
      BY <1>1, <2>1 DEF Spare, RowsTyped, LocksOK
  <1>3. ASSUME NEW S, NEW e \in Blockers(f, S)
        PROVE  e \in Open
    <2>1. PICK lk \in locks : lk.tx = e
      BY <1>3 DEF Blockers
    <2>2. e \in Tx /\ pc[e] \notin Outside
      BY <1>1, <2>1 DEF RowsTyped, LocksOK
    <2>3. e \in Finish
      BY <2>2 DEF Tx, Outside
    <2>4. FinishTyped(e)
      BY <2>3, Facts DEF Sound, Request, Tx
    <2> QED
      BY <2>2, <2>3, <2>4 DEF FinishTyped, Outside, Open
  <1>4. pc[f] \in {"consume", "create", "pending", "refs"}
    BY <1>2 DEF Open, Consumed, Ready, Starved
  <1>5. CASE pc[f] = "consume"
    <2>1. PICK e : e \in Blockers(f, Matches(f))
      BY <1>5 DEF Ready
    <2> QED
      BY <1>3, <1>5, <2>1 DEF WaitsFor
  <1>6. CASE pc[f] = "create"
    <2>1. PICK e : e \in Blockers(f, {EmailOf(f)})
      BY <1>6 DEF Ready
    <2> QED
      BY <1>3, <1>6, <2>1 DEF WaitsFor
  <1>7. CASE pc[f] = "pending"
    <2>1. PICK e : e \in Blockers(f, {TokenOf(f)})
      BY <1>7 DEF Ready
    <2> QED
      BY <1>3, <1>7, <2>1 DEF WaitsFor
  <1>8. CASE pc[f] = "refs"
    <2>1. PICK e : e \in Blockers(f, Leftover(f))
      BY <1>8 DEF Ready
    <2> QED
      BY <1>3, <1>8, <2>1 DEF WaitsFor
  <1> QED
    BY <1>4, <1>5, <1>6, <1>7, <1>8

\* A ceremony that cannot begin leaves the pool to others.
LEMMA PoolIsInUse ==
  ASSUME AccountsInv, pool > 0, \A w \in Revoke : pc[w] \in {"idle", "done"},
         NEW f \in Finish, pc[f] \notin {"idle", "done"}, ~Ready(f)
  PROVE  Open # {}
  <1>1. RowsTyped /\ FinishTyped(f)
    BY Facts DEF Sound, Request, Tx
  <1>2. CASE f \in Open
    BY <1>2
  <1>3. CASE f \notin Open
    <2>1. pc[f] = "begin" /\ ~(Spare > 0)
      BY <1>1, <1>3 DEF FinishTyped, Open, Ready
    <2>2. Connected # {}
      <3>1. SUFFICES ASSUME Connected = {} PROVE FALSE
        OBVIOUS
      <3>2. Spare = pool - 0 /\ pool \in Nat
        BY <1>1, <3>1, FS_EmptySet DEF Spare, RowsTyped
      <3> QED
        BY <2>1, <3>2
    <2>3. PICK e \in Connected : TRUE
      BY <2>2
    <2>4. e \in Finish /\ pc[e] \notin Outside
      BY DEF Connected, Tx, Outside
    <2>5. FinishTyped(e)
      BY <2>4, Facts DEF Sound, Request, Tx
    <2> QED
      BY <2>4, <2>5 DEF FinishTyped, Outside, Open
  <1> QED
    BY <1>2, <1>3

\* However many ceremonies and removals there are and however small the pool is,
\* while any is under way one is ready, is failed by PostgreSQL or gives up: a
\* removal waits only for one that deletes, and ceremonies of which none could
\* go on would each wait for another that has a connection, some in a circle.
THEOREM SomeoneIsReady == Spec => []SomeoneReady
  <1>1. Spec => [](pool > 0)
    <2>1. Init => pool > 0
      BY RegistrationAssumption DEF Init
    <2>2. pool > 0 /\ [Next]_vars => (pool > 0)'
      <3>1. [Next]_vars => pool' = pool
        BY DEF Next, vars, Toggle, StartRegistration, EmailRegistered, StartRecovery, CreatePending,
               Expire, LookupToken, SaveChallenge, Post, Advance, Begin, Consume, Lookup, Count,
               CreateUser, DeletePending, CheckReferences, Commit, FindKeys, Remove, LockKeys,
               DeleteKey, Fail, Stop
      <3> QED
        BY <3>1
    <2> QED
      BY <2>1, <2>2, PTL DEF Spec
  <1>2. AccountsInv /\ LocksApart /\ pool > 0 => SomeoneReady
    <2> SUFFICES ASSUME AccountsInv, LocksApart, pool > 0,
                        NEW q \in Tx, pc[q] \notin {"idle", "done"}, \A e \in Tx : ~Ready(e),
                        \A f \in Finish : ~InCircle(f) /\ ~Starved(f)
                 PROVE  FALSE
      BY DEF SomeoneReady
    <2>1. \A w \in Revoke : pc[w] \in {"idle", "done"}
      BY RemovalGoesOn
    <2>2. Open # {} /\ IsFiniteSet(Open)
      <3>1. q \in Finish
        BY <2>1 DEF Tx
      <3> QED
        BY <2>1, <3>1, PoolIsInUse, RegistrationAssumption, FS_Subset DEF Open
    <2> DEFINE W == {p \in Open \X Open : WaitsFor(p[1], p[2])}
    <2>3. \A e \in Open : \E f \in Open : <<e, f>> \in W
      <3> SUFFICES ASSUME NEW e \in Open PROVE \E f \in Open : <<e, f>> \in W
        OBVIOUS
      <3>1. ~Ready(e) /\ ~Starved(e)
        BY DEF Open, Tx
      <3>2. PICK f \in Open : WaitsFor(e, f)
        BY <2>1, <3>1, CeremonyWaits
      <3> QED
        BY <3>2
    <2>4. PICK S \in SUBSET Open :
             /\ S # {}
             /\ \A e \in S : (\E f \in S : <<e, f>> \in W) /\ (\E f \in S : <<f, e>> \in W)
      <3> HIDE DEF W
      <3> QED
        BY <2>2, <2>3, CircleOfWaits
    <2>5. \A e \in S : (\E f \in S : WaitsFor(e, f)) /\ (\E f \in S : WaitsFor(f, e))
      BY <2>4
    <2>6. PICK f \in S : TRUE
      BY <2>4
    <2>7. f \in Finish /\ S \in SUBSET Finish
      BY DEF Open
    <2>8. InCircle(f)
      BY <2>5, <2>7 DEF InCircle
    <2> QED
      BY <2>7, <2>8
  <1> QED
    BY <1>1, <1>2, AccountsInvariant, ApartAlways, PTL

==============================================================================
