---------------------------- MODULE SessionsProofs ----------------------------
(***************************************************************************)
(* Proofs about Sessions for any number of users, ceremonies and requests, *)
(* any session lifetime and any clock.  IInv is inductive.  Every action   *)
(* moves one request, so a step is checked in two parts: what the request  *)
(* that moves holds afterwards, and (OthersKept) that what the others hold *)
(* and rely on is not disturbed.                                           *)
(***************************************************************************)
EXTENDS Sessions, TLAPS

\* The inductive invariant, each part of which MCSessions checks.
IInv == SessionsInv /\ OneSessionPerCeremony

Request == Tx \cup Check

LEMMA InitInv == Init => IInv
  <1> SUFFICES ASSUME Init PROVE IInv
    OBVIOUS
  <1> USE SessionsAssumption DEF Init
  <1>1. RowsTyped
    BY DEF RowsTyped, Tx
  <1>2. TypeOK
    BY <1>1 DEF TypeOK, FinishTyped, CheckTyped, OpTyped, Tx
  <1>3. LocksOK
    BY DEF LocksOK
  <1>4. \A f \in Finish : FinishOK(f)
    BY DEF FinishOK, Tx
  <1>5. \A q \in Check : CheckOK(q)
    BY DEF CheckOK, Tx
  <1>6. \A o \in Op : OpOK(o)
    BY DEF OpOK, Tx
  <1>7. OneSessionPerCeremony /\ RevokedForGood
    BY DEF OneSessionPerCeremony, RevokedForGood, Tx
  <1> QED
    BY <1>2, <1>3, <1>4, <1>5, <1>6, <1>7 DEF IInv, SessionsInv

------------------------------------------------------------------------------
(* What a step of one request leaves to the others *)

\* Only the requests of T move: the others keep their place, their job and
\* their locks.
OnlyMoves(T) ==
    \A e \in Request \ T :
        /\ pc'[e] = pc[e] /\ job'[e] = job[e]
        /\ e \in Op => doomed'[e] = doomed[e]
        /\ \A lk \in locks : lk.tx = e => lk \in locks'

\* A request that moves never takes up another ceremony, and what a client has
\* signed stays signed.
CeremoniesKept ==
    /\ \A k \in Ceremony : ceremony[k] # None => ceremony'[k] = ceremony[k]
    /\ \A f \in Finish : pc[f] # "idle" => pc'[f] # "idle" /\ job'[f].ceremony = job[f].ceremony

\* Sessions only end; only T's Finish begins one or uses up its challenge.
RowsKept(T) ==
    /\ \A f \in Finish : session[f] # "none" => session'[f] \in {session[f], "gone"}
    /\ \A f \in Finish \ T :
          /\ session'[f] = "none" <=> session[f] = "none"
          /\ pc[f] \in {"touch", "commit", "signed_in"} =>
                challenge'[job[f].ceremony] = challenge[job[f].ceremony]

\* A session begins only while no deactivation has its user locked.
BeginsUnlocked ==
    \A f \in Finish : session[f] = "none" /\ session'[f] = "live" =>
        /\ pc[f] # "idle"
        /\ \A o \in Op : [tx |-> o, on |-> UserOf(f), mode |-> "update"] \notin locks

\* An account that is deactivated has no session left.
SignsOut ==
    \A u \in User : active[u] /\ ~active'[u] =>
        \A f \in Finish : session'[f] = "live" => UserOf(f) # u

\* The user of a ceremony never changes.
LEMMA UserKept ==
  ASSUME TypeOK, CeremoniesKept, NEW f \in Finish, pc[f] # "idle"
  PROVE  UserOf(f)' = UserOf(f) /\ UserOf(f) \in User
  BY DEF TypeOK, RowsTyped, FinishTyped, CeremoniesKept, UserOf, FinishJob

LEMMA FinishKept ==
  ASSUME IInv, NEW T, OnlyMoves(T), CeremoniesKept, RowsKept(T), NEW f \in Finish \ T
  PROVE  FinishTyped(f)' /\ FinishOK(f)'
  <1>1. TypeOK /\ FinishTyped(f) /\ FinishOK(f)
    BY DEF IInv, SessionsInv, TypeOK
  <1>2. /\ pc'[f] = pc[f] /\ job'[f] = job[f]
        /\ \A lk \in locks : lk.tx = f => lk \in locks'
    BY DEF OnlyMoves, Request, Tx
  <1>3. pc[f] # "idle" => UserOf(f)' = UserOf(f)
    BY <1>1, UserKept
  <1>4. FinishTyped(f)'
    BY <1>1, <1>2 DEF FinishTyped, CeremoniesKept, FinishJob
  <1> QED
    BY <1>1, <1>2, <1>3, <1>4 DEF FinishOK, RowsKept

LEMMA CheckKept ==
  ASSUME IInv, NEW T, OnlyMoves(T), CeremoniesKept, RowsKept(T), SignsOut, RowsTyped',
         NEW q \in Check \ T
  PROVE  CheckTyped(q)' /\ CheckOK(q)'
  <1>1. TypeOK /\ CheckTyped(q) /\ CheckOK(q) /\ \A f \in Finish : FinishOK(f)
    BY DEF IInv, SessionsInv, TypeOK
  <1>2. pc'[q] = pc[q] /\ job'[q] = job[q]
    BY DEF OnlyMoves, Request
  <1> SUFFICES ASSUME pc[q] # "idle" PROVE CheckOK(q)'
    BY <1>1, <1>2 DEF CheckTyped, CheckOK
  <1>3. PICK f \in Finish : f = job[q].session /\ session[f] # "none"
    BY <1>1 DEF CheckTyped, CheckJob, CheckOK
  <1>4. session'[f] # "none" /\ (session'[f] = "live" => session[f] = "live")
    BY <1>3 DEF RowsKept
  <1>5. UserOf(f)' = UserOf(f) /\ UserOf(f) \in User
    <2>1. pc[f] # "idle"
      BY <1>1, <1>3 DEF FinishOK
    <2> QED
      BY <1>1, <1>3, <2>1, UserKept
  <1>6. pc[q] = "bump" /\ session'[f] = "live" => active'[UserOf(f)]
    BY <1>1, <1>3, <1>4, <1>5 DEF CheckOK, SignsOut, RowsTyped, TypeOK
  <1> QED
    BY <1>2, <1>3, <1>4, <1>5, <1>6 DEF CheckOK

LEMMA OpKept ==
  ASSUME IInv, NEW T, OnlyMoves(T), CeremoniesKept, RowsKept(T), BeginsUnlocked,
         NEW o \in Op \ T
  PROVE  /\ OpTyped(o)' /\ OpOK(o)'
         /\ pc'[o] = "done" => \A f \in doomed'[o] : session'[f] = "gone"
  <1>1. TypeOK /\ OpTyped(o) /\ OpOK(o) /\ RevokedForGood /\ \A f \in Finish : FinishOK(f)
    BY DEF IInv, SessionsInv, TypeOK
  <1>2. /\ pc'[o] = pc[o] /\ job'[o] = job[o] /\ doomed'[o] = doomed[o]
        /\ \A lk \in locks : lk.tx = o => lk \in locks'
    BY DEF OnlyMoves, Request, Tx
  <1>3. doomed[o] \subseteq Finish
    BY <1>1 DEF TypeOK, RowsTyped
  <1>4. Held(o) \subseteq Held(o)'
    BY <1>2 DEF Held
  <1>5. \A f \in doomed[o] : /\ session'[f] # "none"
                             /\ session[f] = "gone" => session'[f] = "gone"
    BY <1>1, <1>3 DEF OpOK, RowsKept
  <1>6. ASSUME pc[o] \in {"reap", "commit"}, job[o].kind = "deactivate"
        PROVE  Live(job[o].user)' \subseteq doomed[o]
    <2> SUFFICES ASSUME NEW f \in Finish, session'[f] = "live", UserOf(f)' = job[o].user
                 PROVE  f \in doomed[o]
      BY <1>2 DEF Live
    <2>1. [tx |-> o, on |-> job[o].user, mode |-> "update"] \in locks
      BY <1>1, <1>6 DEF OpOK
    <2>2. pc[f] # "idle"
      BY <1>1 DEF FinishOK, BeginsUnlocked
    <2>3. UserOf(f)' = UserOf(f)
      BY <1>1, <2>2, UserKept
    <2>4. session[f] = "live"
      BY <1>1, <2>1, <2>3 DEF BeginsUnlocked, RowsKept, TypeOK, RowsTyped
    <2> QED
      BY <1>1, <1>6, <2>3, <2>4 DEF OpOK, Live
  <1>7. OpTyped(o)'
    BY <1>1, <1>2 DEF OpTyped, OpJob
  <1> QED
    BY <1>1, <1>2, <1>3, <1>4, <1>5, <1>6, <1>7 DEF OpOK, RevokedForGood

\* What the request that moves still owes.
MoverOK(t) ==
    /\ t \in Finish => FinishTyped(t)' /\ FinishOK(t)'
    /\ t \in Check => CheckTyped(t)' /\ CheckOK(t)'
    /\ t \in Op => /\ OpTyped(t)' /\ OpOK(t)'
                   /\ pc'[t] = "done" => \A f \in doomed'[t] : session'[f] = "gone"

\* A session that begins is the first of its ceremony.
FirstOf(f) ==
    pc'[f] = "signed_in" =>
        \A g \in Finish \ {f} : pc'[g] = "signed_in" => job'[g].ceremony # job'[f].ceremony

\* A step is sound if the requests that move are, and the others are left alone.
LEMMA OthersKept ==
  ASSUME IInv, RowsTyped', LocksOK', NEW T,
         OnlyMoves(T), CeremoniesKept, RowsKept(T), BeginsUnlocked, SignsOut,
         \A t \in T : MoverOK(t),
         \A f \in Finish \cap T : FirstOf(f)
  PROVE  IInv'
  <1>1. \A f \in Finish : FinishTyped(f)' /\ FinishOK(f)'
    BY FinishKept DEF MoverOK
  <1>2. \A q \in Check : CheckTyped(q)' /\ CheckOK(q)'
    BY CheckKept DEF MoverOK
  <1>3. \A o \in Op : /\ OpTyped(o)' /\ OpOK(o)'
                      /\ pc'[o] = "done" => \A f \in doomed'[o] : session'[f] = "gone"
    BY OpKept DEF MoverOK
  <1>4. \A f, g \in Finish :
           pc'[f] = "signed_in" /\ pc'[g] = "signed_in" /\ f # g => job'[f].ceremony # job'[g].ceremony
    <2> SUFFICES ASSUME NEW f \in Finish, NEW g \in Finish,
                        pc'[f] = "signed_in", pc'[g] = "signed_in", f # g
                 PROVE  job'[f].ceremony # job'[g].ceremony
      OBVIOUS
    <2>1. CASE f \in T
      BY <2>1 DEF FirstOf
    <2>2. CASE g \in T
      BY <2>2 DEF FirstOf
    <2>3. CASE f \notin T /\ g \notin T
      BY <2>3 DEF OnlyMoves, Request, Tx, IInv, OneSessionPerCeremony
    <2> QED
      BY <2>1, <2>2, <2>3
  <1>5. OneSessionPerCeremony' /\ RevokedForGood'
    BY <1>3, <1>4 DEF OneSessionPerCeremony, RevokedForGood
  <1>6. TypeOK'
    BY <1>1, <1>2, <1>3 DEF TypeOK
  <1> QED
    BY <1>1, <1>2, <1>3, <1>5, <1>6 DEF IInv, SessionsInv

------------------------------------------------------------------------------
(* Moving on, locking, ending *)

LEMMA Moved ==
  ASSUME RowsTyped, NEW t \in Request, NEW label, Goto(t, label)
  PROVE  /\ DOMAIN pc' = Tx \cup Check
         /\ pc'[t] = label
         /\ \A e \in Request \ {t} : pc'[e] = pc[e]
  BY DEF RowsTyped, Goto, Request

\* A step that takes no lock and does not end the transaction.
LEMMA LocksStay ==
  ASSUME RowsTyped, LocksOK, NEW t \in Request,
         \A e \in Request \ {t} : pc'[e] = pc[e],
         t \in Tx /\ InTx(t) => InTx(t)',
         locks' = locks, doomed' = doomed
  PROVE  LocksOK'
  <1>1. \A lk \in locks' : InTx(lk.tx)'
    BY DEF RowsTyped, LocksOK, InTx, Request
  <1> QED
    BY <1>1 DEF LocksOK

LEMMA Taken ==
  ASSUME RowsTyped, LocksOK, NEW t \in Tx, NEW row \in User \cup Ceremony \cup Finish,
         NEW mode \in Mode, Lock(t, row, mode),
         \A e \in Request \ {t} : pc'[e] = pc[e], InTx(t)',
         doomed' = doomed,
         row \in Finish => t \in Op /\ row \in doomed[t]
  PROVE  /\ LocksOK'
         /\ locks' \subseteq [tx : Tx, on : User \cup Ceremony \cup Finish, mode : Mode]
         /\ locks \subseteq locks'
         /\ [tx |-> t, on |-> row, mode |-> mode] \in locks'
  <1> DEFINE new == [tx |-> t, on |-> row, mode |-> mode]
  <1>1. locks' = locks \cup {new}
    BY DEF Lock
  <1>2. new \in [tx : Tx, on : User \cup Ceremony \cup Finish, mode : Mode]
        /\ new.tx = t /\ new.on = row /\ new.mode = mode
    OBVIOUS
  <1>3. \A lk \in locks : lk.on = row /\ Conflict(lk.mode, mode) => lk.tx = t
    BY DEF Lock, Free
  <1>4. \A m, n : Conflict(m, n) <=> Conflict(n, m)
    BY DEF Conflict
  <1> HIDE DEF new
  <1>5. \A lk \in locks' : InTx(lk.tx)'
    BY <1>1, <1>2 DEF RowsTyped, LocksOK, InTx, Request
  <1>6. \A lk, l2 \in locks' : lk.on = l2.on /\ Conflict(lk.mode, l2.mode) => lk.tx = l2.tx
    BY <1>1, <1>2, <1>3, <1>4 DEF LocksOK
  <1>7. \A lk \in locks' : lk.on \in Finish => lk.tx \in Op /\ lk.on \in doomed'[lk.tx]
    BY <1>1, <1>2 DEF LocksOK
  <1>8. LocksOK'
    BY <1>5, <1>6, <1>7 DEF LocksOK
  <1> QED
    BY <1>1, <1>2, <1>8 DEF RowsTyped, new

LEMMA Ended ==
  ASSUME RowsTyped, LocksOK, NEW t \in Tx, NEW label, End(t, label), doomed' = doomed
  PROVE  /\ LocksOK'
         /\ locks' \subseteq [tx : Tx, on : User \cup Ceremony \cup Finish, mode : Mode]
         /\ \A lk \in locks : lk.tx # t => lk \in locks'
  <1>1. /\ \A e \in Request \ {t} : pc'[e] = pc[e]
        /\ locks' = {lk \in locks : lk.tx # t}
    BY Moved DEF End, Request
  <1>2. \A lk \in locks' : InTx(lk.tx)'
    BY <1>1 DEF RowsTyped, LocksOK, InTx, Request
  <1> QED
    BY <1>1, <1>2 DEF RowsTyped, LocksOK

\* What is left to the others by a step that changes no row and no ceremony.
LEMMA Quiet ==
  ASSUME RowsTyped, NEW t \in Request,
         \A e \in Request \ {t} : pc'[e] = pc[e] /\ job'[e] = job[e],
         t \in Finish /\ pc[t] # "idle" => pc'[t] # "idle" /\ job'[t].ceremony = job[t].ceremony,
         UNCHANGED <<rows, ceremony>>
  PROVE  CeremoniesKept /\ RowsKept({t}) /\ BeginsUnlocked /\ SignsOut
  <1>1. CeremoniesKept
    BY DEF CeremoniesKept, Request, Tx
  <1>2. RowsKept({t})
    BY DEF RowsKept, rows
  <1> QED
    BY <1>1, <1>2 DEF BeginsUnlocked, SignsOut, rows

------------------------------------------------------------------------------
(* Ceremonies *)

LEMMA StartStep ==
  ASSUME IInv, NEW k \in Ceremony, Start(k)
  PROVE  IInv'
  <1>1. TypeOK /\ RowsTyped /\ LocksOK /\ \A f \in Finish : FinishTyped(f) /\ FinishOK(f)
    BY DEF IInv, SessionsInv, TypeOK
  <1>2. PICK u \in User, kind \in Kind, count \in Nat :
          /\ ceremony' = [ceremony EXCEPT ![k] = [user |-> u, kind |-> kind, count |-> count]]
          /\ device' = IF kind = "login" THEN [device EXCEPT ![u] = count] ELSE device
    <2>1. PICK u \in User, kind \in Kind :
            LET count == IF kind = "login" THEN device[u] + 1 ELSE 0
            IN  /\ ceremony' = [ceremony EXCEPT ![k] = [user |-> u, kind |-> kind, count |-> count]]
                /\ device' = IF kind = "login" THEN [device EXCEPT ![u] = count] ELSE device
      BY DEF Start
    <2>2. PICK count \in Nat : count = IF kind = "login" THEN device[u] + 1 ELSE 0
      BY <1>1 DEF RowsTyped
    <2> QED
      BY <2>1, <2>2
  <1>3. /\ challenge' = [challenge EXCEPT ![k] = "live"] /\ ceremony[k] = None
        /\ UNCHANGED <<active, stored, session, expires, locks, pc, job, doomed, clock>>
    BY DEF Start
  <1>4. RowsTyped'
    <2>1. device' \in [User -> Nat]
      BY <1>1, <1>2 DEF RowsTyped
    <2>2. ceremony' \in [Ceremony -> [user : User, kind : Kind, count : Nat] \cup {None}]
      BY <1>1, <1>2 DEF RowsTyped
    <2> QED
      BY <1>1, <1>3, <2>1, <2>2 DEF RowsTyped
  <1>5. LocksOK'
    BY <1>1, <1>3 DEF LocksOK, InTx
  <1>6. OnlyMoves({})
    BY <1>3 DEF OnlyMoves
  <1>7. \A j \in Ceremony : ceremony[j] # None =>
            ceremony'[j] = ceremony[j] /\ challenge'[j] = challenge[j]
    BY <1>1, <1>2, <1>3 DEF RowsTyped
  <1>8. CeremoniesKept
    BY <1>3, <1>7 DEF CeremoniesKept
  <1>9. RowsKept({})
    BY <1>1, <1>3, <1>7 DEF RowsKept, FinishTyped, FinishJob
  <1>10. BeginsUnlocked /\ SignsOut
    BY <1>3 DEF BeginsUnlocked, SignsOut
  <1> QED
    BY <1>4, <1>5, <1>6, <1>8, <1>9, <1>10, OthersKept

LEMMA LapseStep ==
  ASSUME IInv, NEW k \in Ceremony, Lapse(k)
  PROVE  IInv'
  <1>1. RowsTyped /\ LocksOK /\ \A f \in Finish : FinishTyped(f) /\ FinishOK(f)
    BY DEF IInv, SessionsInv, TypeOK
  <1>2. /\ challenge[k] = "live" /\ \A lk \in locks : lk.on # k
        /\ challenge' = [challenge EXCEPT ![k] = "stale"]
        /\ UNCHANGED <<active, stored, session, expires, device, ceremony, locks, pc, job,
                       doomed, clock>>
    BY DEF Lapse
  <1>3. RowsTyped'
    BY <1>1, <1>2 DEF RowsTyped
  <1>4. LocksOK'
    BY <1>1, <1>2 DEF LocksOK, InTx
  <1>5. OnlyMoves({}) /\ CeremoniesKept
    BY <1>2 DEF OnlyMoves, CeremoniesKept
  <1>6. \A f \in Finish : pc[f] \in {"touch", "commit", "signed_in"} => job[f].ceremony # k
    BY <1>1, <1>2 DEF FinishOK
  <1>7. RowsKept({})
    BY <1>1, <1>2, <1>6 DEF RowsKept, RowsTyped
  <1>8. BeginsUnlocked /\ SignsOut
    BY <1>2 DEF BeginsUnlocked, SignsOut
  <1> QED
    BY <1>3, <1>4, <1>5, <1>7, <1>8, OthersKept

LEMMA TickStep ==
  ASSUME IInv, Tick
  PROVE  IInv'
  <1>1. RowsTyped /\ LocksOK
    BY DEF IInv, SessionsInv, TypeOK
  <1>2. clock' = clock + 1 /\ clock < MaxClock
        /\ UNCHANGED <<rows, device, ceremony, locks, pc, job, doomed>>
    BY DEF Tick
  <1>3. RowsTyped'
    BY <1>1, <1>2, SessionsAssumption DEF RowsTyped, rows
  <1>4. LocksOK'
    BY <1>1, <1>2 DEF LocksOK, InTx
  <1>5. OnlyMoves({}) /\ CeremoniesKept /\ RowsKept({}) /\ BeginsUnlocked /\ SignsOut
    BY <1>2 DEF OnlyMoves, CeremoniesKept, RowsKept, BeginsUnlocked, SignsOut, rows
  <1> QED
    BY <1>3, <1>4, <1>5, OthersKept

LEMMA PostStep ==
  ASSUME IInv, NEW f \in Finish, Post(f)
  PROVE  IInv'
  <1>1. RowsTyped /\ LocksOK /\ FinishTyped(f) /\ FinishOK(f)
    BY DEF IInv, SessionsInv, TypeOK
  <1>2. PICK k \in Ceremony, label \in {"consume", "lookup"} :
          /\ ceremony[k] # None
          /\ job' = [job EXCEPT ![f] = [ceremony |-> k, now |-> clock, count |-> 0]]
          /\ Goto(f, label)
    BY DEF Post
  <1>3. pc[f] = "idle" /\ UNCHANGED <<rows, device, ceremony, locks, doomed, clock>>
    BY DEF Post
  <1>4. f \in Request /\ f \notin Op /\ f \notin Check
    BY SessionsAssumption DEF Request, Tx
  <1>5. DOMAIN pc' = Tx \cup Check /\ pc'[f] = label /\ \A e \in Request \ {f} : pc'[e] = pc[e]
    BY <1>1, <1>2, <1>4, Moved
  <1>6. /\ DOMAIN job' = Tx \cup Check /\ job'[f] = [ceremony |-> k, now |-> clock, count |-> 0]
        /\ \A e \in Request \ {f} : job'[e] = job[e]
    BY <1>1, <1>2, <1>4 DEF RowsTyped, Request
  <1>7. RowsTyped'
    BY <1>1, <1>3, <1>5, <1>6 DEF RowsTyped, rows
  <1>8. LocksOK'
    BY <1>1, <1>3, <1>4, <1>5, LocksStay DEF InTx
  <1>9. OnlyMoves({f})
    BY <1>3, <1>5, <1>6 DEF OnlyMoves
  <1>10. CeremoniesKept /\ RowsKept({f}) /\ BeginsUnlocked /\ SignsOut
    BY <1>1, <1>3, <1>4, <1>5, <1>6, Quiet
  <1>11. FinishTyped(f)' /\ FinishOK(f)' /\ FirstOf(f)
    <2>1. job'[f] \in FinishJob /\ job'[f].ceremony = k
      BY <1>1, <1>6 DEF RowsTyped, FinishJob
    <2> QED
      BY <1>1, <1>2, <1>3, <1>5, <2>1 DEF FinishTyped, FinishOK, FirstOf, rows
  <1>12. \A t \in {f} : MoverOK(t)
    BY <1>4, <1>11 DEF MoverOK
  <1> QED
    BY <1>7, <1>8, <1>9, <1>10, <1>11, <1>12, OthersKept

LEMMA LookupStep ==
  ASSUME IInv, NEW f \in Finish, Lookup(f)
  PROVE  IInv'
  <1>1. TypeOK /\ RowsTyped /\ LocksOK /\ FinishTyped(f) /\ FinishOK(f)
    BY DEF IInv, SessionsInv, TypeOK
  <1> DEFINE n == stored[UserOf(f)]
  <1>2. PICK label \in {"consume", "denied"} :
          /\ job' = [job EXCEPT ![f].count = n]
          /\ Goto(f, label)
    BY DEF Lookup
  <1>3. pc[f] = "lookup" /\ UNCHANGED <<rows, device, ceremony, locks, doomed, clock>>
    BY DEF Lookup
  <1>4. f \in Request /\ f \notin Op /\ f \notin Check /\ f \in Tx
    BY SessionsAssumption DEF Request, Tx
  <1>5. DOMAIN pc' = Tx \cup Check /\ pc'[f] = label /\ \A e \in Request \ {f} : pc'[e] = pc[e]
    BY <1>1, <1>2, <1>4, Moved
  <1>6. /\ DOMAIN job' = Tx \cup Check
        /\ job'[f] = [job[f] EXCEPT !.count = n]
        /\ \A e \in Request \ {f} : job'[e] = job[e]
    BY <1>1, <1>2, <1>4 DEF RowsTyped, Request
  <1>7. RowsTyped'
    BY <1>1, <1>3, <1>5, <1>6 DEF RowsTyped, rows
  <1>8. LocksOK'
    <2>1. \A lk \in locks : lk.tx # f
      BY <1>1, <1>3 DEF LocksOK, InTx
    <2> QED
      BY <1>1, <1>3, <1>4, <1>5, LocksStay DEF InTx
  <1>9. OnlyMoves({f})
    BY <1>3, <1>5, <1>6 DEF OnlyMoves
  <1>10. n \in Nat
    <2>1. UserOf(f) \in User
      BY <1>1, <1>3 DEF RowsTyped, FinishTyped, FinishJob, UserOf
    <2> QED
      BY <1>1, <1>2, <2>1 DEF RowsTyped
  <1>11. job'[f] \in FinishJob /\ job'[f].ceremony = job[f].ceremony
    <2>1. job[f] \in FinishJob
      BY <1>1, <1>3 DEF FinishTyped
    <2> QED
      BY <1>6, <1>10, <2>1 DEF FinishJob
  <1>12. CeremoniesKept /\ RowsKept({f}) /\ BeginsUnlocked /\ SignsOut
    BY <1>1, <1>3, <1>4, <1>5, <1>6, <1>11, Quiet
  <1>13. FinishTyped(f)' /\ FinishOK(f)' /\ FirstOf(f)
    BY <1>1, <1>3, <1>5, <1>11 DEF FinishTyped, FinishOK, FirstOf, rows
  <1>14. \A t \in {f} : MoverOK(t)
    BY <1>4, <1>13 DEF MoverOK
  <1> QED
    BY <1>7, <1>8, <1>9, <1>12, <1>13, <1>14, OthersKept

\* A step of t that changes nothing but its place and its locks.
LEMMA Settled ==
  ASSUME IInv, NEW t \in Request, DOMAIN pc' = Tx \cup Check,
         \A e \in Request \ {t} : pc'[e] = pc[e], pc[t] # "idle", pc'[t] # "idle" \/ t \notin Finish,
         locks' \subseteq [tx : Tx, on : User \cup Ceremony \cup Finish, mode : Mode],
         \A lk \in locks : lk.tx # t => lk \in locks', LocksOK',
         UNCHANGED <<rows, device, ceremony, job, doomed, clock>>,
         MoverOK(t), t \in Finish => pc'[t] # "signed_in"
  PROVE  IInv'
  <1>1. RowsTyped
    BY DEF IInv, SessionsInv, TypeOK
  <1>2. RowsTyped'
    BY <1>1 DEF RowsTyped, rows
  <1>3. OnlyMoves({t})
    BY DEF OnlyMoves
  <1>4. CeremoniesKept /\ RowsKept({t}) /\ BeginsUnlocked /\ SignsOut
    BY <1>1, Quiet
  <1>5. \A f \in Finish \cap {t} : FirstOf(f)
    BY DEF FirstOf
  <1> QED
    BY <1>2, <1>3, <1>4, <1>5, OthersKept

LEMMA AbortStep ==
  ASSUME IInv, NEW t \in Tx, InTx(t), End(t, "failed"),
         UNCHANGED <<rows, device, ceremony, job, doomed, clock>>
  PROVE  IInv'
  <1>1. TypeOK /\ RowsTyped /\ LocksOK
    BY DEF IInv, SessionsInv, TypeOK
  <1>2. /\ DOMAIN pc' = Tx \cup Check /\ pc'[t] = "failed" /\ t \in Request /\ t \notin Check
        /\ \A e \in Request \ {t} : pc'[e] = pc[e]
    BY <1>1, Moved, SessionsAssumption DEF End, Request, Tx
  <1>3. /\ LocksOK'
        /\ locks' \subseteq [tx : Tx, on : User \cup Ceremony \cup Finish, mode : Mode]
        /\ \A lk \in locks : lk.tx # t => lk \in locks'
    BY <1>1, Ended
  <1>4. ASSUME t \in Finish PROVE FinishTyped(t)' /\ FinishOK(t)'
    <2>1. FinishTyped(t) /\ FinishOK(t)
      BY <1>4 DEF IInv, SessionsInv, TypeOK
    <2> QED
      BY <1>2, <2>1 DEF FinishTyped, FinishOK, InTx, rows
  <1>5. ASSUME t \in Op PROVE OpTyped(t)' /\ OpOK(t)'
    <2>1. OpTyped(t) /\ OpOK(t)
      BY <1>5 DEF IInv, SessionsInv, TypeOK
    <2> QED
      BY <1>2, <2>1 DEF OpTyped, OpOK, InTx, rows
  <1>6. MoverOK(t) /\ pc[t] # "idle"
    BY <1>2, <1>4, <1>5 DEF MoverOK, InTx
  <1> QED
    BY <1>2, <1>3, <1>6, Settled

LEMMA ConsumeStep ==
  ASSUME IInv, NEW f \in Finish, Consume(f)
  PROVE  IInv'
  <1>1. RowsTyped /\ LocksOK /\ FinishTyped(f) /\ FinishOK(f) /\ job[f].ceremony \in Ceremony
    BY DEF IInv, SessionsInv, TypeOK, Consume, FinishTyped, FinishJob
  <1>2. /\ pc[f] = "consume"
        /\ UNCHANGED <<rows, device, ceremony, job, doomed, clock>>
    BY DEF Consume
  <1>3. f \in Request /\ f \notin Op /\ f \notin Check /\ f \in Tx
        /\ job[f].ceremony \notin Finish
    BY <1>1, SessionsAssumption DEF Request, Tx
  <1>4. CASE End(f, "failed")
    BY <1>2, <1>3, <1>4, AbortStep DEF InTx
  <1>5. CASE /\ challenge[job[f].ceremony] = "live"
             /\ Lock(f, job[f].ceremony, "update") /\ Goto(f, "touch")
    <2>1. /\ DOMAIN pc' = Tx \cup Check /\ pc'[f] = "touch"
          /\ \A e \in Request \ {f} : pc'[e] = pc[e]
      BY <1>1, <1>3, <1>5, Moved
    <2>2. /\ LocksOK' /\ locks \subseteq locks'
          /\ locks' \subseteq [tx : Tx, on : User \cup Ceremony \cup Finish, mode : Mode]
          /\ [tx |-> f, on |-> job[f].ceremony, mode |-> "update"] \in locks'
      BY <1>1, <1>2, <1>3, <1>5, <2>1, Taken DEF InTx, Mode
    <2>3. FinishTyped(f)' /\ FinishOK(f)'
      BY <1>1, <1>2, <1>5, <2>1, <2>2 DEF FinishTyped, FinishOK, rows
    <2>4. MoverOK(f)
      BY <1>3, <2>3 DEF MoverOK
    <2> QED
      BY <1>2, <1>3, <2>1, <2>2, <2>4, Settled
  <1> QED
    BY <1>4, <1>5 DEF Consume

LEMMA TouchStep ==
  ASSUME IInv, NEW f \in Finish, Touch(f)
  PROVE  IInv'
  <1>1. TypeOK /\ RowsTyped /\ LocksOK /\ FinishTyped(f) /\ FinishOK(f)
    BY DEF IInv, SessionsInv, TypeOK
  <1>2. PICK mode \in Mode : Lock(f, UserOf(f), mode)
    BY DEF Touch, Mode
  <1>3. /\ pc[f] = "touch" /\ Goto(f, "commit")
        /\ UNCHANGED <<rows, device, ceremony, job, doomed, clock>>
    BY DEF Touch
  <1>4. UserOf(f) \in User /\ UserOf(f)' = UserOf(f)
    BY <1>1, <1>3 DEF RowsTyped, FinishTyped, FinishJob, UserOf
  <1>5. f \in Request /\ f \notin Op /\ f \notin Check /\ f \in Tx /\ UserOf(f) \notin Finish
    BY <1>4, SessionsAssumption DEF Request, Tx
  <1>6. /\ DOMAIN pc' = Tx \cup Check /\ pc'[f] = "commit"
        /\ \A e \in Request \ {f} : pc'[e] = pc[e]
    BY <1>1, <1>3, <1>5, Moved
  <1>7. /\ LocksOK' /\ locks \subseteq locks'
        /\ locks' \subseteq [tx : Tx, on : User \cup Ceremony \cup Finish, mode : Mode]
        /\ [tx |-> f, on |-> UserOf(f), mode |-> mode] \in locks'
    BY <1>1, <1>2, <1>3, <1>4, <1>5, <1>6, Taken DEF InTx
  <1>8. \E lk \in locks' : lk.tx = f /\ lk.on = UserOf(f)'
    BY <1>4, <1>7
  <1>9. FinishTyped(f)' /\ FinishOK(f)'
    BY <1>1, <1>3, <1>6, <1>7, <1>8 DEF FinishTyped, FinishOK, rows
  <1>10. MoverOK(f)
    BY <1>5, <1>9 DEF MoverOK
  <1> QED
    BY <1>3, <1>5, <1>6, <1>7, <1>10, Settled

LEMMA CreateSessionStep ==
  ASSUME IInv, NEW f \in Finish, CreateSession(f)
  PROVE  IInv'
  <1>1. TypeOK /\ RowsTyped /\ LocksOK /\ FinishTyped(f) /\ \A g \in Finish : FinishOK(g)
    BY DEF IInv, SessionsInv, TypeOK
  <1>2. PICK k \in Ceremony : k = job[f].ceremony
    BY <1>1 DEF CreateSession, FinishTyped, FinishJob
  <1>3. /\ pc[f] = "commit" /\ End(f, "signed_in")
        /\ challenge' = [challenge EXCEPT ![k] = "used"]
        /\ session' = [session EXCEPT ![f] = "live"]
        /\ stored' = Counted(f)
        /\ expires' = [expires EXCEPT ![f] = job[f].now + TTL]
        /\ UNCHANGED <<active, device, ceremony, job, doomed, clock>>
    BY <1>2 DEF CreateSession
  <1>4. f \in Request /\ f \notin Op /\ f \notin Check /\ f \in Tx
    BY SessionsAssumption DEF Request, Tx
  <1>5. /\ DOMAIN pc' = Tx \cup Check /\ pc'[f] = "signed_in"
        /\ \A e \in Request \ {f} : pc'[e] = pc[e]
    BY <1>1, <1>3, <1>4, Moved DEF End
  <1>6. /\ LocksOK'
        /\ locks' \subseteq [tx : Tx, on : User \cup Ceremony \cup Finish, mode : Mode]
        /\ \A lk \in locks : lk.tx # f => lk \in locks'
    BY <1>1, <1>3, <1>4, Ended
  <1>7. session[f] = "none" /\ challenge[k] = "live"
        /\ [tx |-> f, on |-> k, mode |-> "update"] \in locks
    BY <1>1, <1>2, <1>3 DEF FinishOK
  <1>8. RowsTyped'
    <2>1. stored' \in [User -> Nat]
      <3>1. ceremony[k].count \in Nat
        BY <1>1, <1>2, <1>3 DEF RowsTyped, FinishTyped
      <3> QED
        BY <1>1, <1>2, <1>3, <3>1 DEF Counted, RowsTyped
    <2>2. expires' \in [Finish -> 0 .. MaxClock + TTL]
      <3>1. job[f].now + TTL \in 0 .. MaxClock + TTL
        BY <1>1, <1>3, SessionsAssumption DEF FinishTyped, FinishJob
      <3> QED
        BY <1>1, <1>3, <3>1 DEF RowsTyped
    <2>3. /\ session' \in [Finish -> {"none", "live", "gone"}]
          /\ challenge' \in [Ceremony -> {"none", "live", "stale", "used"}]
      BY <1>1, <1>3 DEF RowsTyped
    <2> QED
      BY <1>1, <1>3, <1>5, <1>6, <2>1, <2>2, <2>3 DEF RowsTyped
  <1>9. OnlyMoves({f})
    BY <1>3, <1>5, <1>6 DEF OnlyMoves
  <1>10. CeremoniesKept
    BY <1>3, <1>4, <1>5 DEF CeremoniesKept, Request, Tx
  \* Nobody else is past this challenge: it is live and f has it locked.
  <1>11. \A g \in Finish \ {f} :
            pc[g] \in {"touch", "commit", "signed_in"} => job[g].ceremony # k
    <2> SUFFICES ASSUME NEW g \in Finish \ {f}, job[g].ceremony = k,
                        pc[g] \in {"touch", "commit", "signed_in"}
                 PROVE  FALSE
      OBVIOUS
    <2>1. CASE pc[g] = "signed_in"
      BY <1>1, <1>7, <2>1 DEF FinishOK
    <2>2. CASE pc[g] \in {"touch", "commit"}
      <3>1. [tx |-> g, on |-> k, mode |-> "update"] \in locks
        BY <1>1, <2>2 DEF FinishOK
      <3> QED
        BY <1>1, <1>7, <3>1 DEF LocksOK, Conflict
    <2> QED
      BY <2>1, <2>2
  <1>12. RowsKept({f})
    BY <1>1, <1>3, <1>7, <1>11 DEF RowsKept, RowsTyped
  \* No deactivation has the user locked: f has.
  <1>13. BeginsUnlocked
    <2>1. PICK lk \in locks : lk.tx = f /\ lk.on = UserOf(f)
      BY <1>1, <1>3 DEF FinishOK
    <2>2. \A o \in Op : [tx |-> o, on |-> UserOf(f), mode |-> "update"] \notin locks
      BY <1>1, <1>4, <2>1 DEF LocksOK, Conflict
    <2>3. \A g \in Finish \ {f} : session'[g] = session[g]
      BY <1>1, <1>3 DEF RowsTyped
    <2> QED
      BY <1>3, <2>2, <2>3 DEF BeginsUnlocked
  <1>14. SignsOut
    BY <1>3 DEF SignsOut
  <1>15. FinishTyped(f)' /\ FinishOK(f)'
    <2>1. challenge'[k] = "used" /\ session'[f] = "live"
      BY <1>1, <1>3 DEF RowsTyped
    <2> QED
      BY <1>1, <1>2, <1>3, <1>5, <2>1 DEF FinishTyped, FinishOK
  <1>16. FirstOf(f)
    BY <1>2, <1>3, <1>4, <1>5, <1>11 DEF FirstOf, Request, Tx
  <1>17. \A t \in {f} : MoverOK(t)
    BY <1>4, <1>15 DEF MoverOK
  <1> QED
    BY <1>6, <1>8, <1>9, <1>10, <1>12, <1>13, <1>14, <1>16, <1>17, OthersKept

------------------------------------------------------------------------------
(* The session guard *)

LEMMA MatchStep ==
  ASSUME IInv, NEW q \in Check, Match(q)
  PROVE  IInv'
  <1>1. TypeOK /\ RowsTyped /\ LocksOK /\ CheckTyped(q)
    BY DEF IInv, SessionsInv, TypeOK
  <1>2. PICK f \in Finish, label \in {"bump", "diagnose"} :
          /\ session[f] # "none"
          /\ job' = [job EXCEPT ![q] = [session |-> f, now |-> clock]]
          /\ Goto(q, label)
          /\ label = "bump" => active[UserOf(f)]
    BY DEF Match
  <1>3. pc[q] = "idle" /\ UNCHANGED <<rows, device, ceremony, locks, doomed, clock>>
    BY DEF Match
  <1>4. q \in Request /\ q \notin Op /\ q \notin Finish /\ q \notin Tx
    BY SessionsAssumption DEF Request, Tx
  <1>5. DOMAIN pc' = Tx \cup Check /\ pc'[q] = label /\ \A e \in Request \ {q} : pc'[e] = pc[e]
    BY <1>1, <1>2, <1>4, Moved
  <1>6. /\ DOMAIN job' = Tx \cup Check /\ job'[q] = [session |-> f, now |-> clock]
        /\ \A e \in Request \ {q} : job'[e] = job[e]
    BY <1>1, <1>2, <1>4 DEF RowsTyped, Request
  <1>7. RowsTyped'
    BY <1>1, <1>3, <1>5, <1>6 DEF RowsTyped, rows
  <1>8. LocksOK'
    BY <1>1, <1>3, <1>4, <1>5, LocksStay
  <1>9. OnlyMoves({q})
    BY <1>3, <1>5, <1>6 DEF OnlyMoves
  <1>10. CeremoniesKept /\ RowsKept({q}) /\ BeginsUnlocked /\ SignsOut
    BY <1>1, <1>3, <1>4, <1>5, <1>6, Quiet
  <1>11. CheckTyped(q)' /\ CheckOK(q)'
    <2>1. job'[q] \in CheckJob /\ job'[q].session = f
      BY <1>1, <1>6 DEF RowsTyped, CheckJob
    <2>2. UserOf(f)' = UserOf(f)
      BY <1>3, <1>4, <1>6 DEF UserOf, Request, Tx
    <2> QED
      BY <1>2, <1>3, <1>5, <2>1, <2>2 DEF CheckTyped, CheckOK, rows
  <1>12. \A t \in {q} : MoverOK(t)
    BY <1>4, <1>11 DEF MoverOK
  <1> QED
    BY <1>4, <1>7, <1>8, <1>9, <1>10, <1>12, OthersKept

\* A step of a guard whose session still exists, or that is over.
LEMMA GuardMoved ==
  ASSUME IInv, NEW q \in Check, NEW label \in {"idle", "diagnose", "drop", "served"},
         Goto(q, label), pc[q] # "idle",
         UNCHANGED <<active, stored, challenge, device, ceremony, locks, job, doomed, clock>>,
         expires' \in [Finish -> 0 .. MaxClock + TTL],
         session' \in [Finish -> {"none", "live", "gone"}],
         \A f \in Finish : session'[f] = session[f] \/ (session[f] = "live" /\ session'[f] = "gone")
  PROVE  IInv'
  <1>1. TypeOK /\ RowsTyped /\ LocksOK /\ CheckTyped(q) /\ CheckOK(q)
    BY DEF IInv, SessionsInv, TypeOK
  <1>2. q \in Request /\ q \notin Op /\ q \notin Finish /\ q \notin Tx
    BY SessionsAssumption DEF Request, Tx
  <1>3. DOMAIN pc' = Tx \cup Check /\ pc'[q] = label /\ \A e \in Request \ {q} : pc'[e] = pc[e]
    BY <1>1, <1>2, Moved
  <1>4. RowsTyped'
    BY <1>1, <1>3 DEF RowsTyped
  <1>5. LocksOK'
    BY <1>1, <1>2, <1>3, LocksStay
  <1>6. OnlyMoves({q})
    BY <1>3 DEF OnlyMoves
  <1>7. CeremoniesKept /\ RowsKept({q})
    BY <1>2, <1>3 DEF CeremoniesKept, RowsKept, Request, Tx
  <1>8. BeginsUnlocked /\ SignsOut
    BY DEF BeginsUnlocked, SignsOut
  <1>9. CheckTyped(q)' /\ CheckOK(q)'
    <2>1. PICK f \in Finish : f = job[q].session /\ session[f] # "none"
      BY <1>1 DEF CheckTyped, CheckJob, CheckOK
    <2>2. job'[q] = job[q] /\ session'[f] # "none"
      BY <2>1
    <2> QED
      BY <1>1, <1>3, <2>1, <2>2 DEF CheckTyped, CheckOK
  <1>10. \A t \in {q} : MoverOK(t)
    BY <1>2, <1>9 DEF MoverOK
  <1> QED
    BY <1>2, <1>4, <1>5, <1>6, <1>7, <1>8, <1>10, OthersKept

LEMMA BumpStep ==
  ASSUME IInv, NEW q \in Check, Bump(q)
  PROVE  IInv'
  <1>1. RowsTyped /\ CheckTyped(q) /\ pc[q] = "bump"
    BY DEF IInv, SessionsInv, TypeOK, Bump
  <1>2. job[q].now + TTL \in 0 .. MaxClock + TTL
    BY <1>1, SessionsAssumption DEF CheckTyped, CheckJob
  <1>3. expires' \in [Finish -> 0 .. MaxClock + TTL]
    BY <1>1, <1>2 DEF Bump, RowsTyped
  <1>4. PICK label \in {"served", "diagnose"} : Goto(q, label)
    BY DEF Bump
  <1>5. UNCHANGED <<active, stored, session, challenge, device, ceremony, locks, job, doomed, clock>>
    BY DEF Bump
  <1> QED
    BY <1>1, <1>3, <1>4, <1>5, GuardMoved DEF RowsTyped

LEMMA DiagnoseStep ==
  ASSUME IInv, NEW q \in Check, Diagnose(q) \/ Reply(q)
  PROVE  IInv'
  <1>1. RowsTyped /\ pc[q] # "idle"
    BY DEF IInv, SessionsInv, TypeOK, Diagnose, Reply
  <1>2. PICK label \in {"drop", "idle"} : Goto(q, label)
    BY DEF Diagnose, Reply
  <1>3. UNCHANGED <<rows, device, ceremony, locks, job, doomed, clock>>
    BY DEF Diagnose, Reply
  <1> QED
    BY <1>1, <1>2, <1>3, GuardMoved DEF RowsTyped, rows

LEMMA Deleted ==
  ASSUME RowsTyped, NEW f \in Finish, Delete(f)
  PROVE  /\ session' \in [Finish -> {"none", "live", "gone"}]
         /\ \A g \in Finish : session'[g] = session[g] \/ (session[g] = "live" /\ session'[g] = "gone")
         /\ UNCHANGED <<active, stored, expires, challenge, device, ceremony, locks, job, doomed, clock>>
  BY DEF Delete, RowsTyped

LEMMA DropStep ==
  ASSUME IInv, NEW q \in Check, Drop(q)
  PROVE  IInv'
  <1>1. RowsTyped /\ CheckTyped(q) /\ pc[q] = "drop" /\ Goto(q, "idle")
    BY DEF IInv, SessionsInv, TypeOK, Drop
  <1>2. PICK f \in Finish : Delete(f)
    BY <1>1 DEF Drop, CheckTyped, CheckJob
  <1> QED
    BY <1>1, <1>2, Deleted, GuardMoved DEF RowsTyped

LEMMA LogoutStep ==
  ASSUME IInv, NEW f \in Finish, Logout(f)
  PROVE  IInv'
  <1>1. RowsTyped /\ LocksOK
    BY DEF IInv, SessionsInv, TypeOK
  <1>2. /\ session' \in [Finish -> {"none", "live", "gone"}]
        /\ \A g \in Finish : session'[g] = session[g] \/ (session[g] = "live" /\ session'[g] = "gone")
        /\ UNCHANGED <<active, stored, expires, challenge, device, ceremony, locks, job, doomed, clock>>
        /\ pc' = pc
    BY <1>1, Deleted DEF Logout
  <1>3. RowsTyped'
    BY <1>1, <1>2 DEF RowsTyped
  <1>4. LocksOK'
    BY <1>1, <1>2 DEF LocksOK, InTx
  <1>5. OnlyMoves({}) /\ CeremoniesKept /\ RowsKept({}) /\ BeginsUnlocked /\ SignsOut
    BY <1>2 DEF OnlyMoves, CeremoniesKept, RowsKept, BeginsUnlocked, SignsOut
  <1> QED
    BY <1>3, <1>4, <1>5, OthersKept

------------------------------------------------------------------------------
(* DeactivateUser, ReactivateUser, LogoutAll *)

LEMMA BeginStep ==
  ASSUME IInv, NEW o \in Op, Begin(o)
  PROVE  IInv'
  <1>1. RowsTyped /\ LocksOK /\ OpTyped(o) /\ OpOK(o)
    BY DEF IInv, SessionsInv, TypeOK
  <1>2. PICK u \in User, kind \in OpKind :
          /\ job' = [job EXCEPT ![o] = [user |-> u, kind |-> kind]]
          /\ Goto(o, IF kind = "logout_all" THEN "find" ELSE "lock")
    BY DEF Begin
  <1>3. pc[o] = "idle" /\ UNCHANGED <<rows, device, ceremony, locks, doomed, clock>>
    BY DEF Begin
  <1>4. o \in Request /\ o \notin Finish /\ o \notin Check
    BY SessionsAssumption DEF Request, Tx
  <1>5. /\ DOMAIN pc' = Tx \cup Check
        /\ pc'[o] = IF kind = "logout_all" THEN "find" ELSE "lock"
        /\ \A e \in Request \ {o} : pc'[e] = pc[e]
    BY <1>1, <1>2, <1>4, Moved
  <1>6. /\ DOMAIN job' = Tx \cup Check /\ job'[o] = [user |-> u, kind |-> kind]
        /\ \A e \in Request \ {o} : job'[e] = job[e]
    BY <1>1, <1>2, <1>4 DEF RowsTyped, Request
  <1>7. RowsTyped'
    BY <1>1, <1>3, <1>5, <1>6 DEF RowsTyped, rows
  <1>8. LocksOK'
    BY <1>1, <1>3, <1>4, <1>5, LocksStay DEF InTx
  <1>9. OnlyMoves({o})
    BY <1>3, <1>5, <1>6 DEF OnlyMoves
  <1>10. CeremoniesKept /\ RowsKept({o}) /\ BeginsUnlocked /\ SignsOut
    BY <1>1, <1>3, <1>4, <1>5, <1>6, Quiet
  <1>11. OpTyped(o)' /\ OpOK(o)'
    <2>1. doomed'[o] = {}
      BY <1>1, <1>3 DEF OpOK
    <2>2. job'[o] \in OpJob /\ job'[o].kind = kind
      BY <1>6 DEF OpJob
    <2> QED
      BY <1>5, <2>1, <2>2 DEF OpTyped, OpOK
  <1>12. \A t \in {o} : MoverOK(t)
    BY <1>4, <1>5, <1>11 DEF MoverOK
  <1> QED
    BY <1>4, <1>7, <1>8, <1>9, <1>10, <1>12, OthersKept

\* What an Op that has begun knows of its job, its sessions and its kind.
LEMMA OpFacts ==
  ASSUME IInv, NEW o \in Op, pc[o] # "idle"
  PROVE  /\ RowsTyped /\ LocksOK /\ OpTyped(o) /\ OpOK(o)
         /\ o \in Request /\ o \in Tx /\ o \notin Finish /\ o \notin Check
         /\ job[o] \in OpJob /\ job[o].user \in User /\ job[o].user \notin Finish
         /\ job[o].kind \in OpKind
  BY SessionsAssumption DEF IInv, SessionsInv, TypeOK, OpTyped, OpJob, Request, Tx

\* The end of an Op that found no session, or has refused.
LEMMA OpEnded ==
  ASSUME IInv, NEW o \in Op, pc[o] = "lock", End(o, "refused"),
         UNCHANGED <<rows, device, ceremony, job, doomed, clock>>
  PROVE  IInv'
  <1>1. RowsTyped /\ LocksOK /\ OpTyped(o) /\ OpOK(o) /\ o \in Request /\ o \in Tx
        /\ o \notin Finish /\ o \notin Check
    BY OpFacts
  <1>2. /\ DOMAIN pc' = Tx \cup Check /\ pc'[o] = "refused"
        /\ \A e \in Request \ {o} : pc'[e] = pc[e]
    BY <1>1, Moved DEF End
  <1>3. /\ LocksOK'
        /\ locks' \subseteq [tx : Tx, on : User \cup Ceremony \cup Finish, mode : Mode]
        /\ \A lk \in locks : lk.tx # o => lk \in locks'
    BY <1>1, Ended
  <1>4. OpTyped(o)' /\ OpOK(o)'
    BY <1>1, <1>2 DEF OpTyped, OpOK
  <1>5. MoverOK(o)
    BY <1>1, <1>2, <1>4 DEF MoverOK
  <1> QED
    BY <1>1, <1>2, <1>3, <1>5, Settled

LEMMA LockUserStep ==
  ASSUME IInv, NEW o \in Op, LockUser(o)
  PROVE  IInv'
  <1>1. pc[o] = "lock" /\ UNCHANGED <<rows, device, ceremony, job, doomed, clock>>
    BY DEF LockUser
  <1>2. CASE End(o, "refused")
    BY <1>1, <1>2, OpEnded
  <1>3. CASE /\ Lock(o, job[o].user, "update")
             /\ Goto(o, IF job[o].kind = "deactivate" THEN "find" ELSE "commit")
             /\ active[job[o].user] <=> job[o].kind = "deactivate"
    <2>1. /\ RowsTyped /\ LocksOK /\ OpTyped(o) /\ OpOK(o)
          /\ o \in Request /\ o \in Tx /\ o \notin Finish /\ o \notin Check
          /\ job[o].user \in User /\ job[o].user \notin Finish
      BY <1>1, OpFacts
    <2>2. /\ DOMAIN pc' = Tx \cup Check
          /\ pc'[o] = IF job[o].kind = "deactivate" THEN "find" ELSE "commit"
          /\ \A e \in Request \ {o} : pc'[e] = pc[e]
      BY <1>3, <2>1, Moved
    <2>3. /\ LocksOK' /\ locks \subseteq locks'
          /\ locks' \subseteq [tx : Tx, on : User \cup Ceremony \cup Finish, mode : Mode]
          /\ [tx |-> o, on |-> job[o].user, mode |-> "update"] \in locks'
      BY <1>1, <1>3, <2>1, <2>2, Taken DEF InTx, Mode
    <2>4. doomed[o] = {} /\ doomed' = doomed /\ job' = job
      BY <1>1, <2>1 DEF OpOK
    <2>5. OpTyped(o)' /\ OpOK(o)'
      BY <1>1, <2>1, <2>2, <2>3, <2>4 DEF OpTyped, OpOK
    <2>6. MoverOK(o)
      BY <2>1, <2>2, <2>5 DEF MoverOK
    <2> QED
      BY <1>1, <2>1, <2>2, <2>3, <2>6, Settled
  <1> QED
    BY <1>2, <1>3 DEF LockUser

LEMMA FindStep ==
  ASSUME IInv, NEW o \in Op, Find(o)
  PROVE  IInv'
  <1>1. /\ pc[o] = "find" /\ Goto(o, "reap")
        /\ doomed' = [doomed EXCEPT ![o] = Live(job[o].user)]
        /\ UNCHANGED <<rows, device, ceremony, locks, job, clock>>
    BY DEF Find
  <1>2. /\ RowsTyped /\ LocksOK /\ OpTyped(o) /\ OpOK(o)
        /\ o \in Request /\ o \in Tx /\ o \notin Finish /\ o \notin Check
    BY <1>1, OpFacts
  <1>3. /\ DOMAIN pc' = Tx \cup Check /\ pc'[o] = "reap"
        /\ \A e \in Request \ {o} : pc'[e] = pc[e]
    BY <1>1, <1>2, Moved
  <1>4. /\ doomed'[o] = Live(job[o].user) /\ \A e \in Op \ {o} : doomed'[e] = doomed[e]
        /\ doomed' \in [Op -> SUBSET Finish]
    BY <1>1, <1>2 DEF RowsTyped, Live
  <1>5. RowsTyped'
    BY <1>1, <1>2, <1>3, <1>4 DEF RowsTyped, rows
  \* It has not locked a session yet: it had found none.
  <1>6. LocksOK'
    <2>1. \A lk \in locks' : InTx(lk.tx)'
      BY <1>1, <1>2, <1>3 DEF RowsTyped, LocksOK, InTx, Request
    <2>2. \A lk \in locks' : lk.on \in Finish => lk.tx \in Op /\ lk.on \in doomed'[lk.tx]
      BY <1>1, <1>2, <1>4 DEF LocksOK, OpOK
    <2> QED
      BY <1>1, <1>2, <2>1, <2>2 DEF LocksOK
  <1>7. OnlyMoves({o})
    BY <1>1, <1>3, <1>4 DEF OnlyMoves
  <1>8. CeremoniesKept /\ RowsKept({o}) /\ BeginsUnlocked /\ SignsOut
    BY <1>1, <1>2, <1>3, Quiet
  <1>9. Live(job[o].user)' = Live(job[o].user) /\ \A f \in Live(job[o].user) : session[f] = "live"
    BY <1>1 DEF Live, UserOf, rows
  <1>10. OpTyped(o)' /\ OpOK(o)'
    <2>1. OpTyped(o)'
      BY <1>1, <1>2, <1>3 DEF OpTyped
    <2>2. /\ job'[o] = job[o] /\ job[o].kind # "reactivate" /\ session' = session
          /\ job[o].kind = "deactivate" => [tx |-> o, on |-> job[o].user, mode |-> "update"] \in locks'
      BY <1>1, <1>2 DEF OpOK, rows
    <2> QED
      BY <1>3, <1>4, <1>9, <2>1, <2>2 DEF OpOK
  <1>11. \A t \in {o} : MoverOK(t)
    BY <1>2, <1>3, <1>10 DEF MoverOK
  <1> QED
    BY <1>2, <1>5, <1>6, <1>7, <1>8, <1>11, OthersKept

\* What an Op has found and holds, after a step that changes neither rows,
\* jobs nor what it has found.
LEMMA SameSessions ==
  ASSUME NEW o, locks \subseteq locks', UNCHANGED <<rows, ceremony, job, doomed>>
  PROVE  /\ Held(o) \subseteq Held(o)'
         /\ Live(job[o].user)' = Live(job[o].user)
  BY DEF Held, Live, UserOf, rows

LEMMA ReapStep ==
  ASSUME IInv, NEW o \in Op, Reap(o)
  PROVE  IInv'
  <1>1. /\ pc[o] = "reap"
        /\ UNCHANGED <<rows, device, ceremony, pc, job, doomed, clock>>
    BY DEF Reap
  <1>2. /\ RowsTyped /\ LocksOK /\ OpTyped(o) /\ OpOK(o)
        /\ o \in Request /\ o \in Tx /\ o \notin Finish /\ o \notin Check
    BY <1>1, OpFacts
  <1>3. PICK f \in Finish : f \in doomed[o] /\ Lock(o, f, "update")
    BY <1>2 DEF Reap, Todo, RowsTyped
  <1>4. /\ LocksOK' /\ locks \subseteq locks'
        /\ locks' \subseteq [tx : Tx, on : User \cup Ceremony \cup Finish, mode : Mode]
    BY <1>1, <1>2, <1>3, Taken DEF InTx, Mode
  <1>5. OpTyped(o)' /\ OpOK(o)'
    <2>1. Live(job[o].user)' = Live(job[o].user)
      BY <1>1, <1>4, SameSessions
    <2> QED
      BY <1>1, <1>2, <1>4, <2>1 DEF OpTyped, OpOK, rows
  <1>6. MoverOK(o)
    BY <1>1, <1>2, <1>5 DEF MoverOK
  <1> QED
    BY <1>1, <1>2, <1>4, <1>6, Settled DEF RowsTyped

LEMMA ReapedStep ==
  ASSUME IInv, NEW o \in Op, Reaped(o)
  PROVE  IInv'
  <1>1. /\ pc[o] = "reap" /\ Todo(o) = {}
        /\ Goto(o, IF job[o].kind = "deactivate" THEN "commit" ELSE "audit")
        /\ UNCHANGED <<rows, device, ceremony, locks, job, doomed, clock>>
    BY DEF Reaped
  <1>2. /\ RowsTyped /\ LocksOK /\ OpTyped(o) /\ OpOK(o)
        /\ o \in Request /\ o \in Tx /\ o \notin Finish /\ o \notin Check
        /\ job[o].kind \in OpKind
    BY <1>1, OpFacts
  <1>3. /\ DOMAIN pc' = Tx \cup Check
        /\ pc'[o] = IF job[o].kind = "deactivate" THEN "commit" ELSE "audit"
        /\ \A e \in Request \ {o} : pc'[e] = pc[e]
    BY <1>1, <1>2, Moved
  <1>4. LocksOK'
    BY <1>1, <1>2, <1>3, LocksStay DEF InTx
  \* A session it found has begun, is not live and so is gone, or it is held.
  <1>5. \A f \in doomed[o] : session[f] = "gone" \/ f \in Held(o)
    BY <1>1, <1>2 DEF Todo, OpOK, RowsTyped
  <1>6. OpTyped(o)' /\ OpOK(o)'
    <2>1. Held(o) \subseteq Held(o)' /\ Live(job[o].user)' = Live(job[o].user)
      BY <1>1, SameSessions
    <2>2. /\ session' = session /\ job' = job /\ doomed' = doomed
          /\ \A f \in doomed[o] : session'[f] = "gone" \/ f \in Held(o)'
      BY <1>1, <1>5, <2>1 DEF rows
    <2>3. pc'[o] = "audit" => job[o].kind = "logout_all"
      BY <1>1, <1>2, <1>3 DEF OpOK, OpKind
    <2> QED
      BY <1>1, <1>2, <1>3, <2>1, <2>2, <2>3 DEF OpTyped, OpOK
  <1>7. MoverOK(o)
    BY <1>2, <1>3, <1>6 DEF MoverOK
  <1> QED
    BY <1>1, <1>2, <1>3, <1>4, <1>7, Settled DEF RowsTyped

LEMMA AuditStep ==
  ASSUME IInv, NEW o \in Op, Audit(o)
  PROVE  IInv'
  <1>1. /\ pc[o] = "audit" /\ Lock(o, job[o].user, "share") /\ Goto(o, "commit")
        /\ UNCHANGED <<rows, device, ceremony, job, doomed, clock>>
    BY DEF Audit
  <1>2. /\ RowsTyped /\ LocksOK /\ OpTyped(o) /\ OpOK(o)
        /\ o \in Request /\ o \in Tx /\ o \notin Finish /\ o \notin Check
        /\ job[o].user \in User /\ job[o].user \notin Finish
    BY <1>1, OpFacts
  <1>3. /\ DOMAIN pc' = Tx \cup Check /\ pc'[o] = "commit"
        /\ \A e \in Request \ {o} : pc'[e] = pc[e]
    BY <1>1, <1>2, Moved
  <1>4. /\ LocksOK' /\ locks \subseteq locks'
        /\ locks' \subseteq [tx : Tx, on : User \cup Ceremony \cup Finish, mode : Mode]
    BY <1>1, <1>2, <1>3, Taken DEF InTx, Mode
  <1>5. OpTyped(o)' /\ OpOK(o)'
    <2>1. Held(o) \subseteq Held(o)' /\ Live(job[o].user)' = Live(job[o].user)
      BY <1>1, <1>4, SameSessions
    <2>2. /\ session' = session /\ job' = job /\ doomed' = doomed
          /\ \A f \in doomed[o] : session'[f] = "gone" \/ f \in Held(o)'
      BY <1>1, <1>2, <2>1 DEF rows, OpOK
    <2>3. job[o].kind # "deactivate"
      BY <1>1, <1>2 DEF OpOK
    <2> QED
      BY <1>1, <1>2, <1>3, <2>2, <2>3 DEF OpTyped, OpOK
  <1>6. MoverOK(o)
    BY <1>2, <1>3, <1>5 DEF MoverOK
  <1> QED
    BY <1>1, <1>2, <1>3, <1>4, <1>6, Settled

\* The rows after the commit of an Op: what it holds is gone, the rest as it was.
LEMMA Reaping ==
  ASSUME IInv, NEW o \in Op, CommitOp(o)
  PROVE  /\ session' \in [Finish -> {"none", "live", "gone"}]
         /\ \A f \in Finish : \/ f \in doomed[o] /\ session[f] # "none" /\ session'[f] = "gone"
                              \/ f \notin Held(o) /\ session'[f] = session[f]
         /\ \A f \in doomed[o] : session'[f] = "gone"
         /\ SignsOut
  <1>1. /\ pc[o] = "commit"
        /\ session' = [f \in Finish |-> IF f \in Held(o) THEN "gone" ELSE session[f]]
        /\ active' = IF job[o].kind = "logout_all" THEN active
                     ELSE [active EXCEPT ![job[o].user] = job[o].kind = "reactivate"]
    BY DEF CommitOp
  <1>2. /\ RowsTyped /\ LocksOK /\ OpOK(o) /\ job[o].user \in User /\ job[o].kind \in OpKind
        /\ doomed[o] \subseteq Finish
    BY <1>1, OpFacts DEF RowsTyped
  <1>3. \A f \in Held(o) : f \in doomed[o] /\ session[f] # "none"
    BY <1>2 DEF Held, LocksOK, OpOK
  <1>4. session' \in [Finish -> {"none", "live", "gone"}]
    BY <1>1, <1>2 DEF RowsTyped
  <1>5. \A f \in Finish : \/ f \in doomed[o] /\ session[f] # "none" /\ session'[f] = "gone"
                          \/ f \notin Held(o) /\ session'[f] = session[f]
    BY <1>1, <1>3
  <1>6. \A f \in doomed[o] : session'[f] = "gone"
    BY <1>1, <1>2 DEF OpOK
  <1>7. SignsOut
    <2> SUFFICES ASSUME NEW u \in User, active[u], ~active'[u],
                        NEW f \in Finish, session'[f] = "live"
                 PROVE  UserOf(f) # u
      BY DEF SignsOut
    <2>1. u = job[o].user
      BY <1>1, <1>2 DEF RowsTyped
    <2>2. job[o].kind = "deactivate"
      BY <1>1, <1>2, <2>1 DEF RowsTyped, OpKind
    <2>3. Live(job[o].user) \subseteq doomed[o]
      BY <1>1, <1>2, <2>2 DEF OpOK
    <2>4. session[f] = "live" /\ f \notin doomed[o]
      BY <1>5, <1>6
    <2> QED
      BY <2>1, <2>3, <2>4 DEF Live
  <1> QED
    BY <1>4, <1>5, <1>6, <1>7

LEMMA CommitOpStep ==
  ASSUME IInv, NEW o \in Op, CommitOp(o)
  PROVE  IInv'
  <1>1. /\ pc[o] = "commit" /\ End(o, "done")
        /\ active' = IF job[o].kind = "logout_all" THEN active
                     ELSE [active EXCEPT ![job[o].user] = job[o].kind = "reactivate"]
        /\ UNCHANGED <<stored, expires, challenge, device, ceremony, job, doomed, clock>>
    BY DEF CommitOp
  <1>2. /\ RowsTyped /\ LocksOK /\ OpTyped(o) /\ OpOK(o)
        /\ o \in Request /\ o \in Tx /\ o \notin Finish /\ o \notin Check
    BY <1>1, OpFacts
  <1>3. /\ DOMAIN pc' = Tx \cup Check /\ pc'[o] = "done"
        /\ \A e \in Request \ {o} : pc'[e] = pc[e]
    BY <1>1, <1>2, Moved DEF End
  <1>4. /\ LocksOK'
        /\ locks' \subseteq [tx : Tx, on : User \cup Ceremony \cup Finish, mode : Mode]
        /\ \A lk \in locks : lk.tx # o => lk \in locks'
    BY <1>1, <1>2, Ended
  <1>5. /\ session' \in [Finish -> {"none", "live", "gone"}]
        /\ \A f \in Finish : session'[f] = session[f] \/ (session[f] # "none" /\ session'[f] = "gone")
        /\ \A f \in doomed[o] : session'[f] = "gone"
        /\ SignsOut
    BY Reaping
  <1>6. RowsTyped'
    <2>1. active' \in [User -> BOOLEAN]
      BY <1>1, <1>2 DEF RowsTyped
    <2> QED
      BY <1>1, <1>2, <1>3, <1>4, <1>5, <2>1 DEF RowsTyped
  <1>7. OnlyMoves({o})
    BY <1>1, <1>3, <1>4 DEF OnlyMoves
  <1>8. CeremoniesKept
    BY <1>1, <1>2, <1>3 DEF CeremoniesKept, Request, Tx
  <1>9. RowsKept({o}) /\ BeginsUnlocked
    BY <1>1, <1>5 DEF RowsKept, BeginsUnlocked
  <1>10. OpTyped(o)' /\ OpOK(o)'
    BY <1>1, <1>2, <1>3, <1>5 DEF OpTyped, OpOK
  <1>11. \A t \in {o} : MoverOK(t)
    BY <1>1, <1>2, <1>5, <1>10 DEF MoverOK
  <1> QED
    BY <1>2, <1>4, <1>5, <1>6, <1>7, <1>8, <1>9, <1>11, OthersKept

------------------------------------------------------------------------------
(* The theorems *)

\* Only an open transaction waits.
LEMMA WaitingInTx ==
  ASSUME NEW t, DeadlockAbort(t)
  PROVE  InTx(t)
  <1>1. PICK e : WaitsFor(t, e)
    BY DEF DeadlockAbort
  <1>2. Wants(t) # {}
    BY <1>1 DEF WaitsFor
  <1> QED
    BY <1>2 DEF Wants, InTx

LEMMA FinishStep ==
  ASSUME IInv, NEW f \in Finish, Post(f) \/ AdvanceFinish(f) \/ Logout(f)
  PROVE  IInv'
  <1>1. CASE DeadlockAbort(f)
    BY <1>1, WaitingInTx, AbortStep DEF DeadlockAbort, Tx
  <1> QED
    BY <1>1, PostStep, LookupStep, ConsumeStep, TouchStep, CreateSessionStep, LogoutStep
       DEF AdvanceFinish

LEMMA OpStep ==
  ASSUME IInv, NEW o \in Op, Begin(o) \/ AdvanceOp(o)
  PROVE  IInv'
  <1>1. CASE DeadlockAbort(o)
    BY <1>1, WaitingInTx, AbortStep DEF DeadlockAbort, Tx
  <1> QED
    BY <1>1, BeginStep, LockUserStep, FindStep, ReapStep, ReapedStep, AuditStep, CommitOpStep
       DEF AdvanceOp

LEMMA Stuttering ==
  ASSUME IInv, UNCHANGED vars
  PROVE  IInv'
  <1> USE DEF vars, rows
  <1>1. TypeOK'
    BY DEF IInv, SessionsInv, TypeOK, RowsTyped, FinishTyped, CheckTyped, OpTyped
  <1>2. LocksOK' /\ (\A q \in Check : CheckOK(q)') /\ \A f \in Finish : FinishOK(f)'
    BY DEF IInv, SessionsInv, LocksOK, InTx, CheckOK, FinishOK, UserOf
  <1>3. \A o \in Op : OpOK(o)'
    BY DEF IInv, SessionsInv, OpOK, Held, Live, UserOf
  <1>4. OneSessionPerCeremony' /\ RevokedForGood'
    BY DEF IInv, SessionsInv, OneSessionPerCeremony, RevokedForGood
  <1> QED
    BY <1>1, <1>2, <1>3, <1>4 DEF IInv, SessionsInv

LEMMA StepInv == IInv /\ [Next]_vars => IInv'
  <1> SUFFICES ASSUME IInv, Next PROVE IInv'
    BY Stuttering
  <1>1. CASE \E t \in Tx : Abort(t)
    BY <1>1, AbortStep DEF Abort
  <1>2. CASE \E q \in Check : Match(q) \/ AdvanceCheck(q)
    BY <1>2, MatchStep, BumpStep, DiagnoseStep, DropStep DEF AdvanceCheck
  <1> QED
    BY <1>1, <1>2, StartStep, LapseStep, FinishStep, OpStep, TickStep DEF Next

\* Only Bump lets a request through.
LEMMA ServedByBump ==
  ASSUME IInv, Next, NEW q \in Check, pc[q] = "bump", pc'[q] = "served"
  PROVE  Bump(q) /\ session[job[q].session] = "live"
  <1>1. RowsTyped /\ q \notin Tx
    BY SessionsAssumption DEF IInv, SessionsInv, TypeOK, Tx
  <1>2. \A t \in Request \ {q} : \A label : ~Goto(t, label)
    BY <1>1, Moved DEF Request
  <1>3. pc' # pc
    OBVIOUS
  <1>4. ~(\E f \in Finish : Post(f) \/ AdvanceFinish(f) \/ Logout(f))
    BY <1>1, <1>2, <1>3 DEF Post, AdvanceFinish, Logout, Lookup, Consume, Touch, CreateSession,
                            DeadlockAbort, End, Request, Tx
  <1>5. ~(\E o \in Op : Begin(o) \/ AdvanceOp(o))
    BY <1>1, <1>2, <1>3 DEF Begin, AdvanceOp, LockUser, Find, Reap, Reaped, Audit, CommitOp,
                            DeadlockAbort, End, Request, Tx
  <1>6. ~(\E k \in Ceremony : Start(k) \/ Lapse(k)) /\ ~(\E t \in Tx : Abort(t)) /\ ~Tick
    BY <1>1, <1>2, <1>3 DEF Start, Lapse, Abort, Tick, End, Request
  <1>7. PICK p \in Check : Match(p) \/ AdvanceCheck(p)
    BY <1>4, <1>5, <1>6 DEF Next
  <1>8. \E label : Goto(p, label)
    BY <1>7 DEF Match, AdvanceCheck, Bump, Diagnose, Drop, Reply
  <1>9. p = q
    BY <1>2, <1>8 DEF Request
  <1>10. Bump(q)
    BY <1>7, <1>9 DEF Match, AdvanceCheck, Diagnose, Drop, Reply
  <1> QED
    <2>1. ~Goto(q, "diagnose")
      BY <1>1, Moved DEF Request
    <2> QED
      BY <1>10, <2>1 DEF Bump

\* Only the commit of an Op changes whether an account is active.
LEMMA ActiveByCommit ==
  ASSUME Next, active' # active
  PROVE  \E o \in Op : CommitOp(o)
  <1>1. ~(\E f \in Finish : Post(f) \/ AdvanceFinish(f) \/ Logout(f))
    BY DEF rows, Post, AdvanceFinish, Logout, Delete, Lookup, Consume, Touch, CreateSession, DeadlockAbort
  <1>2. ~(\E q \in Check : Match(q) \/ AdvanceCheck(q))
    BY DEF rows, Match, AdvanceCheck, Bump, Diagnose, Drop, Delete, Reply
  <1>3. ~(\E k \in Ceremony : Start(k) \/ Lapse(k)) /\ ~(\E t \in Tx : Abort(t)) /\ ~Tick
    BY DEF rows, Start, Lapse, Abort, Tick
  <1>4. PICK o \in Op : Begin(o) \/ AdvanceOp(o)
    BY <1>1, <1>2, <1>3 DEF Next
  <1> QED
    BY <1>4 DEF rows, Begin, AdvanceOp, LockUser, Find, Reap, Reaped, Audit, DeadlockAbort

LEMMA Invariance == Spec => []IInv
  BY InitInv, StepInv, PTL DEF Spec

\* Whatever the interleaving: row locks exclude each other, a ceremony past its
\* challenge holds the only right to it, a session that may still be served
\* belongs to an active account, and what a sign-out or a deactivation found
\* is gone for good when it answers.
THEOREM SessionsInvariant == Spec => []SessionsInv
  BY Invariance, PTL DEF IInv

\* An answer that is posted twice signs in once (FinishLogin, FinishRecovery).
THEOREM ChallengeSignsInOnce == Spec => []OneSessionPerCeremony
  BY Invariance, PTL DEF IInv

\* ResolveSession serves no request of a deactivated account, though it does
\* not look at the account again after it has waited for the session's row.
THEOREM InactiveAreNotServed == Spec => InactiveNeverServed
  <1>1. ASSUME IInv, [Next]_vars
        PROVE  [\A q \in Check : pc[q] = "bump" /\ pc'[q] = "served"
                                     => active[UserOf(job[q].session)]]_vars
    <2> SUFFICES ASSUME NEW q \in Check, Next, pc[q] = "bump", pc'[q] = "served"
                 PROVE  active[UserOf(job[q].session)]
      BY <1>1 DEF vars
    <2>1. session[job[q].session] = "live"
      BY <1>1, ServedByBump DEF Bump, Goto
    <2> QED
      BY <1>1, <2>1 DEF IInv, SessionsInv, CheckOK
  <1> QED
    BY <1>1, Invariance, PTL DEF Spec, InactiveNeverServed

\* The commit that deactivates an account leaves it no session, whatever logins
\* and recoveries run in parallel (DeactivateUser, docs/auth.md).
THEOREM DeactivationLeavesNoSession == Spec => DeactivationSignsOut
  <1>1. ASSUME IInv, [Next]_vars
        PROVE  [\A u \in User : active[u] /\ ~active'[u] =>
                  \A f \in Finish : session'[f] = "live" => UserOf(f) # u]_vars
    <2> SUFFICES ASSUME Next PROVE SignsOut
      BY <1>1 DEF vars, rows, SignsOut
    <2> QED
      BY <1>1, ActiveByCommit, Reaping DEF SignsOut
  <1> QED
    BY <1>1, Invariance, PTL DEF Spec, DeactivationSignsOut
===============================================================================
