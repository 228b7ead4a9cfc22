------------------------- MODULE RedirectCacheProofs -------------------------
(***************************************************************************)
(* Proofs about RedirectCache for any number of redirects and handlers,    *)
(* any number of writes of the row, any TTLs and any length of the queue.  *)
(* Items is what the store and the queue hold; a position of the queue is  *)
(* followed through the steps that shorten or extend it.                   *)
(***************************************************************************)
EXTENDS RedirectCache, SequenceTheorems, TLAPS

\* The inductive invariant, each part of which MCRedirectCache checks.
IInv == CacheInv /\ StaleIsDoomed /\ DeletedStays404

Items == Item \cup {None}

LEMMA InitInv == Init => IInv
  <1> SUFFICES ASSUME Init PROVE IInv
    OBVIOUS
  <1> USE ConstAssumption DEF Init
  <1>1. TypeOK
    <2>1. 0 \in Version
      BY DEF Version
    <2>2. row \in [Version -> Status]
      BY DEF Status
    <2>3. buf \in Seq(Item \cup {None}) /\ Len(buf) <= BufCap
      OBVIOUS
    <2> QED
      BY <2>1, <2>2, <2>3 DEF TypeOK
  <1>2. SoundReads
    BY DEF SoundReads
  <1> QED
    BY <1>1, <1>2 DEF IInv, CacheInv, SoundCopy, StaleIsDoomed, Usable, DeletedStays404

------------------------------------------------------------------------------
(* Steps of a redirect that leave the cache alone *)

\* What the cache holds stays sound as long as neither it nor the row changes
\* and no handler finishes evicting.
LEMMA CacheUntouched ==
  ASSUME IInv, UNCHANGED <<dbVars, cacheVars, writeVars>>
  PROVE  /\ StaleIsDoomed' /\ SoundCopy(entry)' /\ (\A i \in DOMAIN buf : SoundCopy(buf[i]))'
         /\ (entry # None => inPolicy)'
  BY DEF IInv, CacheInv, StaleIsDoomed, SoundCopy, Usable, Doomed, RemovedAfter,
         dbVars, cacheVars, writeVars

LEMMA HitStep ==
  ASSUME IInv, NEW r \in Request, Hit(r)
  PROVE  IInv'
  <1> USE ConstAssumption, NoneAssumption DEF Hit, IInv, CacheInv
  <1>1. TypeOK'
    BY DEF TypeOK, Item, MaxTTL, dbVars, cacheVars, writeVars, Usable
  <1>2. entry \in Item /\ entry.ver <= dbVer
    BY DEF TypeOK, Usable, SoundCopy
  <1>3. SoundReads'
    BY <1>2 DEF TypeOK, SoundReads, dbVars, writeVars, Item, MaxTTL
  <1>4. ASSUME ~raced'[r], row[entry.ver] = "live" PROVE lived'[r]
    <2>1. raced'[r] = (entry.late \/ Doomed) /\ Usable
      BY DEF TypeOK
    <2>2. entry.ver \in acked .. dbVer
      BY <1>2, <1>4, <2>1 DEF TypeOK, StaleIsDoomed, Version, Item, MaxTTL
    <2>3. lived'[r] = \E v \in acked .. dbVer : row[v] = "live"
      BY DEF TypeOK
    <2> QED
      BY <1>4, <2>2, <2>3
  <1>5. DeletedStays404'
    BY <1>4 DEF TypeOK, DeletedStays404, dbVars
  <1> QED
    BY <1>1, <1>3, <1>5, CacheUntouched

LEMMA MissStep ==
  ASSUME IInv, NEW r \in Request, Miss(r)
  PROVE  IInv'
  <1> USE ConstAssumption DEF Miss, IInv, CacheInv
  <1>1. TypeOK'
    BY DEF TypeOK, dbVars, cacheVars, writeVars
  <1>2. SoundReads'
    BY DEF TypeOK, SoundReads, dbVars, writeVars, Version
  <1>3. DeletedStays404'
    BY DEF TypeOK, DeletedStays404, dbVars
  <1> QED
    BY <1>1, <1>2, <1>3, CacheUntouched

LEMMA ResolveStep ==
  ASSUME IInv, NEW r \in Request, ResolveByKey(r)
  PROVE  IInv'
  <1> USE ConstAssumption DEF ResolveByKey, IInv, CacheInv
  <1>1. TypeOK'
    BY DEF TypeOK, dbVars, cacheVars, writeVars
  <1>2. SoundReads'
    BY DEF TypeOK, SoundReads, dbVars, writeVars, Version
  <1>3. DeletedStays404'
    BY DEF TypeOK, DeletedStays404, dbVars
  <1> QED
    BY <1>1, <1>2, <1>3, CacheUntouched

LEMMA ReturnStep ==
  ASSUME IInv, NEW r \in Request, Return(r), UNCHANGED <<dbVars, cacheVars, writeVars>>
  PROVE  IInv'
  <1> USE ConstAssumption DEF Return, IInv, CacheInv
  <1>1. 0 \in Version
    BY DEF Version
  <1>2. TypeOK'
    BY <1>1 DEF TypeOK, dbVars, cacheVars, writeVars
  <1>3. SoundReads'
    BY DEF TypeOK, SoundReads, dbVars, writeVars, Version
  <1>4. DeletedStays404'
    BY DEF TypeOK, DeletedStays404, dbVars
  <1> QED
    BY <1>2, <1>3, <1>4, CacheUntouched

------------------------------------------------------------------------------
(* Caching what was read *)

\* What a redirect caches is a sound copy, late if it is stale.
LEMMA FoundIsSound ==
  ASSUME IInv, NEW r \in Request
  PROVE  /\ Found(r) \in Item /\ SoundCopy(Found(r))
         /\ Found(r).ver < acked => Found(r).late
  <1> USE ConstAssumption DEF IInv, CacheInv, Found
  <1>1. TTLFor(ver[r]) \in 0 .. MaxTTL /\ (row[ver[r]] = "absent" => TTLFor(ver[r]) <= NegTTL)
    BY DEF TTLFor, MaxTTL
  <1>2. Late(r) \in BOOLEAN /\ ver[r] \in Version /\ ver[r] <= dbVer
    BY DEF Late, TypeOK, SoundReads
  <1> QED
    BY <1>1, <1>2 DEF Item, MaxTTL, SoundCopy, Late

LEMMA CacheStep ==
  ASSUME IInv, NEW r \in Request, Cache(r)
  PROVE  IInv'
  <1> USE ConstAssumption, NoneAssumption DEF IInv, CacheInv
  <1> DEFINE x == Found(r)
  <1>1. x \in Item /\ SoundCopy(x) /\ (x.ver < acked => x.late)
    BY FoundIsSound
  <1>2. /\ \/ entry # None /\ entry' = x /\ UNCHANGED buf
           \/ entry = None /\ Len(buf) < BufCap /\ buf' = Append(buf, x) /\ UNCHANGED entry
           \/ entry = None /\ UNCHANGED <<entry, buf>>
        /\ pc' = [pc EXCEPT ![r] = "done"] /\ pc[r] = "set"
        /\ UNCHANGED <<dbVars, inPolicy, ver, lived, raced, writeVars>>
    BY DEF Cache
  <1> HIDE DEF x
  <1>3. TypeOK /\ buf \in Seq(Items) /\ DOMAIN buf = 1 .. Len(buf)
    BY DEF TypeOK, Items
  <1>4. /\ buf' \in Seq(Items) /\ Len(buf') <= BufCap
        /\ \A i \in DOMAIN buf : i \in DOMAIN buf' /\ buf'[i] = buf[i]
        /\ \A i \in DOMAIN buf' : i \in DOMAIN buf \/ buf'[i] = x
    <2>1. CASE buf' = Append(buf, x) /\ Len(buf) < BufCap
      <3>1. /\ buf' \in Seq(Items) /\ Len(buf') = Len(buf) + 1 /\ Len(buf) \in Nat
            /\ \A i \in 1 .. Len(buf) : buf'[i] = buf[i]
            /\ buf'[Len(buf) + 1] = x
        BY <1>1, <1>3, <2>1 DEF Items
      <3>2. DOMAIN buf' = 1 .. Len(buf) + 1
        BY <3>1
      <3> QED
        BY <1>3, <2>1, <3>1, <3>2
    <2>2. CASE UNCHANGED buf
      BY <1>3, <2>2 DEF TypeOK
    <2> QED
      BY <1>2, <2>1, <2>2
  <1>5. TypeOK'
    BY <1>1, <1>2, <1>3, <1>4 DEF TypeOK, Items, dbVars, writeVars
  <1>6. SoundReads'
    BY <1>2, <1>3 DEF TypeOK, SoundReads, dbVars, writeVars
  <1>7. SoundCopy(entry)' /\ (\A i \in DOMAIN buf : SoundCopy(buf[i]))'
    BY <1>1, <1>2, <1>4 DEF SoundCopy, dbVars
  <1>8. (entry # None => inPolicy)'
    BY <1>2
  <1>9. StaleIsDoomed'
    <2>1. (Usable /\ entry.ver < acked => entry.late \/ Doomed)'
      BY <1>1, <1>2, <1>4 DEF StaleIsDoomed, Usable, Doomed, writeVars
    <2>2. \A i \in DOMAIN buf : RemovedAfter(i) => RemovedAfter(i)'
      BY <1>4 DEF RemovedAfter
    <2>3. ASSUME NEW i \in DOMAIN buf',
                 buf'[i] # None, buf'[i].left > 0, buf'[i].ver < acked'
          PROVE  buf'[i].late \/ RemovedAfter(i)'
      BY <1>1, <1>2, <1>4, <2>2, <2>3 DEF StaleIsDoomed, writeVars
    <2> QED
      BY <2>1, <2>3 DEF StaleIsDoomed
  <1>10. DeletedStays404'
    BY <1>2, <1>3 DEF TypeOK, SoundReads, DeletedStays404, dbVars
  <1> QED
    BY <1>5, <1>6, <1>7, <1>8, <1>9, <1>10

------------------------------------------------------------------------------
(* Writes of the row, and the eviction that follows them *)

\* A commit makes a version nobody refers to yet, and a live one counts for
\* every redirect under way.
LEMMA CommitStep ==
  ASSUME IInv, NEW s \in Status \ {"absent"}, Commit(s),
         wpc' \in [Writer -> {"idle", "evict", "send"}], wrote' \in [Writer -> Version],
         \A w \in Writer : wrote'[w] <= dbVer + 1, acked' = acked
  PROVE  IInv'
  <1> USE ConstAssumption, NoneAssumption DEF IInv, CacheInv, Commit
  <1>1. dbVer + 1 \in Version /\ dbVer \in Version
    BY DEF TypeOK, Version
  <1>2. TypeOK'
    <2>1. row' \in [Version -> Status]
      BY <1>1 DEF TypeOK
    <2>2. lived' \in [Request -> BOOLEAN]
      BY DEF TypeOK
    <2> QED
      BY <1>1, <2>1, <2>2 DEF TypeOK, cacheVars
  <1>3. /\ \A v \in Version : v <= dbVer => row'[v] = row[v]
        /\ row'[dbVer'] = s
    BY <1>1 DEF TypeOK, Version
  <1>4. SoundReads'
    <2>1. acked' <= dbVer' /\ \A w \in Writer : wrote'[w] <= dbVer'
      BY <1>1 DEF TypeOK, SoundReads, Version
    <2>2. ASSUME NEW r \in Request
          PROVE  /\ ver'[r] <= dbVer'
                 /\ pc'[r] = "select" /\ row'[dbVer'] = "live" => lived'[r]
                 /\ pc'[r] = "set" /\ row'[ver'[r]] = "live" => lived'[r]
      <3>1. lived'[r] = (lived[r] \/ (s = "live" /\ pc[r] # "idle")) /\ pc'[r] = pc[r]
        BY DEF TypeOK
      <3>2. ver'[r] = ver[r] /\ ver[r] \in Version /\ ver[r] <= dbVer
        BY DEF TypeOK, SoundReads
      <3>3. pc[r] = "set" /\ row[ver[r]] = "live" => lived[r]
        BY DEF SoundReads
      <3>4. ver'[r] <= dbVer' /\ row'[ver'[r]] = row[ver[r]] /\ row'[dbVer'] = s
        BY <1>1, <1>3, <3>2 DEF Version
      <3>5. pc'[r] = "select" /\ row'[dbVer'] = "live" => lived'[r]
        BY <3>1, <3>4, Zenon
      <3> QED
        BY <3>1, <3>3, <3>4, <3>5, Zenon
    <2> QED
      BY <2>1, <2>2 DEF SoundReads
  <1>5. ASSUME NEW x \in Items, SoundCopy(x)
        PROVE  x # None => x.ver <= dbVer' /\ (row'[x.ver] = "absent" => x.left <= NegTTL)
    BY <1>1, <1>3, <1>5 DEF Items, Item, MaxTTL, SoundCopy, Version
  <1>6. SoundCopy(entry)' /\ (\A i \in DOMAIN buf : SoundCopy(buf[i]))'
    BY <1>5 DEF SoundCopy, TypeOK, Items, cacheVars
  <1>7. StaleIsDoomed'
    BY DEF StaleIsDoomed, Usable, Doomed, RemovedAfter, cacheVars
  <1>8. DeletedStays404'
    BY <1>3 DEF TypeOK, SoundReads, DeletedStays404
  <1> QED
    BY <1>2, <1>4, <1>6, <1>7, <1>8 DEF cacheVars

LEMMA RowWriteStep ==
  ASSUME IInv, \/ \E w \in Writer : Patch(w) \/ Deactivate(w)
               \/ WriteLost \/ CreateOrReactivate
  PROVE  IInv'
  <1> USE DEF IInv, CacheInv
  <1>1. row[dbVer] \in Status /\ dbVer \in Version
    BY DEF TypeOK
  <1>2. PICK s \in Status \ {"absent"} : Commit(s)
    BY <1>1 DEF Patch, Deactivate, WriteLost, CreateOrReactivate, Status
  <1>3. dbVer + 1 \in Version
    BY <1>1, <1>2, ConstAssumption DEF Commit, Version
  <1>4. /\ wpc' \in [Writer -> {"idle", "evict", "send"}] /\ wrote' \in [Writer -> Version]
        /\ \A w \in Writer : wrote'[w] <= dbVer + 1
        /\ acked' = acked
    <2>1. CASE UNCHANGED writeVars
      BY <1>3, <2>1 DEF writeVars, TypeOK, SoundReads, Version
    <2>2. CASE \E w \in Writer : Begin(w)
      BY <1>3, <2>2 DEF Begin, TypeOK, SoundReads, Version
    <2> QED
      BY <2>1, <2>2 DEF Patch, Deactivate, WriteLost, CreateOrReactivate
  <1> QED
    BY <1>2, <1>4, CommitStep

LEMMA EvictStoreStep ==
  ASSUME IInv, NEW w \in Writer, EvictStore(w)
  PROVE  IInv'
  <1> USE DEF EvictStore, IInv, CacheInv, dbVars, reqVars
  <1>1. TypeOK'
    BY DEF TypeOK
  <1>2. SoundReads'
    BY DEF SoundReads
  <1>3. StaleIsDoomed'
    BY DEF StaleIsDoomed, Usable, RemovedAfter
  <1> QED
    BY <1>1, <1>2, <1>3 DEF SoundCopy, DeletedStays404

\* The removal goes behind everything queued, so whatever is stale from here on
\* will be removed.
LEMMA EvictSendStep ==
  ASSUME IInv, NEW w \in Writer, EvictSend(w)
  PROVE  IInv'
  <1> USE DEF EvictSend, Finish, IInv, CacheInv, dbVars, reqVars
  <1>1. TypeOK /\ buf \in Seq(Items) /\ DOMAIN buf = 1 .. Len(buf) /\ Len(buf) \in Nat
    BY DEF TypeOK, Items
  <1>2. /\ buf' \in Seq(Items) /\ Len(buf') = Len(buf) + 1
        /\ \A i \in 1 .. Len(buf) : buf'[i] = buf[i]
        /\ buf'[Len(buf) + 1] = None
    BY <1>1 DEF Items
  <1>3. DOMAIN buf' = 1 .. Len(buf) + 1
    BY <1>2
  <1>4. TypeOK'
    <2>1. 0 \in Version
      BY ConstAssumption DEF Version
    <2>2. buf' \in Seq(Item \cup {None}) /\ Len(buf') <= BufCap
      BY <1>1, <1>2, ConstAssumption DEF Items
    <2> QED
      BY <1>1, <2>1, <2>2 DEF TypeOK
  <1>5. SoundReads'
    BY <1>1 DEF SoundReads, TypeOK, Version
  <1>6. (\A i \in DOMAIN buf : SoundCopy(buf[i]))'
    BY <1>1, <1>2, <1>3 DEF SoundCopy
  <1>7. SoundCopy(entry)'
    BY DEF SoundCopy
  <1>8. StaleIsDoomed'
    <2>1. Doomed' /\ \A i \in 1 .. Len(buf) : RemovedAfter(i)'
      <3>1. Len(buf) + 1 \in DOMAIN buf' /\ buf'[Len(buf) + 1] = None
        BY <1>1, <1>2, <1>3
      <3>2. \A i \in 1 .. Len(buf) : Len(buf) + 1 > i
        BY <1>1
      <3> QED
        BY <3>1, <3>2 DEF Doomed, RemovedAfter
    <2> QED
      BY <1>1, <1>2, <1>3, <2>1 DEF StaleIsDoomed
  <1>9. DeletedStays404'
    BY DEF DeletedStays404
  <1> QED
    BY <1>4, <1>5, <1>6, <1>7, <1>8, <1>9

------------------------------------------------------------------------------
(* The queue, the clock and the process *)

\* Position i + 1 becomes position i; what is admitted was doomed in the queue
\* and is doomed in the store.
LEMMA ApplyStep ==
  ASSUME IInv, Apply
  PROVE  IInv'
  <1> USE NoneAssumption DEF IInv, CacheInv
  <1>1. TypeOK /\ buf \in Seq(Items) /\ DOMAIN buf = 1 .. Len(buf) /\ Len(buf) \in Nat
    BY DEF TypeOK, Items
  <1>2. /\ buf' \in Seq(Items) /\ Len(buf') = Len(buf) - 1 /\ Len(buf) > 0
        /\ \A i \in 1 .. Len(buf) - 1 : buf'[i] = buf[i + 1]
        /\ DOMAIN buf' = 1 .. Len(buf) - 1
        /\ Head(buf) = buf[1] /\ buf[1] \in Items
    BY <1>1 DEF Apply
  <1>3. UNCHANGED <<dbVars, reqVars, writeVars>>
    BY DEF Apply
  <1>4. \/ buf[1] = None /\ entry' = None /\ inPolicy' = FALSE
        \/ buf[1] # None /\ ~inPolicy /\ entry' = buf[1] /\ inPolicy' = TRUE
        \/ buf[1] # None /\ UNCHANGED <<entry, inPolicy>>
    BY <1>2 DEF Apply
  <1>5. TypeOK'
    <2>1. entry' \in Items /\ inPolicy' \in BOOLEAN
      BY <1>1, <1>2, <1>4 DEF TypeOK, Items
    <2>2. buf' \in Seq(Items) /\ Len(buf') <= BufCap
      BY <1>1, <1>2, ConstAssumption DEF TypeOK
    <2> QED
      BY <1>1, <1>3, <2>1, <2>2 DEF TypeOK, Items, dbVars, reqVars, writeVars
  <1>6. SoundReads' /\ DeletedStays404'
    BY <1>3 DEF SoundReads, DeletedStays404, dbVars, reqVars, writeVars
  <1>7. SoundCopy(entry)' /\ (\A i \in DOMAIN buf : SoundCopy(buf[i]))' /\ (entry # None => inPolicy)'
    BY <1>1, <1>2, <1>3, <1>4 DEF SoundCopy, dbVars
  <1>8. StaleIsDoomed'
    <2>1. \A i \in DOMAIN buf' : RemovedAfter(i + 1) => RemovedAfter(i)'
      <3> SUFFICES ASSUME NEW i \in DOMAIN buf', NEW j \in DOMAIN buf,
                          j > i + 1, buf[j] = None
                   PROVE  RemovedAfter(i)'
        BY DEF RemovedAfter
      <3>1. j - 1 \in DOMAIN buf' /\ j - 1 > i /\ buf'[j - 1] = None
        BY <1>1, <1>2
      <3> QED
        BY <3>1 DEF RemovedAfter
    <2>2. (RemovedAfter(1) => Doomed') /\ (Doomed /\ buf[1] # None => Doomed')
      <3> SUFFICES ASSUME NEW j \in DOMAIN buf, j > 1, buf[j] = None PROVE Doomed'
        BY <1>1, <1>2 DEF Doomed, RemovedAfter
      <3>1. j - 1 \in DOMAIN buf' /\ buf'[j - 1] = None
        BY <1>1, <1>2
      <3> QED
        BY <3>1 DEF Doomed
    <2>3. (Usable /\ entry.ver < acked => entry.late \/ Doomed)'
      BY <1>1, <1>2, <1>3, <1>4, <2>2 DEF StaleIsDoomed, Usable, writeVars
    <2>4. ASSUME NEW i \in DOMAIN buf',
                 buf'[i] # None, buf'[i].left > 0, buf'[i].ver < acked'
          PROVE  buf'[i].late \/ RemovedAfter(i)'
      BY <1>1, <1>2, <1>3, <2>1, <2>4 DEF StaleIsDoomed, writeVars
    <2> QED
      BY <2>3, <2>4 DEF StaleIsDoomed
  <1> QED
    BY <1>5, <1>6, <1>7, <1>8

LEMMA VictimStep ==
  ASSUME IInv, Victim
  PROVE  IInv'
  <1> USE DEF Victim, IInv, CacheInv, dbVars, reqVars, writeVars
  <1>1. TypeOK'
    BY DEF TypeOK
  <1>2. SoundReads' /\ StaleIsDoomed'
    BY DEF SoundReads, StaleIsDoomed, Usable, RemovedAfter
  <1> QED
    BY <1>1, <1>2 DEF SoundCopy, DeletedStays404

\* Time only shortens what is left of a copy.
LEMMA OlderIsSound ==
  ASSUME TypeOK, NEW x \in Items, SoundCopy(x)
  PROVE  /\ Older(x) \in Items /\ SoundCopy(Older(x))
         /\ Older(x) = None <=> x = None
         /\ Older(x) # None /\ Older(x).left > 0 =>
               x.left > 0 /\ Older(x).ver = x.ver /\ Older(x).late = x.late
  <1> USE ConstAssumption, NoneAssumption
  <1>1. Expired \in Item /\ SoundCopy(Expired)
    BY DEF Expired, Item, MaxTTL, SoundCopy, TypeOK, Version
  <1>2. CASE x = None
    BY <1>2 DEF Older, Items, SoundCopy
  <1>3. CASE x # None /\ x.left <= 1
    <2>1. Older(x) = Expired
      BY <1>3 DEF Older
    <2>2. Expired.left = 0 /\ Expired # None
      BY <1>1 DEF Expired
    <2> QED
      BY <1>1, <1>3, <2>1, <2>2 DEF Items
  <1>4. CASE x # None /\ x.left > 1
    <2>1. x \in Item
      BY <1>4 DEF Items
    <2>2. Older(x) = [x EXCEPT !.left = @ - 1]
      BY <1>4, <2>1 DEF Older, Item, MaxTTL
    <2>3. /\ Older(x) \in Item /\ Older(x).ver = x.ver /\ Older(x).late = x.late
          /\ Older(x).left = x.left - 1
      BY <1>4, <2>1, <2>2 DEF Item, MaxTTL
    <2> QED
      BY <1>4, <2>1, <2>3 DEF Items, SoundCopy, Item, MaxTTL
  <1> QED
    BY <1>2, <1>3, <1>4 DEF Items, Item, MaxTTL

LEMMA TickStep ==
  ASSUME IInv, Tick
  PROVE  IInv'
  <1> USE DEF IInv, CacheInv
  <1>1. /\ TypeOK /\ buf \in Seq(Items) /\ DOMAIN buf = 1 .. Len(buf) /\ Len(buf) \in Nat
        /\ entry \in Items /\ \A i \in DOMAIN buf : buf[i] \in Items
    BY DEF TypeOK, Items
  <1>2. /\ entry' = Older(entry) /\ buf' = [i \in DOMAIN buf |-> Older(buf[i])]
        /\ UNCHANGED <<dbVars, inPolicy, reqVars, writeVars>>
    BY DEF Tick
  <1>3. ASSUME NEW x \in Items, SoundCopy(x)
        PROVE  /\ Older(x) \in Items /\ SoundCopy(Older(x))
               /\ Older(x) = None <=> x = None
               /\ Older(x) # None /\ Older(x).left > 0 =>
                     x.left > 0 /\ Older(x).ver = x.ver /\ Older(x).late = x.late
    BY <1>1, <1>3, OlderIsSound
  <1>4. /\ buf' \in [1 .. Len(buf) -> Items] /\ DOMAIN buf' = DOMAIN buf
        /\ \A i \in DOMAIN buf : buf'[i] = Older(buf[i])
    BY <1>1, <1>2, <1>3
  <1>5. buf' \in Seq(Items) /\ Len(buf') = Len(buf)
    BY <1>1, <1>4
  <1>6. TypeOK'
    BY <1>1, <1>2, <1>3, <1>5 DEF TypeOK, Items, dbVars, reqVars, writeVars
  <1>7. SoundReads' /\ DeletedStays404'
    BY <1>2 DEF SoundReads, DeletedStays404, dbVars, reqVars, writeVars
  <1>8. \A x : SoundCopy(x) => (x # None => x.ver <= dbVer' /\ (row'[x.ver] = "absent" => x.left <= NegTTL))
    BY <1>2 DEF SoundCopy, dbVars
  <1>9. SoundCopy(entry)' /\ (\A i \in DOMAIN buf : SoundCopy(buf[i]))'
    BY <1>1, <1>2, <1>3, <1>4, <1>8 DEF SoundCopy
  <1>10. (entry # None => inPolicy)'
    BY <1>1, <1>2, <1>3
  <1>11. StaleIsDoomed'
    <2>1. /\ Doomed => Doomed'
          /\ \A i \in DOMAIN buf : RemovedAfter(i) => RemovedAfter(i)'
      BY <1>1, <1>3, <1>4 DEF Doomed, RemovedAfter
    <2>2. (Usable /\ entry.ver < acked => entry.late \/ Doomed)'
      BY <1>1, <1>2, <1>3, <2>1 DEF StaleIsDoomed, Usable, writeVars
    <2>3. ASSUME NEW i \in DOMAIN buf',
                 buf'[i] # None, buf'[i].left > 0, buf'[i].ver < acked'
          PROVE  buf'[i].late \/ RemovedAfter(i)'
      BY <1>1, <1>2, <1>3, <1>4, <2>1, <2>3 DEF StaleIsDoomed, writeVars
    <2> QED
      BY <2>2, <2>3 DEF StaleIsDoomed
  <1> QED
    BY <1>6, <1>7, <1>9, <1>10, <1>11

LEMMA RestartStep ==
  ASSUME IInv, Restart
  PROVE  IInv'
  <1> USE ConstAssumption DEF Restart, IInv, CacheInv, dbVars
  <1>1. 0 \in Version
    BY DEF Version
  <1>2. TypeOK'
    <2>1. buf' \in Seq(Item \cup {None}) /\ Len(buf') <= BufCap
      OBVIOUS
    <2> QED
      BY <1>1, <2>1 DEF TypeOK
  <1>3. SoundReads'
    BY DEF SoundReads, TypeOK, Version
  <1> QED
    BY <1>2, <1>3 DEF SoundCopy, StaleIsDoomed, Usable, DeletedStays404

LEMMA StutterStep ==
  ASSUME IInv, UNCHANGED vars
  PROVE  IInv'
  BY DEF IInv, CacheInv, TypeOK, SoundReads, SoundCopy, StaleIsDoomed, Usable, Doomed,
         RemovedAfter, DeletedStays404, vars, dbVars, cacheVars, reqVars, writeVars

LEMMA NextStep ==
  ASSUME IInv, [Next]_vars
  PROVE  IInv'
  <1>1. ASSUME NEW r \in Request, Redirect(r) PROVE IInv'
    BY <1>1, HitStep, MissStep, ResolveStep, ReturnStep, CacheStep
       DEF Redirect, ResolveError, Answer
  <1>2. ASSUME NEW w \in Writer, Write(w) PROVE IInv'
    BY <1>2, RowWriteStep, EvictStoreStep, EvictSendStep DEF Write
  <1> QED
    BY <1>1, <1>2, RowWriteStep, ApplyStep, VictimStep, TickStep, RestartStep, StutterStep DEF Next

\* The cache never holds a version that was not committed, an absence for longer
\* than NegativeTTL, or a value the admission policy does not account for.
THEOREM CacheInvariant == Spec => []CacheInv
  <1> QED
    BY InitInv, NextStep, PTL DEF Spec, IInv

\* Once a PATCH or DELETE has answered, an older copy is about to be removed, or
\* a redirect that had read the row before the write put it there.
THEOREM StaleCopiesAreDoomed == Spec => []StaleIsDoomed
  <1> QED
    BY InitInv, NextStep, PTL DEF Spec, IInv

\* A redirect that starts after a DELETE was answered is no 302 unless it meets
\* such a copy: a hit is of a version since the DELETE, a miss reads the row.
THEOREM DeletedIsNotServed == Spec => []DeletedStays404
  <1> QED
    BY InitInv, NextStep, PTL DEF Spec, IInv
==============================================================================
