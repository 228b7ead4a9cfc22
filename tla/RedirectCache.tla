---------------------------- MODULE RedirectCache ----------------------------
(***************************************************************************)
(* One short key on the redirect path: its row in `links', the Ristretto   *)
(* cache of internal/cache/cache.go in front of it, the read-through of    *)
(* internal/links/resolver.go, the redirects of internal/handlers/         *)
(* redirect.go, and the handlers that write the row: PATCH and DELETE,     *)
(* which evict the key, and POST, which does not.                          *)
(*                                                                         *)
(* Keys share nothing but the cache's capacity, so one key is modelled and *)
(* the pressure of the others is a choice: an insert may be dropped or     *)
(* rejected and an entry may be evicted at any time.                       *)
(*                                                                         *)
(* Each write of the row makes a version; row[v] is the status the redirect*)
(* sees in version v (its destination is the version itself).  A cached    *)
(* entry is [ver, left, late]: the version it copies, the ticks its TTL    *)
(* still runs, and a history flag: a reader was still holding this older   *)
(* version when a handler evicted the key.                                 *)
(*                                                                         *)
(* Ristretto, as this code uses it: SetWithTTL on a key in the store       *)
(* replaces the value at once; on any other key it queues the value, or    *)
(* drops it when the queue is full.  Del removes the stored value at once  *)
(* and queues a removal, waiting for room.  One goroutine applies the queue*)
(* in order.  Get takes an entry past its TTL for a miss.                  *)
(***************************************************************************)
EXTENDS Naturals, Sequences

CONSTANTS Request,     \* in-flight GET /u/{key} requests
          Writer,      \* in-flight PATCH and DELETE requests on the key
          MaxVersion,  \* bound: writes of the row
          PosTTL,      \* CACHE_TTL_SECONDS, in ticks
          NegTTL,      \* NegativeTTL, in ticks
          BufCap,      \* bound: queued cache operations on this key
          None         \* no entry; in the queue: a removal

ASSUME ConstAssumption ==
    /\ MaxVersion \in Nat
    /\ PosTTL \in Nat \ {0} /\ NegTTL \in Nat \ {0}
    /\ BufCap \in Nat \ {0}

VARIABLES row,      \* row[v]: status of the row in version v
          dbVer,    \* the version committed last
          entry,    \* the key's entry in the Ristretto store, or None
          inPolicy, \* the key is in the admission policy
          buf,      \* queued operations: an entry to insert, or None to remove
          pc,       \* control of each redirect
          ver,      \* version a redirect read or answers from
          lived,    \* history: the row has been live since the write answered last
                    \* when the redirect began
          raced,    \* history: the answer comes from a late or doomed entry
          wpc,      \* control of each PATCH or DELETE
          wrote,    \* version it committed
          acked     \* history: newest version whose handler finished evicting

dbVars    == <<row, dbVer>>
cacheVars == <<entry, inPolicy, buf>>
reqVars   == <<pc, ver, lived, raced>>
writeVars == <<wpc, wrote, acked>>
vars == <<dbVars, cacheVars, reqVars, writeVars>>

Version == 0 .. MaxVersion
Status == {"absent", "live", "off", "denied"}
MaxTTL == IF NegTTL <= PosTTL THEN PosTTL ELSE NegTTL
Item == [ver : Version, left : 0 .. MaxTTL, late : BOOLEAN]

\* NULL is no cached entry.
ASSUME NoneAssumption == None \notin Item

\* A denied row is never there yet: it begins with a POST below.
Init ==
    /\ \E s \in Status \ {"denied"} : row = [v \in Version |-> IF v = 0 THEN s ELSE "absent"]
    /\ dbVer = 0
    /\ entry = None /\ inPolicy = FALSE /\ buf = <<>>
    /\ pc = [r \in Request |-> "idle"]
    /\ ver = [r \in Request |-> 0]
    /\ lived = [r \in Request |-> FALSE]
    /\ raced = [r \in Request |-> FALSE]
    /\ wpc = [w \in Writer |-> "idle"]
    /\ wrote = [w \in Writer |-> 0]
    /\ acked = 0

------------------------------------------------------------------------------
(* GET /u/{key} *)

\* The handler returns, and what it had read is forgotten.
Return(r) ==
    /\ pc' = [pc EXCEPT ![r] = "idle"]
    /\ ver' = [ver EXCEPT ![r] = 0] /\ lived' = [lived EXCEPT ![r] = FALSE]
    /\ raced' = [raced EXCEPT ![r] = FALSE]

\* Mutant: Get serves an entry whatever its age.
UsableForever == entry # None

Usable == entry # None /\ entry.left > 0

Doomed == \E i \in DOMAIN buf : buf[i] = None

\* Resolve: a cache hit, positive or negative, is the answer.
Hit(r) ==
    /\ pc[r] = "idle" /\ Usable
    /\ pc' = [pc EXCEPT ![r] = "done"]
    /\ ver' = [ver EXCEPT ![r] = entry.ver]
    /\ lived' = [lived EXCEPT ![r] = \E v \in acked .. dbVer : row[v] = "live"]
    /\ raced' = [raced EXCEPT ![r] = entry.late \/ Doomed]
    /\ UNCHANGED <<dbVars, cacheVars, writeVars>>

Miss(r) ==
    /\ pc[r] = "idle" /\ ~Usable
    /\ pc' = [pc EXCEPT ![r] = "select"]
    /\ lived' = [lived EXCEPT ![r] = \E v \in acked .. dbVer : row[v] = "live"]
    /\ raced' = [raced EXCEPT ![r] = FALSE]
    /\ UNCHANGED <<dbVars, cacheVars, ver, writeVars>>

\* ResolveByKey reads the row.
ResolveByKey(r) ==
    /\ pc[r] = "select"
    /\ ver' = [ver EXCEPT ![r] = dbVer]
    /\ pc' = [pc EXCEPT ![r] = "set"]
    /\ UNCHANGED <<dbVars, cacheVars, lived, raced, writeVars>>

\* The lookup failed: 500, and nothing is cached.
ResolveError(r) ==
    /\ pc[r] = "select"
    /\ Return(r)
    /\ UNCHANGED <<dbVars, cacheVars, writeVars>>

\* Mutant: the absence of a key is cached like a link.
TTLForPositive(v) == PosTTL

\* Set for a row, SetNegative for its absence.
TTLFor(v) == IF row[v] = "absent" THEN NegTTL ELSE PosTTL

\* The handler evicted the key while this redirect held an older version.
Late(r) == ver[r] < acked

Found(r) == [ver |-> ver[r], left |-> TTLFor(ver[r]), late |-> Late(r)]

\* The result is cached, or handed to the queue, or dropped; then answered.
Cache(r) ==
    /\ pc[r] = "set"
    /\ \/ entry # None /\ entry' = Found(r) /\ UNCHANGED buf
       \/ entry = None /\ Len(buf) < BufCap /\ buf' = Append(buf, Found(r)) /\ UNCHANGED entry
       \/ entry = None /\ UNCHANGED <<entry, buf>>
    /\ pc' = [pc EXCEPT ![r] = "done"]
    /\ UNCHANGED <<dbVars, inPolicy, ver, lived, raced, writeVars>>

\* 302, 404 or 410 is written.
Answer(r) ==
    /\ pc[r] = "done"
    /\ Return(r)
    /\ UNCHANGED <<dbVars, cacheVars, writeVars>>

------------------------------------------------------------------------------
(* Writes of the row *)

Commit(s) ==
    /\ dbVer < MaxVersion
    /\ dbVer' = dbVer + 1
    /\ row' = [row EXCEPT ![dbVer + 1] = s]
    /\ lived' = [r \in Request |-> lived[r] \/ (s = "live" /\ pc[r] # "idle")]
    /\ UNCHANGED <<cacheVars, pc, ver, raced>>

Begin(w) ==
    /\ wpc[w] = "idle"
    /\ wpc' = [wpc EXCEPT ![w] = "evict"]
    /\ wrote' = [wrote EXCEPT ![w] = dbVer + 1]
    /\ UNCHANGED acked

\* UpdateLink commits; the active flag stays as it is.
Patch(w) ==
    /\ row[dbVer] # "absent"
    /\ Commit(row[dbVer])
    /\ Begin(w)

\* UpdateLink commits but its re-read, or the connection, fails: the handler
\* answers 500 and returns before it evicts.  The same for DeactivateLink.
WriteLost ==
    /\ row[dbVer] # "absent"
    /\ \E s \in {row[dbVer]} \cup {IF row[dbVer] = "denied" THEN "denied" ELSE "off"} : Commit(s)
    /\ UNCHANGED writeVars

\* Mutant: the handler answers a DELETE without evicting the key.
DeactivateOnly(w) ==
    /\ row[dbVer] # "absent"
    /\ wpc[w] = "idle"
    /\ Commit(IF row[dbVer] = "denied" THEN "denied" ELSE "off")
    /\ acked' = dbVer + 1
    /\ UNCHANGED <<wpc, wrote>>

\* DeactivateLink commits active = FALSE.
Deactivate(w) ==
    /\ row[dbVer] # "absent"
    /\ Commit(IF row[dbVer] = "denied" THEN "denied" ELSE "off")
    /\ Begin(w)

\* POST /api/links: the key is inserted, live or denied, or the deactivated
\* link is reactivated.  Nothing is evicted.
CreateOrReactivate ==
    /\ \/ row[dbVer] = "absent" /\ (Commit("live") \/ Commit("denied"))
       \/ row[dbVer] = "off" /\ Commit("live")
    /\ UNCHANGED writeVars

\* evict: Del takes the value out of the store at once ...
EvictStore(w) ==
    /\ wpc[w] = "evict"
    /\ entry' = None
    /\ wpc' = [wpc EXCEPT ![w] = "send"]
    /\ UNCHANGED <<dbVars, inPolicy, buf, reqVars, wrote, acked>>

Finish(w) ==
    /\ wpc' = [wpc EXCEPT ![w] = "idle"]
    /\ wrote' = [wrote EXCEPT ![w] = 0]
    /\ acked' = IF wrote[w] > acked THEN wrote[w] ELSE acked

\* Mutant: Del queues no removal behind the inserts that are still queued.
EvictSendNothing(w) ==
    /\ wpc[w] = "send"
    /\ Finish(w)
    /\ UNCHANGED <<dbVars, cacheVars, reqVars>>

\* ... and queues the removal; the handler then answers.
EvictSend(w) ==
    /\ wpc[w] = "send"
    /\ Len(buf) < BufCap
    /\ buf' = Append(buf, None)
    /\ Finish(w)
    /\ UNCHANGED <<dbVars, entry, inPolicy, reqVars>>

------------------------------------------------------------------------------
(* The cache's own goroutines, the clock and the process *)

\* processItems takes the head of the queue: an insert is admitted if the
\* key is not in the policy and the policy wants it; a removal removes.
Apply ==
    /\ buf # <<>>
    /\ buf' = Tail(buf)
    /\ \/ Head(buf) = None /\ entry' = None /\ inPolicy' = FALSE
       \/ Head(buf) # None /\ ~inPolicy /\ entry' = Head(buf) /\ inPolicy' = TRUE
       \/ Head(buf) # None /\ UNCHANGED <<entry, inPolicy>>
    /\ UNCHANGED <<dbVars, reqVars, writeVars>>

\* The key is evicted for another key, or cleaned up after its TTL.
Victim ==
    /\ inPolicy
    /\ entry' = None /\ inPolicy' = FALSE
    /\ UNCHANGED <<dbVars, buf, reqVars, writeVars>>

Expired == [ver |-> 0, left |-> 0, late |-> FALSE]

\* What an entry held does not matter once it is past its TTL.
Older(x) ==
    CASE x = None -> None
      [] x # None /\ x.left <= 1 -> Expired
      [] OTHER -> [x EXCEPT !.left = @ - 1]

Tick ==
    /\ \E x \in {entry} \cup {buf[i] : i \in DOMAIN buf} : x # None /\ x.left > 0
    /\ entry' = Older(entry)
    /\ buf' = [i \in DOMAIN buf |-> Older(buf[i])]
    /\ UNCHANGED <<dbVars, inPolicy, reqVars, writeVars>>

\* The process dies and restarts with an empty cache.
Restart ==
    /\ entry' = None /\ inPolicy' = FALSE /\ buf' = <<>>
    /\ pc' = [r \in Request |-> "idle"] /\ ver' = [r \in Request |-> 0]
    /\ lived' = [r \in Request |-> FALSE] /\ raced' = [r \in Request |-> FALSE]
    /\ wpc' = [w \in Writer |-> "idle"] /\ wrote' = [w \in Writer |-> 0]
    /\ UNCHANGED <<dbVars, acked>>

Redirect(r) ==
    \/ Hit(r) \/ Miss(r) \/ ResolveByKey(r) \/ ResolveError(r) \/ Cache(r) \/ Answer(r)

Write(w) == Patch(w) \/ Deactivate(w) \/ EvictStore(w) \/ EvictSend(w)

Next ==
    \/ \E r \in Request : Redirect(r)
    \/ \E w \in Writer : Write(w)
    \/ WriteLost \/ CreateOrReactivate
    \/ Apply \/ Victim \/ Tick \/ Restart

Spec == Init /\ [][Next]_vars

\* Requests and handlers run to their end, the queue is drained, the clock
\* moves; nobody has to visit, write, evict or restart.  A sender blocked on a
\* full Go channel is next in line when a slot frees: strong fairness.
Fairness ==
    /\ \A r \in Request : WF_vars(ResolveByKey(r) \/ Cache(r) \/ Answer(r))
    /\ \A w \in Writer : WF_vars(EvictStore(w)) /\ SF_vars(EvictSend(w))
    /\ WF_vars(Apply) /\ WF_vars(Tick)

FairSpec == Spec /\ Fairness

------------------------------------------------------------------------------
(* Properties *)

TypeOK ==
    /\ row \in [Version -> Status] /\ dbVer \in Version
    /\ entry \in Item \cup {None} /\ inPolicy \in BOOLEAN
    /\ buf \in Seq(Item \cup {None}) /\ Len(buf) <= BufCap
    /\ pc \in [Request -> {"idle", "select", "set", "done"}]
    /\ ver \in [Request -> Version] /\ lived \in [Request -> BOOLEAN]
    /\ raced \in [Request -> BOOLEAN]
    /\ wpc \in [Writer -> {"idle", "evict", "send"}]
    /\ wrote \in [Writer -> Version] /\ acked \in Version

\* A copy of the row, cached or queued: of a version that was committed, and
\* of an absence for no longer than NegativeTTL.
SoundCopy(x) ==
    x # None => x.ver <= dbVer /\ (row[x.ver] = "absent" => x.left <= NegTTL)

\* Redirects and handlers refer to versions that were committed, and a redirect
\* that went to the database finds a live row only if the row was live.
SoundReads ==
    /\ acked <= dbVer
    /\ \A w \in Writer : wrote[w] <= dbVer
    /\ \A r \in Request :
          /\ ver[r] <= dbVer
          /\ pc[r] = "select" /\ row[dbVer] = "live" => lived[r]
          /\ pc[r] = "set" /\ row[ver[r]] = "live" => lived[r]

\* The state invariant: types, sound copies and reads, and nothing in the store
\* that the policy does not account for (CACHE_MAX_COST).
CacheInv ==
    /\ TypeOK /\ SoundReads
    /\ SoundCopy(entry) /\ \A i \in DOMAIN buf : SoundCopy(buf[i])
    /\ entry # None => inPolicy

\* The removal that takes queue position i, or the store for i = 0, with it.
RemovedAfter(i) == \E j \in DOMAIN buf : j > i /\ buf[j] = None

\* A PATCH or DELETE that has answered leaves no older copy of the row in the
\* cache or on its way into it, other than one about to be removed by a queued
\* Del, or one put there by a redirect that read the row before the write.
StaleIsDoomed ==
    /\ Usable /\ entry.ver < acked => entry.late \/ Doomed
    /\ \A i \in DOMAIN buf :
          buf[i] # None /\ buf[i].left > 0 /\ buf[i].ver < acked => buf[i].late \/ RemovedAfter(i)

\* A redirect that starts after a DELETE was answered, with no write since that
\* makes the link live again, is no 302 unless it met such an entry.
DeletedStays404 ==
    \A r \in Request :
        /\ pc[r] = "done" /\ ~raced[r]
        /\ row[ver[r]] = "live"
        => lived[r]

\* When the link is no longer written, every redirect eventually answers from
\* the current row: the TTL repairs what a race, a failed handler, or a
\* reactivation or creation (which evict nothing) left in the cache.
Converges == <>[](\A r \in Request : pc[r] = "done" => ver[r] = dbVer)

\* internal/handlers/links.go: the key is deleted from the cache "so the next
\* redirect re-reads the (now inactive) DB row and 404s".  Not after a redirect
\* that had read the row before the write: what it caches behind the Del stays,
\* with no removal on its way, and answers redirects until its TTL has run.
NextRedirectReReads ==
    \A r \in Request :
        /\ pc[r] = "done" /\ row[ver[r]] = "live"
        /\ Usable /\ entry.ver = ver[r] /\ ~Doomed
        => lived[r]
==============================================================================
