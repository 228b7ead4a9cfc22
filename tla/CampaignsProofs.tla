---------------------------- MODULE CampaignsProofs ----------------------------
(***************************************************************************)
(* Proofs about Campaigns for any number of requests, campaigns and links. *)
(* CampaignsInv is inductive.  Every action moves one request; a step is   *)
(* sound if what that request holds and relies on is right afterwards and  *)
(* (RowsKept) it wrote no row that another has locked or relies on.  With  *)
(* the invariant, every commit is an action of CampaignBoard.  DevStore,   *)
(* the other implementation of that board, comes second.                   *)
(***************************************************************************)
EXTENDS Campaigns, FiniteSetTheorems, SequenceTheorems, WellFoundedInduction, TLAPS

LEMMA InitInv == Init => CampaignsInv
  <1> SUFFICES ASSUME Init PROVE CampaignsInv
    OBVIOUS
  <1>1. PICK s \in [Old -> 0 .. MaxSlug] :
          /\ \A c, d \in Old : s[c] = s[d] => c = d \/ s[c] = 0
          /\ camp = [c \in Campaign |-> IF c \in Request \/ s[c] = 0 THEN None
                                        ELSE [slug |-> s[c], detail |-> Undated]]
    BY DEF Init
  <1>2. \A c \in Campaign : \/ camp[c] = None
                            \/ c \in Old /\ s[c] \in Slug /\ c \notin Request
                               /\ camp[c] = [slug |-> s[c], detail |-> Undated]
    BY <1>1, CampaignsAssumption DEF Campaign, Slug
  <1>3. Undated \in Dates /\ Ordered(Undated)
    BY DEF Undated, Dates, Ordered, NoDate
  <1>4. ASSUME NEW c \in Campaign, camp[c] # None
        PROVE  camp[c] \in CampaignRow
    <2>1. s[c] \in Slug /\ camp[c] = [slug |-> s[c], detail |-> Undated]
      BY <1>2, <1>4
    <2> HIDE DEF Undated
    <2> QED
      BY <2>1, <1>3 DEF CampaignRow
  <1>5. RowsTyped
    BY <1>1, <1>4 DEF Init, RowsTyped, Label, Campaign
  <1>6. TypeOK /\ LocksOK
    BY <1>5 DEF Init, TypeOK, Busy, LocksOK
  <1>7. \A r \in Request : camp[r] = None
    BY <1>1 DEF Campaign
  <1>8. \A r \in Request : RequestOK(r)
    BY <1>7 DEF Init, RequestOK, CreateOK, WriteOK, MineOK, MoveOK
  <1>9. NoDanglingMember
    BY CampaignsAssumption DEF Init, NoDanglingMember, Campaign
  <1>10. SlugUnique /\ WindowOrdered
    BY <1>1, <1>2, <1>3, CampaignsAssumption DEF SlugUnique, WindowOrdered, Slug
  <1> QED
    BY <1>6, <1>8, <1>9, <1>10 DEF CampaignsInv

------------------------------------------------------------------------------
(* What a step of one request leaves to the others *)

OnlyMoves(r) ==
    \A e \in Request \ {r} :
        /\ pc'[e] = pc[e] /\ req'[e] = req[e]
        /\ target'[e] = target[e] /\ todo'[e] = todo[e] /\ mine'[e] = mine[e]
        /\ \A lk \in locks : lk.tx = e => lk \in locks'

\* A campaign that r changes or removes is locked by nobody else, save that
\* those who refer to it may see it changed.
CampaignsKept(r) ==
    \A c \in Campaign : camp[c] # None /\ camp'[c] # camp[c] =>
        \A lk \in locks : lk.on = c /\ lk.tx # r => lk.mode = "share" /\ camp'[c] # None

\* A campaign that is there after r's step was there with its slug, or is r's
\* own and nobody has reserved its slug.
SlugsKept(r) ==
    \A c \in Campaign : camp'[c] # None =>
        \/ camp[c] # None /\ camp'[c].slug = camp[c].slug
        \/ /\ c = r
           /\ \A e \in Request \ {r} : pc[e] = "commit" /\ req[e].kind = "create"
                                          => req[e].slug # camp'[c].slug

\* A link that r writes is there, nobody else has locked it or is inserting it,
\* and nobody else is deleting the campaign it goes to.
LinksKept(r) ==
    \A l \in Link : at'[l] # at[l] =>
        /\ at'[l] # Absent
        /\ \A lk \in locks : lk.on = l => lk.tx = r
        /\ \A lk \in locks : lk.on = at'[l] /\ lk.mode = "update" => lk.tx = r
        /\ \A e \in Request \ {r} : l \notin mine[e]

RowsKept(r) == CampaignsKept(r) /\ SlugsKept(r) /\ LinksKept(r)

LEMMA HoldsKept ==
  ASSUME NEW r, OnlyMoves(r), NEW e \in Request \ {r}, NEW row, NEW mode, Holds(e, row, mode)
  PROVE  [tx |-> e, on |-> row, mode |-> mode] \in locks'
  BY DEF OnlyMoves, Holds

LEMMA CreateKept ==
  ASSUME NEW r \in Request, OnlyMoves(r), RowsKept(r), NEW e \in Request \ {r},
         RowsTyped, CreateOK(e), CreateOK(r)'
  PROVE  CreateOK(e)'
  <1>1. pc'[e] = pc[e] /\ req'[e] = req[e]
    BY DEF OnlyMoves
  <1>2. pc'[e] # "done" => camp'[e] = None
    BY <1>1 DEF CreateOK, RowsKept, SlugsKept, Campaign
  <1>3. ASSUME pc[e] = "commit", req[e].kind = "create"
        PROVE  Named(req[e].slug)' = {}
    BY <1>1, <1>3 DEF CreateOK, Named, RowsKept, SlugsKept
  <1>4. ASSUME pc[e] = "commit", req[e].kind = "create", NEW f \in Request,
               pc'[f] = "commit", req'[f].kind = "create", req'[f].slug = req'[e].slug
        PROVE  f = e
    <2>1. CASE f = r
      BY <1>1, <1>4, <2>1 DEF CreateOK
    <2>2. CASE f # r
      BY <1>1, <1>4, <2>2 DEF CreateOK, OnlyMoves
    <2> QED
      BY <2>1, <2>2
  <1> QED
    BY <1>1, <1>2, <1>3, <1>4 DEF CreateOK

LEMMA WriteKept ==
  ASSUME NEW r \in Request, OnlyMoves(r), RowsKept(r), NEW e \in Request \ {r},
         RowsTyped, LocksOK, Busy(e) => RequestTyped(e), WriteOK(e)
  PROVE  WriteOK(e)'
  <1>1. /\ pc'[e] = pc[e] /\ req'[e] = req[e] /\ target'[e] = target[e]
        /\ todo'[e] = todo[e] /\ mine'[e] = mine[e]
    BY DEF OnlyMoves
  <1>2. ASSUME pc[e] = "commit", req[e].kind = "patch"
        PROVE  /\ Holds(e, target[e], "nokey")'
               /\ Ordered(Merge(camp'[target[e]].detail, req[e].detail))
    <2>1. PICK c \in Campaign : c = target[e]
      BY <1>2 DEF RequestTyped, Busy
    <2>2. Holds(e, c, "nokey") /\ camp[c] # None
      BY <1>2, <2>1 DEF WriteOK, LocksOK, Holds
    <2>3. camp'[c] = camp[c]
      BY <2>2 DEF RowsKept, CampaignsKept, Holds, LocksOK, Conflict
    <2> QED
      BY <1>1, <1>2, <2>1, <2>2, <2>3, HoldsKept DEF WriteOK, Holds
  <1>3. pc[e] \in {"cascade", "free"} => Holds(e, target[e], "update")'
    BY <1>1, HoldsKept DEF WriteOK, Holds
  <1>4. ASSUME pc[e] = "free"
        PROVE  /\ {l \in Link : at'[l] = target[e]} \subseteq todo[e] \cup mine[e]
               /\ \A l \in mine[e] : at'[l] = target[e]
               /\ \A l \in todo[e] : at'[l] # Absent
    <2>1. Holds(e, target[e], "update")
      BY <1>4 DEF WriteOK
    <2>2. \A l \in Link : at'[l] = target[e] => at[l] = target[e]
      BY <2>1 DEF RowsKept, LinksKept, Holds
    <2>3. \A l \in mine[e] : at'[l] = at[l]
      BY DEF RowsKept, LinksKept, RowsTyped
    <2>4. \A l \in todo[e] : at[l] # Absent => at'[l] # Absent
      BY DEF RowsKept, LinksKept, RowsTyped
    <2> QED
      BY <1>4, <2>2, <2>3, <2>4 DEF WriteOK
  <1> QED
    BY <1>1, <1>2, <1>3, <1>4 DEF WriteOK, Holds

LEMMA MineKept ==
  ASSUME NEW r \in Request, OnlyMoves(r), RowsKept(r), NEW e \in Request \ {r},
         RowsTyped, MineOK(e), MineOK(r)'
  PROVE  MineOK(e)'
  <1>1. pc'[e] = pc[e] /\ req'[e] = req[e] /\ mine'[e] = mine[e]
    BY DEF OnlyMoves
  <1>2. \A l \in mine[e] : at'[l] = at[l]
    BY DEF RowsKept, LinksKept, RowsTyped
  <1>3. \A f \in Request \ {e} : mine'[f] \cap mine'[e] = {}
    BY <1>1 DEF MineOK, OnlyMoves
  <1>4. \A l \in mine[e] : Holds(e, l, "nokey") => Holds(e, l, "nokey")'
    BY HoldsKept DEF Holds
  <1> QED
    BY <1>1, <1>2, <1>3, <1>4 DEF MineOK

LEMMA MoveKept ==
  ASSUME NEW r \in Request, OnlyMoves(r), RowsKept(r), NEW e \in Request \ {r},
         RowsTyped, Busy(e) => RequestTyped(e), MoveOK(e)
  PROVE  MoveOK(e)'
  <1>1. /\ pc'[e] = pc[e] /\ req'[e] = req[e] /\ mine'[e] = mine[e] /\ target'[e] = target[e]
    BY DEF OnlyMoves
  <1>2. \A l \in Link : at[l] # Absent => at'[l] # Absent
    BY DEF RowsKept, LinksKept
  <1>3. \A l \in mine[e] : at'[l] = at[l]
    BY DEF RowsKept, LinksKept, RowsTyped
  <1>4. pc[e] \in {"update", "hold"} => at'[Head(req[e].keys)] # Absent
    <2> SUFFICES ASSUME pc[e] \in {"update", "hold"} PROVE at'[Head(req[e].keys)] # Absent
      OBVIOUS
    <2>1. req[e].keys \in Seq(Link) /\ req[e].keys # << >>
      BY DEF Busy, RequestTyped, Asked, Stages, Kind
    <2>2. PICK l \in Link : l = Head(req[e].keys)
      BY <2>1
    <2> QED
      BY <1>2, <2>2 DEF MoveOK
  <1>5. Holds(e, target[e], "share") => Holds(e, target[e], "share")'
    BY <1>1, HoldsKept DEF Holds
  <1>6. pc[e] = "commit" /\ req[e].kind \in {"assign", "unassign"} =>
            at'[Head(req[e].keys)] = at[Head(req[e].keys)]
    BY <1>3 DEF MoveOK
  <1> QED
    BY <1>1, <1>4, <1>5, <1>6 DEF MoveOK, Holds

\* A step is sound if the request that moves is, and the others are left alone.
LEMMA OthersKept ==
  ASSUME CampaignsInv, NEW r \in Request, OnlyMoves(r), RowsKept(r),
         RowsTyped', LocksOK', Busy(r)' => RequestTyped(r)', RequestOK(r)',
         NoDanglingMember', SlugUnique', WindowOrdered'
  PROVE  CampaignsInv'
  <1>1. RowsTyped /\ LocksOK /\ \A e \in Request : (Busy(e) => RequestTyped(e)) /\ RequestOK(e)
    BY DEF CampaignsInv, TypeOK
  <1>2. ASSUME NEW e \in Request \ {r}
        PROVE  (Busy(e)' => RequestTyped(e)') /\ RequestOK(e)'
    <2>1. Busy(e)' => RequestTyped(e)'
      BY <1>1 DEF OnlyMoves, Busy, RequestTyped
    <2>2. CreateOK(e)' /\ MineOK(e)'
      BY <1>1, CreateKept, MineKept DEF RequestOK
    <2>3. WriteOK(e)' /\ MoveOK(e)'
      BY <1>1, WriteKept, MoveKept DEF RequestOK
    <2> QED
      BY <2>1, <2>2, <2>3 DEF RequestOK
  <1>3. TypeOK' /\ \A e \in Request : RequestOK(e)'
    BY <1>2 DEF TypeOK
  <1> QED
    BY <1>3 DEF CampaignsInv

------------------------------------------------------------------------------
(* Moving on, locking, ending *)

\* What there is to say of a request under way.
LEMMA Facts ==
  ASSUME CampaignsInv, NEW r \in Request, Busy(r)
  PROVE  /\ RowsTyped /\ LocksOK /\ RequestTyped(r)
         /\ CreateOK(r) /\ WriteOK(r) /\ MineOK(r) /\ MoveOK(r)
         /\ camp[r] = None
  BY DEF CampaignsInv, TypeOK, RequestOK, CreateOK, Busy

\* A step that writes no row.
LEMMA Settled ==
  ASSUME CampaignsInv, NEW r \in Request, UNCHANGED rows, OnlyMoves(r), RowsTyped', LocksOK',
         Busy(r)' => RequestTyped(r)', RequestOK(r)'
  PROVE  CampaignsInv'
  <1>1. RowsKept(r)
    BY DEF rows, RowsKept, CampaignsKept, SlugsKept, LinksKept
  <1>2. NoDanglingMember' /\ SlugUnique' /\ WindowOrdered'
    BY DEF rows, CampaignsInv, NoDanglingMember, SlugUnique, WindowOrdered
  <1> QED
    BY <1>1, <1>2, OthersKept

\* A step that only moves on.
LEMMA Walked ==
  ASSUME CampaignsInv, NEW r \in Request, Busy(r), NEW label \in Label \ {"idle", "done"},
         Goto(r, label), UNCHANGED <<rows, locks, locals>>,
         DOMAIN req' = Request, \A e \in Request \ {r} : req'[e] = req[e],
         RequestTyped(r)', RequestOK(r)'
  PROVE  CampaignsInv'
  <1>1. RowsTyped /\ LocksOK
    BY Facts
  <1>2. RowsTyped'
    BY <1>1 DEF RowsTyped, Goto, rows, locals
  <1>3. pc'[r] = label /\ \A e \in Request \ {r} : pc'[e] = pc[e]
    BY <1>1 DEF RowsTyped, Goto
  <1>4. LocksOK'
    BY <1>1, <1>3 DEF LocksOK, RowsTyped, Busy, rows
  <1>5. OnlyMoves(r)
    BY <1>3 DEF OnlyMoves, locals
  <1> QED
    BY <1>2, <1>4, <1>5, Settled

LEMMA FreeMeans ==
  ASSUME NEW r, NEW row, NEW mode, Free(r, row, mode)
  PROVE  \A lk \in locks : lk.on = row /\ Conflict(lk.mode, mode) => lk.tx = r
  BY DEF Free, Blockers

LEMMA LockTaken ==
  ASSUME RowsTyped, LocksOK, NEW r \in Request, NEW row \in Campaign \cup Link,
         NEW mode \in {"share", "nokey", "update"},
         Free(r, row, mode), Lock(r, row, mode),
         \A e \in Request \ {r} : pc'[e] = pc[e], Busy(r)', UNCHANGED rows,
         row \in Campaign => camp[row] # None,
         row \in Link => at[row] # Absent /\ mode = "nokey"
  PROVE  /\ LocksOK' /\ locks \subseteq locks'
         /\ locks' \subseteq [tx : Request, on : Campaign \cup Link,
                              mode : {"share", "nokey", "update"}]
         /\ [tx |-> r, on |-> row, mode |-> mode] \in locks'
  <1>1. PICK new : new = [tx |-> r, on |-> row, mode |-> mode]
    OBVIOUS
  <1>0. locks' = locks \cup {new}
    BY <1>1 DEF Lock
  <1>2. /\ new \in [tx : Request, on : Campaign \cup Link, mode : {"share", "nokey", "update"}]
        /\ new.tx = r /\ new.on = row /\ new.mode = mode
    BY <1>1
  <1>3. \A lk \in locks : lk.on = row /\ Conflict(lk.mode, mode) => lk.tx = r
    BY FreeMeans
  <1>4. \A m, n : Conflict(m, n) <=> Conflict(n, m)
    BY DEF Conflict
  <1>5. \A lk \in locks' : Busy(lk.tx)'
    BY <1>0, <1>2 DEF RowsTyped, LocksOK, Busy
  <1>6. \A lk, l2 \in locks' : lk.on = l2.on /\ Conflict(lk.mode, l2.mode) => lk.tx = l2.tx
    BY <1>0, <1>2, <1>3, <1>4 DEF LocksOK
  <1>7. \A lk \in locks' : /\ lk.on \in Campaign => camp'[lk.on] # None
                           /\ lk.on \in Link => at'[lk.on] # Absent /\ lk.mode = "nokey"
    BY <1>0, <1>2 DEF LocksOK, rows
  <1>8. LocksOK'
    BY <1>5, <1>6, <1>7 DEF LocksOK
  <1> QED
    BY <1>0, <1>1, <1>2, <1>8 DEF RowsTyped

\* A step that gives r's locks back and writes only what they allow.
LEMMA Unlocked ==
  ASSUME RowsTyped, LocksOK, NEW r \in Request, Unlock(r), RowsKept(r),
         \A e \in Request \ {r} : pc'[e] = pc[e]
  PROVE  /\ LocksOK' /\ locks' \subseteq locks
         /\ \A lk \in locks : lk.tx # r => lk \in locks'
  <1>1. locks' = {lk \in locks : lk.tx # r}
    BY DEF Unlock
  <1>2. \A lk \in locks' : Busy(lk.tx)'
    BY <1>1 DEF RowsTyped, LocksOK, Busy
  <1>3. \A lk \in locks' : lk.on \in Campaign => camp'[lk.on] # None
    BY <1>1 DEF LocksOK, RowsKept, CampaignsKept
  <1>4. \A lk \in locks' : lk.on \in Link => at'[lk.on] # Absent /\ lk.mode = "nokey"
    BY <1>1 DEF LocksOK, RowsKept, LinksKept
  <1> QED
    BY <1>1, <1>2, <1>3, <1>4 DEF LocksOK

\* The request is over, and what it has written is right.
LEMMA Ended ==
  ASSUME CampaignsInv, NEW r \in Request, End(r), RowsKept(r),
         camp' \in [Campaign -> CampaignRow \cup {None}],
         at' \in [Link -> Campaign \cup {None, Absent}],
         NoDanglingMember', SlugUnique', WindowOrdered'
  PROVE  CampaignsInv'
  <1>1. RowsTyped /\ LocksOK
    BY DEF CampaignsInv, TypeOK
  <1>2. /\ pc'[r] = "done" /\ mine'[r] = {} /\ \A e \in Request \ {r} : pc'[e] = pc[e]
        /\ pc' \in [Request -> Label] /\ DOMAIN req' = Request
        /\ target' \in [Request -> Campaign \cup {None}]
        /\ todo' \in [Request -> SUBSET Link] /\ mine' \in [Request -> SUBSET Link]
    BY <1>1 DEF End, Goto, RowsTyped, Label
  <1>3. LocksOK' /\ locks' \subseteq locks /\ \A lk \in locks : lk.tx # r => lk \in locks'
    BY <1>1, <1>2, Unlocked DEF End
  <1>4. RowsTyped'
    BY <1>1, <1>2, <1>3 DEF RowsTyped
  <1>5. OnlyMoves(r)
    BY <1>1, <1>2, <1>3 DEF OnlyMoves, End, RowsTyped
  <1>6. ~Busy(r)' /\ RequestOK(r)'
    BY <1>2 DEF Busy, RequestOK, CreateOK, WriteOK, MineOK, MoveOK
  <1> QED
    BY <1>3, <1>4, <1>5, <1>6, OthersKept

LEMMA Stopped ==
  ASSUME CampaignsInv, NEW r \in Request, Stop(r)
  PROVE  CampaignsInv'
  <1>1. RowsKept(r)
    BY DEF Stop, rows, RowsKept, CampaignsKept, SlugsKept, LinksKept
  <1>2. NoDanglingMember' /\ SlugUnique' /\ WindowOrdered'
    BY DEF Stop, rows, CampaignsInv, NoDanglingMember, SlugUnique, WindowOrdered
  <1>3. /\ camp' \in [Campaign -> CampaignRow \cup {None}]
        /\ at' \in [Link -> Campaign \cup {None, Absent}]
    BY DEF Stop, rows, CampaignsInv, TypeOK, RowsTyped
  <1> QED
    BY <1>1, <1>2, <1>3, Ended DEF Stop

------------------------------------------------------------------------------
(* Requests arrive and find their campaign *)

LEMMA AskStep ==
  ASSUME CampaignsInv, NEW r \in Request, NEW kind \in Kind, NEW s \in Slug, NEW w \in Changes,
         NEW keys \in Seq(Link), NEW size \in Nat,
         NEW label \in Stages(kind) \cap {"slug", "read", "find", "resolve"},
         kind = "create" <=> label = "slug", kind = "create" => w \in Window,
         kind \in {"assign", "unassign"} => keys # << >>,
         Ask(r, kind, s, w, keys, size, label)
  PROVE  CampaignsInv'
  <1> DEFINE asked == [kind |-> kind, slug |-> s, detail |-> w, keys |-> keys, size |-> size]
  <1>1. RowsTyped /\ LocksOK /\ CreateOK(r) /\ MineOK(r)
    BY DEF CampaignsInv, TypeOK, RequestOK
  <1>2. /\ pc[r] = "idle" /\ Goto(r, label) /\ UNCHANGED <<rows, locks, locals>>
        /\ req' = [req EXCEPT ![r] = asked]
    BY DEF Ask
  <1>3. asked \in Asked /\ asked.kind = kind /\ asked.detail = w /\ asked.keys = keys
    BY DEF Asked
  <1> HIDE DEF asked
  <1>4. /\ req'[r] = asked /\ DOMAIN req' = Request /\ \A e \in Request \ {r} : req'[e] = req[e]
    BY <1>1, <1>2 DEF RowsTyped
  <1>5. pc'[r] = label /\ \A e \in Request \ {r} : pc'[e] = pc[e]
    BY <1>1, <1>2 DEF RowsTyped, Goto
  <1>6. RowsTyped'
    <2>1. label \in Label
      BY DEF Label
    <2> QED
      BY <1>1, <1>2, <1>4, <2>1 DEF RowsTyped, Goto, rows, locals
  <1>7. LocksOK'
    BY <1>1, <1>2, <1>5 DEF LocksOK, RowsTyped, Busy, rows
  <1>8. OnlyMoves(r)
    BY <1>2, <1>4, <1>5 DEF OnlyMoves, locals
  <1>9. RequestTyped(r)'
    BY <1>3, <1>4, <1>5 DEF RequestTyped
  <1>10. RequestOK(r)'
    <2>1. mine'[r] = {} /\ camp'[r] = None
      BY <1>1, <1>2 DEF MineOK, CreateOK, locals, rows
    <2> QED
      BY <1>5, <2>1 DEF RequestOK, CreateOK, WriteOK, MineOK, MoveOK
  <1> QED
    BY <1>2, <1>6, <1>7, <1>8, <1>9, <1>10, Settled

LEMMA KeysAre ==
  ASSUME NEW k \in Keys
  PROVE  k \in Seq(Link) /\ k # << >>
  <1>1. Cardinality(Link) \in Nat
    BY CampaignsAssumption, FS_CardinalityType
  <1>2. PICK n \in 1 .. Cardinality(Link) : k \in [1 .. n -> Link]
    BY DEF Keys
  <1>3. n \in Nat /\ n >= 1
    BY <1>1, <1>2
  <1>4. k \in Seq(Link) /\ Len(k) = n
    BY <1>2, <1>3
  <1> QED
    BY <1>3, <1>4

LEMMA SubmitStep ==
  ASSUME CampaignsInv, NEW r \in Request, Submit(r)
  PROVE  CampaignsInv'
  <1> USE DEF Kind, Stages
  <1>1. Window \subseteq Changes /\ NoChange \in Changes /\ 1 \in Slug
    BY CampaignsAssumption DEF Window, Dates, Changes, NoChange, Slug
  <1>2. << >> \in Seq(Link) /\ (\A l \in Link : <<l>> \in Seq(Link) /\ <<l>> # << >>) /\ 0 \in Nat
    OBVIOUS
  <1>3. CASE Create(r)
    <2>1. PICK w \in Window : Ask(r, "create", 1, w, << >>, 0, "slug")
      BY <1>3 DEF Create, Ask
    <2> QED
      BY <1>1, <1>2, <2>1, AskStep
  <1>4. CASE Patch(r)
    <2>1. PICK s \in Slug, w \in Changes : Ask(r, "patch", s, w, << >>, 0, "read")
      BY <1>4 DEF Patch
    <2> QED
      BY <1>2, <2>1, AskStep
  <1>5. CASE Delete(r)
    <2>1. PICK s \in Slug : Ask(r, "delete", s, NoChange, << >>, 0, "find")
      BY <1>5 DEF Delete
    <2> QED
      BY <1>1, <1>2, <2>1, AskStep
  <1>6. CASE AssignLinks(r)
    <2>1. PICK s \in Slug, k \in Keys : Ask(r, "assign", s, NoChange, k, 0, "resolve")
      BY <1>6 DEF AssignLinks
    <2> QED
      BY <1>1, <1>2, <2>1, KeysAre, AskStep
  <1>7. CASE UnassignLink(r)
    <2>1. PICK s \in Slug, l \in Link : Ask(r, "unassign", s, NoChange, <<l>>, 0, "resolve")
      BY <1>7 DEF UnassignLink
    <2> QED
      BY <1>1, <1>2, <2>1, AskStep
  <1>8. CASE BatchCreateLinks(r)
    <2>1. PICK s \in Slug, n \in 1 .. Cardinality(Link) :
             Ask(r, "batch", s, NoChange, << >>, n, "resolve")
      BY <1>8 DEF BatchCreateLinks
    <2>2. n \in Nat
      BY CampaignsAssumption, FS_CardinalityType
    <2> QED
      BY <1>1, <1>2, <2>1, <2>2, AskStep
  <1> QED
    BY <1>3, <1>4, <1>5, <1>6, <1>7, <1>8 DEF Submit

LEMMA ReadStep ==
  ASSUME CampaignsInv, NEW r \in Request, Read(r)
  PROVE  CampaignsInv'
  <1>1. CASE Stop(r)
    BY <1>1, Stopped
  <1>2. CASE Goto(r, "find") /\ UNCHANGED <<rows, locks, req, locals>>
    <2>1. pc[r] = "read" /\ Busy(r)
      BY DEF Read, Busy
    <2>2. RowsTyped /\ RequestTyped(r) /\ RequestOK(r)
      BY <2>1, Facts DEF RequestOK
    <2>3. pc'[r] = "find"
      BY <1>2, <2>2 DEF RowsTyped, Goto
    <2>4. RequestTyped(r)'
      BY <1>2, <2>1, <2>2, <2>3 DEF RequestTyped, Stages, Asked, Kind, locals
    <2>5. RequestOK(r)'
      BY <1>2, <2>1, <2>2, <2>3 DEF RequestOK, CreateOK, WriteOK, MineOK, MoveOK, rows, locals
    <2> QED
      BY <1>2, <2>1, <2>2, <2>4, <2>5, Walked DEF Label, RowsTyped
  <1> QED
    BY <1>1, <1>2 DEF Read

LEMMA FindStep ==
  ASSUME CampaignsInv, NEW r \in Request, Find(r)
  PROVE  CampaignsInv'
  <1>1. CASE Stop(r)
    BY <1>1, Stopped
  <1>2. CASE ~Stop(r)
    <2>1. pc[r] \in {"find", "resolve"} /\ Busy(r)
      BY DEF Find, Busy
    <2>2. PICK c \in Campaign : target' = [target EXCEPT ![r] = c]
      BY <1>2 DEF Find, Named
    <2>3. PICK label : /\ label = (CASE pc[r] = "find" -> "lock"
                                     [] req[r].kind = "batch" -> "row"
                                     [] OTHER -> "get")
                       /\ Goto(r, label)
      BY <1>2 DEF Find
    <2>4. UNCHANGED <<rows, locks, req, todo, mine>>
      BY <1>2 DEF Find
    <2>5. RowsTyped /\ LocksOK /\ RequestTyped(r) /\ RequestOK(r)
      BY <2>1, Facts DEF RequestOK
    <2>6. /\ label \in {"lock", "row", "get"}
          /\ label = "lock" => req[r].kind \in {"patch", "delete"}
          /\ label = "row" => req[r].kind = "batch"
          /\ label = "get" => req[r].kind \in {"assign", "unassign"}
      BY <2>1, <2>3, <2>5 DEF RequestTyped, Stages, Asked, Kind
    <2>7. /\ pc'[r] = label /\ target'[r] = c /\ pc' \in [Request -> Label]
          /\ target' \in [Request -> Campaign \cup {None}]
          /\ \A e \in Request \ {r} : pc'[e] = pc[e] /\ target'[e] = target[e]
      BY <2>2, <2>3, <2>5, <2>6 DEF RowsTyped, Goto, Label
    <2>8. RowsTyped'
      BY <2>4, <2>5, <2>7 DEF RowsTyped, rows
    <2>9. LocksOK'
      BY <2>4, <2>5, <2>6, <2>7 DEF LocksOK, RowsTyped, Busy, rows
    <2>10. OnlyMoves(r)
      BY <2>4, <2>7 DEF OnlyMoves
    <2>11. RequestTyped(r)'
      BY <2>4, <2>5, <2>6, <2>7 DEF RequestTyped, Stages
    <2>12. RequestOK(r)'
      BY <2>1, <2>4, <2>5, <2>6, <2>7 DEF RequestOK, CreateOK, WriteOK, MineOK, MoveOK, rows
    <2> QED
      BY <2>4, <2>8, <2>9, <2>10, <2>11, <2>12, Settled
  <1> QED
    BY <1>1, <1>2

------------------------------------------------------------------------------
(* Creating *)

LEMMA SlugCheckStep ==
  ASSUME CampaignsInv, NEW r \in Request, SlugCheck(r)
  PROVE  CampaignsInv'
  <1>1. pc[r] = "slug" /\ Busy(r)
    BY DEF SlugCheck, Busy
  <1>2. RowsTyped /\ LocksOK /\ RequestTyped(r) /\ RequestOK(r)
    BY <1>1, Facts DEF RequestOK
  <1>3. req[r] \in Asked /\ req[r].kind = "create" /\ req[r].detail \in Window
    BY <1>1, <1>2 DEF RequestTyped, Stages, Asked, Kind
  <1>4. CASE Stop(r)
    BY <1>4, Stopped
  <1>5. CASE Goto(r, "insert") /\ UNCHANGED <<rows, locks, req, locals>>
    <2>1. pc'[r] = "insert"
      BY <1>2, <1>5 DEF RowsTyped, Goto
    <2>2. RequestTyped(r)'
      BY <1>3, <1>5, <2>1 DEF RequestTyped, Stages
    <2>3. RequestOK(r)'
      BY <1>1, <1>2, <1>5, <2>1 DEF RequestOK, CreateOK, WriteOK, MineOK, MoveOK, rows, locals
    <2> QED
      BY <1>1, <1>2, <1>5, <2>2, <2>3, Walked DEF Label, RowsTyped
  <1>6. CASE /\ req[r].slug < MaxSlug /\ req' = [req EXCEPT ![r].slug = req[r].slug + 1]
             /\ UNCHANGED <<rows, locks, pc, locals>>
    <2>1. req[r].slug + 1 \in Slug
      BY <1>3, <1>6, CampaignsAssumption DEF Asked, Slug
    <2>2. /\ req'[r] = [req[r] EXCEPT !.slug = req[r].slug + 1] /\ DOMAIN req' = Request
          /\ \A e \in Request \ {r} : req'[e] = req[e]
      BY <1>2, <1>6 DEF RowsTyped
    <2>3. req'[r] \in Asked /\ req'[r].kind = "create" /\ req'[r].detail \in Window
      BY <1>3, <2>1, <2>2 DEF Asked
    <2>4. RequestTyped(r)'
      BY <1>1, <1>6, <2>3 DEF RequestTyped, Stages
    <2>5. RequestOK(r)'
      BY <1>1, <1>2, <1>6 DEF RequestOK, CreateOK, WriteOK, MineOK, MoveOK, rows, locals
    <2>6. RowsTyped' /\ LocksOK'
      BY <1>2, <1>6, <2>2 DEF RowsTyped, LocksOK, Busy, rows, locals
    <2>7. OnlyMoves(r)
      BY <1>6, <2>2 DEF OnlyMoves, locals
    <2> QED
      BY <1>6, <2>4, <2>5, <2>6, <2>7, Settled
  <1> QED
    BY <1>4, <1>5, <1>6 DEF SlugCheck

LEMMA InsertStep ==
  ASSUME CampaignsInv, NEW r \in Request, Insert(r)
  PROVE  CampaignsInv'
  <1>1. pc[r] = "insert" /\ Busy(r) /\ SlugBlockers(r) = {}
    BY DEF Insert, Busy
  <1>2. RowsTyped /\ LocksOK /\ RequestTyped(r) /\ RequestOK(r)
    BY <1>1, Facts DEF RequestOK
  <1>3. req[r] \in Asked /\ req[r].kind = "create" /\ req[r].detail \in Window
    BY <1>1, <1>2 DEF RequestTyped, Stages, Asked, Kind
  <1>4. CASE Stop(r)
    BY <1>4, Stopped
  <1>5. CASE /\ Named(req[r].slug) = {} /\ Goto(r, "commit")
             /\ UNCHANGED <<rows, locks, req, locals>>
    <2>1. pc'[r] = "commit" /\ \A e \in Request \ {r} : pc'[e] = pc[e]
      BY <1>2, <1>5 DEF RowsTyped, Goto
    <2>2. RequestTyped(r)'
      BY <1>3, <1>5, <2>1 DEF RequestTyped, Stages
    \* Nobody else is about to commit this slug.
    <2>3. \A e \in Request : pc'[e] = "commit" /\ req'[e].kind = "create"
                               /\ req'[e].slug = req'[r].slug => e = r
      BY <1>1, <1>5, <2>1 DEF SlugBlockers
    <2>4. Named(req[r].slug)' = {}
      BY <1>5 DEF Named, rows
    <2>5. CreateOK(r)'
      BY <1>1, <1>2, <1>5, <2>1, <2>3, <2>4 DEF RequestOK, CreateOK, rows
    <2>6. WriteOK(r)' /\ MineOK(r)' /\ MoveOK(r)'
      BY <1>1, <1>2, <1>3, <1>5, <2>1 DEF RequestOK, WriteOK, MineOK, MoveOK, rows, locals
    <2> QED
      BY <1>1, <1>2, <1>5, <2>2, <2>5, <2>6, Walked DEF Label, RowsTyped, RequestOK
  <1> QED
    BY <1>4, <1>5 DEF Insert

------------------------------------------------------------------------------
(* Editing and deleting *)

\* A step that locks a row and moves on.
LEMMA LockedOn ==
  ASSUME CampaignsInv, NEW r \in Request, Busy(r), NEW row \in Campaign \cup Link,
         NEW mode \in {"share", "nokey", "update"}, NEW label \in Label \ {"idle", "done"},
         Free(r, row, mode), Lock(r, row, mode), Goto(r, label), UNCHANGED <<rows, req, target>>,
         row \in Campaign => camp[row] # None,
         row \in Link => at[row] # Absent /\ mode = "nokey",
         todo' \in [Request -> SUBSET Link], mine' \in [Request -> SUBSET Link],
         \A e \in Request \ {r} : todo'[e] = todo[e] /\ mine'[e] = mine[e],
         /\ pc'[r] = label /\ locks \subseteq locks'
         /\ [tx |-> r, on |-> row, mode |-> mode] \in locks'
         => RequestTyped(r)' /\ RequestOK(r)'
  PROVE  CampaignsInv'
  <1>1. RowsTyped /\ LocksOK
    BY Facts
  <1>2. pc'[r] = label /\ \A e \in Request \ {r} : pc'[e] = pc[e]
    BY <1>1 DEF RowsTyped, Goto
  <1>3. /\ LocksOK' /\ locks \subseteq locks'
        /\ locks' \subseteq [tx : Request, on : Campaign \cup Link,
                             mode : {"share", "nokey", "update"}]
        /\ [tx |-> r, on |-> row, mode |-> mode] \in locks'
    BY <1>1, <1>2, LockTaken DEF Busy
  <1>4. RowsTyped'
    BY <1>1, <1>3 DEF RowsTyped, Goto, rows
  <1>5. OnlyMoves(r)
    BY <1>2, <1>3 DEF OnlyMoves
  <1> QED
    BY <1>2, <1>3, <1>4, <1>5, Settled

LEMMA LockPatchStep ==
  ASSUME CampaignsInv, NEW r \in Request, LockPatch(r)
  PROVE  CampaignsInv'
  <1>1. pc[r] = "lock" /\ Busy(r) /\ req[r].kind = "patch" /\ Free(r, target[r], "nokey")
    BY DEF LockPatch, Busy
  <1>2. RowsTyped /\ RequestTyped(r) /\ RequestOK(r)
    BY <1>1, Facts DEF RequestOK
  <1>3. CASE Stop(r)
    BY <1>3, Stopped
  <1>4. CASE /\ camp[target[r]] # None /\ Ordered(Merge(camp[target[r]].detail, req[r].detail))
             /\ Lock(r, target[r], "nokey") /\ Goto(r, "commit")
             /\ UNCHANGED <<rows, req, locals>>
    <2>1. PICK c \in Campaign : c = target[r]
      BY <1>1, <1>2 DEF RequestTyped
    <2>2. ASSUME pc'[r] = "commit", locks \subseteq locks',
                 [tx |-> r, on |-> c, mode |-> "nokey"] \in locks'
          PROVE  RequestTyped(r)' /\ RequestOK(r)'
      <3>1. RequestTyped(r)'
        BY <1>1, <1>2, <1>4, <2>2 DEF RequestTyped, Stages, locals
      <3>2. CreateOK(r)' /\ MineOK(r)' /\ MoveOK(r)'
        BY <1>1, <1>2, <1>4, <2>2 DEF RequestOK, CreateOK, MineOK, MoveOK, rows, locals
      <3>3. WriteOK(r)'
        BY <1>1, <1>2, <1>4, <2>1, <2>2 DEF WriteOK, Holds, rows, locals
      <3> QED
        BY <3>1, <3>2, <3>3 DEF RequestOK
    <2>3. c \notin Link
      BY CampaignsAssumption DEF Campaign
    <2> QED
      BY <1>1, <1>2, <1>4, <2>1, <2>2, <2>3, LockedOn DEF Label, RowsTyped, locals
  <1> QED
    BY <1>3, <1>4 DEF LockPatch

LEMMA LockDeleteStep ==
  ASSUME CampaignsInv, NEW r \in Request, LockDelete(r)
  PROVE  CampaignsInv'
  <1>1. pc[r] = "lock" /\ Busy(r) /\ req[r].kind = "delete" /\ Free(r, target[r], "update")
    BY DEF LockDelete, Busy
  <1>2. RowsTyped /\ RequestTyped(r) /\ RequestOK(r)
    BY <1>1, Facts DEF RequestOK
  <1>3. CASE Stop(r)
    BY <1>3, Stopped
  <1>4. CASE /\ camp[target[r]] # None
             /\ Lock(r, target[r], "update") /\ Goto(r, "cascade")
             /\ UNCHANGED <<rows, req, locals>>
    <2>1. PICK c \in Campaign : c = target[r]
      BY <1>1, <1>2 DEF RequestTyped
    <2>2. ASSUME pc'[r] = "cascade", locks \subseteq locks',
                 [tx |-> r, on |-> c, mode |-> "update"] \in locks'
          PROVE  RequestTyped(r)' /\ RequestOK(r)'
      <3>1. RequestTyped(r)'
        BY <1>1, <1>2, <1>4, <2>2 DEF RequestTyped, Stages, locals
      <3>2. CreateOK(r)' /\ MineOK(r)' /\ MoveOK(r)'
        BY <1>1, <1>2, <1>4, <2>2 DEF RequestOK, CreateOK, MineOK, MoveOK, rows, locals
      <3>3. WriteOK(r)'
        BY <1>1, <1>2, <1>4, <2>1, <2>2 DEF WriteOK, Holds, rows, locals
      <3> QED
        BY <3>1, <3>2, <3>3 DEF RequestOK
    <2>3. c \notin Link
      BY CampaignsAssumption DEF Campaign
    <2> QED
      BY <1>1, <1>2, <1>4, <2>1, <2>2, <2>3, LockedOn DEF Label, RowsTyped, locals
  <1> QED
    BY <1>3, <1>4 DEF LockDelete

LEMMA CascadeStep ==
  ASSUME CampaignsInv, NEW r \in Request, Cascade(r)
  PROVE  CampaignsInv'
  <1>1. /\ pc[r] = "cascade" /\ Busy(r) /\ Goto(r, "free")
        /\ todo' = [todo EXCEPT ![r] = {l \in Link : at[l] = target[r]}]
        /\ UNCHANGED <<rows, locks, req, target, mine>>
    BY DEF Cascade, Busy
  <1>2. RowsTyped /\ LocksOK /\ RequestTyped(r) /\ RequestOK(r)
    BY <1>1, Facts DEF RequestOK
  <1>3. /\ pc'[r] = "free" /\ \A e \in Request \ {r} : pc'[e] = pc[e]
        /\ pc' \in [Request -> Label]
    BY <1>1, <1>2 DEF RowsTyped, Goto, Label
  <1>4. /\ todo'[r] = {l \in Link : at[l] = target[r]}
        /\ \A e \in Request \ {r} : todo'[e] = todo[e]
        /\ todo' \in [Request -> SUBSET Link]
    BY <1>1, <1>2 DEF RowsTyped
  <1>5. RowsTyped'
    BY <1>1, <1>2, <1>3, <1>4 DEF RowsTyped, rows
  <1>6. LocksOK'
    BY <1>1, <1>2, <1>3 DEF RowsTyped, LocksOK, Busy, rows
  <1>7. OnlyMoves(r)
    BY <1>1, <1>3, <1>4 DEF OnlyMoves
  <1>8. RequestTyped(r)'
    BY <1>1, <1>2, <1>3 DEF RequestTyped, Stages, Asked, Kind
  <1>9. CreateOK(r)' /\ MineOK(r)' /\ MoveOK(r)'
    BY <1>1, <1>2, <1>3 DEF RequestOK, CreateOK, MineOK, MoveOK, rows
  <1>10. WriteOK(r)'
    <2>1. mine'[r] = {} /\ target'[r] = target[r] /\ at' = at /\ locks' = locks
      BY <1>1, <1>2 DEF RequestOK, MineOK, rows
    <2>2. target[r] \in Campaign /\ target[r] # Absent
      BY <1>1, <1>2, CampaignsAssumption DEF RequestTyped, Stages, Asked, Kind, Campaign
    <2>3. \A l \in todo'[r] : at'[l] # Absent
      BY <1>4, <2>1, <2>2
    <2> QED
      BY <1>1, <1>2, <1>3, <1>4, <2>1, <2>3 DEF RequestOK, WriteOK, Holds
  <1> QED
    BY <1>1, <1>5, <1>6, <1>7, <1>8, <1>9, <1>10, Settled DEF RequestOK

\* A link that is there and that nobody else has locked is nobody else's.
LEMMA NotMine ==
  ASSUME CampaignsInv, NEW r \in Request, NEW l \in Link, Free(r, l, "nokey"), at[l] # Absent,
         NEW e \in Request \ {r}
  PROVE  l \notin mine[e]
  <1>1. MineOK(e)
    BY DEF CampaignsInv, RequestOK
  <1>2. ~Holds(e, l, "nokey")
    <2>1. \A lk \in locks : lk.on = l /\ Conflict(lk.mode, "nokey") => lk.tx = r
      BY FreeMeans
    <2> QED
      BY <2>1 DEF Holds, Conflict
  <1> QED
    BY <1>1, <1>2 DEF MineOK

\* A link of r's todo that it has locked is its own if it is in the campaign
\* still, and no business of r's if it is not.
LEMMA FreeLinkStep ==
  ASSUME CampaignsInv, NEW r \in Request, FreeLink(r)
  PROVE  CampaignsInv'
  <1>1. /\ pc[r] = "free" /\ Busy(r)
        /\ UNCHANGED <<rows, pc, req, target>>
    BY DEF FreeLink, Busy
  <1>2. RowsTyped /\ LocksOK /\ RequestTyped(r) /\ RequestOK(r)
    BY <1>1, Facts DEF RequestOK
  <1>3. PICK l \in todo[r] :
          /\ Free(r, l, "nokey") /\ Lock(r, l, "nokey")
          /\ todo' = [todo EXCEPT ![r] = todo[r] \ {l}]
          /\ mine' = [mine EXCEPT ![r] = IF at[l] = target[r] THEN mine[r] \cup {l} ELSE mine[r]]
    BY DEF FreeLink
  <1>4. l \in Link /\ req[r].kind = "delete" /\ target[r] \in Campaign
    BY <1>1, <1>2 DEF RowsTyped, RequestTyped, Stages, Asked, Kind
  <1>5. /\ todo'[r] = todo[r] \ {l} /\ \A e \in Request \ {r} : todo'[e] = todo[e]
        /\ todo' \in [Request -> SUBSET Link]
    BY <1>2, <1>3, <1>4 DEF RowsTyped
  <1>6. /\ mine'[r] = IF at[l] = target[r] THEN mine[r] \cup {l} ELSE mine[r]
        /\ \A e \in Request \ {r} : mine'[e] = mine[e]
        /\ mine' \in [Request -> SUBSET Link]
    BY <1>2, <1>3, <1>4 DEF RowsTyped
  <1>7. at[l] # Absent
    BY <1>1, <1>2, <1>3 DEF RequestOK, WriteOK
  <1>8. /\ LocksOK' /\ locks \subseteq locks'
        /\ locks' \subseteq [tx : Request, on : Campaign \cup Link,
                             mode : {"share", "nokey", "update"}]
        /\ [tx |-> r, on |-> l, mode |-> "nokey"] \in locks'
    BY <1>1, <1>2, <1>3, <1>4, <1>7, LockTaken, CampaignsAssumption DEF Busy, Campaign
  <1>9. RowsTyped'
    BY <1>1, <1>2, <1>5, <1>6, <1>8 DEF RowsTyped, rows
  <1>10. OnlyMoves(r)
    BY <1>1, <1>5, <1>6, <1>8 DEF OnlyMoves
  <1>11. RequestTyped(r)' /\ CreateOK(r)' /\ MoveOK(r)'
    BY <1>1, <1>2 DEF RequestTyped, RequestOK, CreateOK, MoveOK, Named, rows
  <1>12. WriteOK(r)'
    BY <1>1, <1>2, <1>4, <1>5, <1>6, <1>8 DEF RequestOK, WriteOK, Holds, rows
  <1>13. MineOK(r)'
    <2>1. \A e \in Request \ {r} : l \notin mine[e]
      BY <1>3, <1>4, <1>7, NotMine
    <2>2. \A e \in Request \ {r} : mine[e] \cap mine[r] = {}
      BY <1>2 DEF RequestOK, MineOK
    <2>3. \A e \in Request \ {r} : mine'[e] \cap mine'[r] = {}
      BY <1>6, <2>1, <2>2
    <2>4. \A j \in mine'[r] : Holds(r, j, "nokey")'
      BY <1>2, <1>4, <1>6, <1>8 DEF RequestOK, MineOK, Holds
    <2> QED
      BY <1>1, <1>4, <2>3, <2>4 DEF MineOK
  <1> QED
    BY <1>1, <1>8, <1>9, <1>10, <1>11, <1>12, <1>13, Settled DEF RequestOK

------------------------------------------------------------------------------
(* Moving links *)

LEMMA GetLinkStep ==
  ASSUME CampaignsInv, NEW r \in Request, GetLink(r)
  PROVE  CampaignsInv'
  <1>1. pc[r] = "get" /\ Busy(r)
    BY DEF GetLink, Busy
  <1>2. RowsTyped /\ RequestTyped(r) /\ RequestOK(r)
    BY <1>1, Facts DEF RequestOK
  <1>3. CASE Stop(r)
    BY <1>3, Stopped
  <1>4. CASE /\ at[Head(req[r].keys)] # Absent /\ Goto(r, "update")
             /\ UNCHANGED <<rows, locks, req, locals>>
    <2>1. pc'[r] = "update"
      BY <1>2, <1>4 DEF RowsTyped, Goto
    <2>2. RequestTyped(r)'
      BY <1>1, <1>2, <1>4, <2>1 DEF RequestTyped, Stages, Asked, Kind, locals
    <2>3. RequestOK(r)'
      BY <1>1, <1>2, <1>4, <2>1 DEF RequestOK, CreateOK, WriteOK, MineOK, MoveOK, rows, locals
    <2> QED
      BY <1>1, <1>2, <1>4, <2>2, <2>3, Walked DEF Label, RowsTyped
  <1> QED
    BY <1>3, <1>4 DEF GetLink

LEMMA UpdateStep ==
  ASSUME CampaignsInv, NEW r \in Request, Update(r)
  PROVE  CampaignsInv'
  <1>1. pc[r] = "update" /\ Busy(r)
    BY DEF Update, Busy
  <1>2. RowsTyped /\ RequestTyped(r) /\ RequestOK(r)
    BY <1>1, Facts DEF RequestOK
  <1>3. CASE Stop(r)
    BY <1>3, Stopped
  <1>4. CASE Goto(r, "hold") /\ UNCHANGED <<rows, locks, req, locals>>
    <2>1. pc'[r] = "hold"
      BY <1>2, <1>4 DEF RowsTyped, Goto
    <2>2. RequestTyped(r)'
      BY <1>1, <1>2, <1>4, <2>1 DEF RequestTyped, Stages, Asked, Kind, locals
    <2>3. RequestOK(r)'
      BY <1>1, <1>2, <1>4, <2>1 DEF RequestOK, CreateOK, WriteOK, MineOK, MoveOK, rows, locals
    <2> QED
      BY <1>1, <1>2, <1>4, <2>2, <2>3, Walked DEF Label, RowsTyped
  <1> QED
    BY <1>3, <1>4 DEF Update

LEMMA HoldStep ==
  ASSUME CampaignsInv, NEW r \in Request, Hold(r)
  PROVE  CampaignsInv'
  <1>1. pc[r] = "hold" /\ Busy(r)
    BY DEF Hold, Busy
  <1>2. RowsTyped /\ RequestTyped(r) /\ RequestOK(r)
    BY <1>1, Facts DEF RequestOK
  <1>3. CASE Stop(r)
    BY <1>3, Stopped
  <1>4. CASE ~Stop(r)
    <2>1. /\ req[r] \in Asked /\ req[r].kind \in {"assign", "unassign"} /\ req[r].keys # << >>
      BY <1>1, <1>2 DEF RequestTyped, Stages, Asked, Kind
    <2>2. PICK l \in Link : l = Head(req[r].keys)
      BY <2>1 DEF Asked
    <2>3. PICK label \in {"share", "commit"} :
            /\ label = IF req[r].kind = "assign" /\ at[l] # target[r] THEN "share" ELSE "commit"
            /\ Goto(r, label)
      BY <1>4, <2>2 DEF Hold
    <2>4. /\ Free(r, l, "nokey") /\ Lock(r, l, "nokey")
          /\ req[r].kind = "assign" \/ at[l] = target[r]
          /\ mine' = [mine EXCEPT ![r] = {l}]
          /\ UNCHANGED <<rows, req, target, todo>>
      BY <1>4, <2>2 DEF Hold
    <2>5. at[l] # Absent
      BY <1>1, <1>2, <2>2 DEF RequestOK, MoveOK
    <2>6. /\ mine'[r] = {l} /\ \A e \in Request \ {r} : mine'[e] = mine[e]
          /\ mine' \in [Request -> SUBSET Link]
      BY <1>2, <2>4 DEF RowsTyped
    <2>7. ASSUME pc'[r] = label, locks \subseteq locks',
                 [tx |-> r, on |-> l, mode |-> "nokey"] \in locks'
          PROVE  RequestTyped(r)' /\ RequestOK(r)'
      <3>1. RequestTyped(r)'
        BY <1>1, <1>2, <2>1, <2>3, <2>4, <2>7 DEF RequestTyped, Stages
      <3>2. CreateOK(r)' /\ WriteOK(r)'
        BY <1>1, <1>2, <2>1, <2>3, <2>4, <2>7 DEF RequestOK, CreateOK, WriteOK, rows
      <3>3. MineOK(r)'
        <4>1. \A e \in Request \ {r} : l \notin mine[e]
          BY <2>4, <2>5, NotMine
        <4> QED
          BY <2>1, <2>3, <2>4, <2>6, <2>7, <4>1 DEF MineOK, Holds
      <3>4. MoveOK(r)'
        BY <2>1, <2>2, <2>3, <2>4, <2>6, <2>7 DEF MoveOK, rows
      <3> QED
        BY <3>1, <3>2, <3>3, <3>4 DEF RequestOK
    <2>8. l \notin Campaign
      BY CampaignsAssumption DEF Campaign
    <2> QED
      BY <1>1, <1>2, <2>3, <2>4, <2>5, <2>6, <2>7, <2>8, LockedOn DEF Label, RowsTyped
  <1> QED
    BY <1>3, <1>4

LEMMA BatchRowStep ==
  ASSUME CampaignsInv, NEW r \in Request, BatchRow(r)
  PROVE  CampaignsInv'
  <1>1. /\ pc[r] = "row" /\ Busy(r) /\ Goto(r, "share")
        /\ UNCHANGED <<rows, locks, req, target, todo>>
    BY DEF BatchRow, Busy
  <1>2. RowsTyped /\ LocksOK /\ RequestTyped(r) /\ RequestOK(r)
    BY <1>1, Facts DEF RequestOK
  <1>3. PICK l \in Link : /\ at[l] = Absent /\ \A e \in Request : l \notin mine[e]
                          /\ mine' = [mine EXCEPT ![r] = mine[r] \cup {l}]
    BY DEF BatchRow
  <1>4. req[r].kind = "batch"
    BY <1>1, <1>2 DEF RequestTyped, Stages, Asked, Kind
  <1>5. /\ pc'[r] = "share" /\ \A e \in Request \ {r} : pc'[e] = pc[e]
        /\ pc' \in [Request -> Label]
    BY <1>1, <1>2 DEF RowsTyped, Goto, Label
  <1>6. /\ mine'[r] = mine[r] \cup {l} /\ \A e \in Request \ {r} : mine'[e] = mine[e]
        /\ mine' \in [Request -> SUBSET Link]
    BY <1>2, <1>3 DEF RowsTyped
  <1>7. RowsTyped'
    BY <1>1, <1>2, <1>5, <1>6 DEF RowsTyped, rows
  <1>8. LocksOK'
    BY <1>1, <1>2, <1>5 DEF LocksOK, RowsTyped, Busy, rows
  <1>9. OnlyMoves(r)
    BY <1>1, <1>5, <1>6 DEF OnlyMoves
  <1>10. RequestTyped(r)'
    BY <1>1, <1>2, <1>4, <1>5 DEF RequestTyped, Stages
  <1>11. CreateOK(r)' /\ WriteOK(r)' /\ MoveOK(r)'
    BY <1>1, <1>2, <1>4, <1>5 DEF RequestOK, CreateOK, WriteOK, MoveOK, rows
  <1>12. MineOK(r)'
    BY <1>1, <1>2, <1>3, <1>4, <1>5, <1>6 DEF RequestOK, MineOK, rows
  <1> QED
    BY <1>1, <1>7, <1>8, <1>9, <1>10, <1>11, <1>12, Settled DEF RequestOK

LEMMA ShareStep ==
  ASSUME CampaignsInv, NEW r \in Request, Share(r)
  PROVE  CampaignsInv'
  <1>1. pc[r] = "share" /\ Busy(r) /\ Free(r, target[r], "share")
    BY DEF Share, Busy
  <1>2. RowsTyped /\ RequestTyped(r) /\ RequestOK(r)
    BY <1>1, Facts DEF RequestOK
  <1>3. CASE Stop(r)
    BY <1>3, Stopped
  <1>4. CASE ~Stop(r)
    <2>1. /\ camp[target[r]] # None /\ Lock(r, target[r], "share")
          /\ UNCHANGED <<rows, req, locals>>
      BY <1>4 DEF Share
    <2>2. PICK label \in {"row", "commit"} :
            Goto(r, label) /\ (label = "row" => req[r].kind = "batch")
      BY <1>4 DEF Share
    <2>3. PICK c \in Campaign : c = target[r]
      BY <1>1, <1>2 DEF RequestTyped, Stages, Asked, Kind
    <2>4. req[r].kind \in {"assign", "batch"}
      BY <1>1, <1>2 DEF RequestTyped, Stages, Asked, Kind
    <2>5. ASSUME pc'[r] = label, locks \subseteq locks',
                 [tx |-> r, on |-> c, mode |-> "share"] \in locks'
          PROVE  RequestTyped(r)' /\ RequestOK(r)'
      <3>1. RequestTyped(r)'
        BY <1>1, <1>2, <2>1, <2>2, <2>4, <2>5 DEF RequestTyped, Stages, locals
      <3>2. CreateOK(r)' /\ WriteOK(r)'
        BY <1>1, <1>2, <2>1, <2>2, <2>4, <2>5 DEF RequestOK, CreateOK, WriteOK, rows, locals
      <3>3. MineOK(r)'
        BY <1>1, <1>2, <2>1, <2>2, <2>5 DEF RequestOK, MineOK, Holds, rows, locals
      <3>4. MoveOK(r)'
        BY <1>1, <1>2, <2>1, <2>2, <2>3, <2>4, <2>5 DEF RequestOK, MoveOK, Holds, rows, locals
      <3> QED
        BY <3>1, <3>2, <3>3, <3>4 DEF RequestOK
    <2>6. c \notin Link
      BY CampaignsAssumption DEF Campaign
    <2> QED
      BY <1>1, <1>2, <2>1, <2>2, <2>3, <2>5, <2>6, LockedOn DEF Label, RowsTyped, locals
  <1> QED
    BY <1>3, <1>4

------------------------------------------------------------------------------
(* The commits, each an action of the board *)

LEMMA CommitCreateStep ==
  ASSUME CampaignsInv, NEW r \in Request, CommitCreate(r)
  PROVE  CampaignsInv' /\ Board!Create(r)
  <1>1. /\ pc[r] = "commit" /\ Busy(r) /\ req[r].kind = "create" /\ End(r) /\ at' = at
        /\ camp' = [camp EXCEPT ![r] = [slug |-> req[r].slug, detail |-> req[r].detail]]
    BY DEF CommitCreate, Busy
  <1>2. RowsTyped /\ LocksOK /\ RequestTyped(r) /\ CreateOK(r) /\ camp[r] = None /\ r \in Campaign
    BY <1>1, Facts DEF Campaign
  <1>3. PICK s \in Slug, w \in Window : s = req[r].slug /\ w = req[r].detail
    BY <1>1, <1>2 DEF RequestTyped, Asked
  <1>4. camp' = [camp EXCEPT ![r] = [slug |-> s, detail |-> w]]
    BY <1>1, <1>3
  <1>5. /\ camp'[r] # None /\ camp'[r].slug = s /\ camp'[r].detail = w
        /\ \A c \in Campaign \ {r} : camp'[c] = camp[c]
        /\ camp' \in [Campaign -> CampaignRow \cup {None}]
    <2>1. [slug |-> s, detail |-> w] \in CampaignRow
      BY DEF CampaignRow, Window
    <2>2. \A x \in CampaignRow : x # None
      BY NoneAssumption
    <2> QED
      BY <1>2, <1>4, <2>1, <2>2 DEF RowsTyped
  <1>6. \A c \in Campaign : camp[c] # None => camp[c].slug # s
    BY <1>1, <1>2, <1>3 DEF CreateOK, Named
  <1>7. RowsKept(r)
    <2>1. CampaignsKept(r) /\ LinksKept(r)
      BY <1>1, <1>2, <1>5 DEF CampaignsKept, LinksKept
    <2>2. SlugsKept(r)
      BY <1>1, <1>2, <1>3, <1>5 DEF SlugsKept, CreateOK
    <2> QED
      BY <2>1, <2>2 DEF RowsKept
  <1>8. NoDanglingMember' /\ SlugUnique'
    BY <1>1, <1>5, <1>6 DEF CampaignsInv, NoDanglingMember, SlugUnique
  <1>9. WindowOrdered'
    BY <1>5 DEF CampaignsInv, WindowOrdered, Window
  <1>10. at' \in [Link -> Campaign \cup {None, Absent}]
    BY <1>1, <1>2 DEF RowsTyped
  <1>11. CampaignsInv'
    BY <1>1, <1>5, <1>7, <1>8, <1>9, <1>10, Ended
  <1>12. Board!Create(r)
    BY <1>1, <1>2, <1>4, <1>6 DEF Board!Create, Board!Live
  <1> QED
    BY <1>11, <1>12

LEMMA MergeTyped ==
  ASSUME NEW old \in Dates, NEW new \in Changes
  PROVE  Merge(old, new) \in Dates
  BY DEF Merge, Dates, Changes

LEMMA CommitPatchStep ==
  ASSUME CampaignsInv, NEW r \in Request, CommitPatch(r)
  PROVE  CampaignsInv' /\ Board!Edit(target[r])
  <1>1. /\ pc[r] = "commit" /\ Busy(r) /\ req[r].kind = "patch" /\ End(r) /\ at' = at
    BY DEF CommitPatch, Busy
  <1>2. RowsTyped /\ LocksOK /\ RequestTyped(r) /\ WriteOK(r)
    BY <1>1, Facts
  <1>3. PICK c \in Campaign : c = target[r]
    BY <1>1, <1>2 DEF RequestTyped
  <1>4. Holds(r, c, "nokey") /\ camp[c] # None
    BY <1>1, <1>2, <1>3 DEF WriteOK, LocksOK, Holds
  <1>5. PICK w \in Window : w = Merge(camp[c].detail, req[r].detail)
    <2>1. camp[c].detail \in Dates
      BY <1>2, <1>4 DEF RowsTyped, CampaignRow
    <2>2. req[r].detail \in Changes
      BY <1>2 DEF RequestTyped, Asked
    <2>3. Merge(camp[c].detail, req[r].detail) \in Dates
      BY <2>1, <2>2, MergeTyped
    <2> QED
      BY <1>1, <1>2, <1>3, <2>3 DEF WriteOK, Window
  <1>6. camp' = [camp EXCEPT ![c].detail = w]
    BY <1>3, <1>5 DEF CommitPatch
  <1>7. /\ camp'[c] \in CampaignRow /\ camp'[c] # None
        /\ camp'[c].slug = camp[c].slug /\ camp'[c].detail = w
        /\ \A d \in Campaign \ {c} : camp'[d] = camp[d]
        /\ camp' \in [Campaign -> CampaignRow \cup {None}]
    <2>1. camp[c] \in [slug : Slug, detail : Dates] /\ w \in Dates
      BY <1>2, <1>4 DEF RowsTyped, CampaignRow, Window
    <2>2. camp'[c] = [camp[c] EXCEPT !.detail = w]
      BY <1>2, <1>6 DEF RowsTyped
    <2>3. camp'[c] \in CampaignRow /\ camp'[c].slug = camp[c].slug /\ camp'[c].detail = w
      BY <2>1, <2>2 DEF CampaignRow
    <2>4. camp'[c] # None
      BY <2>3, NoneAssumption
    <2> QED
      BY <1>2, <1>6, <2>3, <2>4 DEF RowsTyped
  <1>8. RowsKept(r)
    <2>1. SlugsKept(r) /\ LinksKept(r)
      BY <1>1, <1>4, <1>7 DEF SlugsKept, LinksKept
    <2>2. \A lk \in locks : lk.on = c /\ lk.tx # r => lk.mode = "share"
      BY <1>2, <1>4 DEF LocksOK, Holds, Conflict, RowsTyped
    <2>3. CampaignsKept(r)
      BY <1>7, <2>2 DEF CampaignsKept
    <2> QED
      BY <2>1, <2>3 DEF RowsKept
  <1>9. NoDanglingMember' /\ SlugUnique'
    BY <1>1, <1>4, <1>7 DEF CampaignsInv, NoDanglingMember, SlugUnique
  <1>10. WindowOrdered'
    BY <1>7 DEF CampaignsInv, WindowOrdered, Window
  <1>11. at' \in [Link -> Campaign \cup {None, Absent}]
    BY <1>1, <1>2 DEF RowsTyped
  <1>12. CampaignsInv'
    BY <1>1, <1>7, <1>8, <1>9, <1>10, <1>11, Ended
  <1>13. Board!Edit(c)
    BY <1>1, <1>4, <1>6 DEF Board!Edit, Board!Live
  <1> QED
    BY <1>3, <1>12, <1>13

LEMMA CommitDeleteStep ==
  ASSUME CampaignsInv, NEW r \in Request, CommitDelete(r)
  PROVE  CampaignsInv' /\ target[r] \in Campaign /\ Board!Delete(target[r])
  <1>1. /\ pc[r] = "free" /\ Busy(r) /\ todo[r] = {} /\ End(r)
        /\ camp' = [camp EXCEPT ![target[r]] = None]
        /\ at' = [l \in Link |-> IF l \in mine[r] THEN None ELSE at[l]]
    BY DEF CommitDelete, Busy
  <1>2. RowsTyped /\ LocksOK /\ RequestTyped(r) /\ WriteOK(r) /\ MineOK(r)
    BY <1>1, Facts
  <1>3. PICK c \in Campaign : c = target[r] /\ req[r].kind = "delete"
    BY <1>1, <1>2 DEF RequestTyped, Stages, Asked, Kind
  <1>4. Holds(r, c, "update") /\ camp[c] # None
    BY <1>1, <1>2, <1>3 DEF WriteOK, LocksOK, Holds
  \* What it has freed is what was in the campaign, and locked.
  <1>5. /\ \A l \in Link : l \in mine[r] <=> at[l] = c
        /\ \A l \in mine[r] : l \in Link /\ Holds(r, l, "nokey")
    BY <1>1, <1>2, <1>3 DEF WriteOK, MineOK, RowsTyped
  <1>6. at' = [l \in Link |-> IF at[l] = c THEN None ELSE at[l]]
    BY <1>1, <1>5
  <1>7. /\ camp'[c] = None /\ \A d \in Campaign \ {c} : camp'[d] = camp[d]
        /\ camp' \in [Campaign -> CampaignRow \cup {None}]
        /\ at' \in [Link -> Campaign \cup {None, Absent}]
    BY <1>1, <1>2, <1>3 DEF RowsTyped
  <1>8. None \notin Campaign \cup Link /\ None # Absent
    BY CampaignsAssumption DEF Campaign
  <1>9. CampaignsKept(r)
    <2>1. \A lk \in locks : lk.on = c => lk.tx = r
      BY <1>2, <1>4 DEF LocksOK, Holds, Conflict, RowsTyped
    <2> QED
      BY <1>7, <2>1 DEF CampaignsKept
  <1>10. SlugsKept(r)
    BY <1>7 DEF SlugsKept
  <1>11. LinksKept(r)
    <2> SUFFICES ASSUME NEW l \in Link, at'[l] # at[l]
                 PROVE  /\ at'[l] # Absent
                        /\ \A lk \in locks : lk.on = l => lk.tx = r
                        /\ \A lk \in locks : lk.on = at'[l] /\ lk.mode = "update" => lk.tx = r
                        /\ \A e \in Request \ {r} : l \notin mine[e]
      BY DEF LinksKept
    <2>1. at'[l] = None /\ l \in mine[r] /\ Holds(r, l, "nokey")
      BY <1>5, <1>6
    <2>2. \A lk \in locks : lk.on = l => lk.tx = r
      BY <1>2, <2>1 DEF LocksOK, Holds, Conflict
    <2>3. \A lk \in locks : lk.on # None
      BY <1>2, <1>8 DEF RowsTyped
    <2>4. \A e \in Request \ {r} : l \notin mine[e]
      BY <1>2, <2>1 DEF MineOK
    <2> QED
      BY <1>8, <2>1, <2>2, <2>3, <2>4
  <1>12. NoDanglingMember'
    BY <1>6, <1>7, <1>8 DEF CampaignsInv, NoDanglingMember
  <1>13. SlugUnique' /\ WindowOrdered'
    BY <1>7 DEF CampaignsInv, SlugUnique, WindowOrdered
  <1>14. CampaignsInv'
    BY <1>1, <1>7, <1>9, <1>10, <1>11, <1>12, <1>13, Ended DEF RowsKept
  <1>15. Board!Delete(c)
    BY <1>1, <1>3, <1>4, <1>6 DEF Board!Delete, Board!Live
  <1> QED
    BY <1>3, <1>14, <1>15

\* The write of a transaction on links that are its own, into a campaign that is
\* there and that nobody else is deleting, or into none.
LEMMA LinksWritten ==
  ASSUME CampaignsInv, NEW r \in Request, Busy(r), NEW value \in Campaign \cup {None},
         Written(r, value), mine[r] # {} => value = None \/ camp[value] # None,
         \A l \in mine[r] : at[l] = value \/ value = None \/ Holds(r, value, "share")
  PROVE  /\ RowsKept(r) /\ camp' = camp
         /\ at' = [l \in Link |-> IF l \in mine[r] THEN value ELSE at[l]]
         /\ camp' \in [Campaign -> CampaignRow \cup {None}]
         /\ at' \in [Link -> Campaign \cup {None, Absent}]
         /\ NoDanglingMember' /\ SlugUnique' /\ WindowOrdered'
  <1>1. RowsTyped /\ LocksOK /\ RequestTyped(r) /\ MineOK(r)
    BY Facts
  <1>2. camp' = camp /\ at' = [l \in Link |-> IF l \in mine[r] THEN value ELSE at[l]]
    BY DEF Written
  <1>3. /\ camp' \in [Campaign -> CampaignRow \cup {None}]
        /\ at' \in [Link -> Campaign \cup {None, Absent}]
    BY <1>1, <1>2 DEF RowsTyped
  <1>4. value # Absent /\ None \notin Campaign /\ None \notin Link
    BY CampaignsAssumption DEF Campaign
  <1>5. CampaignsKept(r) /\ SlugsKept(r)
    BY <1>2 DEF CampaignsKept, SlugsKept
  <1>6. LinksKept(r)
    <2> SUFFICES ASSUME NEW l \in Link, at'[l] # at[l]
                 PROVE  /\ at'[l] # Absent
                        /\ \A lk \in locks : lk.on = l => lk.tx = r
                        /\ \A lk \in locks : lk.on = at'[l] /\ lk.mode = "update" => lk.tx = r
                        /\ \A e \in Request \ {r} : l \notin mine[e]
      BY DEF LinksKept
    <2>1. l \in mine[r] /\ at'[l] = value /\ at[l] # value
      BY <1>2
    <2>2. \A lk \in locks : lk.on = l => lk.tx = r
      <3>1. CASE req[r].kind = "batch"
        BY <1>1, <2>1, <3>1 DEF MineOK, LocksOK
      <3>2. CASE req[r].kind # "batch"
        <4>1. Holds(r, l, "nokey")
          BY <1>1, <2>1, <3>2 DEF MineOK
        <4> QED
          BY <1>1, <4>1 DEF LocksOK, Holds, Conflict
      <3> QED
        BY <3>1, <3>2
    <2>3. \A lk \in locks : lk.on = value /\ lk.mode = "update" => lk.tx = r
      <3>1. CASE value = None
        BY <1>1, <1>4, <3>1 DEF RowsTyped
      <3>2. CASE Holds(r, value, "share")
        BY <1>1, <3>2 DEF LocksOK, Holds, Conflict
      <3> QED
        BY <2>1, <3>1, <3>2
    <2>4. \A e \in Request \ {r} : l \notin mine[e]
      BY <1>1, <2>1 DEF MineOK
    <2> QED
      BY <1>4, <2>1, <2>2, <2>3, <2>4
  <1>7. NoDanglingMember'
    BY <1>2, <1>4 DEF CampaignsInv, NoDanglingMember
  <1>8. SlugUnique' /\ WindowOrdered'
    BY <1>2 DEF CampaignsInv, SlugUnique, WindowOrdered
  <1> QED
    BY <1>2, <1>3, <1>5, <1>6, <1>7, <1>8 DEF RowsKept

LEMMA CommitAssignStep ==
  ASSUME CampaignsInv, NEW r \in Request, CommitAssign(r)
  PROVE  CampaignsInv' /\ \E l \in Link : Board!Assign(l, target[r])
  <1>1. /\ pc[r] = "commit" /\ Busy(r) /\ req[r].kind = "assign" /\ Written(r, target[r])
    BY DEF CommitAssign, Busy
  <1>2. RowsTyped /\ LocksOK /\ RequestTyped(r) /\ MineOK(r) /\ MoveOK(r) /\ camp[r] = None
    BY <1>1, Facts
  <1>3. PICK c \in Campaign : c = target[r]
    BY <1>1, <1>2 DEF RequestTyped
  <1>4. PICK l \in Link : l = Head(req[r].keys)
    BY <1>1, <1>2 DEF RequestTyped, Asked
  <1>5. /\ mine[r] = {l} /\ Holds(r, l, "nokey") /\ at[l] # Absent
        /\ at[l] = c \/ Holds(r, c, "share")
    BY <1>1, <1>2, <1>3, <1>4 DEF MineOK, MoveOK, LocksOK, Holds
  <1>6. camp[c] # None /\ c # None
    BY <1>2, <1>5, CampaignsAssumption DEF CampaignsInv, NoDanglingMember, LocksOK, Holds, Campaign
  <1>7. Written(r, c)
    BY <1>1, <1>3
  <1>8. /\ RowsKept(r) /\ camp' = camp
        /\ at' = [x \in Link |-> IF x \in mine[r] THEN c ELSE at[x]]
        /\ camp' \in [Campaign -> CampaignRow \cup {None}]
        /\ at' \in [Link -> Campaign \cup {None, Absent}]
        /\ NoDanglingMember' /\ SlugUnique' /\ WindowOrdered'
    BY <1>1, <1>5, <1>6, <1>7, LinksWritten
  <1>9. Board!Assign(l, c)
    BY <1>2, <1>5, <1>6, <1>8 DEF Board!Assign, Board!Live, RowsTyped
  <1>10. CASE End(r)
    BY <1>3, <1>8, <1>9, <1>10, Ended
  <1>11. CASE ~End(r)
    <2>1. /\ Len(req[r].keys) > 1 /\ req' = [req EXCEPT ![r].keys = Tail(req[r].keys)]
          /\ mine' = [mine EXCEPT ![r] = {}] /\ Unlock(r) /\ Goto(r, "get")
          /\ UNCHANGED <<target, todo>>
      BY <1>11 DEF CommitAssign
    <2>2. PICK rest : rest = Tail(req[r].keys)
      OBVIOUS
    <2>3. rest \in Seq(Link) /\ rest # << >>
      <3>1. req[r].keys \in Seq(Link)
        BY <1>2 DEF RequestTyped, Asked
      <3>2. Len(rest) = Len(req[r].keys) - 1 /\ rest \in Seq(Link)
        BY <2>1, <2>2, <3>1
      <3> QED
        BY <2>1, <3>1, <3>2
    <2>4. /\ pc'[r] = "get" /\ mine'[r] = {} /\ req'[r] = [req[r] EXCEPT !.keys = rest]
          /\ \A e \in Request \ {r} : pc'[e] = pc[e] /\ mine'[e] = mine[e] /\ req'[e] = req[e]
          /\ pc' \in [Request -> Label] /\ mine' \in [Request -> SUBSET Link]
          /\ DOMAIN req' = Request
      BY <1>2, <2>1, <2>2 DEF RowsTyped, Goto, Label
    <2>5. LocksOK' /\ locks' \subseteq locks /\ \A lk \in locks : lk.tx # r => lk \in locks'
      BY <1>2, <1>8, <2>1, <2>4, Unlocked
    <2>6. RowsTyped'
      BY <1>2, <1>8, <2>1, <2>4, <2>5 DEF RowsTyped
    <2>7. OnlyMoves(r)
      BY <2>1, <2>4, <2>5 DEF OnlyMoves
    <2>8. RequestTyped(r)'
      <3>1. req[r] \in Asked
        BY <1>2 DEF RequestTyped
      <3>2. req'[r] \in Asked /\ req'[r].kind = "assign" /\ req'[r].keys = rest
        BY <1>1, <2>3, <2>4, <3>1 DEF Asked
      <3> QED
        BY <1>3, <2>1, <2>3, <2>4, <3>2 DEF RequestTyped, Stages
    <2>9. RequestOK(r)'
      BY <1>2, <1>8, <2>4 DEF RequestOK, CreateOK, WriteOK, MineOK, MoveOK
    <2> QED
      BY <1>3, <1>8, <1>9, <2>5, <2>6, <2>7, <2>8, <2>9, OthersKept
  <1> QED
    BY <1>10, <1>11

LEMMA CommitLinksStep ==
  ASSUME CampaignsInv, NEW r \in Request, CommitLinks(r)
  PROVE  /\ CampaignsInv'
         /\ \/ \E l \in Link : Board!Unassign(l)
            \/ Board!AddLinks(mine[r], target[r]) /\ target[r] \in Campaign /\ mine[r] \subseteq Link
  <1>1. /\ pc[r] = "commit" /\ Busy(r) /\ End(r)
        /\ Written(r, IF req[r].kind = "batch" THEN target[r] ELSE None)
    BY DEF CommitLinks, Busy
  <1>2. RowsTyped /\ LocksOK /\ RequestTyped(r) /\ MineOK(r) /\ MoveOK(r)
    BY <1>1, Facts
  <1>3. CASE req[r].kind = "batch"
    <2>1. PICK c \in Campaign : c = target[r]
      BY <1>1, <1>2, <1>3 DEF RequestTyped
    <2>2. Holds(r, c, "share") /\ camp[c] # None
      BY <1>1, <1>2, <1>3, <2>1 DEF MoveOK, LocksOK, Holds
    <2>3. /\ RowsKept(r) /\ camp' = camp
          /\ at' = [x \in Link |-> IF x \in mine[r] THEN c ELSE at[x]]
          /\ camp' \in [Campaign -> CampaignRow \cup {None}]
          /\ at' \in [Link -> Campaign \cup {None, Absent}]
          /\ NoDanglingMember' /\ SlugUnique' /\ WindowOrdered'
      <3>1. Written(r, c)
        BY <1>1, <1>3, <2>1
      <3> QED
        BY <1>1, <2>2, <3>1, LinksWritten
    <2>4. Board!AddLinks(mine[r], c)
      BY <1>2, <1>3, <2>2, <2>3 DEF Board!AddLinks, Board!Live, MineOK
    <2>5. mine[r] \subseteq Link
      BY <1>2 DEF RowsTyped
    <2> QED
      BY <1>1, <2>1, <2>3, <2>4, <2>5, Ended
  <1>4. CASE req[r].kind # "batch"
    <2>1. req[r].kind = "unassign"
      BY <1>4 DEF CommitLinks
    <2>2. PICK l \in Link : l = Head(req[r].keys)
      BY <1>2, <2>1 DEF RequestTyped, Asked
    <2>3. mine[r] = {l} /\ at[l] \in Campaign
      BY <1>1, <1>2, <2>1, <2>2 DEF MoveOK, RequestTyped
    <2>4. /\ RowsKept(r) /\ camp' = camp
          /\ at' = [x \in Link |-> IF x \in mine[r] THEN None ELSE at[x]]
          /\ camp' \in [Campaign -> CampaignRow \cup {None}]
          /\ at' \in [Link -> Campaign \cup {None, Absent}]
          /\ NoDanglingMember' /\ SlugUnique' /\ WindowOrdered'
      <3>1. Written(r, None)
        BY <1>1, <1>4
      <3> QED
        BY <1>1, <3>1, LinksWritten
    <2>5. Board!Unassign(l)
      BY <1>2, <2>3, <2>4 DEF Board!Unassign, RowsTyped
    <2> QED
      BY <1>1, <2>4, <2>5, Ended
  <1> QED
    BY <1>3, <1>4

------------------------------------------------------------------------------
(* The invariant *)

LEMMA NextInv ==
  ASSUME CampaignsInv, [Next]_vars
  PROVE  CampaignsInv'
  <1>1. ASSUME NEW r \in Request, Advance(r)
        PROVE  CampaignsInv'
    <2>1. CASE Read(r) \/ Find(r) \/ SlugCheck(r) \/ Insert(r)
      BY <2>1, ReadStep, FindStep, SlugCheckStep, InsertStep
    <2>2. CASE LockPatch(r) \/ LockDelete(r) \/ Cascade(r) \/ FreeLink(r)
      BY <2>2, LockPatchStep, LockDeleteStep, CascadeStep, FreeLinkStep
    <2>3. CASE GetLink(r) \/ Update(r) \/ Hold(r) \/ BatchRow(r) \/ Share(r)
      BY <2>3, GetLinkStep, UpdateStep, HoldStep, BatchRowStep, ShareStep
    <2>4. CASE Commit(r)
      BY <2>4, CommitCreateStep, CommitPatchStep, CommitDeleteStep, CommitAssignStep,
         CommitLinksStep DEF Commit
    <2> QED
      BY <1>1, <2>1, <2>2, <2>3, <2>4 DEF Advance
  <1>2. ASSUME NEW r \in Request, Submit(r) \/ Fail(r)
        PROVE  CampaignsInv'
    BY <1>2, SubmitStep, Stopped DEF Fail
  <1>3. CASE UNCHANGED vars
    <2>1. (TypeOK /\ LocksOK)'
      BY <1>3 DEF CampaignsInv, vars, rows, locals, TypeOK, RowsTyped, Busy, RequestTyped, LocksOK
    <2>2. \A r \in Request : RequestOK(r)'
      <3> SUFFICES ASSUME NEW r \in Request PROVE RequestOK(r)'
        OBVIOUS
      <3>1. RequestOK(r)
        BY DEF CampaignsInv
      <3>2. CreateOK(r)' /\ WriteOK(r)'
        BY <1>3, <3>1 DEF vars, rows, locals, RequestOK, CreateOK, WriteOK, Named, Holds
      <3>3. MineOK(r)' /\ MoveOK(r)'
        BY <1>3, <3>1 DEF vars, rows, locals, RequestOK, MineOK, MoveOK, Holds
      <3> QED
        BY <3>2, <3>3 DEF RequestOK
    <2>3. (NoDanglingMember /\ SlugUnique /\ WindowOrdered)'
      BY <1>3 DEF CampaignsInv, vars, rows, NoDanglingMember, SlugUnique, WindowOrdered
    <2> QED
      BY <2>1, <2>2, <2>3 DEF CampaignsInv
  <1> QED
    BY <1>1, <1>2, <1>3 DEF Next

\* The tables are as their constraints want them, locks of two transactions
\* never conflict, and every request may rely on what it has locked and on what
\* it has looked at, however the transactions interleave, whatever deletes and
\* assignments they are and whichever of them fail.
THEOREM CampaignsInvariant == Spec => []CampaignsInv
  <1>1. Init => CampaignsInv
    BY InitInv
  <1>2. CampaignsInv /\ [Next]_vars => CampaignsInv'
    BY NextInv
  <1> QED
    BY <1>1, <1>2, PTL DEF Spec

------------------------------------------------------------------------------
(* The board *)

\* A step that is not a commit writes no row.
LEMMA WritesNothing ==
  ASSUME NEW r \in Request, Submit(r) \/ Fail(r) \/ (Advance(r) /\ ~Commit(r))
  PROVE  UNCHANGED rows
  <1>1. CASE Submit(r) \/ Fail(r)
    BY <1>1 DEF Submit, Create, Patch, Delete, AssignLinks, UnassignLink, BatchCreateLinks, Ask,
                Fail, Stop
  <1>2. CASE Read(r) \/ Find(r) \/ SlugCheck(r) \/ Insert(r)
    BY <1>2 DEF Read, Find, SlugCheck, Insert, Stop
  <1>3. CASE LockPatch(r) \/ LockDelete(r) \/ Cascade(r) \/ FreeLink(r)
    BY <1>3 DEF LockPatch, LockDelete, Cascade, FreeLink, Stop
  <1>4. CASE GetLink(r) \/ Update(r) \/ Hold(r) \/ BatchRow(r) \/ Share(r)
    BY <1>4 DEF GetLink, Update, Hold, BatchRow, Share, Stop
  <1> QED
    BY <1>1, <1>2, <1>3, <1>4 DEF Advance

LEMMA CommitRefines ==
  ASSUME CampaignsInv, NEW r \in Request, Commit(r)
  PROVE  Board!Next
  <1>1. CASE CommitCreate(r)
    <2>1. Board!Create(r) /\ r \in Campaign
      BY <1>1, CommitCreateStep DEF Campaign
    <2> QED
      BY <2>1 DEF Board!Next
  <1>2. CASE CommitPatch(r)
    <2>1. Board!Edit(target[r]) /\ target[r] \in Campaign
      BY <1>2, CommitPatchStep, Facts DEF CommitPatch, Busy, RequestTyped
    <2> QED
      BY <2>1 DEF Board!Next
  <1>3. CASE CommitDelete(r)
    BY <1>3, CommitDeleteStep DEF Board!Next
  <1>4. CASE CommitAssign(r)
    <2>1. target[r] \in Campaign
      BY <1>4, Facts DEF CommitAssign, Busy, RequestTyped
    <2> QED
      BY <1>4, <2>1, CommitAssignStep DEF Board!Next
  <1>5. CASE CommitLinks(r)
    <2>1. CASE \E l \in Link : Board!Unassign(l)
      BY <2>1 DEF Board!Next
    <2>2. CASE /\ Board!AddLinks(mine[r], target[r]) /\ target[r] \in Campaign
               /\ mine[r] \subseteq Link
      <3>1. mine[r] \in SUBSET Link /\ target[r] \in Campaign \cup {None}
        BY <2>2
      <3> QED
        BY <2>2, <3>1 DEF Board!Next
    <2> QED
      BY <1>5, <2>1, <2>2, CommitLinksStep
  <1> QED
    BY <1>1, <1>2, <1>3, <1>4, <1>5 DEF Commit

\* What is committed, transaction by transaction, is a behaviour of the board:
\* campaigns with slugs of their own, links in at most one campaign and only in
\* one that exists, each change atomic.
THEOREM ImplementsBoard == Spec => RefinesBoard
  <1>1. Init => Board!Init
    <2> SUFFICES ASSUME Init PROVE Board!Init
      OBVIOUS
    <2>1. CampaignsInv
      BY InitInv
    <2>2. camp \in [Campaign -> [slug : Slug, detail : Window] \cup {None}]
      <3> SUFFICES ASSUME NEW c \in Campaign, camp[c] # None
                   PROVE  camp[c] \in [slug : Slug, detail : Window]
        BY <2>1 DEF CampaignsInv, TypeOK, RowsTyped
      <3>1. camp[c] \in [slug : Slug, detail : Dates] /\ Ordered(camp[c].detail)
        BY <2>1 DEF CampaignsInv, TypeOK, RowsTyped, CampaignRow, WindowOrdered
      <3> QED
        BY <3>1 DEF Window
    <2>3. \A c, d \in Board!Live : camp[c].slug = camp[d].slug => c = d
      BY <2>1 DEF CampaignsInv, SlugUnique, Board!Live
    <2>4. at \in [Link -> Board!Live \cup {None, Absent}]
      BY <2>1 DEF CampaignsInv, TypeOK, RowsTyped, NoDanglingMember, Board!Live
    <2> QED
      BY <2>2, <2>3, <2>4 DEF Board!Init
  <1>2. CampaignsInv /\ [Next]_vars => [Board!Next]_<<camp, at>>
    <2> SUFFICES ASSUME CampaignsInv, [Next]_vars PROVE Board!Next \/ UNCHANGED <<camp, at>>
      OBVIOUS
    <2>1. CASE UNCHANGED vars
      BY <2>1 DEF vars, rows
    <2>2. ASSUME NEW r \in Request, Submit(r) \/ Advance(r) \/ Fail(r)
          PROVE  Board!Next \/ UNCHANGED <<camp, at>>
      BY <2>2, WritesNothing, CommitRefines DEF rows
    <2> QED
      BY <2>1, <2>2 DEF Next
  <1> QED
    BY <1>1, <1>2, CampaignsInvariant, PTL DEF Spec, RefinesBoard, Board!Spec, Board!vars

------------------------------------------------------------------------------
(* What a request may change *)

\* A step of one request leaves the control of the others where it is.
LEMMA ControlIsOwn ==
  ASSUME CampaignsInv, NEW r \in Request, Submit(r) \/ Advance(r) \/ Fail(r), NEW e \in Request \ {r}
  PROVE  pc'[e] = pc[e]
  <1>1. pc \in [Request -> Label]
    BY DEF CampaignsInv, TypeOK, RowsTyped
  <1>2. (\E label : Goto(r, label)) \/ UNCHANGED pc
    <2>1. CASE Submit(r) \/ Fail(r)
      BY <2>1 DEF Submit, Create, Patch, Delete, AssignLinks, UnassignLink, BatchCreateLinks, Ask,
                  Fail, Stop, End
    <2>2. CASE Read(r) \/ Find(r) \/ SlugCheck(r) \/ Insert(r)
      BY <2>2 DEF Read, Find, SlugCheck, Insert, Stop, End
    <2>3. CASE LockPatch(r) \/ LockDelete(r) \/ Cascade(r) \/ FreeLink(r)
      BY <2>3 DEF LockPatch, LockDelete, Cascade, FreeLink, Stop, End
    <2>4. CASE GetLink(r) \/ Update(r) \/ Hold(r) \/ BatchRow(r) \/ Share(r)
      BY <2>4 DEF GetLink, Update, Hold, BatchRow, Share, Stop, End
    <2>5. CASE Commit(r)
      BY <2>5 DEF Commit, CommitCreate, CommitPatch, CommitDelete, CommitAssign, CommitLinks, End
    <2> QED
      BY <2>1, <2>2, <2>3, <2>4, <2>5 DEF Advance
  <1> QED
    BY <1>1, <1>2 DEF Goto

\* The end of r's transaction leaves alone the columns its PATCH does not name,
\* and frees only a link of the campaign its unassign names.
OnlyAsked(r) ==
    /\ req[r].kind = "patch" /\ camp' # camp =>
          \A f \in Field : req[r].detail[f] = Keep =>
              camp'[target[r]].detail[f] = camp[target[r]].detail[f]
    /\ req[r].kind = "unassign" => \A l \in Link : at'[l] # at[l] => at[l] = target[r]

LEMMA EndsAsAsked ==
  ASSUME CampaignsInv, NEW r \in Request, Submit(r) \/ Advance(r) \/ Fail(r), pc[r] = "commit"
  PROVE  OnlyAsked(r)
  <1>1. Busy(r)
    BY DEF Busy
  <1>2. RowsTyped /\ LocksOK /\ RequestTyped(r) /\ WriteOK(r) /\ MoveOK(r)
    BY <1>1, Facts
  <1>3. CASE ~Commit(r)
    BY <1>3, WritesNothing DEF OnlyAsked, rows
  <1>4. CASE CommitCreate(r) \/ CommitDelete(r) \/ CommitAssign(r)
    BY <1>4 DEF OnlyAsked, CommitCreate, CommitDelete, CommitAssign
  <1>5. CASE CommitPatch(r)
    <2>1. PICK c \in Campaign : c = target[r]
      BY <1>2, <1>5 DEF CommitPatch, RequestTyped
    <2>2. PICK new \in Changes : new = req[r].detail
      BY <1>2 DEF RequestTyped, Asked
    <2>3. camp[c] \in [slug : Slug, detail : Dates]
      BY <1>2, <1>5, <2>1 DEF CommitPatch, WriteOK, LocksOK, Holds, RowsTyped, CampaignRow
    <2>4. camp'[c] = [camp[c] EXCEPT !.detail = Merge(camp[c].detail, new)]
      BY <1>2, <1>5, <2>1, <2>2 DEF CommitPatch, RowsTyped
    <2>5. camp'[c].detail = Merge(camp[c].detail, new)
      BY <2>3, <2>4
    <2>6. \A f \in Field : new[f] = Keep => camp'[c].detail[f] = camp[c].detail[f]
      BY <2>3, <2>5 DEF Field, Merge, Changes, Dates
    <2> QED
      BY <1>5, <2>1, <2>2, <2>6 DEF OnlyAsked, CommitPatch
  <1>6. CASE CommitLinks(r)
    <2> SUFFICES ASSUME req[r].kind = "unassign", NEW l \in Link, at'[l] # at[l]
                 PROVE  at[l] = target[r]
      BY <1>6 DEF OnlyAsked, CommitLinks
    <2>1. l \in mine[r]
      BY <1>6 DEF CommitLinks, Written
    <2> QED
      BY <1>2, <2>1 DEF MoveOK
  <1> QED
    BY <1>3, <1>4, <1>5, <1>6 DEF Commit

\* Whatever was committed between a request's looking and its UPDATE, it changes
\* only what it asked to change.
THEOREM ChangesAreAsked == Spec => ChangesOnlyAsked
  <1> DEFINE EndsAsked == \A r \in Request : pc[r] = "commit" /\ pc'[r] = "done" => OnlyAsked(r)
  <1>1. CampaignsInv /\ [Next]_vars => [EndsAsked]_vars
    <2> SUFFICES ASSUME CampaignsInv, Next, NEW r \in Request, pc[r] = "commit", pc'[r] = "done"
                 PROVE  OnlyAsked(r)
      OBVIOUS
    <2>1. PICK e \in Request : Submit(e) \/ Advance(e) \/ Fail(e)
      BY DEF Next
    <2>2. e = r
      BY <2>1, ControlIsOwn
    <2> QED
      BY <2>1, <2>2, EndsAsAsked
  <1>2. Spec => [][EndsAsked]_vars
    BY <1>1, CampaignsInvariant, PTL DEF Spec
  <1> QED
    BY <1>2 DEF ChangesOnlyAsked, OnlyAsked

------------------------------------------------------------------------------
(* Waiting *)

\* Of finite sets one has the fewest elements.
LEMMA Fewest ==
  ASSUME NEW C, C # {}, \A T \in C : IsFiniteSet(T)
  PROVE  \E T \in C : \A U \in C : ~(Cardinality(U) < Cardinality(T))
  <1> DEFINE Sizes == {Cardinality(T) : T \in C}
  <1>1. \A T \in C : Cardinality(T) \in Nat
    BY FS_CardinalityType
  <1>2. Sizes \subseteq Nat /\ Sizes # {}
    BY <1>1
  <1>3. PICK n \in Sizes : \A m \in Sizes : ~(<<m, n>> \in OpToRel(<, Nat))
    <2> HIDE DEF Sizes
    <2> QED
      BY <1>2, NatLessThanWellFounded, WFMin, Zenon
  <1>4. \A m \in Sizes : ~(m < n)
    BY <1>2, <1>3 DEF OpToRel
  <1> QED
    BY <1>4

\* Where each of finitely many waits for another of them, some wait in a circle.
LEMMA CircleOfWaits ==
  ASSUME NEW S, IsFiniteSet(S), S # {}, NEW W, \A e \in S : \E f \in S : <<e, f>> \in W
  PROVE  \E T \in SUBSET S :
            T # {} /\ \A e \in T : (\E f \in T : <<e, f>> \in W) /\ (\E f \in T : <<f, e>> \in W)
  <1> DEFINE Closed == {T \in SUBSET S : T # {} /\ \A e \in T : \E f \in T : <<e, f>> \in W}
  <1>1. \A T \in Closed : IsFiniteSet(T)
    BY FS_Subset
  <1>2. S \in Closed
    OBVIOUS
  <1>3. PICK T \in Closed : \A U \in Closed : ~(Cardinality(U) < Cardinality(T))
    <2> HIDE DEF Closed
    <2> QED
      BY <1>1, <1>2, Fewest
  <1>4. ASSUME NEW e \in T, \A f \in T : <<f, e>> \notin W
        PROVE  FALSE
    <2>1. PICK f \in T : <<e, f>> \in W
      OBVIOUS
    <2>2. f # e
      BY <1>4, <2>1
    <2>3. \A g \in T \ {e} : \E h \in T \ {e} : <<g, h>> \in W
      BY <1>4
    <2>4. T \ {e} \in Closed
      BY <2>1, <2>2, <2>3
    <2>5. IsFiniteSet(T)
      BY <1>1
    <2>6. Cardinality(T) \in Nat /\ Cardinality(T \ {e}) = Cardinality(T) - 1
      BY <2>5, FS_CardinalityType, FS_RemoveElement
    <2> HIDE DEF Closed
    <2>7. ~(Cardinality(T \ {e}) < Cardinality(T))
      BY <1>3, <2>4
    <2> QED
      BY <2>6, <2>7
  <1> QED
    BY <1>4

\* Of all requests finitely many are under way: a step makes one more at most.
UnderWay == {r \in Request : Busy(r)}

LEMMA FewUnderWay == Spec => []IsFiniteSet(UnderWay)
  <1>1. Init => IsFiniteSet(UnderWay)
    <2> SUFFICES ASSUME Init PROVE UnderWay = {}
      BY FS_EmptySet
    <2> QED
      BY DEF Init, UnderWay, Busy
  <1>2. CampaignsInv /\ IsFiniteSet(UnderWay) /\ [Next]_vars => IsFiniteSet(UnderWay)'
    <2> SUFFICES ASSUME CampaignsInv, IsFiniteSet(UnderWay), [Next]_vars PROVE IsFiniteSet(UnderWay')
      OBVIOUS
    <2>1. CASE UNCHANGED vars
      BY <2>1 DEF vars, UnderWay, Busy
    <2>2. CASE Next
      <3>1. PICK r \in Request : Submit(r) \/ Advance(r) \/ Fail(r)
        BY <2>2 DEF Next
      <3>2. \A e \in Request \ {r} : pc'[e] = pc[e]
        BY <3>1, ControlIsOwn
      <3>3. UnderWay' \in SUBSET (UnderWay \cup {r})
        BY <3>2 DEF UnderWay, Busy
      <3> QED
        BY <3>3, FS_AddElement, FS_Subset
    <2> QED
      BY <2>1, <2>2
  <1> QED
    BY <1>1, <1>2, CampaignsInvariant, PTL DEF Spec

\* Who keeps another from a row is under way: a request that is over holds none.
LEMMA BlockersAreBusy ==
  ASSUME CampaignsInv, NEW r, NEW row, NEW mode, NEW e \in Blockers(r, row, mode)
  PROVE  e \in UnderWay
  <1>1. PICK lk \in locks : lk.tx = e
    BY DEF Blockers
  <1> QED
    BY <1>1 DEF CampaignsInv, TypeOK, RowsTyped, LocksOK, UnderWay

\* A request under way that is not ready waits for another one.
LEMMA WaitsForBusy ==
  ASSUME CampaignsInv, NEW r \in UnderWay, ~Ready(r), ~MustFail(r)
  PROVE  \E e \in UnderWay : WaitsFor(r, e)
  <1>1. r \in Request /\ Busy(r)
    BY DEF UnderWay
  <1>2. RequestTyped(r)
    BY <1>1, Facts
  <1>3. CASE pc[r] = "insert"
    <2>1. PICK e : e \in SlugBlockers(r)
      BY <1>3 DEF Ready
    <2>2. e \in UnderWay
      <3>1. CASE e \in Request /\ pc[e] = "commit"
        BY <3>1 DEF UnderWay, Busy
      <3>2. CASE \E c \in Named(req[r].slug) : e \in Blockers(r, c, "nokey")
        BY <3>2, BlockersAreBusy
      <3> QED
        BY <2>1, <3>1, <3>2 DEF SlugBlockers
    <2> QED
      BY <1>3, <2>1, <2>2 DEF WaitsFor
  <1>4. CASE pc[r] = "lock"
    <2>1. req[r].kind \in {"patch", "delete"}
      BY <1>2, <1>4 DEF RequestTyped, Asked, Kind, Stages
    <2>2. CASE req[r].kind = "patch"
      <3>1. PICK e : e \in Blockers(r, target[r], "nokey")
        BY <1>4, <2>2 DEF Ready, Free
      <3> QED
        BY <1>4, <2>2, <3>1, BlockersAreBusy DEF WaitsFor
    <2>3. CASE req[r].kind = "delete"
      <3>1. PICK e : e \in Blockers(r, target[r], "update")
        BY <1>4, <2>3 DEF Ready, Free
      <3> QED
        BY <1>4, <2>3, <3>1, BlockersAreBusy DEF WaitsFor
    <2> QED
      BY <2>1, <2>2, <2>3
  <1>5. CASE pc[r] = "free"
    <2>1. PICK l \in todo[r] : ~Free(r, l, "nokey")
      BY <1>5 DEF Ready
    <2>2. PICK e : e \in Blockers(r, l, "nokey")
      BY <2>1 DEF Free
    <2> QED
      BY <1>5, <2>1, <2>2, BlockersAreBusy DEF WaitsFor
  <1>6. CASE pc[r] = "hold"
    <2>1. PICK e : e \in Blockers(r, Head(req[r].keys), "nokey")
      BY <1>6 DEF Ready, Free
    <2> QED
      BY <1>6, <2>1, BlockersAreBusy DEF WaitsFor
  <1>7. CASE pc[r] = "share"
    <2>1. PICK e : e \in Blockers(r, target[r], "share")
      BY <1>7 DEF Ready, Free
    <2> QED
      BY <1>7, <2>1, BlockersAreBusy DEF WaitsFor
  <1>8. pc[r] # "row"
    BY DEF Ready, MustFail
  <1>9. pc[r] \in Label \ {"idle", "done"}
    BY <1>1 DEF CampaignsInv, TypeOK, RowsTyped, Busy
  <1> QED
    BY <1>3, <1>4, <1>5, <1>6, <1>7, <1>8, <1>9 DEF Ready, Label

\* However many requests there are, while any is under way one is ready or is
\* failed by PostgreSQL: if none could go on, each would wait for another one
\* under way, and since those are finitely many, some would wait in a circle.
THEOREM SomeoneIsReady == Spec => []SomeoneReady
  <1>1. CampaignsInv /\ IsFiniteSet(UnderWay) => SomeoneReady
    <2> SUFFICES ASSUME CampaignsInv, IsFiniteSet(UnderWay), UnderWay # {},
                        \A r \in Request : ~Ready(r) /\ ~MustFail(r)
                 PROVE  FALSE
      BY DEF SomeoneReady, UnderWay
    <2> DEFINE W == {p \in UnderWay \X UnderWay : WaitsFor(p[1], p[2])}
    <2>1. \A e \in UnderWay : \E f \in UnderWay : <<e, f>> \in W
      <3> SUFFICES ASSUME NEW e \in UnderWay PROVE \E f \in UnderWay : <<e, f>> \in W
        OBVIOUS
      <3>1. ~Ready(e) /\ ~MustFail(e)
        BY DEF UnderWay
      <3>2. PICK f \in UnderWay : WaitsFor(e, f)
        BY <3>1, WaitsForBusy
      <3> QED
        BY <3>2
    <2>2. PICK S \in SUBSET UnderWay :
             /\ S # {}
             /\ \A e \in S : (\E f \in S : <<e, f>> \in W) /\ (\E f \in S : <<f, e>> \in W)
      <3> HIDE DEF W
      <3> QED
        BY <2>1, CircleOfWaits
    <2>3. \A e \in S : (\E f \in S : WaitsFor(e, f)) /\ (\E f \in S : WaitsFor(f, e))
      BY <2>2
    <2>4. PICK r \in S : TRUE
      BY <2>2
    <2>5. r \in Request /\ S \in SUBSET Request
      BY DEF UnderWay
    <2>6. InCircle(r)
      BY <2>3, <2>5 DEF InCircle
    <2> QED
      BY <2>5, <2>6 DEF MustFail
  <1> QED
    BY <1>1, CampaignsInvariant, FewUnderWay, PTL

------------------------------------------------------------------------------
(***************************************************************************)
(* DevStore, the other store behind the campaign endpoints, for any number *)
(* of handlers, keys, links and calls: StoreOK is inductive, so StoreInv   *)
(* holds; a batch is whole; every step is one of the board, a stutter, or  *)
(* a handler's that acts on what has changed since it looked.              *)
(* Its constants and variables are declared here beside those of Campaigns *)
(* (Handler and stage are its Request and pc; MaxSlug, None and Absent     *)
(* serve both), and what it assumes of them is an assumption of each       *)
(* theorem.                                                                *)
(***************************************************************************)
CONSTANTS Handler, Key, Dest, Pattern, MaxLink, MaxCalls, BatchSize, wiki, gh, W, G

VARIABLES links, campaigns, rules, nextLink, nextCampaign, nextRule, stage, job, calls

Dev == INSTANCE DevStore WITH Request <- Handler, pc <- stage

LEMMA RemoveAtIs ==
  ASSUME NEW S, NEW s \in Seq(S), NEW i \in 1 .. Len(s)
  PROVE  /\ Dev!RemoveAt(s, i) \in Seq(S) /\ Len(Dev!RemoveAt(s, i)) = Len(s) - 1
         /\ \A j \in 1 .. Len(s) - 1 : Dev!RemoveAt(s, i)[j] = IF j < i THEN s[j] ELSE s[j + 1]
  <1>1. Len(s) \in Nat /\ \A j \in 1 .. Len(s) : s[j] \in S
    BY ElementOfSeq, LenProperties
  <1>2. PICK n \in Nat : n = Len(s)
    BY <1>1
  <1> DEFINE a == SubSeq(s, 1, i - 1)
             b == SubSeq(s, i + 1, Len(s))
  <1>3. a \in Seq(S) /\ Len(a) = i - 1 /\ \A j \in 1 .. i - 1 : a[j] = s[j]
    <2>1. 1 \in Int /\ i - 1 \in Int /\ \A j \in 1 .. i - 1 : s[j] \in S
      BY <1>1, <1>2
    <2>2. /\ SubSeq(s, 1, i - 1) \in Seq(S)
          /\ Len(SubSeq(s, 1, i - 1)) = IF 1 <= i - 1 THEN (i - 1) - 1 + 1 ELSE 0
          /\ \A j \in 1 .. (i - 1) - 1 + 1 : SubSeq(s, 1, i - 1)[j] = s[1 + j - 1]
      BY <2>1, SubSeqProperties
    <2>3. \A j \in 1 .. i - 1 : j \in 1 .. (i - 1) - 1 + 1 /\ 1 + j - 1 = j
      OBVIOUS
    <2> QED
      BY <2>2, <2>3
  <1>4. b \in Seq(S) /\ Len(b) = n - i /\ \A j \in 1 .. n - i : b[j] = s[i + j]
    <2>1. i + 1 \in Int /\ n \in Int /\ \A j \in i + 1 .. n : s[j] \in S
      BY <1>1, <1>2
    <2>2. /\ SubSeq(s, i + 1, n) \in Seq(S)
          /\ Len(SubSeq(s, i + 1, n)) = IF i + 1 <= n THEN n - (i + 1) + 1 ELSE 0
          /\ \A j \in 1 .. n - (i + 1) + 1 : SubSeq(s, i + 1, n)[j] = s[(i + 1) + j - 1]
      BY <2>1, SubSeqProperties
    <2>3. \A j \in 1 .. n - i : j \in 1 .. n - (i + 1) + 1 /\ (i + 1) + j - 1 = i + j
      BY <1>2
    <2>4. n - i = IF i + 1 <= n THEN n - (i + 1) + 1 ELSE 0
      BY <1>2
    <2> QED
      BY <1>2, <2>2, <2>3, <2>4
  <1> HIDE DEF a, b
  <1>5. /\ a \o b \in Seq(S) /\ Len(a \o b) = Len(a) + Len(b)
        /\ \A j \in 1 .. Len(a) + Len(b) :
              (a \o b)[j] = IF j <= Len(a) THEN a[j] ELSE b[j - Len(a)]
    BY <1>3, <1>4, ConcatProperties
  <1>6. Dev!RemoveAt(s, i) = a \o b
    BY DEF Dev!RemoveAt, a, b
  <1>7. PICK c : c = a \o b
    OBVIOUS
  <1>8. Len(a) + Len(b) = n - 1
    BY <1>2, <1>3, <1>4
  <1>9. ASSUME NEW j \in 1 .. n - 1 PROVE c[j] = IF j < i THEN s[j] ELSE s[j + 1]
    <2>1. c[j] = IF j <= i - 1 THEN a[j] ELSE b[j - (i - 1)]
      BY <1>3, <1>5, <1>7, <1>8
    <2>2. CASE j < i
      <3>1. j \in 1 .. i - 1
        BY <2>2
      <3> QED
        BY <1>3, <2>1, <2>2, <3>1
    <2>3. CASE ~(j < i)
      <3>1. j - (i - 1) \in 1 .. n - i /\ i + (j - (i - 1)) = j + 1
        BY <1>2, <2>3
      <3>2. b[j - (i - 1)] = s[j + 1]
        BY <1>4, <3>1
      <3> QED
        BY <2>1, <2>3, <3>2
    <2> QED
      BY <2>2, <2>3
  <1> QED
    BY <1>2, <1>5, <1>6, <1>7, <1>8, <1>9

\* The inductive invariant: StoreInv without the loops over what came before, and
\* what the handlers hold.  A link keeps its campaign's id after the campaign is
\* gone, so Made, not membership of the slice, is what stays true of it; it is
\* why no later campaign can take the link over.
DevLink == [id : 1 .. MaxLink, key : Key, dest : Dest, active : BOOLEAN, denied : BOOLEAN,
            camp : (1 .. MaxCalls) \cup {None}]
DevCampaign == [id : 1 .. MaxCalls, slug : Dev!Slug, detail : Dev!Dates]
DevRule == [id : Nat, bans : Pattern, active : BOOLEAN]
DevPatch == [slug : Dev!Slug, seen : Dev!Dates, change : Dev!Changes]
DevJob == [dest : Dest \cup {None}, key : Key \cup {None}, id : (1 .. MaxCalls) \cup {None},
           patch : DevPatch \cup {None}]

\* A PATCH whose handler found the window it would make in order.
Judged(p) == p \in DevPatch /\ Dev!Ordered(Dev!Merge(p.seen, p.change))

\* An id of a campaign that was made, or None.
Made(c) == c = None \/ c < nextCampaign

LinkOK(l, n) ==
    /\ l \in DevLink /\ l.id = n
    /\ ~(l.denied /\ l.active)
    /\ Made(l.camp)

LinksOK ==
    /\ links \in Seq(DevLink) /\ nextLink = Len(links) + 1
    /\ \A j \in 1 .. Len(links) : LinkOK(links[j], j)
    /\ \A i, j \in 1 .. Len(links) : links[i].key = links[j].key => i = j

CampaignsOK ==
    /\ calls \in 0 .. MaxCalls /\ nextCampaign \in 1 .. calls + 1
    /\ campaigns \in Seq(DevCampaign)
    /\ \A i \in 1 .. Len(campaigns) : campaigns[i].id < nextCampaign
    /\ \A i, j \in 1 .. Len(campaigns) : i < j => campaigns[i].id < campaigns[j].id

RulesOK ==
    /\ rules \in Seq(DevRule) /\ nextRule \in Nat
    /\ \A i \in 1 .. Len(rules) : rules[i].id < nextRule
    /\ \A i, j \in 1 .. Len(rules) : i < j => rules[i].id < rules[j].id

\* What a handler goes on with.
HandlerOK(r) ==
    /\ stage[r] \in Dev!Label /\ job[r] \in DevJob /\ Made(job[r].id)
    /\ stage[r] \notin {"idle", "assign", "unassign", "patch"} => job[r].dest \in Dest
    /\ stage[r] = "custom" => job[r].key \in Key
    /\ stage[r] = "patch" => Judged(job[r].patch)

HandlersOK ==
    /\ DOMAIN stage = Handler /\ DOMAIN job = Handler
    /\ stage = [r \in Handler |-> stage[r]] /\ job = [r \in Handler |-> job[r]]
    /\ \A r \in Handler : HandlerOK(r)

StoreOK == LinksOK /\ CampaignsOK /\ RulesOK /\ HandlersOK

LEMMA StoreIsInv == StoreOK => Dev!StoreInv
  <1> SUFFICES ASSUME StoreOK PROVE Dev!StoreInv
    OBVIOUS
  <1>1. /\ links \in Seq(DevLink) /\ DOMAIN links = 1 .. Len(links) /\ Len(links) \in Nat
        /\ campaigns \in Seq(DevCampaign) /\ DOMAIN campaigns = 1 .. Len(campaigns)
        /\ Len(campaigns) \in Nat
        /\ rules \in Seq(DevRule) /\ DOMAIN rules = 1 .. Len(rules) /\ Len(rules) \in Nat
    BY LenProperties DEF StoreOK, LinksOK, CampaignsOK, RulesOK
  <1>2. /\ \A i \in DOMAIN campaigns : campaigns[i] \in DevCampaign
        /\ \A i \in DOMAIN rules : rules[i] \in DevRule
    BY <1>1, ElementOfSeq
  <1>3. \A j \in DOMAIN links : links[j] \in DevLink /\ links[j].id = j
    BY <1>1 DEF StoreOK, LinksOK, LinkOK
  <1>4. \A i \in DOMAIN campaigns :
          /\ campaigns[i].id < nextCampaign
          /\ campaigns[i].slug \in Dev!Slug /\ campaigns[i].detail \in Dev!Dates
          /\ \A j \in 1 .. i - 1 : campaigns[j].id < campaigns[i].id
    <2> SUFFICES ASSUME NEW i \in DOMAIN campaigns
                 PROVE  /\ campaigns[i].id < nextCampaign
                        /\ campaigns[i].slug \in Dev!Slug /\ campaigns[i].detail \in Dev!Dates
                        /\ \A j \in 1 .. i - 1 : campaigns[j].id < campaigns[i].id
      OBVIOUS
    <2>1. \A j \in 1 .. i - 1 : j \in 1 .. Len(campaigns) /\ j < i
      BY <1>1
    <2> QED
      BY <1>1, <1>2, <2>1 DEF StoreOK, CampaignsOK, DevCampaign
  <1>5. \A i \in DOMAIN rules :
          /\ rules[i].id < nextRule /\ rules[i].bans \in Pattern
          /\ \A j \in 1 .. i - 1 : rules[j].id < rules[i].id
    <2> SUFFICES ASSUME NEW i \in DOMAIN rules
                 PROVE  /\ rules[i].id < nextRule /\ rules[i].bans \in Pattern
                        /\ \A j \in 1 .. i - 1 : rules[j].id < rules[i].id
      OBVIOUS
    <2>1. \A j \in 1 .. i - 1 : j \in 1 .. Len(rules) /\ j < i
      BY <1>1
    <2> QED
      BY <1>1, <1>2, <2>1 DEF StoreOK, RulesOK, DevRule
  <1>6. stage \in [Handler -> Dev!Label] /\ \A r \in Handler : DOMAIN job[r] = DOMAIN Dev!NoJob
    BY DEF StoreOK, HandlersOK, HandlerOK, DevJob, Dev!NoJob
  <1>7. Dev!TypeOK
    BY <1>3, <1>4, <1>5, <1>6 DEF Dev!TypeOK, StoreOK, LinksOK, DevLink
  <1>8. Dev!KeyUnique /\ Dev!DeniedNeverActive
    BY <1>1 DEF Dev!KeyUnique, Dev!DeniedNeverActive, StoreOK, LinksOK, LinkOK
  <1> QED
    BY <1>7, <1>8 DEF Dev!StoreInv

LEMMA StoreInit == Dev!DevStoreAssumption /\ Dev!Init => StoreOK
  <1> SUFFICES ASSUME Dev!DevStoreAssumption, Dev!Init PROVE StoreOK
    OBVIOUS
  <1> USE DEF Dev!Init, Dev!DevStoreAssumption
  <1>1. LinksOK
    <2>1. Dev!Sample(1, wiki, W) \in DevLink /\ Dev!Sample(2, gh, G) \in DevLink
      BY DEF Dev!Sample, DevLink
    <2>2. links \in Seq(DevLink) /\ Len(links) = 2 /\ links[1] = Dev!Sample(1, wiki, W)
          /\ links[2] = Dev!Sample(2, gh, G)
      BY <2>1
    <2>3. \A j \in 1 .. 2 : j = 1 \/ j = 2
      OBVIOUS
    <2>4. LinkOK(links[1], 1) /\ LinkOK(links[2], 2)
      BY <2>1, <2>2 DEF LinkOK, Dev!Sample, Made
    <2>5. links[1].key = wiki /\ links[2].key = gh
      BY <2>2 DEF Dev!Sample
    <2> QED
      BY <2>2, <2>3, <2>4, <2>5 DEF LinksOK
  <1>2. CampaignsOK /\ RulesOK
    BY DEF CampaignsOK, RulesOK
  <1>3. HandlersOK
    BY DEF HandlersOK, HandlerOK, Dev!Label, DevJob, Dev!NoJob, Made
  <1> QED
    BY <1>1, <1>2, <1>3 DEF StoreOK

LEMMA SeqOf ==
  ASSUME NEW S, NEW n \in Nat, NEW f \in [1 .. n -> S]
  PROVE  f \in Seq(S) /\ Len(f) = n
  <1>1. f \in Seq(S)
    BY SeqDef
  <1>2. DOMAIN f = 1 .. Len(f) /\ Len(f) \in Nat
    BY <1>1, LenProperties
  <1> QED
    BY <1>1, <1>2

LEMMA StoreFacts ==
  ASSUME StoreOK
  PROVE  /\ Len(links) \in Nat /\ DOMAIN links = 1 .. Len(links)
         /\ links = [j \in 1 .. Len(links) |-> links[j]]
         /\ Len(campaigns) \in Nat /\ DOMAIN campaigns = 1 .. Len(campaigns)
         /\ campaigns = [i \in 1 .. Len(campaigns) |-> campaigns[i]]
         /\ \A i \in 1 .. Len(campaigns) : campaigns[i] \in DevCampaign
         /\ Len(rules) \in Nat /\ DOMAIN rules = 1 .. Len(rules)
         /\ rules = [i \in 1 .. Len(rules) |-> rules[i]]
         /\ \A i \in 1 .. Len(rules) : rules[i] \in DevRule
         /\ nextCampaign \in Nat /\ calls \in Nat
  <1>1. links \in Seq(DevLink) /\ campaigns \in Seq(DevCampaign) /\ rules \in Seq(DevRule)
    BY DEF StoreOK, LinksOK, CampaignsOK, RulesOK
  <1>2. links \in [1 .. Len(links) -> DevLink] /\ Len(links) \in Nat
    BY <1>1, LenProperties
  <1>3. campaigns \in [1 .. Len(campaigns) -> DevCampaign] /\ Len(campaigns) \in Nat
    BY <1>1, LenProperties
  <1>4. rules \in [1 .. Len(rules) -> DevRule] /\ Len(rules) \in Nat
    BY <1>1, LenProperties
  <1>5. nextCampaign \in Nat /\ calls \in Nat
    BY DEF StoreOK, CampaignsOK
  <1> QED
    BY <1>2, <1>3, <1>4, <1>5

LEMMA LinksStay ==
  ASSUME StoreOK, UNCHANGED <<links, nextLink>>, nextCampaign' \in {nextCampaign, nextCampaign + 1}
  PROVE  LinksOK'
  <1>1. \A c \in 1 .. MaxCalls : c < nextCampaign => c < nextCampaign'
    BY StoreFacts
  <1>2. \A j \in 1 .. Len(links) : LinkOK(links[j], j)'
    BY <1>1 DEF StoreOK, LinksOK, LinkOK, DevLink, Made
  <1> QED
    BY <1>2 DEF StoreOK, LinksOK

LEMMA HandlersStay ==
  ASSUME StoreOK, UNCHANGED <<stage, job>>, nextCampaign' \in {nextCampaign, nextCampaign + 1}
  PROVE  HandlersOK'
  <1>1. \A c \in 1 .. MaxCalls : c < nextCampaign => c < nextCampaign'
    BY StoreFacts
  <1>2. ASSUME NEW r \in Handler PROVE HandlerOK(r)'
    BY <1>1 DEF StoreOK, HandlersOK, HandlerOK, DevJob, Made
  <1> QED
    BY <1>2 DEF StoreOK, HandlersOK

LEMMA CampaignsStay ==
  ASSUME Dev!DevStoreAssumption, StoreOK, UNCHANGED <<campaigns, nextCampaign>>,
         calls' = calls \/ Dev!Call
  PROVE  CampaignsOK'
  <1>1. calls' \in 0 .. MaxCalls /\ nextCampaign' \in 1 .. calls' + 1
    BY DEF Dev!DevStoreAssumption, Dev!Call, StoreOK, CampaignsOK
  <1> QED
    BY <1>1 DEF StoreOK, CampaignsOK

LEMMA RulesStay == ASSUME StoreOK, UNCHANGED <<rules, nextRule>> PROVE RulesOK'
  BY DEF StoreOK, RulesOK

\* One link is rewritten, under the same key.
LEMMA LinkPut ==
  ASSUME StoreOK, NEW i \in DOMAIN links, NEW l, LinkOK(l, i), l.key = links[i].key,
         links' = [links EXCEPT ![i] = l], UNCHANGED <<nextLink, nextCampaign>>
  PROVE  LinksOK'
  <1>1. PICK n \in Nat : n = Len(links) /\ DOMAIN links = 1 .. n
    BY StoreFacts
  <1>2. \A j \in 1 .. n : LinkOK(links'[j], j) /\ links'[j].key = links[j].key
    BY <1>1, StoreFacts DEF StoreOK, LinksOK
  <1>3. links' \in Seq(DevLink) /\ Len(links') = n
    <2>1. links' = [j \in 1 .. n |-> links'[j]]
      BY <1>1, StoreFacts
    <2>2. \A j \in 1 .. n : links'[j] \in DevLink
      BY <1>2 DEF LinkOK
    <2>3. links' \in [1 .. n -> DevLink]
      BY <2>1, <2>2
    <2> QED
      BY <1>1, <2>3, SeqOf
  <1>4. \A j \in 1 .. n : LinkOK(links[j], j)'
    BY <1>2 DEF LinkOK, Made
  <1> QED
    BY <1>1, <1>2, <1>3, <1>4 DEF StoreOK, LinksOK

LEMMA HandlerMoves ==
  ASSUME StoreOK, nextCampaign' = nextCampaign, NEW r \in Handler, NEW l \in Dev!Label,
         NEW w \in DevJob, Made(w.id),
         l \notin {"idle", "assign", "unassign", "patch"} => w.dest \in Dest,
         l = "custom" => w.key \in Key, l = "patch" => Judged(w.patch),
         Dev!Goto(r, l), job' = [job EXCEPT ![r] = w]
  PROVE  HandlersOK'
  <1>1. stage'[r] = l /\ job'[r] = w
    BY DEF Dev!Goto, StoreOK, HandlersOK
  <1>2. \A e \in Handler : e # r => stage'[e] = stage[e] /\ job'[e] = job[e]
    BY DEF Dev!Goto, StoreOK, HandlersOK
  <1>3. ASSUME NEW e \in Handler PROVE HandlerOK(e)'
    <2>1. CASE e = r
      BY <1>1, <2>1 DEF HandlerOK, Made
    <2>2. CASE e # r
      BY <1>2, <2>2 DEF StoreOK, HandlersOK, HandlerOK, Made
    <2> QED
      BY <2>1, <2>2
  <1>4. /\ DOMAIN stage' = Handler /\ DOMAIN job' = Handler
        /\ stage' = [e \in Handler |-> stage'[e]] /\ job' = [e \in Handler |-> job'[e]]
    BY DEF Dev!Goto, StoreOK, HandlersOK
  <1> QED
    BY <1>3, <1>4 DEF HandlersOK

LEMMA HandlerAnswers ==
  ASSUME Dev!DevStoreAssumption, StoreOK, nextCampaign' = nextCampaign, NEW r \in Handler,
         Dev!Answer(r)
  PROVE  HandlersOK'
  <1>1. Dev!NoJob \in DevJob /\ Made(Dev!NoJob.id) /\ "idle" \in Dev!Label
    BY DEF Dev!NoJob, DevJob, Made, Dev!Label
  <1>2. Dev!Goto(r, "idle") /\ job' = [job EXCEPT ![r] = Dev!NoJob]
    BY DEF Dev!Answer
  <1> HIDE DEF Dev!NoJob
  <1> QED
    BY <1>1, <1>2, HandlerMoves

LEMMA CreateCampaignStep ==
  ASSUME Dev!DevStoreAssumption, StoreOK, Dev!CreateCampaign
  PROVE  StoreOK'
  <1>1. PICK n \in Nat : n = Len(campaigns)
    BY StoreFacts
  <1>2. PICK s \in Dev!Slug, w \in Dev!Window :
          campaigns' = Append(campaigns, [id |-> nextCampaign, slug |-> s, detail |-> w])
    BY DEF Dev!CreateCampaign, Dev!Fresh
  <1>3. /\ Dev!Call /\ nextCampaign' = nextCampaign + 1
        /\ UNCHANGED <<links, nextLink, rules, nextRule, stage, job>>
    BY DEF Dev!CreateCampaign, Dev!linkVars, Dev!ruleVars
  <1>4. PICK new \in DevCampaign :
          new = [id |-> nextCampaign, slug |-> s, detail |-> w] /\ new.id = nextCampaign
    <2>1. nextCampaign \in 1 .. MaxCalls
      BY <1>3 DEF Dev!DevStoreAssumption, Dev!Call, StoreOK, CampaignsOK
    <2>2. [id |-> nextCampaign, slug |-> s, detail |-> w] \in DevCampaign
      BY <2>1 DEF DevCampaign, Dev!Window
    <2> QED
      BY <2>2
  <1>5. /\ campaigns' \in Seq(DevCampaign) /\ Len(campaigns') = n + 1
        /\ \A i \in 1 .. n : campaigns'[i] = campaigns[i]
        /\ campaigns'[n + 1] = new
    BY <1>1, <1>2, <1>4, StoreFacts, AppendProperties DEF StoreOK, CampaignsOK
  <1>6. /\ \A i \in 1 .. n : campaigns[i].id \in Nat /\ campaigns[i].id < nextCampaign
        /\ \A i, j \in 1 .. n : i < j => campaigns[i].id < campaigns[j].id
    <2>1. \A i \in 1 .. n : campaigns[i] \in DevCampaign
      BY <1>1, StoreFacts
    <2>2. \A i \in 1 .. n : campaigns[i].id \in Nat
      BY <2>1 DEF DevCampaign, Dev!Window
    <2>3. CampaignsOK
      BY DEF StoreOK
    <2> QED
      BY <1>1, <2>2, <2>3 DEF CampaignsOK
  <1>7. \A i \in 1 .. n + 1 : i \in 1 .. n \/ i = n + 1
    BY <1>5
  <1>8. \A i \in 1 .. n + 1 : campaigns'[i].id < nextCampaign'
    <2> SUFFICES ASSUME NEW i \in 1 .. n + 1 PROVE campaigns'[i].id < nextCampaign + 1
      BY <1>3
    <2>1. nextCampaign \in Nat
      BY StoreFacts
    <2>2. CASE i \in 1 .. n
      BY <1>5, <1>6, <2>1, <2>2
    <2>3. CASE i = n + 1
      BY <1>4, <1>5, <2>1, <2>3
    <2> QED
      BY <1>7, <2>2, <2>3
  <1>9. \A i, j \in 1 .. n + 1 : i < j => campaigns'[i].id < campaigns'[j].id
    <2> SUFFICES ASSUME NEW i \in 1 .. n + 1, NEW j \in 1 .. n + 1, i < j
                 PROVE  campaigns'[i].id < campaigns'[j].id
      OBVIOUS
    <2>1. i \in 1 .. n
      BY <1>5
    <2> QED
      BY <1>4, <1>5, <1>6, <1>7, <2>1
  <1>10. calls' \in 0 .. MaxCalls /\ nextCampaign' \in 1 .. calls' + 1
    BY <1>3 DEF Dev!DevStoreAssumption, Dev!Call, StoreOK, CampaignsOK
  <1>11. CampaignsOK'
    BY <1>5, <1>8, <1>9, <1>10 DEF CampaignsOK
  <1> QED
    BY <1>3, <1>11, LinksStay, HandlersStay, RulesStay DEF StoreOK

\* One campaign's dates are rewritten.
LEMMA CampaignPut ==
  ASSUME Dev!DevStoreAssumption, StoreOK, NEW i \in DOMAIN campaigns, NEW w \in Dev!Dates,
         campaigns' = [campaigns EXCEPT ![i].detail = w], UNCHANGED <<nextCampaign, calls>>
  PROVE  CampaignsOK'
  <1>1. PICK n \in Nat : n = Len(campaigns) /\ DOMAIN campaigns = 1 .. n
    BY StoreFacts
  <1>2. \A j \in 1 .. n : campaigns'[j] \in DevCampaign /\ campaigns'[j].id = campaigns[j].id
    BY <1>1, StoreFacts DEF DevCampaign
  <1>3. campaigns' \in Seq(DevCampaign) /\ Len(campaigns') = n
    <2>1. campaigns' = [j \in 1 .. n |-> campaigns'[j]]
      BY <1>1, StoreFacts
    <2>2. campaigns' \in [1 .. n -> DevCampaign]
      BY <1>2, <2>1
    <2>3. n \in Nat
      BY <1>1
    <2> QED
      BY ONLY <2>2, <2>3, SeqOf
  <1> QED
    BY <1>1, <1>2, <1>3 DEF StoreOK, CampaignsOK

LEMMA MergeIsDates ==
  ASSUME NEW old \in Dev!Dates, NEW new \in Dev!Changes
  PROVE  Dev!Merge(old, new) \in Dev!Dates
  BY DEF Dev!Merge, Dev!Dates, Dev!Changes

\* The store's half of a PATCH: no row has the slug, or the one that has it gets
\* what the PATCH makes of its newest dates.
LEMMA UpdateCampaignStep ==
  ASSUME Dev!DevStoreAssumption, StoreOK, NEW r \in Handler, Dev!UpdateCampaign(r)
  PROVE  /\ StoreOK' /\ links' = links /\ Dev!Answer(r)
         /\ \/ campaigns' = campaigns
            \/ \E i \in DOMAIN campaigns :
                  /\ campaigns[i].slug = job[r].patch.slug
                  /\ Dev!Merge(campaigns[i].detail, job[r].patch.change) \in Dev!Dates
                  /\ campaigns' = [campaigns EXCEPT ![i].detail =
                                      Dev!Merge(campaigns[i].detail, job[r].patch.change)]
  <1>1. /\ UNCHANGED <<links, nextLink, nextCampaign, rules, nextRule, calls>>
        /\ Dev!Answer(r) /\ stage[r] = "patch"
    BY DEF Dev!UpdateCampaign, Dev!linkVars, Dev!ruleVars
  <1>2. CampaignsOK' => StoreOK'
    BY <1>1, LinksStay, HandlerAnswers, RulesStay DEF StoreOK
  <1>3. CASE campaigns' = campaigns
    BY <1>1, <1>2, <1>3, CampaignsStay
  <1>4. CASE campaigns' # campaigns
    <2>1. PICK i \in DOMAIN campaigns :
            /\ campaigns[i].slug = job[r].patch.slug
            /\ campaigns' = [campaigns EXCEPT ![i].detail =
                                Dev!Merge(campaigns[i].detail, job[r].patch.change)]
      BY <1>4 DEF Dev!UpdateCampaign
    <2>2. campaigns[i].detail \in Dev!Dates
      BY StoreFacts DEF DevCampaign
    <2>3. job[r].patch.change \in Dev!Changes
      BY <1>1 DEF StoreOK, HandlersOK, HandlerOK, Judged, DevPatch
    <2>4. PICK w \in Dev!Dates : w = Dev!Merge(campaigns[i].detail, job[r].patch.change)
      BY <2>2, <2>3, MergeIsDates
    <2>5. CampaignsOK'
      BY <1>1, <2>1, <2>4, CampaignPut
    <2> QED
      BY <1>1, <1>2, <2>1, <2>4, <2>5
  <1> QED
    BY <1>3, <1>4

LEMMA DeleteCampaignStep ==
  ASSUME Dev!DevStoreAssumption, StoreOK, NEW i \in DOMAIN campaigns, Dev!DeleteCampaign(i)
  PROVE  StoreOK'
  <1>1. PICK n \in Nat : n = Len(campaigns) /\ DOMAIN campaigns = 1 .. n
    BY StoreFacts
  <1>2. /\ Dev!Call /\ UNCHANGED <<nextLink, nextCampaign, rules, nextRule, stage, job>>
        /\ links' = Dev!Freed(campaigns[i].id) /\ campaigns' = Dev!RemoveAt(campaigns, i)
    BY DEF Dev!DeleteCampaign, Dev!ruleVars
  <1>3. /\ campaigns' \in Seq(DevCampaign) /\ Len(campaigns') = n - 1
        /\ \A j \in 1 .. n - 1 : campaigns'[j] = IF j < i THEN campaigns[j] ELSE campaigns[j + 1]
    <2>1. campaigns \in Seq(DevCampaign) /\ i \in 1 .. Len(campaigns)
      BY <1>1 DEF StoreOK, CampaignsOK
    <2> QED
      BY <1>1, <1>2, <2>1, RemoveAtIs
  <1>4. calls' \in 0 .. MaxCalls /\ nextCampaign' \in 1 .. calls' + 1
    BY <1>2 DEF Dev!DevStoreAssumption, Dev!Call, StoreOK, CampaignsOK
  <1>5. /\ \A j \in 1 .. n : campaigns[j].id < nextCampaign
        /\ \A j, k \in 1 .. n : j < k => campaigns[j].id < campaigns[k].id
    BY <1>1 DEF StoreOK, CampaignsOK
  <1>6. \A j \in 1 .. n - 1 : /\ j \in 1 .. n /\ j + 1 \in 1 .. n
                              /\ campaigns'[j] = campaigns[IF j < i THEN j ELSE j + 1]
    BY <1>1, <1>3
  <1>7. \A j \in 1 .. n - 1 : campaigns'[j].id < nextCampaign'
    BY <1>2, <1>5, <1>6
  <1>8. \A j, k \in 1 .. n - 1 : j < k => campaigns'[j].id < campaigns'[k].id
    <2> SUFFICES ASSUME NEW j \in 1 .. n - 1, NEW k \in 1 .. n - 1, j < k
                 PROVE  campaigns'[j].id < campaigns'[k].id
      OBVIOUS
    <2>1. PICK a \in 1 .. n : a = (IF j < i THEN j ELSE j + 1) /\ campaigns'[j] = campaigns[a]
      BY <1>6
    <2>2. PICK b \in 1 .. n : b = (IF k < i THEN k ELSE k + 1) /\ campaigns'[k] = campaigns[b]
      BY <1>6
    <2>3. a < b
      BY <1>1, <2>1, <2>2
    <2> QED
      BY <1>5, <2>1, <2>2, <2>3
  <1>9. CampaignsOK'
    BY <1>3, <1>4, <1>7, <1>8 DEF CampaignsOK
  <1>10. LinksOK'
    <2>1. PICK m \in Nat : m = Len(links) /\ DOMAIN links = 1 .. m
      BY StoreFacts
    <2>2. links' = [j \in 1 .. m |-> IF links[j].camp = campaigns[i].id
                                     THEN [links[j] EXCEPT !.camp = None] ELSE links[j]]
      BY <1>2, <2>1 DEF Dev!Freed
    <2>3. \A j \in 1 .. m : LinkOK(links[j], j)
      BY <2>1 DEF StoreOK, LinksOK
    <2>4. ASSUME NEW j \in 1 .. m
          PROVE  LinkOK(links'[j], j) /\ links'[j].key = links[j].key
      <3>1. PICK l \in DevLink : l = links[j] /\ LinkOK(l, j)
        BY <2>3 DEF LinkOK
      <3>2. [l EXCEPT !.camp = None] \in DevLink
        BY DEF DevLink
      <3>3. links'[j] = l \/ links'[j] = [l EXCEPT !.camp = None]
        BY <2>2, <3>1
      <3> QED
        BY <3>1, <3>2, <3>3 DEF LinkOK, Made, DevLink
    <2>5. links' \in Seq(DevLink) /\ Len(links') = m
      <3>1. \A j \in 1 .. m : links'[j] \in DevLink
        BY <2>4 DEF LinkOK
      <3>2. links' \in [1 .. m -> DevLink]
        BY <2>2, <3>1
      <3> QED
        BY <2>1, <3>2, SeqOf
    <2>6. \A j \in 1 .. m : LinkOK(links[j], j)'
      BY <1>2, <2>4 DEF LinkOK, Made
    <2> QED
      BY <1>2, <2>1, <2>4, <2>5, <2>6 DEF StoreOK, LinksOK
  <1> QED
    BY <1>2, <1>9, <1>10, HandlersStay, RulesStay DEF StoreOK

LEMMA CreateRuleStep == ASSUME Dev!DevStoreAssumption, StoreOK, Dev!CreateRule PROVE StoreOK'
  <1>1. PICK p \in Pattern :
          rules' = Append(rules, [id |-> nextRule, bans |-> p, active |-> TRUE])
    BY DEF Dev!CreateRule
  <1>2. /\ Dev!Call /\ nextRule' = nextRule + 1
        /\ UNCHANGED <<links, nextLink, campaigns, nextCampaign, stage, job>>
    BY DEF Dev!CreateRule, Dev!linkVars, Dev!campVars
  <1>3. PICK n \in Nat : n = Len(rules) /\ DOMAIN rules = 1 .. n
    BY StoreFacts
  <1>4. PICK new \in DevRule : new = [id |-> nextRule, bans |-> p, active |-> TRUE]
    <2>1. nextRule \in Nat
      BY DEF StoreOK, RulesOK
    <2>2. [id |-> nextRule, bans |-> p, active |-> TRUE] \in DevRule
      BY <2>1 DEF DevRule
    <2> QED
      BY <2>2
  <1>5. /\ rules' \in Seq(DevRule) /\ Len(rules') = n + 1
        /\ \A i \in 1 .. n : rules'[i] = rules[i]
        /\ rules'[n + 1] = new
    BY <1>1, <1>3, <1>4, AppendProperties DEF StoreOK, RulesOK
  <1>6. /\ \A i \in 1 .. n : rules[i].id \in Nat /\ rules[i].id < nextRule
        /\ \A i, j \in 1 .. n : i < j => rules[i].id < rules[j].id
        /\ nextRule \in Nat /\ new.id = nextRule
    BY <1>3, <1>4, StoreFacts DEF StoreOK, RulesOK, DevRule
  <1>7. \A i \in 1 .. n + 1 : i \in 1 .. n \/ i = n + 1
    OBVIOUS
  <1>8. \A i \in 1 .. n + 1 : rules'[i].id < nextRule'
    <2> SUFFICES ASSUME NEW i \in 1 .. n + 1 PROVE rules'[i].id < nextRule + 1
      BY <1>2
    <2>1. CASE i \in 1 .. n
      BY <1>5, <1>6, <2>1
    <2>2. CASE i = n + 1
      BY <1>5, <1>6, <2>2
    <2> QED
      BY <1>7, <2>1, <2>2
  <1>9. \A i, j \in 1 .. n + 1 : i < j => rules'[i].id < rules'[j].id
    <2> SUFFICES ASSUME NEW i \in 1 .. n + 1, NEW j \in 1 .. n + 1, i < j
                 PROVE  rules'[i].id < rules'[j].id
      OBVIOUS
    <2>1. i \in 1 .. n
      OBVIOUS
    <2> QED
      BY <1>5, <1>6, <1>7, <2>1
  <1>10. RulesOK'
    BY <1>2, <1>5, <1>6, <1>8, <1>9 DEF RulesOK
  <1> QED
    BY <1>2, <1>10, LinksStay, HandlersStay, CampaignsStay DEF StoreOK

LEMMA ChangeRuleStep ==
  ASSUME Dev!DevStoreAssumption, StoreOK, NEW i \in DOMAIN rules, Dev!ChangeRule(i)
  PROVE  StoreOK'
  <1>1. PICK n \in Nat : n = Len(rules) /\ DOMAIN rules = 1 .. n
    BY StoreFacts
  <1>2. Dev!Call /\ UNCHANGED <<links, nextLink, campaigns, nextCampaign, nextRule, stage, job>>
    BY DEF Dev!ChangeRule, Dev!linkVars, Dev!campVars
  <1>3. /\ \A j \in 1 .. n : rules[j].id < nextRule
        /\ \A j, k \in 1 .. n : j < k => rules[j].id < rules[k].id
    BY <1>1 DEF StoreOK, RulesOK
  <1>4. ASSUME rules' = Dev!RemoveAt(rules, i) PROVE RulesOK'
    <2>1. rules \in Seq(DevRule) /\ i \in 1 .. Len(rules)
      BY <1>1 DEF StoreOK, RulesOK
    <2>2. /\ rules' \in Seq(DevRule) /\ Len(rules') = n - 1
          /\ \A j \in 1 .. n - 1 : rules'[j] = IF j < i THEN rules[j] ELSE rules[j + 1]
      BY <1>1, <1>4, <2>1, RemoveAtIs
    <2>3. \A j \in 1 .. n - 1 : /\ j \in 1 .. n /\ j + 1 \in 1 .. n
                                /\ rules'[j] = rules[IF j < i THEN j ELSE j + 1]
      BY <1>1, <2>2
    <2>4. \A j \in 1 .. n - 1 : rules'[j].id < nextRule'
      BY <1>2, <1>3, <2>3
    <2>5. \A j, k \in 1 .. n - 1 : j < k => rules'[j].id < rules'[k].id
      <3> SUFFICES ASSUME NEW j \in 1 .. n - 1, NEW k \in 1 .. n - 1, j < k
                   PROVE  rules'[j].id < rules'[k].id
        OBVIOUS
      <3>1. PICK a \in 1 .. n : a = (IF j < i THEN j ELSE j + 1) /\ rules'[j] = rules[a]
        BY <2>3
      <3>2. PICK b \in 1 .. n : b = (IF k < i THEN k ELSE k + 1) /\ rules'[k] = rules[b]
        BY <2>3
      <3>3. a < b
        BY <1>1, <3>1, <3>2
      <3> QED
        BY <1>3, <3>1, <3>2, <3>3
    <2> QED
      BY <1>2, <2>2, <2>4, <2>5 DEF StoreOK, RulesOK
  <1>5. ASSUME rules' # Dev!RemoveAt(rules, i) PROVE RulesOK'
    <2>1. PICK p \in Pattern, a \in BOOLEAN :
            rules' = [rules EXCEPT ![i].bans = p, ![i].active = a]
      BY <1>5 DEF Dev!ChangeRule
    <2>2. \A j \in 1 .. n : rules'[j] \in DevRule /\ rules'[j].id = rules[j].id
      BY <1>1, <2>1, StoreFacts DEF DevRule
    <2>3. rules' \in [1 .. n -> DevRule]
      <3>1. rules' = [j \in 1 .. n |-> rules'[j]]
        BY <1>1, <2>1, StoreFacts
      <3> QED
        BY <2>2, <3>1
    <2>4. rules' \in Seq(DevRule) /\ Len(rules') = n
      BY <2>3, SeqOf
    <2> QED
      BY <1>2, <1>3, <2>2, <2>4 DEF StoreOK, RulesOK
  <1> QED
    BY <1>2, <1>4, <1>5, LinksStay, HandlersStay, CampaignsStay DEF StoreOK

\* A PATCH or a DELETE of a link.
LEMMA LinkCallStep ==
  ASSUME Dev!DevStoreAssumption, StoreOK, NEW i \in DOMAIN links,
         Dev!UpdateLink(i) \/ Dev!DeactivateLink(i)
  PROVE  /\ StoreOK' /\ campaigns' = campaigns /\ Len(links') = Len(links)
         /\ \A j \in 1 .. Len(links) : links'[j].camp = links[j].camp
  <1>1. PICK n \in Nat : n = Len(links) /\ DOMAIN links = 1 .. n
    BY StoreFacts
  <1>2. /\ Dev!Call /\ UNCHANGED <<nextLink, campaigns, nextCampaign, rules, nextRule, stage, job>>
    BY DEF Dev!UpdateLink, Dev!DeactivateLink, Dev!ruleVars, Dev!campVars
  <1>3. LinkOK(links[i], i) /\ links[i] \in DevLink
    BY <1>1 DEF StoreOK, LinksOK, LinkOK
  <1>4. \E l : /\ LinkOK(l, i) /\ l.key = links[i].key /\ l.camp = links[i].camp
               /\ links' = [links EXCEPT ![i] = l]
    <2>1. CASE Dev!UpdateLink(i)
      <3>1. PICK d \in Dest : links' = [links EXCEPT ![i] = [links[i] EXCEPT !.dest = d]]
        BY <2>1 DEF Dev!UpdateLink
      <3> QED
        BY <1>3, <3>1 DEF LinkOK, DevLink
    <2>2. CASE Dev!DeactivateLink(i)
      <3>1. links' = [links EXCEPT ![i] = [links[i] EXCEPT !.active = FALSE]]
        BY <2>2 DEF Dev!DeactivateLink
      <3> QED
        BY <1>3, <3>1 DEF LinkOK, DevLink
    <2> QED
      BY <2>1, <2>2
  <1>5. PICK l : /\ LinkOK(l, i) /\ l.key = links[i].key /\ l.camp = links[i].camp
                 /\ links' = [links EXCEPT ![i] = l]
    BY <1>4
  <1>6. LinksOK'
    BY <1>2, <1>5, LinkPut
  <1>7. StoreOK'
    BY <1>2, <1>6, RulesStay, HandlersStay, CampaignsStay DEF StoreOK
  <1>8. Len(links') = Len(links)
    BY <1>2, <1>6 DEF StoreOK, LinksOK
  <1> QED
    BY <1>1, <1>2, <1>5, <1>7, <1>8

\* A handler takes a step that touches no row.
LEMMA HandlerOnly ==
  ASSUME Dev!DevStoreAssumption, StoreOK, Dev!data' = Dev!data, calls' = calls \/ Dev!Call,
         HandlersOK'
  PROVE  StoreOK'
  <1>1. UNCHANGED <<links, nextLink, campaigns, nextCampaign, rules, nextRule>>
    BY DEF Dev!data, Dev!linkVars, Dev!campVars, Dev!ruleVars
  <1> QED
    BY <1>1, LinksStay, CampaignsStay, RulesStay DEF StoreOK

LEMMA CampaignIdsAre ==
  ASSUME StoreOK
  PROVE  \A c \in Dev!CampaignIds : c \in 1 .. MaxCalls /\ Made(c)
  BY StoreFacts DEF Dev!CampaignIds, StoreOK, CampaignsOK, DevCampaign, Made

LEMMA AsksStep ==
  ASSUME Dev!DevStoreAssumption, StoreOK, NEW r \in Handler,
         Dev!Create(r) \/ Dev!Resolve(r) \/ Dev!BatchCreateLinks(r)
  PROVE  Dev!data' = Dev!data /\ StoreOK'
  <1>1. Dev!data' = Dev!data /\ Dev!Call /\ nextCampaign' = nextCampaign
    BY DEF Dev!Create, Dev!Resolve, Dev!BatchCreateLinks, Dev!data, Dev!campVars
  <1> DEFINE Asks(l, d, k, c) ==
        /\ Dev!Goto(r, l) /\ l \notin {"custom", "patch"}
        /\ l \notin {"idle", "assign", "unassign"} => d \in Dest
        /\ job' = [job EXCEPT ![r] = [dest |-> d, key |-> k, id |-> c, patch |-> None]]
  <1>2. PICK l \in Dev!Label, d \in Dest \cup {None}, k \in Key \cup {None},
             c \in Dev!CampaignIds \cup {None} : Asks(l, d, k, c)
    <2>1. CASE Dev!Create(r)
      <3>1. PICK d \in Dest, k \in Key \cup {None}, c \in Dev!CampaignIds \cup {None} :
              job' = [job EXCEPT ![r] = [Dev!NoJob EXCEPT !.dest = d, !.key = k, !.id = c]]
        BY <2>1 DEF Dev!Create
      <3>2. Asks("filter", d, k, c) /\ "filter" \in Dev!Label
        BY <2>1, <3>1 DEF Dev!Create, Dev!NoJob, Dev!Label
      <3> QED
        BY <3>2
    <2>2. CASE Dev!Resolve(r)
      <3>1. PICK c \in Dev!CampaignIds : job' = [job EXCEPT ![r] = [Dev!NoJob EXCEPT !.id = c]]
        BY <2>2 DEF Dev!Resolve
      <3>2. PICK l \in {"assign", "unassign"} : Dev!Goto(r, l)
        BY <2>2 DEF Dev!Resolve
      <3>3. [Dev!NoJob EXCEPT !.id = c] = [dest |-> None, key |-> None, id |-> c, patch |-> None]
        BY DEF Dev!NoJob
      <3>4. l \in Dev!Label /\ l \notin {"custom", "patch"}
        BY DEF Dev!Label
      <3>5. Asks(l, None, None, c)
        BY <3>1, <3>2, <3>3, <3>4
      <3> QED
        BY <3>4, <3>5
    <2>3. CASE Dev!BatchCreateLinks(r)
      <3>1. PICK c \in Dev!CampaignIds, d \in Dest :
              job' = [job EXCEPT ![r] = [Dev!NoJob EXCEPT !.dest = d, !.id = c]]
        BY <2>3 DEF Dev!BatchCreateLinks
      <3>2. Asks("check", d, None, c) /\ "check" \in Dev!Label
        BY <2>3, <3>1 DEF Dev!BatchCreateLinks, Dev!NoJob, Dev!Label
      <3> QED
        BY <3>2
    <2> QED
      BY <2>1, <2>2, <2>3
  <1>3. Made(c) /\ c \in (1 .. MaxCalls) \cup {None}
    BY <1>2, CampaignIdsAre DEF Made
  <1>4. [dest |-> d, key |-> k, id |-> c, patch |-> None] \in DevJob
    BY <1>2, <1>3 DEF DevJob
  <1>5. HandlersOK'
    BY <1>1, <1>2, <1>3, <1>4, HandlerMoves
  <1> QED
    BY <1>1, <1>5, HandlerOnly

LEMMA PatchStep ==
  ASSUME Dev!DevStoreAssumption, StoreOK, NEW r \in Handler, Dev!Patch(r)
  PROVE  Dev!data' = Dev!data /\ StoreOK'
  <1>1. Dev!data' = Dev!data /\ Dev!Call /\ nextCampaign' = nextCampaign /\ Dev!Goto(r, "patch")
    BY DEF Dev!Patch, Dev!data, Dev!campVars
  <1>2. PICK i \in DOMAIN campaigns, w \in Dev!Changes :
          /\ Dev!Ordered(Dev!Merge(campaigns[i].detail, w))
          /\ job' = [job EXCEPT ![r] = [Dev!NoJob EXCEPT !.patch =
                [slug |-> campaigns[i].slug, seen |-> campaigns[i].detail, change |-> w]]]
    BY DEF Dev!Patch
  <1>3. campaigns[i].slug \in Dev!Slug /\ campaigns[i].detail \in Dev!Dates
    BY StoreFacts DEF DevCampaign
  <1>4. PICK p : p = [slug |-> campaigns[i].slug, seen |-> campaigns[i].detail, change |-> w]
    OBVIOUS
  <1>5. Judged(p)
    <2>1. p \in DevPatch
      BY <1>3, <1>4 DEF DevPatch
    <2>2. p.seen = campaigns[i].detail /\ p.change = w
      BY <1>4
    <2> QED
      BY <1>2, <2>1, <2>2 DEF Judged
  <1>6. PICK j : j = [dest |-> None, key |-> None, id |-> None, patch |-> p]
    OBVIOUS
  <1>7. j \in DevJob /\ Made(j.id) /\ j.patch = p
    BY <1>5, <1>6 DEF DevJob, Judged, Made
  <1>8. job' = [job EXCEPT ![r] = j]
    <2>1. [Dev!NoJob EXCEPT !.patch = p] = j
      BY <1>6 DEF Dev!NoJob
    <2> QED
      BY <1>2, <1>4, <2>1
  <1>9. "patch" \in Dev!Label /\ "patch" # "custom"
    BY DEF Dev!Label
  <1>10. HandlersOK'
    BY <1>1, <1>5, <1>7, <1>8, <1>9, HandlerMoves
  <1> QED
    BY <1>1, <1>10, HandlerOnly

LEMMA FilterStep ==
  ASSUME Dev!DevStoreAssumption, StoreOK, NEW r \in Handler, Dev!Filter(r) \/ Dev!CheckRows(r)
  PROVE  Dev!data' = Dev!data /\ StoreOK'
  <1>1. Dev!data' = Dev!data /\ calls' = calls /\ nextCampaign' = nextCampaign
    BY DEF Dev!Filter, Dev!CheckRows, Dev!data, Dev!campVars
  <1>2. HandlerOK(r) /\ job = [job EXCEPT ![r] = job[r]]
    BY DEF StoreOK, HandlersOK
  <1>3. CASE Dev!Filter(r)
    <2>1. PICK l \in {"denied", "custom", "dedup"} :
            Dev!Goto(r, l) /\ l # "patch" /\ (l = "custom" => job[r].key # None)
      BY <1>3 DEF Dev!Filter
    <2>2. job[r].dest \in Dest /\ job[r] \in DevJob /\ Made(job[r].id)
      BY <1>2, <1>3 DEF Dev!Filter, HandlerOK
    <2>3. job' = [job EXCEPT ![r] = job[r]] /\ l \in Dev!Label
      BY <1>2, <1>3, <2>1 DEF Dev!Filter, Dev!Label
    <2>4. l = "custom" => job[r].key \in Key
      BY <2>1, <2>2 DEF DevJob
    <2>5. HandlersOK'
      BY <1>1, <2>1, <2>2, <2>3, <2>4, HandlerMoves
    <2> QED
      BY <1>1, <2>5, HandlerOnly
  <1>4. CASE Dev!CheckRows(r)
    <2>1. CASE Dev!Answer(r)
      BY <1>1, <2>1, HandlerAnswers, HandlerOnly
    <2>2. CASE ~Dev!Answer(r)
      <3>1. Dev!Goto(r, "batch") /\ job' = [job EXCEPT ![r] = job[r]]
        BY <1>2, <1>4, <2>2 DEF Dev!CheckRows
      <3>2. job[r].dest \in Dest /\ job[r] \in DevJob /\ Made(job[r].id)
        BY <1>2, <1>4 DEF Dev!CheckRows, HandlerOK
      <3>3. "batch" \in Dev!Label /\ "batch" \notin {"custom", "patch"}
        BY DEF Dev!Label
      <3>4. HandlersOK'
        BY <1>1, <3>1, <3>2, <3>3, HandlerMoves
      <3> QED
        BY <1>1, <3>4, HandlerOnly
    <2> QED
      BY <2>1, <2>2
  <1> QED
    BY <1>3, <1>4

\* What assigning, unassigning and reactivating do to a link.
Puts(i, c) ==
  /\ Len(links') = Len(links) /\ campaigns' = campaigns
  /\ \A j \in 1 .. Len(links) : links'[j].camp = IF j = i THEN c ELSE links[j].camp

\* The campaigns it may put it into: none, the one it is in, and the one the
\* handler has found.
Put(i, r) == {None, links[i].camp, job[r].id}

LEMMA OneLinkStep ==
  ASSUME Dev!DevStoreAssumption, StoreOK, NEW r \in Handler, NEW i \in 1 .. Len(links), NEW l,
         LinkOK(l, i), l.key = links[i].key, links' = [links EXCEPT ![i] = l],
         UNCHANGED <<nextLink, campaigns, nextCampaign, rules, nextRule, calls>>, Dev!Answer(r)
  PROVE  StoreOK' /\ Puts(i, l.camp) /\ l.camp \in (1 .. MaxCalls) \cup {None}
  <1>1. PICK n \in Nat : n = Len(links) /\ DOMAIN links = 1 .. n
    BY StoreFacts
  <1>2. LinksOK'
    BY <1>1, LinkPut
  <1>3. StoreOK'
    BY <1>2, RulesStay, CampaignsStay, HandlerAnswers DEF StoreOK
  <1>4. Len(links') = Len(links)
    BY <1>2 DEF StoreOK, LinksOK
  <1>5. l.camp \in (1 .. MaxCalls) \cup {None}
    BY DEF LinkOK, DevLink
  <1> QED
    BY <1>1, <1>3, <1>4, <1>5 DEF Puts

LEMMA MoveStep ==
  ASSUME Dev!DevStoreAssumption, StoreOK, NEW r \in Handler,
         Dev!AssignLinkToCampaign(r) \/ Dev!UnassignLinkFromCampaign(r)
  PROVE  /\ StoreOK'
         /\ \E i \in 1 .. Len(links), c \in (1 .. MaxCalls) \cup {None} :
               Puts(i, c) /\ c \in Put(i, r)
  <1>1. /\ UNCHANGED <<nextLink, campaigns, nextCampaign, rules, nextRule, calls>>
        /\ Dev!Answer(r)
    BY DEF Dev!AssignLinkToCampaign, Dev!UnassignLinkFromCampaign, Dev!campVars, Dev!ruleVars
  <1>2. job[r].id \in (1 .. MaxCalls) \cup {None} /\ Made(job[r].id)
    BY DEF StoreOK, HandlersOK, HandlerOK, DevJob
  <1>3. PICK n \in Nat : n = Len(links) /\ DOMAIN links = 1 .. n
    BY StoreFacts
  <1>4. \A i \in 1 .. n : links[i] \in DevLink /\ LinkOK(links[i], i)
    BY <1>3 DEF StoreOK, LinksOK, LinkOK
  <1>5. PICK i \in 1 .. n, c \in (1 .. MaxCalls) \cup {None} :
          Made(c) /\ c \in Put(i, r) /\ links' = [links EXCEPT ![i] = [links[i] EXCEPT !.camp = c]]
    <2>1. CASE Dev!AssignLinkToCampaign(r)
      <3>1. PICK i \in DOMAIN links :
              links' = [links EXCEPT ![i] = [links[i] EXCEPT !.camp = job[r].id]]
        BY <2>1 DEF Dev!AssignLinkToCampaign
      <3> QED
        BY <1>2, <1>3, <3>1 DEF Put
    <2>2. CASE Dev!UnassignLinkFromCampaign(r)
      <3>1. PICK i \in DOMAIN links :
              links' = [links EXCEPT ![i] =
                  [links[i] EXCEPT !.camp = IF links[i].camp = job[r].id THEN None
                                            ELSE links[i].camp]]
        BY <2>2 DEF Dev!UnassignLinkFromCampaign
      <3>2. PICK c : c = IF links[i].camp = job[r].id THEN None ELSE links[i].camp
        OBVIOUS
      <3>3. Made(c) /\ c \in (1 .. MaxCalls) \cup {None}
        BY <1>3, <1>4, <3>2 DEF LinkOK, DevLink, Made
      <3> QED
        BY <1>3, <3>1, <3>2, <3>3 DEF Put
    <2> QED
      BY <2>1, <2>2
  <1>6. PICK l : l = [links[i] EXCEPT !.camp = c]
    OBVIOUS
  <1>7. LinkOK(l, i) /\ l.key = links[i].key /\ l.camp = c
    BY <1>4, <1>5, <1>6 DEF LinkOK, DevLink
  <1>8. links' = [links EXCEPT ![i] = l]
    BY <1>5, <1>6
  <1>9. StoreOK' /\ Puts(i, l.camp) /\ l.camp \in (1 .. MaxCalls) \cup {None}
    BY <1>1, <1>3, <1>7, <1>8, OneLinkStep
  <1> QED
    BY <1>3, <1>5, <1>7, <1>9

\* New rows at the end of the slice, all in the campaign c.
Grows(n, c) ==
  /\ Len(links') = Len(links) + n /\ nextLink' = nextLink + n /\ campaigns' = campaigns
  /\ \A j \in 1 .. Len(links) : links'[j] = links[j]
  /\ \A j \in Len(links) + 1 .. Len(links) + n : links'[j].camp = c

LEMMA RowIs ==
  ASSUME Dev!DevStoreAssumption, StoreOK, NEW r \in Handler,
         stage[r] \in {"custom", "dedup", "denied", "batch"},
         NEW m \in Nat, nextLink + m <= MaxLink, NEW k \in Dev!FreeKeys
  PROVE  /\ LinkOK(Dev!Row(r, m, k), Len(links) + m + 1)
         /\ Dev!Row(r, m, k).key = k /\ Dev!Row(r, m, k).camp = job[r].id
  <1>1. PICK id \in Nat : id = nextLink + m /\ id = Len(links) + m + 1 /\ id \in 1 .. MaxLink
    BY StoreFacts DEF StoreOK, LinksOK, Dev!DevStoreAssumption
  <1>2. /\ job[r].dest \in Dest /\ job[r].id \in (1 .. MaxCalls) \cup {None} /\ Made(job[r].id)
    BY DEF StoreOK, HandlersOK, HandlerOK, DevJob
  <1>3. PICK d \in BOOLEAN : d = (stage[r] = "denied")
    OBVIOUS
  <1>4. Dev!Row(r, m, k) = [id |-> id, key |-> k, dest |-> job[r].dest, active |-> ~d,
                            denied |-> d, camp |-> job[r].id]
    BY <1>1, <1>3 DEF Dev!Row
  <1>5. k \in Key
    BY DEF Dev!FreeKeys
  <1>6. PICK d2 \in BOOLEAN : d2 = ~d /\ ~(d /\ d2)
    OBVIOUS
  <1>7. PICK row \in DevLink :
          row = [id |-> id, key |-> k, dest |-> job[r].dest, active |-> d2,
                 denied |-> d, camp |-> job[r].id]
    <2>1. [id |-> id, key |-> k, dest |-> job[r].dest, active |-> d2,
           denied |-> d, camp |-> job[r].id] \in DevLink
      BY <1>1, <1>2, <1>5 DEF DevLink
    <2> QED
      BY <2>1
  <1>8. LinkOK(row, id) /\ row.key = k /\ row.camp = job[r].id
    BY <1>2, <1>6, <1>7 DEF LinkOK
  <1> QED
    BY <1>1, <1>4, <1>6, <1>7, <1>8

LEMMA Appended ==
  ASSUME StoreOK, NEW n \in Nat, NEW c, NEW new \in Seq(DevLink), Len(new) = n,
         \A m \in 1 .. n : /\ LinkOK(new[m], Len(links) + m)
                           /\ new[m].key \in Dev!FreeKeys /\ new[m].camp = c,
         \A i, j \in 1 .. n : new[i].key = new[j].key => i = j,
         Dev!Insert(new), UNCHANGED <<campaigns, nextCampaign>>
  PROVE  LinksOK' /\ Grows(n, c)
  <1>1. PICK len \in Nat : len = Len(links) /\ DOMAIN links = 1 .. len
    BY StoreFacts
  <1>2. /\ links \in Seq(DevLink) /\ nextLink = len + 1
        /\ \A j \in 1 .. len : LinkOK(links[j], j)
        /\ \A i, j \in 1 .. len : links[i].key = links[j].key => i = j
    BY <1>1 DEF StoreOK, LinksOK
  <1>3. links' = links \o new /\ nextLink' = nextLink + n
    BY DEF Dev!Insert
  <1>4. /\ links' \in Seq(DevLink) /\ Len(links') = len + n
        /\ \A j \in 1 .. len + n : links'[j] = IF j <= len THEN links[j] ELSE new[j - len]
    <2>1. /\ links \o new \in Seq(DevLink) /\ Len(links \o new) = Len(links) + Len(new)
          /\ \A j \in 1 .. Len(links) + Len(new) :
                (links \o new)[j] = IF j <= Len(links) THEN links[j] ELSE new[j - Len(links)]
      <3>1. links \in Seq(DevLink) /\ new \in Seq(DevLink)
        BY <1>2
      <3> QED
        BY ONLY <3>1, ConcatProperties
    <2> QED
      BY <1>1, <1>3, <2>1
  <1>5. \A j \in 1 .. len : links'[j] = links[j] /\ links[j].key \notin Dev!FreeKeys
    BY <1>1, <1>4 DEF Dev!FreeKeys
  <1>6. ASSUME NEW j \in len + 1 .. len + n
        PROVE  \E m \in 1 .. n : j = len + m /\ links'[j] = new[m]
    <2>1. j - len \in 1 .. n /\ j = len + (j - len)
      OBVIOUS
    <2> QED
      BY <1>4, <2>1
  <1>7. \A j \in 1 .. len + n : j \in 1 .. len \/ j \in len + 1 .. len + n
    OBVIOUS
  <1>8. ASSUME NEW j \in 1 .. len + n PROVE LinkOK(links'[j], j)
    BY <1>1, <1>2, <1>5, <1>6, <1>7
  <1>9. \A j \in len + 1 .. len + n : links'[j].key \in Dev!FreeKeys
    BY <1>6
  <1>10. ASSUME NEW i \in 1 .. len + n, NEW j \in 1 .. len + n, links'[i].key = links'[j].key
        PROVE  i = j
    <2>1. CASE i \in 1 .. len /\ j \in 1 .. len
      BY <1>2, <1>5, <1>10, <2>1
    <2>2. CASE i \in 1 .. len /\ j \in len + 1 .. len + n
      BY <1>5, <1>10, <1>9, <2>2
    <2>3. CASE i \in len + 1 .. len + n /\ j \in 1 .. len
      BY <1>5, <1>10, <1>9, <2>3
    <2>4. CASE i \in len + 1 .. len + n /\ j \in len + 1 .. len + n
      <3>1. PICK a \in 1 .. n : i = len + a /\ links'[i] = new[a]
        BY <1>6, <2>4
      <3>2. PICK b \in 1 .. n : j = len + b /\ links'[j] = new[b]
        BY <1>6, <2>4
      <3> QED
        BY <1>10, <3>1, <3>2
    <2> QED
      BY <1>7, <2>1, <2>2, <2>3, <2>4
  <1>11. \A j \in 1 .. len + n : LinkOK(links[j], j)'
    BY <1>8 DEF LinkOK, Made
  <1>12. nextLink' = len + n + 1
    BY <1>2, <1>3
  <1>13. LinksOK'
    BY <1>4, <1>10, <1>11, <1>12 DEF LinksOK
  <1>14. \A j \in len + 1 .. len + n : links'[j].camp = c
    BY <1>6
  <1> QED
    BY <1>1, <1>3, <1>4, <1>5, <1>13, <1>14 DEF Grows

\* A row for each of the keys.
LEMMA RowsMade ==
  ASSUME Dev!DevStoreAssumption, StoreOK, NEW r \in Handler,
         stage[r] \in {"custom", "dedup", "denied", "batch"},
         NEW n \in Nat, NEW ks \in Dev!KeysFor(n), nextLink + n - 1 <= MaxLink,
         Dev!Insert(Dev!Rows(r, ks)), UNCHANGED <<campaigns, nextCampaign>>
  PROVE  LinksOK' /\ Grows(n, job[r].id)
  <1>1. /\ ks \in [1 .. n -> Dev!FreeKeys] /\ DOMAIN ks = 1 .. n
        /\ \A i, j \in 1 .. n : i # j => ks[i] # ks[j]
    BY DEF Dev!KeysFor
  <1>2. PICK new : new = Dev!Rows(r, ks)
    OBVIOUS
  <1>3. new = [m \in 1 .. n |-> Dev!Row(r, m - 1, ks[m])]
    BY <1>1, <1>2 DEF Dev!Rows
  <1>4. ASSUME NEW m \in 1 .. n
        PROVE  /\ LinkOK(new[m], Len(links) + m) /\ new[m].key = ks[m] /\ new[m].camp = job[r].id
    <2>1. nextLink \in Nat /\ Len(links) \in Nat
      BY StoreFacts DEF StoreOK, LinksOK
    <2>2. /\ m - 1 \in Nat /\ nextLink + (m - 1) <= MaxLink
          /\ Len(links) + (m - 1) + 1 = Len(links) + m
      BY <2>1 DEF Dev!DevStoreAssumption
    <2>3. ks[m] \in Dev!FreeKeys /\ new[m] = Dev!Row(r, m - 1, ks[m])
      BY <1>1, <1>3
    <2>4. /\ LinkOK(Dev!Row(r, m - 1, ks[m]), Len(links) + (m - 1) + 1)
          /\ Dev!Row(r, m - 1, ks[m]).key = ks[m] /\ Dev!Row(r, m - 1, ks[m]).camp = job[r].id
      BY <2>2, <2>3, RowIs
    <2> QED
      BY <2>2, <2>3, <2>4
  <1>5. new \in Seq(DevLink) /\ Len(new) = n
    <2>1. \A m \in 1 .. n : new[m] \in DevLink
      BY <1>4 DEF LinkOK
    <2>2. new \in [1 .. n -> DevLink]
      BY <1>3, <2>1
    <2> QED
      BY <2>2, SeqOf
  <1>6. \A m \in 1 .. n : ks[m] \in Dev!FreeKeys
    BY <1>1
  <1>7. Dev!Insert(new)
    BY <1>2
  <1>8. \A i, j \in 1 .. n : new[i].key = new[j].key => i = j
    BY <1>1, <1>4
  <1>9. PICK c : c = job[r].id
    OBVIOUS
  <1>10. \A m \in 1 .. n : /\ LinkOK(new[m], Len(links) + m)
                           /\ new[m].key \in Dev!FreeKeys /\ new[m].camp = c
    BY <1>4, <1>6, <1>9
  <1>11. LinksOK' /\ Grows(n, c)
    BY <1>5, <1>7, <1>8, <1>10, Appended
  <1> QED
    BY <1>9, <1>11

LEMMA OneRowMade ==
  ASSUME Dev!DevStoreAssumption, StoreOK, NEW r \in Handler,
         stage[r] \in {"custom", "dedup", "denied", "batch"},
         NEW k \in Dev!FreeKeys, nextLink <= MaxLink,
         Dev!Insert(<<Dev!Row(r, 0, k)>>), UNCHANGED <<campaigns, nextCampaign>>
  PROVE  LinksOK' /\ Grows(1, job[r].id)
  <1>1. PICK ks : ks = [m \in 1 .. 1 |-> k]
    OBVIOUS
  <1>2. \A i, j \in 1 .. 1 : i = j
    OBVIOUS
  <1>3. ks \in Dev!KeysFor(1)
    BY <1>1, <1>2 DEF Dev!KeysFor
  <1>4. Dev!Rows(r, ks) = <<Dev!Row(r, 0, k)>>
    <2>1. Dev!Rows(r, ks) = [m \in 1 .. 1 |-> Dev!Row(r, m - 1, ks[m])]
      BY <1>1 DEF Dev!Rows
    <2> DEFINE row(m) == Dev!Row(r, m, k)
    <2>2. \A m \in 1 .. 1 : Dev!Row(r, m - 1, ks[m]) = row(0)
      <3> SUFFICES ASSUME NEW m \in 1 .. 1 PROVE Dev!Row(r, m - 1, ks[m]) = row(0)
        OBVIOUS
      <3>1. m - 1 = 0 /\ ks[m] = k
        BY <1>1
      <3> QED
        BY <3>1
    <2> HIDE DEF row
    <2>3. Dev!Rows(r, ks) = [m \in 1 .. 1 |-> row(0)]
      BY <2>1, <2>2
    <2>4. Dev!Rows(r, ks) = <<row(0)>>
      BY <2>3
    <2> QED
      BY <2>4 DEF row
  <1>5. nextLink + 1 - 1 <= MaxLink /\ 1 \in Nat
    BY StoreFacts DEF StoreOK, LinksOK
  <1> QED
    BY <1>3, <1>4, <1>5, RowsMade

\* What the readers of campaigns and of the links in them see stays the same.
Quiet ==
  /\ Len(links') = Len(links) /\ campaigns' = campaigns
  /\ \A j \in 1 .. Len(links) : links'[j].camp = links[j].camp

LEMMA InsertGeneratedStep ==
  ASSUME Dev!DevStoreAssumption, StoreOK, NEW r \in Handler, stage[r] \in {"dedup", "denied"},
         Dev!InsertGenerated(r), UNCHANGED <<campaigns, nextCampaign>>
  PROVE  LinksOK' /\ (UNCHANGED links \/ Grows(1, job[r].id))
  <1>1. CASE UNCHANGED Dev!linkVars
    BY <1>1, LinksStay DEF Dev!linkVars
  <1>2. CASE ~(UNCHANGED Dev!linkVars)
    <2>1. nextLink <= MaxLink /\ \E k \in Dev!FreeKeys : Dev!Insert(<<Dev!Row(r, 0, k)>>)
      BY <1>2 DEF Dev!InsertGenerated
    <2>2. PICK k \in Dev!FreeKeys : Dev!Insert(<<Dev!Row(r, 0, k)>>)
      BY <2>1
    <2> QED
      BY <2>1, <2>2, OneRowMade
  <1> QED
    BY <1>1, <1>2

\* The creates of one link: a new row, one made active again, or no change.
LEMMA OneCreateStep ==
  ASSUME Dev!DevStoreAssumption, StoreOK, NEW r \in Handler,
         Dev!CreateLink(r) \/ Dev!CreateOrReactivateLink(r) \/ Dev!CreateDeniedLink(r)
  PROVE  /\ StoreOK'
         /\ \/ Quiet \/ Grows(1, job[r].id)
            \/ \E i \in 1 .. Len(links), c \in (1 .. MaxCalls) \cup {None} :
                  Puts(i, c) /\ c \in Put(i, r)
  <1>1. UNCHANGED <<campaigns, nextCampaign, rules, nextRule, calls>> /\ Dev!Answer(r)
    BY DEF Dev!CreateLink, Dev!CreateOrReactivateLink, Dev!CreateDeniedLink,
           Dev!campVars, Dev!ruleVars
  <1>2. LinksOK' => StoreOK'
    BY <1>1, RulesStay, CampaignsStay, HandlerAnswers DEF StoreOK
  <1>3. UNCHANGED links => Quiet
    BY <1>1 DEF Quiet
  <1>4. CASE Dev!CreateLink(r)
    <2>1. CASE UNCHANGED Dev!linkVars
      BY <1>1, <1>2, <1>3, <2>1, LinksStay DEF Dev!linkVars
    <2>2. CASE ~(UNCHANGED Dev!linkVars)
      <3>1. PICK k \in Dev!FreeKeys : nextLink <= MaxLink /\ Dev!Insert(<<Dev!Row(r, 0, k)>>)
        BY <1>4, <2>2 DEF Dev!CreateLink
      <3>2. stage[r] = "custom"
        BY <1>4 DEF Dev!CreateLink
      <3>3. LinksOK' /\ Grows(1, job[r].id)
        BY <1>1, <3>1, <3>2, OneRowMade
      <3> QED
        BY <1>2, <3>3
    <2> QED
      BY <2>1, <2>2
  <1>5. CASE Dev!CreateDeniedLink(r)
    <2>1. stage[r] = "denied" /\ Dev!InsertGenerated(r)
      BY <1>5 DEF Dev!CreateDeniedLink
    <2> QED
      BY <1>1, <1>2, <1>3, <2>1, InsertGeneratedStep
  <1>6. CASE Dev!CreateOrReactivateLink(r)
    <2>1. stage[r] = "dedup"
      BY <1>6 DEF Dev!CreateOrReactivateLink
    <2>2. CASE Dev!InsertGenerated(r)
      BY <1>1, <1>2, <1>3, <2>1, <2>2, InsertGeneratedStep
    <2>3. CASE ~Dev!InsertGenerated(r)
      <3>1. PICK i \in Dev!Matches(r) :
              /\ UNCHANGED nextLink
              /\ links' = [links EXCEPT ![i].active = TRUE,
                             ![i].camp = IF job[r].id = None THEN @ ELSE job[r].id]
        BY <1>6, <2>3 DEF Dev!CreateOrReactivateLink
      <3>2. i \in DOMAIN links /\ ~links[i].denied
        BY DEF Dev!Matches
      <3>3. i \in 1 .. Len(links) /\ LinkOK(links[i], i) /\ links[i] \in DevLink
        BY <3>2, StoreFacts DEF StoreOK, LinksOK, LinkOK
      <3>4. job[r].id \in (1 .. MaxCalls) \cup {None} /\ Made(job[r].id)
        BY DEF StoreOK, HandlersOK, HandlerOK, DevJob
      <3>5. PICK c \in (1 .. MaxCalls) \cup {None} :
              /\ c = (IF job[r].id = None THEN links[i].camp ELSE job[r].id)
              /\ Made(c) /\ c \in Put(i, r)
        BY <3>3, <3>4 DEF LinkOK, DevLink, Put
      <3>6. PICK l : l = [links[i] EXCEPT !.active = TRUE, !.camp = c]
        OBVIOUS
      <3>7. LinkOK(l, i) /\ l.key = links[i].key /\ l.camp = c
        BY <3>2, <3>3, <3>5, <3>6 DEF LinkOK, DevLink
      <3>8. links' = [links EXCEPT ![i] = l]
        BY <3>1, <3>2, <3>3, <3>5, <3>6 DEF DevLink
      <3>9. StoreOK' /\ Puts(i, l.camp)
        BY <1>1, <3>1, <3>3, <3>7, <3>8, OneLinkStep
      <3> QED
        BY <3>3, <3>5, <3>7, <3>9
    <2> QED
      BY <2>2, <2>3
  <1> QED
    BY <1>4, <1>5, <1>6

LEMMA BatchStep ==
  ASSUME Dev!DevStoreAssumption, StoreOK, NEW r \in Handler, Dev!CreateLinksBatch(r)
  PROVE  /\ StoreOK' /\ (Quiet \/ Grows(BatchSize, job[r].id))
         /\ Len(links') \in {Len(links), Len(links) + BatchSize}
         /\ nextLink' - nextLink = Len(links') - Len(links)
  <1>1. /\ UNCHANGED <<campaigns, nextCampaign, rules, nextRule, calls>> /\ Dev!Answer(r)
        /\ stage[r] = "batch" /\ nextLink + BatchSize - 1 <= MaxLink
    BY DEF Dev!CreateLinksBatch, Dev!campVars, Dev!ruleVars
  <1>2. LinksOK' => StoreOK'
    BY <1>1, RulesStay, CampaignsStay, HandlerAnswers DEF StoreOK
  <1>3. BatchSize \in Nat /\ Len(links) \in Nat /\ nextLink \in Nat
    BY StoreFacts DEF Dev!DevStoreAssumption, StoreOK, LinksOK
  <1>4. CASE \E ks \in Dev!KeysFor(BatchSize) : Dev!Insert(Dev!Rows(r, ks))
    <2>1. PICK ks \in Dev!KeysFor(BatchSize) : Dev!Insert(Dev!Rows(r, ks))
      BY <1>4
    <2>2. LinksOK' /\ Grows(BatchSize, job[r].id)
      BY <1>1, <1>3, <2>1, RowsMade
    <2>3. Len(links') = Len(links) + BatchSize /\ nextLink' = nextLink + BatchSize
      BY <2>2 DEF Grows
    <2> QED
      BY <1>2, <1>3, <2>2, <2>3
  <1>5. CASE UNCHANGED Dev!linkVars
    BY <1>1, <1>2, <1>3, <1>5, LinksStay DEF Dev!linkVars, Quiet
  <1> QED
    BY <1>4, <1>5 DEF Dev!CreateLinksBatch, Dev!Restore

LEMMA StoreNext == ASSUME Dev!DevStoreAssumption, StoreOK, [Dev!Next]_(Dev!vars) PROVE StoreOK'
  <1>1. CASE UNCHANGED Dev!vars
    BY <1>1, LinksStay, HandlersStay, CampaignsStay, RulesStay
    DEF Dev!vars, Dev!data, Dev!linkVars, Dev!campVars, Dev!ruleVars, StoreOK
  <1>2. CASE Dev!CreateCampaign \/ Dev!CreateRule
    BY <1>2, CreateCampaignStep, CreateRuleStep
  <1>3. CASE \E i \in DOMAIN campaigns : Dev!DeleteCampaign(i)
    BY <1>3, DeleteCampaignStep
  <1>4. CASE \E i \in DOMAIN rules : Dev!ChangeRule(i)
    BY <1>4, ChangeRuleStep
  <1>5. CASE \E j \in DOMAIN links : Dev!UpdateLink(j) \/ Dev!DeactivateLink(j)
    BY <1>5, LinkCallStep
  <1>6. CASE \E r \in Handler : Dev!Handle(r)
    <2>1. PICK r \in Handler : Dev!Handle(r)
      BY <1>6
    <2>2. CASE Dev!Create(r) \/ Dev!Resolve(r) \/ Dev!BatchCreateLinks(r)
      BY <2>2, AsksStep
    <2>3. CASE Dev!Filter(r) \/ Dev!CheckRows(r)
      BY <2>3, FilterStep
    <2>4. CASE Dev!CreateLink(r) \/ Dev!CreateOrReactivateLink(r) \/ Dev!CreateDeniedLink(r)
      BY <2>4, OneCreateStep
    <2>5. CASE Dev!AssignLinkToCampaign(r) \/ Dev!UnassignLinkFromCampaign(r)
      BY <2>5, MoveStep
    <2>6. CASE Dev!CreateLinksBatch(r)
      BY <2>6, BatchStep
    <2>7. CASE Dev!Patch(r) \/ Dev!UpdateCampaign(r)
      BY <2>7, PatchStep, UpdateCampaignStep
    <2> QED
      BY <2>1, <2>2, <2>3, <2>4, <2>5, <2>6, <2>7 DEF Dev!Handle
  <1> QED
    BY <1>1, <1>2, <1>3, <1>4, <1>5, <1>6 DEF Dev!Next

\* In every store that starts with the two samples, ids, keys and the verdict on
\* a denied link stay right under any number of handlers and calls.
THEOREM DevStoreInvariant == ASSUME Dev!DevStoreAssumption PROVE Dev!Spec => []Dev!StoreInv
  <1>1. Dev!Init => StoreOK
    BY StoreInit
  <1>2. StoreOK /\ [Dev!Next]_(Dev!vars) => StoreOK'
    BY StoreNext
  <1>3. Dev!Spec => []StoreOK
    BY <1>1, <1>2, PTL DEF Dev!Spec
  <1> QED
    BY <1>3, StoreIsInv, PTL

\* Only a batch takes a handler from its last stage, and it leaves all rows or none.
LEMMA OnlyBatch ==
  ASSUME StoreOK, Dev!Next, NEW r \in Handler, stage[r] = "batch", stage'[r] = "idle"
  PROVE  Dev!CreateLinksBatch(r)
  <1>1. stage' # stage
    OBVIOUS
  <1>2. PICK e \in Handler : Dev!Handle(e)
    BY <1>1 DEF Dev!Next, Dev!CreateCampaign, Dev!CreateRule, Dev!DeleteCampaign,
       Dev!ChangeRule, Dev!UpdateLink, Dev!DeactivateLink
  <1>3. \E l : Dev!Goto(e, l)
    BY <1>2 DEF Dev!Handle, Dev!Create, Dev!Filter, Dev!CreateLink, Dev!CreateOrReactivateLink,
       Dev!CreateDeniedLink, Dev!Resolve, Dev!AssignLinkToCampaign, Dev!UnassignLinkFromCampaign,
       Dev!BatchCreateLinks, Dev!CheckRows, Dev!CreateLinksBatch, Dev!Patch,
       Dev!UpdateCampaign, Dev!Answer
  <1>4. e = r
    BY <1>3 DEF Dev!Goto
  <1> QED
    BY <1>2, <1>4 DEF Dev!Handle, Dev!Create, Dev!Filter, Dev!CreateLink,
       Dev!CreateOrReactivateLink, Dev!CreateDeniedLink, Dev!Resolve, Dev!AssignLinkToCampaign,
       Dev!UnassignLinkFromCampaign, Dev!BatchCreateLinks, Dev!CheckRows, Dev!Patch,
       Dev!UpdateCampaign

THEOREM DevBatchWhole == ASSUME Dev!DevStoreAssumption PROVE Dev!Spec => Dev!BatchWhole
  <1> DEFINE Whole == \A r \in Handler : stage[r] = "batch" /\ stage'[r] = "idle" =>
                        /\ Len(links') \in {Len(links), Len(links) + BatchSize}
                        /\ nextLink' - nextLink = Len(links') - Len(links)
  <1>1. StoreOK /\ [Dev!Next]_(Dev!vars) => [Whole]_(Dev!vars)
    <2> SUFFICES ASSUME StoreOK, Dev!Next, NEW r \in Handler, stage[r] = "batch", stage'[r] = "idle"
                 PROVE  /\ Len(links') \in {Len(links), Len(links) + BatchSize}
                        /\ nextLink' - nextLink = Len(links') - Len(links)
      OBVIOUS
    <2>1. Dev!CreateLinksBatch(r)
      BY OnlyBatch
    <2> QED
      BY <2>1, BatchStep
  <1>2. Dev!Init => StoreOK
    BY StoreInit
  <1>3. StoreOK /\ [Dev!Next]_(Dev!vars) => StoreOK'
    BY StoreNext
  <1>4. Dev!Spec => [][Whole]_(Dev!vars)
    BY <1>1, <1>2, <1>3, PTL DEF Dev!Spec
  <1> QED
    BY <1>4 DEF Dev!BatchWhole

------------------------------------------------------------------------------
(* Where DevStore leaves CampaignBoard *)

BoardCamp ==
  [c \in 1 .. MaxCalls |->
      LET S == {i \in DOMAIN campaigns : campaigns[i].id = c}
      IN  IF S = {} THEN None
          ELSE [slug |-> campaigns[CHOOSE i \in S : TRUE].slug,
                detail |-> campaigns[CHOOSE i \in S : TRUE].detail]]
BoardAt ==
  [l \in 1 .. MaxLink |-> IF l <= Len(links) THEN links[l].camp ELSE Absent]

B == INSTANCE CampaignBoard WITH
    Campaign <- 1 .. MaxCalls, Link <- 1 .. MaxLink, Slug <- Dev!Slug, Detail <- Dev!Window,
    camp <- BoardCamp, at <- BoardAt

LEMMA SameBoard ==
  /\ B!Init => Dev!Board!Init
  /\ B!Next => Dev!Board!Next
  /\ B!vars' = B!vars => Dev!Board!vars' = Dev!Board!vars
  <1>1. B!Init => Dev!Board!Init
    BY DEF B!Init, B!Live, Dev!Board!Init, Dev!Board!Live, BoardCamp, BoardAt
  <1>2. B!Next => Dev!Board!Next
    BY Zenon DEF B!Next, B!Create, B!Edit, B!Delete, B!Assign, B!Unassign, B!AddLinks, B!Live,
       Dev!Board!Next, Dev!Board!Create, Dev!Board!Edit, Dev!Board!Delete, Dev!Board!Assign,
       Dev!Board!Unassign, Dev!Board!AddLinks, Dev!Board!Live, BoardCamp, BoardAt
  <1>3. B!vars' = B!vars => Dev!Board!vars' = Dev!Board!vars
    BY DEF B!vars, Dev!Board!vars, BoardCamp, BoardAt
  <1> QED
    BY <1>1, <1>2, <1>3

\* Both functions of the board, point by point.
BoardOK ==
  /\ BoardCamp = [c \in 1 .. MaxCalls |-> BoardCamp[c]]
  /\ \A i \in 1 .. Len(campaigns) :
        BoardCamp[campaigns[i].id] = [slug |-> campaigns[i].slug, detail |-> campaigns[i].detail]
  /\ \A c \in 1 .. MaxCalls : BoardCamp[c] = None <=> c \notin Dev!CampaignIds
  /\ BoardAt = [l \in 1 .. MaxLink |-> BoardAt[l]]
  /\ \A l \in 1 .. MaxLink :
        BoardAt[l] = IF l <= Len(links) THEN links[l].camp ELSE Absent

LEMMA BoardIs == ASSUME Dev!DevStoreAssumption, StoreOK PROVE BoardOK
  <1> DEFINE Of(c) == {i \in DOMAIN campaigns : campaigns[i].id = c}
             row(i) == [slug |-> campaigns[i].slug, detail |-> campaigns[i].detail]
  <1>1. PICK n \in Nat : n = Len(campaigns) /\ DOMAIN campaigns = 1 .. n
    BY StoreFacts
  <1>2. /\ \A i \in 1 .. n : campaigns[i] \in DevCampaign
        /\ \A i, j \in 1 .. n : i < j => campaigns[i].id < campaigns[j].id
    BY <1>1, StoreFacts DEF StoreOK, CampaignsOK
  <1>3. \A i, j \in 1 .. n : campaigns[i].id = campaigns[j].id => i = j
    <2> SUFFICES ASSUME NEW i \in 1 .. n, NEW j \in 1 .. n, campaigns[i].id = campaigns[j].id
                 PROVE  i = j
      OBVIOUS
    <2>1. campaigns[i].id \in Nat /\ campaigns[j].id \in Nat
      BY <1>2 DEF DevCampaign
    <2>2. ~(i < j) /\ ~(j < i)
      BY <1>2, <2>1
    <2> QED
      BY <2>2
  <1>4. \A c \in 1 .. MaxCalls :
          BoardCamp[c] = IF Of(c) = {} THEN None ELSE row(CHOOSE i \in Of(c) : TRUE)
    BY DEF BoardCamp
  <1>5. \A i \in 1 .. n : /\ campaigns[i].id \in 1 .. MaxCalls /\ Of(campaigns[i].id) = {i}
                          /\ row(i) # None
    <2> SUFFICES ASSUME NEW i \in 1 .. n
                 PROVE  /\ campaigns[i].id \in 1 .. MaxCalls /\ Of(campaigns[i].id) = {i}
                        /\ row(i) # None
      OBVIOUS
    <2>1. campaigns[i].id \in 1 .. MaxCalls
      BY <1>2 DEF DevCampaign
    <2>2. Of(campaigns[i].id) = {i}
      BY <1>1, <1>3
    <2>3. row(i) \in [slug : 1 .. MaxSlug, detail : Dev!Dates]
      BY <1>2 DEF DevCampaign, Dev!Slug
    <2> HIDE DEF row, Of
    <2>4. row(i) # None
      BY <2>3 DEF Dev!DevStoreAssumption
    <2> QED
      BY <2>1, <2>2, <2>4
  <1>6. \A c \in 1 .. MaxCalls : Of(c) = {} <=> c \notin Dev!CampaignIds
    BY DEF Dev!CampaignIds
  <1>7. \A c \in Dev!CampaignIds : \E i \in 1 .. n : campaigns[i].id = c
    BY <1>1 DEF Dev!CampaignIds
  <1>8. \A i \in 1 .. n : campaigns[i].id \in Dev!CampaignIds
    BY <1>1 DEF Dev!CampaignIds
  <1> HIDE DEF Of, row
  <1>9. ASSUME NEW i \in 1 .. n PROVE BoardCamp[campaigns[i].id] = row(i)
    <2>1. Of(campaigns[i].id) = {i} /\ campaigns[i].id \in 1 .. MaxCalls
      BY <1>5
    <2>2. (CHOOSE j \in {i} : TRUE) = i
      OBVIOUS
    <2> QED
      BY <1>4, <2>1, <2>2
  <1>10. ASSUME NEW c \in 1 .. MaxCalls PROVE BoardCamp[c] = None <=> c \notin Dev!CampaignIds
    <2>1. CASE c \in Dev!CampaignIds
      <3>1. PICK i \in 1 .. n : campaigns[i].id = c
        BY <1>7, <2>1
      <3> QED
        BY <1>5, <1>9, <2>1, <3>1
    <2>2. CASE c \notin Dev!CampaignIds
      BY <1>4, <1>6, <2>2
    <2> QED
      BY <2>1, <2>2
  <1>11. BoardCamp = [c \in 1 .. MaxCalls |-> BoardCamp[c]]
    BY DEF BoardCamp
  <1>12. BoardAt = [l \in 1 .. MaxLink |-> BoardAt[l]]
    BY DEF BoardAt
  <1>13. \A l \in 1 .. MaxLink :
           BoardAt[l] = IF l <= Len(links) THEN links[l].camp ELSE Absent
    BY DEF BoardAt
  <1> QED
    BY <1>1, <1>9, <1>10, <1>11, <1>12, <1>13 DEF BoardOK, row

LEMMA LinksFit ==
  ASSUME Dev!DevStoreAssumption, StoreOK PROVE Len(links) \in Nat /\ Len(links) <= MaxLink
  <1>1. Len(links) \in Nat
    BY StoreFacts
  <1>2. CASE Len(links) = 0
    BY <1>2 DEF Dev!DevStoreAssumption
  <1>3. CASE Len(links) # 0
    <2>1. LinkOK(links[Len(links)], Len(links))
      BY <1>1, <1>3 DEF StoreOK, LinksOK
    <2> QED
      BY <1>1, <2>1 DEF LinkOK, DevLink
  <1> QED
    BY <1>1, <1>2, <1>3

LEMMA SeenQuiet ==
  ASSUME Dev!DevStoreAssumption, StoreOK, BoardOK, BoardOK', Quiet
  PROVE  B!vars' = B!vars
  <1>1. BoardCamp' = BoardCamp
    BY DEF Quiet, BoardCamp
  <1>2. ASSUME NEW l \in 1 .. MaxLink PROVE BoardAt'[l] = BoardAt[l]
    <2>1. BoardAt[l] = IF l <= Len(links) THEN links[l].camp ELSE Absent
      BY DEF BoardOK
    <2>2. BoardAt'[l] = IF l <= Len(links) THEN links'[l].camp ELSE Absent
      BY DEF BoardOK, Quiet
    <2>3. l <= Len(links) => links'[l].camp = links[l].camp
      BY LinksFit DEF Quiet
    <2> QED
      BY <2>1, <2>2, <2>3
  <1>3. BoardAt' = BoardAt
    BY <1>2 DEF BoardOK
  <1> QED
    BY <1>1, <1>3 DEF B!vars

\* No new campaign, no new id.
LEMMA NoNewId == Dev!CampaignIds' \subseteq Dev!CampaignIds => Dev!NewIdUnused
  BY DEF Dev!CampaignIds, Dev!NewIdUnused

LEMMA SameCampaigns ==
  ASSUME campaigns' = campaigns PROVE BoardCamp' = BoardCamp /\ Dev!NewIdUnused
  BY NoNewId DEF BoardCamp, Dev!CampaignIds

\* A link is put where the board may put it, or stays where it is.
LEMMA SeenPuts ==
  ASSUME Dev!DevStoreAssumption, StoreOK, BoardOK, BoardOK', NEW i \in 1 .. Len(links),
         NEW c \in Dev!CampaignIds \cup {None, links[i].camp}, Puts(i, c)
  PROVE  B!Next \/ B!vars' = B!vars
  <1>1. BoardCamp' = BoardCamp
    BY SameCampaigns DEF Puts
  <1>2. i \in 1 .. MaxLink /\ i <= Len(links)
    BY LinksFit DEF Dev!DevStoreAssumption
  <1>3. ASSUME NEW l \in 1 .. MaxLink
        PROVE  BoardAt'[l] = IF l = i THEN c ELSE BoardAt[l]
    <2>1. BoardAt[l] = IF l <= Len(links) THEN links[l].camp ELSE Absent
      BY DEF BoardOK
    <2>2. BoardAt'[l] = IF l <= Len(links) THEN links'[l].camp ELSE Absent
      BY DEF BoardOK, Puts
    <2>3. l <= Len(links) => links'[l].camp = IF l = i THEN c ELSE links[l].camp
      BY LinksFit DEF Puts
    <2> QED
      BY <1>2, <2>1, <2>2, <2>3
  <1>4. /\ BoardAt = [l \in 1 .. MaxLink |-> BoardAt[l]]
        /\ BoardAt' = [l \in 1 .. MaxLink |-> BoardAt'[l]]
    BY DEF BoardOK
  <1>5. BoardAt' = [BoardAt EXCEPT ![i] = c]
    BY <1>2, <1>3, <1>4
  <1>6. BoardAt[i] = links[i].camp /\ BoardAt[i] \in (1 .. MaxCalls) \cup {None}
    BY <1>2 DEF BoardOK, StoreOK, LinksOK, LinkOK, DevLink
  <1>7. BoardAt[i] # Absent
    BY <1>6 DEF Dev!DevStoreAssumption
  <1>8. CASE c \in Dev!CampaignIds
    <2>1. c \in 1 .. MaxCalls /\ BoardCamp[c] # None
      BY <1>8, CampaignIdsAre DEF BoardOK
    <2>2. B!Assign(i, c)
      BY <1>1, <1>5, <1>7, <2>1 DEF B!Assign, B!Live
    <2> QED
      BY <1>2, <2>1, <2>2 DEF B!Next
  <1>9. CASE c = None /\ BoardAt[i] \in 1 .. MaxCalls
    <2>1. B!Unassign(i)
      BY <1>1, <1>5, <1>9 DEF B!Unassign
    <2> QED
      BY <1>2, <2>1 DEF B!Next
  <1>10. CASE c = BoardAt[i]
    <2>1. BoardAt' = BoardAt
      BY <1>4, <1>5, <1>10
    <2> QED
      BY <1>1, <2>1 DEF B!vars
  <1> QED
    BY <1>6, <1>8, <1>9, <1>10

LEMMA SeenGrows ==
  ASSUME Dev!DevStoreAssumption, StoreOK, BoardOK, BoardOK', Len(links') <= MaxLink,
         NEW n \in Nat, NEW c \in Dev!CampaignIds \cup {None}, Grows(n, c)
  PROVE  B!Next
  <1>1. BoardCamp' = BoardCamp
    BY SameCampaigns DEF Grows
  <1>2. PICK len \in Nat : len = Len(links) /\ len + n <= MaxLink /\ Len(links') = len + n
    BY LinksFit DEF Grows
  <1> DEFINE S == len + 1 .. len + n
  <1>3. S \in SUBSET (1 .. MaxLink)
    BY <1>2 DEF Dev!DevStoreAssumption
  <1>4. ASSUME NEW l \in 1 .. MaxLink
        PROVE  /\ BoardAt'[l] = IF l \in S THEN c ELSE BoardAt[l]
               /\ l \in S => BoardAt[l] = Absent
    <2>1. BoardAt[l] = IF l <= len THEN links[l].camp ELSE Absent
      BY <1>2 DEF BoardOK
    <2>2. BoardAt'[l] = IF l <= len + n THEN links'[l].camp ELSE Absent
      BY <1>2 DEF BoardOK
    <2>3. CASE l <= len
      <3>1. links'[l] = links[l] /\ l <= len + n /\ l \notin S
        BY <1>2, <2>3 DEF Grows
      <3> QED
        BY <2>1, <2>2, <2>3, <3>1
    <2>4. CASE l \in S
      <3>1. links'[l].camp = c /\ l <= len + n /\ ~(l <= len)
        BY <1>2, <2>4 DEF Grows
      <3> QED
        BY <2>1, <2>2, <2>4, <3>1
    <2>5. CASE ~(l <= len + n)
      BY <1>2, <2>1, <2>2, <2>5
    <2> QED
      BY <1>2, <2>3, <2>4, <2>5
  <1>5. BoardAt' = [l \in 1 .. MaxLink |-> IF l \in S THEN c ELSE BoardAt[l]]
    BY <1>4 DEF BoardOK
  <1>6. c \in (1 .. MaxCalls) \cup {None} /\ c \in B!Live \cup {None}
    BY CampaignIdsAre DEF BoardOK, B!Live
  <1> HIDE DEF S
  <1>7. \A l \in S : BoardAt[l] = Absent
    BY <1>3, <1>4
  <1>8. B!AddLinks(S, c)
    BY <1>1, <1>5, <1>6, <1>7 DEF B!AddLinks
  <1> QED
    BY <1>3, <1>6, <1>8 DEF B!Next

\* Otherwise the handler's campaign is gone, and it moves links into that one.
LEMMA SeenStale ==
  ASSUME StoreOK, StoreOK', NEW r \in Handler, stage[r] # "idle", Dev!Answer(r),
         job[r].id \notin Dev!CampaignIds \cup {None},
         \/ \E n \in Nat : Grows(n, job[r].id)
         \/ \E i \in 1 .. Len(links) : Puts(i, job[r].id)
  PROVE  Dev!StaleMove(r)
  <1>1. stage'[r] = "idle"
    BY DEF Dev!Answer, Dev!Goto, StoreOK, HandlersOK
  <1>2. campaigns' = campaigns
    BY DEF Grows, Puts
  <1>3. PICK len \in Nat : len = Len(links) /\ DOMAIN links = 1 .. len
    BY StoreFacts
  <1> DEFINE Into(j) == \/ links'[j].camp = job[r].id
                        \/ j \in DOMAIN links /\ links'[j].camp = links[j].camp
  <1>4. ASSUME NEW n \in Nat, Grows(n, job[r].id), NEW j \in 1 .. Len(links') PROVE Into(j)
    <2>1. j \in 1 .. len \/ j \in len + 1 .. len + n
      BY <1>3, <1>4 DEF Grows
    <2> QED
      BY <1>3, <1>4, <2>1 DEF Grows
  <1>5. ASSUME NEW i \in 1 .. Len(links), Puts(i, job[r].id), NEW j \in 1 .. Len(links')
        PROVE  Into(j)
    BY <1>3, <1>5 DEF Puts
  <1>6. ASSUME NEW j \in 1 .. Len(links') PROVE Into(j)
    BY <1>4, <1>5
  <1>7. DOMAIN links' = 1 .. Len(links')
    BY LenProperties DEF StoreOK, LinksOK
  <1> QED
    BY <1>1, <1>2, <1>6, <1>7 DEF Dev!StaleMove

LEMMA SeenCreate ==
  ASSUME Dev!DevStoreAssumption, StoreOK, StoreOK', BoardOK, BoardOK', Dev!CreateCampaign
  PROVE  B!Next /\ Dev!NewIdUnused
  <1>1. PICK n \in Nat : n = Len(campaigns) /\ DOMAIN campaigns = 1 .. n
    BY StoreFacts
  <1>2. PICK s \in Dev!Slug, w \in Dev!Window :
          /\ ~Dev!Taken(s)
          /\ campaigns' = Append(campaigns, [id |-> nextCampaign, slug |-> s, detail |-> w])
    BY DEF Dev!CreateCampaign, Dev!Fresh
  <1>3. PICK c \in 1 .. MaxCalls : c = nextCampaign
    BY DEF Dev!CreateCampaign, Dev!DevStoreAssumption, Dev!Call, StoreOK, CampaignsOK
  <1>4. PICK new \in DevCampaign : new = [id |-> c, slug |-> s, detail |-> w]
    <2>1. [id |-> c, slug |-> s, detail |-> w] \in DevCampaign
      BY DEF DevCampaign, Dev!Window
    <2> QED
      BY <2>1
  <1>5. campaigns \in Seq(DevCampaign)
    BY DEF StoreOK, CampaignsOK
  <1>6. /\ Len(campaigns') = n + 1
        /\ \A i \in 1 .. n : campaigns'[i] = campaigns[i]
        /\ campaigns'[n + 1] = new
    <2>1. campaigns' = Append(campaigns, new)
      BY <1>2, <1>3, <1>4
    <2> QED
      BY <1>1, <1>5, <2>1, AppendProperties
  <1>7. c \notin Dev!CampaignIds
    <2>1. \A i \in 1 .. n : campaigns[i].id \in Nat
      BY <1>1, StoreFacts DEF DevCampaign
    <2>2. \A i \in 1 .. n : campaigns[i].id < c
      BY <1>1, <1>3 DEF StoreOK, CampaignsOK
    <2>3. \A i \in 1 .. n : campaigns[i].id # c
      BY <2>1, <2>2
    <2> QED
      BY <1>1, <2>3 DEF Dev!CampaignIds
  <1>8. Dev!CampaignIds' = Dev!CampaignIds \cup {c}
    <2>1. DOMAIN campaigns' = 1 .. n + 1
      BY <1>6, LenProperties DEF StoreOK, CampaignsOK
    <2>2. Dev!CampaignIds' = {campaigns'[i].id : i \in 1 .. n + 1}
      BY <2>1 DEF Dev!CampaignIds
    <2>3. Dev!CampaignIds = {campaigns[i].id : i \in 1 .. n}
      BY <1>1 DEF Dev!CampaignIds
    <2>4. new.id = c /\ \A i \in 1 .. n + 1 : i \in 1 .. n \/ i = n + 1
      BY <1>4
    <2>5. \A i \in 1 .. n : i \in 1 .. n + 1
      OBVIOUS
    <2> QED
      BY <1>6, <2>2, <2>3, <2>4, <2>5
  <1>9. ASSUME NEW d \in 1 .. MaxCalls, d \in Dev!CampaignIds
        PROVE  BoardCamp[d].slug # s /\ BoardCamp'[d] = BoardCamp[d] /\ d # c
    <2>1. PICK i \in 1 .. n : campaigns[i].id = d
      BY <1>1, <1>9 DEF Dev!CampaignIds
    <2>2. BoardCamp[d] = [slug |-> campaigns[i].slug, detail |-> campaigns[i].detail]
      BY <1>1, <2>1 DEF BoardOK
    <2>3. i \in 1 .. Len(campaigns') /\ campaigns'[i] = campaigns[i]
      BY <1>6
    <2>4. BoardCamp'[campaigns'[i].id] =
            [slug |-> campaigns'[i].slug, detail |-> campaigns'[i].detail]
      BY <2>3 DEF BoardOK
    <2>5. BoardCamp'[d] = BoardCamp[d]
      BY <2>1, <2>2, <2>3, <2>4
    <2>6. campaigns[i].slug # s
      BY <1>1, <1>2 DEF Dev!Taken
    <2> QED
      BY <1>7, <1>9, <2>2, <2>5, <2>6
  <1>10. BoardCamp'[c] = [slug |-> s, detail |-> w]
    <2>1. n + 1 \in 1 .. Len(campaigns')
      BY <1>6
    <2>2. BoardCamp'[campaigns'[n + 1].id] =
            [slug |-> campaigns'[n + 1].slug, detail |-> campaigns'[n + 1].detail]
      BY <2>1 DEF BoardOK
    <2> QED
      BY <1>4, <1>6, <2>2
  <1>11. ASSUME NEW d \in 1 .. MaxCalls, d \notin Dev!CampaignIds, d # c
         PROVE  BoardCamp'[d] = BoardCamp[d]
    BY <1>8, <1>11 DEF BoardOK
  <1>12. BoardCamp' = [BoardCamp EXCEPT ![c] = [slug |-> s, detail |-> w]]
    BY <1>9, <1>10, <1>11 DEF BoardOK
  <1>13. \A j \in DOMAIN links : links[j].camp # c
    <2> SUFFICES ASSUME NEW j \in DOMAIN links PROVE links[j].camp # c
      OBVIOUS
    <2>1. LinkOK(links[j], j)
      BY StoreFacts DEF StoreOK, LinksOK
    <2> QED
      BY <1>3, <2>1 DEF LinkOK, Made, Dev!DevStoreAssumption
  <1>14. Dev!NewIdUnused
    <2> SUFFICES ASSUME NEW i \in DOMAIN campaigns', campaigns'[i].id \notin Dev!CampaignIds
                 PROVE  \A j \in DOMAIN links : links[j].camp # campaigns'[i].id
      BY DEF Dev!NewIdUnused
    <2>1. campaigns'[i].id \in Dev!CampaignIds'
      BY DEF Dev!CampaignIds
    <2> QED
      BY <1>8, <1>13, <2>1
  <1>15. BoardAt' = BoardAt
    BY DEF Dev!CreateCampaign, Dev!linkVars, BoardAt
  <1>16. BoardCamp[c] = None
    BY <1>7 DEF BoardOK
  <1>17. \A d \in B!Live : BoardCamp[d].slug # s
    BY <1>9 DEF B!Live, BoardOK
  <1>18. B!Create(c)
    BY <1>12, <1>15, <1>16, <1>17 DEF B!Create
  <1> QED
    BY <1>14, <1>18 DEF B!Next

LEMMA DetailPut ==
  ASSUME NEW S, NEW D, NEW a \in S, NEW b \in D, NEW w \in D
  PROVE  [[slug |-> a, detail |-> b] EXCEPT !.detail = w] = [slug |-> a, detail |-> w]
  <1> DEFINE Rows == [slug : S, detail : D]
  <1>1. PICK old \in Rows : old = [slug |-> a, detail |-> b] /\ old.slug = a
    <2>1. [slug |-> a, detail |-> b] \in Rows
      OBVIOUS
    <2> QED
      BY <2>1
  <1>2. PICK new \in Rows : new = [old EXCEPT !.detail = w]
    OBVIOUS
  <1>3. new.slug = a /\ new.detail = w
    BY <1>1, <1>2
  <1>4. new = [slug |-> a, detail |-> w]
    BY <1>3
  <1> QED
    BY <1>1, <1>2, <1>4

\* Dates in order are the board's edit.
LEMMA SeenEdit ==
  ASSUME Dev!DevStoreAssumption, StoreOK, StoreOK', BoardOK, BoardOK',
         NEW i \in DOMAIN campaigns, NEW w \in Dev!Window,
         campaigns' = [campaigns EXCEPT ![i].detail = w], links' = links
  PROVE  B!Next /\ Dev!NewIdUnused
  <1>1. PICK n \in Nat : n = Len(campaigns) /\ DOMAIN campaigns = 1 .. n
    BY StoreFacts
  <1>2. campaigns' = [campaigns EXCEPT ![i] = [campaigns[i] EXCEPT !.detail = w]]
    OBVIOUS
  <1>3. \A j \in 1 .. n : campaigns[j] \in DevCampaign
    BY <1>1, StoreFacts
  <1>4. /\ DOMAIN campaigns' = 1 .. n
        /\ \A j \in 1 .. n : /\ campaigns'[j].id = campaigns[j].id
                             /\ campaigns'[j].slug = campaigns[j].slug
                             /\ campaigns'[j].detail = (IF j = i THEN w ELSE campaigns[j].detail)
    BY <1>1, <1>2, <1>3 DEF DevCampaign
  <1>5. Len(campaigns') = n
    <2>1. DOMAIN campaigns' = 1 .. Len(campaigns') /\ Len(campaigns') \in Nat
      BY LenProperties DEF StoreOK, CampaignsOK
    <2> QED
      BY <1>4, <2>1
  <1>6. Dev!CampaignIds' = Dev!CampaignIds
    <2>1. Dev!CampaignIds' = {campaigns'[j].id : j \in 1 .. n}
      BY <1>4 DEF Dev!CampaignIds
    <2>2. Dev!CampaignIds = {campaigns[j].id : j \in 1 .. n}
      BY <1>1 DEF Dev!CampaignIds
    <2>3. \A j \in 1 .. n : campaigns'[j].id = campaigns[j].id
      BY <1>4
    <2> QED
      BY <2>1, <2>2, <2>3
  <1>7. PICK c \in 1 .. MaxCalls : c = campaigns[i].id
    BY <1>1, <1>3 DEF DevCampaign
  <1>8. \A j, k \in 1 .. n : campaigns[j].id = campaigns[k].id => j = k
    <2> SUFFICES ASSUME NEW j \in 1 .. n, NEW k \in 1 .. n, campaigns[j].id = campaigns[k].id
                 PROVE  j = k
      OBVIOUS
    <2>1. campaigns[j].id \in Nat /\ campaigns[k].id \in Nat
      BY <1>3 DEF DevCampaign
    <2>2. ~(j < k) /\ ~(k < j)
      BY <1>1, <2>1 DEF StoreOK, CampaignsOK
    <2> QED
      BY <2>2
  <1>9. \A j \in 1 .. n : /\ BoardCamp[campaigns[j].id] =
                               [slug |-> campaigns[j].slug, detail |-> campaigns[j].detail]
                          /\ BoardCamp'[campaigns'[j].id] =
                               [slug |-> campaigns'[j].slug, detail |-> campaigns'[j].detail]
    BY <1>1, <1>5 DEF BoardOK
  <1>10. BoardCamp'[c] = [BoardCamp[c] EXCEPT !.detail = w]
    <2>1. i \in 1 .. n
      BY <1>1
    <2>2. /\ BoardCamp[c] = [slug |-> campaigns[i].slug, detail |-> campaigns[i].detail]
          /\ BoardCamp'[c] = [slug |-> campaigns[i].slug, detail |-> w]
      BY <1>4, <1>7, <1>9, <2>1
    <2>3. campaigns[i].slug \in Dev!Slug /\ campaigns[i].detail \in Dev!Dates /\ w \in Dev!Dates
      BY <1>3, <2>1 DEF DevCampaign, Dev!Window
    <2> QED
      BY <2>2, <2>3, DetailPut
  <1>11. ASSUME NEW d \in 1 .. MaxCalls, d # c PROVE BoardCamp'[d] = BoardCamp[d]
    <2>1. CASE d \in Dev!CampaignIds
      <3>1. PICK j \in 1 .. n : campaigns[j].id = d
        BY <1>1, <2>1 DEF Dev!CampaignIds
      <3>2. j # i
        BY <1>7, <1>11, <3>1
      <3>3. /\ campaigns'[j].id = d /\ campaigns'[j].slug = campaigns[j].slug
            /\ campaigns'[j].detail = campaigns[j].detail
        BY <1>4, <3>1, <3>2
      <3>4. /\ BoardCamp[d] = [slug |-> campaigns[j].slug, detail |-> campaigns[j].detail]
            /\ BoardCamp'[d] = [slug |-> campaigns'[j].slug, detail |-> campaigns'[j].detail]
        BY <1>9, <3>1, <3>3
      <3> QED
        BY <3>3, <3>4
    <2>2. CASE d \notin Dev!CampaignIds
      BY <1>6, <2>2 DEF BoardOK
    <2> QED
      BY <2>1, <2>2
  <1>12. BoardCamp' = [BoardCamp EXCEPT ![c].detail = w]
    BY <1>10, <1>11 DEF BoardOK
  <1>13. BoardAt' = BoardAt
    BY DEF BoardAt
  <1>14. c \in B!Live
    BY <1>1, <1>7 DEF B!Live, BoardOK, Dev!CampaignIds
  <1>15. B!Edit(c)
    BY <1>12, <1>13, <1>14 DEF B!Edit
  <1> QED
    BY <1>6, <1>15, NoNewId DEF B!Next

LEMMA SeenUpdate ==
  ASSUME Dev!DevStoreAssumption, StoreOK, StoreOK', BoardOK, BoardOK', NEW r \in Handler,
         Dev!UpdateCampaign(r)
  PROVE  \/ B!vars' = B!vars \/ Dev!StalePatch(r)
         \/ B!Next /\ Dev!NewIdUnused
  <1>1. links' = links /\ stage[r] = "patch" /\ Dev!Answer(r)
    BY UpdateCampaignStep DEF Dev!UpdateCampaign
  <1>2. CASE campaigns' = campaigns
    BY <1>1, <1>2, SeenQuiet DEF Quiet
  <1>3. CASE campaigns' # campaigns
    <2>1. PICK i \in DOMAIN campaigns :
            /\ campaigns[i].slug = job[r].patch.slug
            /\ Dev!Merge(campaigns[i].detail, job[r].patch.change) \in Dev!Dates
            /\ campaigns' = [campaigns EXCEPT ![i].detail =
                                Dev!Merge(campaigns[i].detail, job[r].patch.change)]
      BY <1>3, UpdateCampaignStep
    <2>2. PICK w \in Dev!Dates : w = Dev!Merge(campaigns[i].detail, job[r].patch.change)
      BY <2>1
    <2>3. CASE Dev!Ordered(w)
      <3>1. w \in Dev!Window
        BY <2>3 DEF Dev!Window
      <3>2. campaigns' = [campaigns EXCEPT ![i].detail = w]
        BY <2>1, <2>2
      <3> QED
        BY <1>1, <3>1, <3>2, SeenEdit
    <2>4. CASE ~Dev!Ordered(w)
      <3>1. Dev!Ordered(Dev!Merge(job[r].patch.seen, job[r].patch.change))
        BY <1>1 DEF StoreOK, HandlersOK, HandlerOK, Judged
      <3>2. campaigns[i].detail # job[r].patch.seen
        BY <2>2, <2>4, <3>1
      <3>3. stage'[r] = "idle"
        BY <1>1 DEF Dev!Answer, Dev!Goto, StoreOK, HandlersOK
      <3>4. Dev!StalePatch(r)
        BY <1>1, <2>1, <2>2, <2>4, <3>2, <3>3 DEF Dev!StalePatch
      <3> QED
        BY <3>4
    <2> QED
      BY <2>3, <2>4
  <1> QED
    BY <1>2, <1>3

LEMMA SeenDelete ==
  ASSUME Dev!DevStoreAssumption, StoreOK, StoreOK', BoardOK, BoardOK',
         NEW i \in DOMAIN campaigns, Dev!DeleteCampaign(i)
  PROVE  B!Next /\ Dev!NewIdUnused
  <1>1. PICK n \in Nat : n = Len(campaigns) /\ DOMAIN campaigns = 1 .. n
    BY StoreFacts
  <1>2. links' = Dev!Freed(campaigns[i].id) /\ campaigns' = Dev!RemoveAt(campaigns, i)
    BY DEF Dev!DeleteCampaign
  <1>3. campaigns \in Seq(DevCampaign) /\ \A j \in 1 .. n : campaigns[j] \in DevCampaign
    BY <1>1, StoreFacts DEF StoreOK, CampaignsOK
  <1>4. /\ Len(campaigns') = n - 1 /\ DOMAIN campaigns' = 1 .. n - 1
        /\ \A j \in 1 .. n - 1 : campaigns'[j] = IF j < i THEN campaigns[j] ELSE campaigns[j + 1]
    <2>1. i \in 1 .. Len(campaigns)
      BY <1>1
    <2>2. /\ campaigns' \in Seq(DevCampaign) /\ Len(campaigns') = n - 1
          /\ \A j \in 1 .. n - 1 : campaigns'[j] = IF j < i THEN campaigns[j] ELSE campaigns[j + 1]
      BY <1>1, <1>2, <1>3, <2>1, RemoveAtIs
    <2> QED
      BY <2>2, LenProperties
  <1>5. PICK c \in 1 .. MaxCalls : c = campaigns[i].id
    BY <1>1, <1>3 DEF DevCampaign
  <1>6. \A j \in 1 .. n - 1 : \E k \in 1 .. n : k # i /\ campaigns'[j] = campaigns[k]
    <2> SUFFICES ASSUME NEW j \in 1 .. n - 1
                 PROVE  \E k \in 1 .. n : k # i /\ campaigns'[j] = campaigns[k]
      OBVIOUS
    <2>1. j \in 1 .. n /\ j + 1 \in 1 .. n
      BY <1>1
    <2>2. CASE j < i
      BY <1>1, <1>4, <2>1, <2>2
    <2>3. CASE ~(j < i)
      <3>1. j + 1 # i
        BY <1>1, <2>3
      <3> QED
        BY <1>4, <2>1, <2>3, <3>1
    <2> QED
      BY <2>2, <2>3
  <1>7. \A k \in 1 .. n : k # i => \E j \in 1 .. n - 1 : campaigns'[j] = campaigns[k]
    <2> SUFFICES ASSUME NEW k \in 1 .. n, k # i
                 PROVE  \E j \in 1 .. n - 1 : campaigns'[j] = campaigns[k]
      OBVIOUS
    <2>1. CASE k < i
      <3>1. k \in 1 .. n - 1
        BY <1>1, <2>1
      <3> QED
        BY <1>4, <2>1, <3>1
    <2>2. CASE i < k
      <3>1. k - 1 \in 1 .. n - 1 /\ ~(k - 1 < i) /\ (k - 1) + 1 = k
        BY <1>1, <2>2
      <3> QED
        BY <1>4, <3>1
    <2> QED
      BY <1>1, <2>1, <2>2
  <1>8. \A k \in 1 .. n : campaigns[k].id = c => k = i
    <2> SUFFICES ASSUME NEW k \in 1 .. n, campaigns[k].id = campaigns[i].id PROVE k = i
      BY <1>5
    <2>1. campaigns[k].id \in Nat /\ campaigns[i].id \in Nat
      BY <1>1, <1>3 DEF DevCampaign
    <2>2. ~(k < i) /\ ~(i < k)
      BY <1>1, <2>1 DEF StoreOK, CampaignsOK
    <2> QED
      BY <1>1, <2>2
  <1>9. Dev!CampaignIds' = Dev!CampaignIds \ {c}
    <2>1. Dev!CampaignIds' = {campaigns'[j].id : j \in 1 .. n - 1}
      BY <1>4 DEF Dev!CampaignIds
    <2>2. Dev!CampaignIds = {campaigns[k].id : k \in 1 .. n}
      BY <1>1 DEF Dev!CampaignIds
    <2>3. Dev!CampaignIds' \subseteq Dev!CampaignIds \ {c}
      BY <1>6, <1>8, <2>1, <2>2
    <2>4. Dev!CampaignIds \ {c} \subseteq Dev!CampaignIds'
      BY <1>5, <1>7, <2>1, <2>2
    <2> QED
      BY <2>3, <2>4
  <1>10. ASSUME NEW d \in 1 .. MaxCalls
         PROVE  BoardCamp'[d] = IF d = c THEN None ELSE BoardCamp[d]
    <2>1. CASE d = c
      BY <1>9, <2>1 DEF BoardOK
    <2>2. CASE d # c /\ d \in Dev!CampaignIds
      <3>1. PICK k \in 1 .. n : campaigns[k].id = d
        BY <1>1, <2>2 DEF Dev!CampaignIds
      <3>2. PICK j \in 1 .. n - 1 : campaigns'[j] = campaigns[k]
        BY <1>5, <1>7, <2>2, <3>1
      <3>3. BoardCamp[d] = [slug |-> campaigns[k].slug, detail |-> campaigns[k].detail]
        BY <1>1, <3>1 DEF BoardOK
      <3>4. BoardCamp'[campaigns'[j].id] =
              [slug |-> campaigns'[j].slug, detail |-> campaigns'[j].detail]
        BY <1>4 DEF BoardOK
      <3> QED
        BY <2>2, <3>1, <3>2, <3>3, <3>4
    <2>3. CASE d # c /\ d \notin Dev!CampaignIds
      BY <1>9, <2>3 DEF BoardOK
    <2> QED
      BY <2>1, <2>2, <2>3
  <1>11. BoardCamp' = [BoardCamp EXCEPT ![c] = None]
    BY <1>10 DEF BoardOK
  <1>12. PICK m \in Nat : m = Len(links) /\ DOMAIN links = 1 .. m
    BY StoreFacts
  <1>13. /\ Len(links') = m
         /\ \A l \in 1 .. m : links'[l].camp = IF links[l].camp = c THEN None ELSE links[l].camp
    <2>1. \A l \in 1 .. m : links[l] \in DevLink
      BY <1>12 DEF StoreOK, LinksOK, LinkOK
    <2>2. links' = [l \in 1 .. m |-> IF links[l].camp = c THEN [links[l] EXCEPT !.camp = None]
                                     ELSE links[l]]
      BY <1>2, <1>5, <1>12 DEF Dev!Freed
    <2>3. DOMAIN links' = 1 .. Len(links') /\ Len(links') \in Nat
      BY LenProperties DEF StoreOK, LinksOK
    <2>4. DOMAIN links' = 1 .. m
      BY <2>2
    <2> QED
      BY <2>1, <2>2, <2>3, <2>4 DEF DevLink
  <1>14. ASSUME NEW l \in 1 .. MaxLink
         PROVE  BoardAt'[l] = IF BoardAt[l] = c THEN None ELSE BoardAt[l]
    <2>1. BoardAt[l] = IF l <= m THEN links[l].camp ELSE Absent
      BY <1>12 DEF BoardOK
    <2>2. BoardAt'[l] = IF l <= m THEN links'[l].camp ELSE Absent
      BY <1>13 DEF BoardOK
    <2>3. Absent # c
      BY DEF Dev!DevStoreAssumption
    <2>4. l <= m => l \in 1 .. m
      BY <1>12
    <2> QED
      BY <1>13, <2>1, <2>2, <2>3, <2>4
  <1>15. BoardAt' = [l \in 1 .. MaxLink |-> IF BoardAt[l] = c THEN None ELSE BoardAt[l]]
    BY <1>14 DEF BoardOK
  <1>16. c \in B!Live
    BY <1>1, <1>5 DEF B!Live, BoardOK, Dev!CampaignIds
  <1>17. B!Delete(c)
    BY <1>11, <1>15, <1>16 DEF B!Delete
  <1> QED
    BY <1>9, <1>17, NoNewId DEF B!Next

LEMMA SeenInit == ASSUME Dev!DevStoreAssumption, Dev!Init, BoardOK PROVE B!Init
  <1>1. campaigns = << >> /\ links = <<Dev!Sample(1, wiki, W), Dev!Sample(2, gh, G)>>
    BY DEF Dev!Init
  <1>2. Dev!CampaignIds = {}
    BY <1>1 DEF Dev!CampaignIds
  <1>3. \A c \in 1 .. MaxCalls : BoardCamp[c] = None
    BY <1>2 DEF BoardOK
  <1>4. ASSUME NEW l \in 1 .. MaxLink PROVE BoardAt[l] \in {None, Absent}
    <2>1. Len(links) = 2 /\ links[1].camp = None /\ links[2].camp = None
      BY <1>1 DEF Dev!Sample
    <2>2. l <= 2 => l = 1 \/ l = 2
      BY DEF Dev!DevStoreAssumption
    <2> QED
      BY <2>1, <2>2 DEF BoardOK
  <1> QED
    BY <1>3, <1>4 DEF BoardOK, B!Init, B!Live

\* A step of the store, in terms of the board.
Drift ==
  \/ B!Next /\ Dev!NewIdUnused
  \/ \E r \in Handler : Dev!StaleMove(r) \/ Dev!StalePatch(r)

\* A handler that writes links and leaves the campaigns alone.
LEMMA SeenHandler ==
  ASSUME Dev!DevStoreAssumption, StoreOK, StoreOK', BoardOK, BoardOK', NEW r \in Handler,
         stage[r] # "idle", Dev!Answer(r),
         \/ Quiet \/ \E n \in Nat : Grows(n, job[r].id)
         \/ \E i \in 1 .. Len(links), c \in (1 .. MaxCalls) \cup {None} :
               Puts(i, c) /\ c \in Put(i, r)
  PROVE  [Drift]_(B!vars)
  <1>1. Len(links') <= MaxLink
    <2>1. LinksOK'
      BY DEF StoreOK
    <2>2. Len(links') \in Nat
      BY <2>1, LenProperties DEF LinksOK
    <2>3. Len(links') # 0 => /\ links'[Len(links')].id \in 1 .. MaxLink
                             /\ links'[Len(links')].id = Len(links')
      BY <2>1, <2>2 DEF LinksOK, LinkOK, DevLink
    <2> QED
      BY <2>2, <2>3 DEF Dev!DevStoreAssumption
  <1>2. CASE Quiet
    BY <1>2, SeenQuiet
  <1>3. ASSUME NEW n \in Nat, Grows(n, job[r].id) PROVE [Drift]_(B!vars)
    <2>1. CASE job[r].id \in Dev!CampaignIds \cup {None}
      <3>1. B!Next
        BY <1>1, <1>3, <2>1, SeenGrows
      <3>2. Dev!NewIdUnused
        BY <1>3, SameCampaigns DEF Grows
      <3> QED
        BY <3>1, <3>2 DEF Drift
    <2>2. CASE job[r].id \notin Dev!CampaignIds \cup {None}
      BY <1>3, <2>2, SeenStale DEF Drift
    <2> QED
      BY <2>1, <2>2
  <1>4. ASSUME NEW i \in 1 .. Len(links), NEW c \in (1 .. MaxCalls) \cup {None},
               Puts(i, c), c \in Put(i, r)
        PROVE  [Drift]_(B!vars)
    <2>1. CASE c \in Dev!CampaignIds \cup {None, links[i].camp}
      <3>1. B!Next \/ B!vars' = B!vars
        BY <1>4, <2>1, SeenPuts
      <3>2. Dev!NewIdUnused
        BY <1>4, SameCampaigns DEF Puts
      <3> QED
        BY <3>1, <3>2 DEF Drift
    <2>2. CASE c \notin Dev!CampaignIds \cup {None, links[i].camp}
      <3>1. c = job[r].id
        BY <1>4, <2>2 DEF Put
      <3> QED
        BY <1>4, <2>2, <3>1, SeenStale DEF Drift
    <2> QED
      BY <2>1, <2>2
  <1> QED
    BY <1>2, <1>3, <1>4

LEMMA SeenNext ==
  ASSUME Dev!DevStoreAssumption, StoreOK, StoreOK', BoardOK, BoardOK', [Dev!Next]_(Dev!vars)
  PROVE  [Drift]_(B!vars)
  <1>1. CASE UNCHANGED <<links, campaigns>>
    <2>1. Quiet
      BY <1>1 DEF Quiet
    <2> QED
      BY <2>1, SeenQuiet
  <1>2. UNCHANGED Dev!vars \/ Dev!CreateRule \/ (\E i \in DOMAIN rules : Dev!ChangeRule(i))
        => UNCHANGED <<links, campaigns>>
    BY DEF Dev!vars, Dev!data, Dev!linkVars, Dev!campVars, Dev!CreateRule, Dev!ChangeRule
  <1>3. CASE Dev!CreateCampaign
    BY <1>3, SeenCreate DEF Drift
  <1>4. CASE \E i \in DOMAIN campaigns : Dev!DeleteCampaign(i)
    BY <1>4, SeenDelete DEF Drift
  <1>5. CASE \E j \in DOMAIN links : Dev!UpdateLink(j) \/ Dev!DeactivateLink(j)
    <2>1. Quiet
      BY <1>5, LinkCallStep DEF Quiet
    <2> QED
      BY <2>1, SeenQuiet
  <1>6. CASE \E r \in Handler : Dev!Handle(r)
    <2>1. PICK r \in Handler : Dev!Handle(r)
      BY <1>6
    <2>2. CASE \/ Dev!Create(r) \/ Dev!Resolve(r) \/ Dev!BatchCreateLinks(r)
               \/ Dev!Filter(r) \/ Dev!CheckRows(r) \/ Dev!Patch(r)
      <3>1. Dev!data' = Dev!data
        BY <2>2, AsksStep, FilterStep, PatchStep
      <3> QED
        BY <1>1, <3>1 DEF Dev!data, Dev!linkVars, Dev!campVars
    <2>3. CASE Dev!CreateLink(r) \/ Dev!CreateOrReactivateLink(r) \/ Dev!CreateDeniedLink(r)
      <3>1. /\ stage[r] # "idle" /\ Dev!Answer(r)
        BY <2>3 DEF Dev!CreateLink, Dev!CreateOrReactivateLink, Dev!CreateDeniedLink
      <3>2. \/ Quiet \/ Grows(1, job[r].id)
            \/ \E i \in 1 .. Len(links), c \in (1 .. MaxCalls) \cup {None} :
                  Puts(i, c) /\ c \in Put(i, r)
        BY <2>3, OneCreateStep
      <3> QED
        BY <3>1, <3>2, SeenHandler
    <2>4. CASE Dev!AssignLinkToCampaign(r) \/ Dev!UnassignLinkFromCampaign(r)
      <3>1. stage[r] # "idle" /\ Dev!Answer(r)
        BY <2>4 DEF Dev!AssignLinkToCampaign, Dev!UnassignLinkFromCampaign
      <3>2. \E i \in 1 .. Len(links), c \in (1 .. MaxCalls) \cup {None} :
              Puts(i, c) /\ c \in Put(i, r)
        BY <2>4, MoveStep
      <3> QED
        BY <3>1, <3>2, SeenHandler
    <2>5. CASE Dev!CreateLinksBatch(r)
      <3>1. stage[r] # "idle" /\ Dev!Answer(r)
        BY <2>5 DEF Dev!CreateLinksBatch
      <3>2. Quiet \/ Grows(BatchSize, job[r].id)
        BY <2>5, BatchStep
      <3>3. BatchSize \in Nat
        BY DEF Dev!DevStoreAssumption
      <3> QED
        BY <3>1, <3>2, <3>3, SeenHandler
    <2>6. CASE Dev!UpdateCampaign(r)
      BY <2>6, SeenUpdate DEF Drift
    <2> QED
      BY <2>1, <2>2, <2>3, <2>4, <2>5, <2>6 DEF Dev!Handle
  <1> QED
    BY <1>1, <1>2, <1>3, <1>4, <1>5, <1>6 DEF Dev!Next

\* Every step of the development store is one of the board's, but for a handler
\* that moves links into a campaign deleted since it was found and a PATCH judged
\* on dates that are others by now; no new campaign takes over links with a dead id.
THEOREM DevStoreDriftsOnlyWhenStale ==
  ASSUME Dev!DevStoreAssumption PROVE Dev!Spec => Dev!DriftsOnlyWhenStale
  <1> DEFINE Drifts == \/ Dev!Board!Next /\ Dev!NewIdUnused
                       \/ \E r \in Handler : Dev!StaleMove(r) \/ Dev!StalePatch(r)
  <1>1. Dev!Init => StoreOK
    BY StoreInit
  <1>2. StoreOK /\ [Dev!Next]_(Dev!vars) => StoreOK'
    BY StoreNext
  <1>3. StoreOK => BoardOK
    BY BoardIs
  <1>4. Dev!Init /\ BoardOK => Dev!Board!Init
    BY SeenInit, SameBoard
  <1>5. StoreOK /\ StoreOK' /\ BoardOK /\ BoardOK' /\ [Dev!Next]_(Dev!vars)
        => [Drifts]_(Dev!Board!vars)
    <2>1. [Drift]_(B!vars) => [Drifts]_(Dev!Board!vars)
      BY SameBoard DEF Drift
    <2> QED
      BY <2>1, SeenNext
  <1>6. Dev!Spec => Dev!Board!Init /\ [][Drifts]_(Dev!Board!vars)
    BY <1>1, <1>2, <1>3, <1>4, <1>5, PTL DEF Dev!Spec
  <1> QED
    BY <1>6 DEF Dev!DriftsOnlyWhenStale

==============================================================================
