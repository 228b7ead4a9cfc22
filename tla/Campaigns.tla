------------------------------ MODULE Campaigns ------------------------------
(***************************************************************************)
(* Campaigns and the links in them: the endpoints of                       *)
(* internal/handlers/campaigns.go and the transactions of                  *)
(* internal/campaigns/store.go, interleaved statement by statement over    *)
(* PostgreSQL at READ COMMITTED, with the row locks their statements and   *)
(* their foreign keys take.                                                *)
(*                                                                         *)
(* One user's campaigns and links are modelled: every statement is scoped  *)
(* by user_id.  A campaign's id is fresh (BIGSERIAL), so a campaign is     *)
(* known by the request that created it, or is one of Old.  All names have *)
(* the same slug base: slug 1 is the base, slug n the base with "-n".      *)
(* starts_at and ends_at stand for all columns PATCH may write.  A crash   *)
(* of the server aborts its transactions, which Fail does one at a time.   *)
(* The count a delete writes into its audit entry is left out.             *)
(***************************************************************************)
EXTENDS CampaignDates, Sequences, FiniteSets

CONSTANTS Request,  \* one HTTP request each
          Old,      \* campaigns that exist already
          Link,     \* links of the user, present and future
          MaxSlug,  \* maxSlugAttempts
          None,     \* no row, no campaign
          Absent    \* no such link yet

ASSUME CampaignsAssumption ==
    /\ Old \cap Request = {} /\ None \notin Old \cup Request \cup Link
    /\ Absent \notin Old \cup Request \cup {None}
    /\ Link \cap (Old \cup Request) = {} /\ IsFiniteSet(Link)
    /\ MaxSlug \in Nat \ {0}

VARIABLES camp,     \* camp[c]: the committed row of campaigns, or None
          at,       \* at[l]: the committed links.campaign_id, None or Absent
          locks,    \* row locks held by open transactions
          pc,       \* control of each request
          req,      \* what it asks for
          target,   \* the campaign it has found
          todo,     \* links its cascade has found and not yet freed
          mine      \* links its open transaction has written

rows == <<camp, at>>
locals == <<target, todo, mine>>
vars == <<rows, locks, pc, req, locals>>

Campaign == Old \cup Request
Slug == 1 .. MaxSlug
Field == {"starts", "ends"}
CampaignRow == [slug : Slug, detail : Dates]

\* NULL is no row.
ASSUME NoneAssumption == None \notin CampaignRow

Undated == [starts |-> NoDate, ends |-> NoDate]

Kind == {"create", "patch", "delete", "assign", "unassign", "batch"}

\* requestedKeys: the keys of an assign are distinct.
Keys == {k \in UNION {[1 .. n -> Link] : n \in 1 .. Cardinality(Link)} :
            \A i, j \in DOMAIN k : k[i] = k[j] => i = j}

Init ==
    /\ \E s \in [Old -> 0 .. MaxSlug] :
          /\ \A c, d \in Old : s[c] = s[d] => c = d \/ s[c] = 0
          /\ camp = [c \in Campaign |-> IF c \in Request \/ s[c] = 0 THEN None
                                        ELSE [slug |-> s[c], detail |-> Undated]]
    /\ at \in [Link -> {c \in Old : camp[c] # None} \cup {None, Absent}]
    /\ locks = {}
    /\ pc = [r \in Request |-> "idle"]
    /\ req = [r \in Request |-> None]
    /\ target = [r \in Request |-> None]
    /\ todo = [r \in Request |-> {}]
    /\ mine = [r \in Request |-> {}]

Goto(r, label) == pc' = [pc EXCEPT ![r] = label]

------------------------------------------------------------------------------
(* Row locks and the end of a transaction *)

\* DELETE, UPDATE of columns that are in no key, and a foreign key's check.
Conflict(m, n) == "update" \in {m, n} \/ (m = "nokey" /\ n = "nokey")

Blockers(r, row, mode) ==
    {lk.tx : lk \in {k \in locks : k.on = row /\ Conflict(k.mode, mode) /\ k.tx # r}}

Free(r, row, mode) == Blockers(r, row, mode) = {}

Lock(r, row, mode) == locks' = locks \cup {[tx |-> r, on |-> row, mode |-> mode]}

Unlock(r) == locks' = {lk \in locks : lk.tx # r}

\* Mutant: an error path returns without the rollback.
EndOpen(r) ==
    /\ Goto(r, "done")
    /\ UNCHANGED <<locks, req, locals>>

\* The request is over: Commit or Rollback, if it had a transaction.
End(r) ==
    /\ Goto(r, "done")
    /\ Unlock(r)
    /\ target' = [target EXCEPT ![r] = None]
    /\ todo' = [todo EXCEPT ![r] = {}] /\ mine' = [mine EXCEPT ![r] = {}]
    /\ req' = [req EXCEPT ![r] = None]

\* A statement's result ends the request, with nothing written.
Stop(r) == End(r) /\ UNCHANGED rows

------------------------------------------------------------------------------
(* A request arrives *)

\* POST /api/campaigns, its window checked.
Create(r) ==
    /\ pc[r] = "idle"
    /\ \E w \in Window : req' = [req EXCEPT ![r] =
           [kind |-> "create", slug |-> 1, detail |-> w, keys |-> << >>, size |-> 0]]
    /\ Goto(r, "slug")
    /\ UNCHANGED <<rows, locks, locals>>

Ask(r, kind, s, w, keys, size, label) ==
    /\ pc[r] = "idle"
    /\ req' = [req EXCEPT ![r] =
           [kind |-> kind, slug |-> s, detail |-> w, keys |-> keys, size |-> size]]
    /\ Goto(r, label)
    /\ UNCHANGED <<rows, locks, locals>>

NoChange == [starts |-> Keep, ends |-> Keep]

\* PATCH and DELETE /api/campaigns/{slug}, POST .../links, DELETE
\* .../links/{key} and POST .../links/batch.
Patch(r) ==
    \E s \in Slug, w \in Changes : Ask(r, "patch", s, w, << >>, 0, "read")

Delete(r) == \E s \in Slug : Ask(r, "delete", s, NoChange, << >>, 0, "find")

AssignLinks(r) ==
    \E s \in Slug, k \in Keys : Ask(r, "assign", s, NoChange, k, 0, "resolve")

UnassignLink(r) ==
    \E s \in Slug, l \in Link : Ask(r, "unassign", s, NoChange, <<l>>, 0, "resolve")

BatchCreateLinks(r) ==
    \E s \in Slug, n \in 1 .. Cardinality(Link) :
        Ask(r, "batch", s, NoChange, << >>, n, "resolve")

------------------------------------------------------------------------------
(* Finding a campaign by slug *)

Named(s) == {c \in Campaign : camp[c] # None /\ camp[c].slug = s}

\* Patch reads the row first and judges the window the PATCH would make; a
\* PATCH of nothing is a fetch.
Read(r) ==
    /\ pc[r] = "read"
    /\ \/ Named(req[r].slug) = {} /\ Stop(r)
       \/ \E c \in Named(req[r].slug) :
             LET w == Merge(camp[c].detail, req[r].detail)
             IN  \/ ~Ordered(w) /\ Stop(r)
                 \/ Ordered(w) /\ req[r].detail = NoChange /\ Stop(r)
                 \/ /\ Ordered(w) /\ req[r].detail # NoChange
                    /\ Goto(r, "find")
                    /\ UNCHANGED <<rows, locks, req, locals>>

\* The snapshot of UPDATE ... WHERE slug, of DELETE ... WHERE slug, or of
\* GetCampaignBySlug.
Find(r) ==
    /\ pc[r] \in {"find", "resolve"}
    /\ \/ Named(req[r].slug) = {} /\ Stop(r)
       \/ /\ \E c \in Named(req[r].slug) : target' = [target EXCEPT ![r] = c]
          /\ Goto(r, CASE pc[r] = "find" -> "lock"
                       [] req[r].kind = "batch" -> "row"
                       [] OTHER -> "get")
          /\ UNCHANGED <<rows, locks, req, todo, mine>>

------------------------------------------------------------------------------
(* CreateCampaign *)

Taken(s) == Named(s) # {}

\* GenerateUniqueSlug, one candidate at a time.
SlugCheck(r) ==
    /\ pc[r] = "slug"
    /\ LET s == req[r].slug
       IN  \/ ~Taken(s) /\ Goto(r, "insert") /\ UNCHANGED <<rows, locks, req, locals>>
           \/ /\ Taken(s) /\ s < MaxSlug
              /\ req' = [req EXCEPT ![r].slug = s + 1]
              /\ UNCHANGED <<rows, locks, pc, locals>>
           \/ Taken(s) /\ s = MaxSlug /\ Stop(r)

\* Open transactions that have inserted the slug or are changing or deleting its
\* campaign.
SlugBlockers(r) ==
    {e \in Request \ {r} : pc[e] = "commit" /\ req[e].kind = "create" /\ req[e].slug = req[r].slug}
      \cup UNION {Blockers(r, c, "nokey") : c \in Named(req[r].slug)}

\* INSERT INTO campaigns: UNIQUE (user_id, slug) has the last word.
Insert(r) ==
    /\ pc[r] = "insert" /\ SlugBlockers(r) = {}
    /\ \/ /\ Named(req[r].slug) = {}
          /\ Goto(r, "commit")
          /\ UNCHANGED <<rows, locks, req, locals>>
       \/ Named(req[r].slug) # {} /\ Stop(r)

------------------------------------------------------------------------------
(* UpdateCampaign and DeleteCampaign *)

\* UPDATE locks the row; if it changed since the snapshot, the newest version
\* is updated, and judged by the CHECK.
LockPatch(r) ==
    /\ pc[r] = "lock" /\ req[r].kind = "patch"
    /\ Free(r, target[r], "nokey")
    /\ \/ camp[target[r]] = None /\ Stop(r)
       \/ /\ camp[target[r]] # None
          /\ LET w == Merge(camp[target[r]].detail, req[r].detail)
             IN  \/ ~Ordered(w) /\ Stop(r)
                 \/ /\ Ordered(w)
                    /\ Lock(r, target[r], "nokey")
                    /\ Goto(r, "commit")
                    /\ UNCHANGED <<rows, req, locals>>

LockDelete(r) ==
    /\ pc[r] = "lock" /\ req[r].kind = "delete"
    /\ Free(r, target[r], "update")
    /\ \/ camp[target[r]] = None /\ Stop(r)
       \/ /\ camp[target[r]] # None
          /\ Lock(r, target[r], "update")
          /\ Goto(r, "cascade")
          /\ UNCHANGED <<rows, req, locals>>

\* ON DELETE SET NULL: the trigger's UPDATE finds the links of the campaign ...
Cascade(r) ==
    /\ pc[r] = "cascade"
    /\ todo' = [todo EXCEPT ![r] = {l \in Link : at[l] = target[r]}]
    /\ Goto(r, "free")
    /\ UNCHANGED <<rows, locks, req, target, mine>>

\* Mutant: the links found are freed without looking at them again.
FreeLinkBlindly(r) ==
    /\ pc[r] = "free"
    /\ \E l \in todo[r] :
          /\ Free(r, l, "nokey")
          /\ Lock(r, l, "nokey")
          /\ todo' = [todo EXCEPT ![r] = @ \ {l}]
          /\ mine' = [mine EXCEPT ![r] = @ \cup {l}]
    /\ UNCHANGED <<rows, pc, req, target>>

\* ... and frees each, unless it was moved since.
FreeLink(r) ==
    /\ pc[r] = "free"
    /\ \E l \in todo[r] :
          /\ Free(r, l, "nokey")
          /\ Lock(r, l, "nokey")
          /\ todo' = [todo EXCEPT ![r] = @ \ {l}]
          /\ mine' = [mine EXCEPT ![r] = IF at[l] = target[r] THEN @ \cup {l} ELSE @]
    /\ UNCHANGED <<rows, pc, req, target>>

------------------------------------------------------------------------------
(* AssignLinkToCampaign, UnassignLinkFromCampaign, CreateLinksBatch *)

\* GetLink: the next key must be a link of the caller.
GetLink(r) ==
    /\ pc[r] = "get"
    /\ \/ at[Head(req[r].keys)] = Absent /\ Stop(r)
       \/ /\ at[Head(req[r].keys)] # Absent
          /\ Goto(r, "update")
          /\ UNCHANGED <<rows, locks, req, locals>>

\* The snapshot of the UPDATE: EXISTS (the campaign), or campaign_id = $3.
Update(r) ==
    /\ pc[r] = "update"
    /\ \/ req[r].kind = "assign" /\ camp[target[r]] = None /\ Stop(r)
       \/ req[r].kind = "unassign" /\ at[Head(req[r].keys)] # target[r] /\ Stop(r)
       \/ /\ IF req[r].kind = "assign" THEN camp[target[r]] # None
                                       ELSE at[Head(req[r].keys)] = target[r]
          /\ Goto(r, "hold")
          /\ UNCHANGED <<rows, locks, req, locals>>

\* Mutant: the UPDATE of an unassign is by link id alone.
HoldAny(r) ==
    LET l == Head(req[r].keys)
    IN  /\ pc[r] = "hold" /\ Free(r, l, "nokey")
        /\ Lock(r, l, "nokey")
        /\ mine' = [mine EXCEPT ![r] = {l}]
        /\ Goto(r, IF req[r].kind = "assign" /\ at[l] # target[r] THEN "share" ELSE "commit")
        /\ UNCHANGED <<rows, req, target, todo>>

\* It locks the link; an unassign looks again at its campaign_id.
Hold(r) ==
    LET l == Head(req[r].keys)
    IN  /\ pc[r] = "hold" /\ Free(r, l, "nokey")
        /\ \/ req[r].kind = "unassign" /\ at[l] # target[r] /\ Stop(r)
           \/ /\ req[r].kind = "assign" \/ at[l] = target[r]
              /\ Lock(r, l, "nokey")
              /\ mine' = [mine EXCEPT ![r] = {l}]
              /\ Goto(r, IF req[r].kind = "assign" /\ at[l] # target[r] THEN "share" ELSE "commit")
              /\ UNCHANGED <<rows, req, target, todo>>

\* A batch inserts its next link, under a key nobody has.
BatchRow(r) ==
    /\ pc[r] = "row"
    /\ \E l \in Link :
          /\ at[l] = Absent /\ \A e \in Request : l \notin mine[e]
          /\ mine' = [mine EXCEPT ![r] = @ \cup {l}]
    /\ Goto(r, "share")
    /\ UNCHANGED <<rows, locks, req, target, todo>>

\* Mutant: links.campaign_id references nothing.
ShareUnchecked(r) ==
    /\ pc[r] = "share"
    /\ Goto(r, IF req[r].kind = "batch" /\ Cardinality(mine[r]) < req[r].size
               THEN "row" ELSE "commit")
    /\ UNCHANGED <<rows, locks, req, locals>>

\* The foreign key of a new campaign_id: the campaign is locked FOR KEY SHARE,
\* or it is gone.
Share(r) ==
    /\ pc[r] = "share" /\ Free(r, target[r], "share")
    /\ \/ camp[target[r]] = None /\ Stop(r)
       \/ /\ camp[target[r]] # None
          /\ Lock(r, target[r], "share")
          /\ Goto(r, IF req[r].kind = "batch" /\ Cardinality(mine[r]) < req[r].size
                     THEN "row" ELSE "commit")
          /\ UNCHANGED <<rows, req, locals>>

------------------------------------------------------------------------------
(* The audit row and the commit *)

CommitCreate(r) ==
    /\ pc[r] = "commit" /\ req[r].kind = "create"
    /\ camp' = [camp EXCEPT ![r] = [slug |-> req[r].slug, detail |-> req[r].detail]]
    /\ End(r)
    /\ UNCHANGED at

CommitPatch(r) ==
    /\ pc[r] = "commit" /\ req[r].kind = "patch"
    /\ camp' = [camp EXCEPT ![target[r]].detail = Merge(@, req[r].detail)]
    /\ End(r)
    /\ UNCHANGED at

CommitDelete(r) ==
    /\ pc[r] = "free" /\ todo[r] = {}
    /\ camp' = [camp EXCEPT ![target[r]] = None]
    /\ at' = [l \in Link |-> IF l \in mine[r] THEN None ELSE at[l]]
    /\ End(r)

\* The write of a transaction on links.
Written(r, value) ==
    /\ at' = [l \in Link |-> IF l \in mine[r] THEN value ELSE at[l]]
    /\ UNCHANGED camp

\* One key is assigned; the next has a transaction of its own.
CommitAssign(r) ==
    /\ pc[r] = "commit" /\ req[r].kind = "assign"
    /\ Written(r, target[r])
    /\ \/ /\ Len(req[r].keys) > 1
          /\ req' = [req EXCEPT ![r].keys = Tail(@)]
          /\ mine' = [mine EXCEPT ![r] = {}] /\ Unlock(r) /\ Goto(r, "get")
          /\ UNCHANGED <<target, todo>>
       \/ Len(req[r].keys) = 1 /\ End(r)

CommitLinks(r) ==
    /\ pc[r] = "commit" /\ req[r].kind \in {"unassign", "batch"}
    /\ Written(r, IF req[r].kind = "batch" THEN target[r] ELSE None)
    /\ End(r)

\* A statement fails, or PostgreSQL picks the transaction to break a circle of
\* waits: the deferred Rollback undoes it; 500.
Fail(r) == pc[r] \notin {"idle", "done"} /\ Stop(r)

------------------------------------------------------------------------------

Submit(r) ==
    \/ Create(r) \/ Patch(r) \/ Delete(r)
    \/ AssignLinks(r) \/ UnassignLink(r) \/ BatchCreateLinks(r)

Commit(r) ==
    \/ CommitCreate(r) \/ CommitPatch(r) \/ CommitDelete(r)
    \/ CommitAssign(r) \/ CommitLinks(r)

\* What a request does when no statement fails.
Advance(r) ==
    \/ Read(r) \/ Find(r) \/ SlugCheck(r) \/ Insert(r)
    \/ LockPatch(r) \/ LockDelete(r) \/ Cascade(r) \/ FreeLink(r)
    \/ GetLink(r) \/ Update(r) \/ Hold(r) \/ BatchRow(r) \/ Share(r) \/ Commit(r)

Next == \E r \in Request : Submit(r) \/ Advance(r) \/ Fail(r)

Spec == Init /\ [][Next]_vars

\* r cannot go on before e has ended.
WaitsFor(r, e) ==
    \/ pc[r] = "insert" /\ e \in SlugBlockers(r)
    \/ pc[r] = "lock" /\ req[r].kind = "patch" /\ e \in Blockers(r, target[r], "nokey")
    \/ pc[r] = "lock" /\ req[r].kind = "delete" /\ e \in Blockers(r, target[r], "update")
    \/ pc[r] = "free" /\ \E l \in todo[r] : e \in Blockers(r, l, "nokey")
    \/ pc[r] = "hold" /\ e \in Blockers(r, Head(req[r].keys), "nokey")
    \/ pc[r] = "share" /\ e \in Blockers(r, target[r], "share")

InCircle(r) ==
    \E S \in SUBSET Request :
        r \in S /\ \A e \in S : (\E f \in S : WaitsFor(e, f)) /\ (\E f \in S : WaitsFor(f, e))

\* The bounded set of links has a new one for a batch.
NewLink == \E l \in Link : at[l] = Absent /\ \A e \in Request : l \notin mine[e]

\* What PostgreSQL must fail: one transaction of a circle, and here also a
\* batch for which there is no new link.
MustFail(r) == InCircle(r) \/ (pc[r] = "row" /\ ~NewLink)

------------------------------------------------------------------------------
(* Properties *)

Label == {"idle", "slug", "insert", "read", "find", "resolve", "lock", "cascade",
          "free", "get", "update", "hold", "row", "share", "commit", "done"}

Asked == [kind : Kind, slug : Slug, detail : Changes, keys : Seq(Link), size : Nat]

Stages(kind) ==
    CASE kind = "create" -> {"slug", "insert", "commit"}
      [] kind = "patch" -> {"read", "find", "lock", "commit"}
      [] kind = "delete" -> {"find", "lock", "cascade", "free"}
      [] kind = "assign" -> {"resolve", "get", "update", "hold", "share", "commit"}
      [] kind = "unassign" -> {"resolve", "get", "update", "hold", "commit"}
      [] kind = "batch" -> {"resolve", "row", "share", "commit"}

Busy(r) == pc[r] \notin {"idle", "done"}

\* What a request under way asks for, and that it has found its campaign.
RequestTyped(r) ==
    /\ req[r] \in Asked /\ pc[r] \in Stages(req[r].kind)
    /\ req[r].kind = "create" => req[r].detail \in Window
    /\ req[r].kind \in {"assign", "unassign"} => req[r].keys # << >>
    /\ req[r].kind # "create" /\ pc[r] \notin {"read", "find", "resolve"} => target[r] \in Campaign

RowsTyped ==
    /\ camp \in [Campaign -> CampaignRow \cup {None}]
    /\ at \in [Link -> Campaign \cup {None, Absent}]
    /\ locks \subseteq [tx : Request, on : Campaign \cup Link, mode : {"share", "nokey", "update"}]
    /\ pc \in [Request -> Label]
    /\ DOMAIN req = Request
    /\ target \in [Request -> Campaign \cup {None}]
    /\ todo \in [Request -> SUBSET Link] /\ mine \in [Request -> SUBSET Link]

\* Types.
TypeOK == RowsTyped /\ \A r \in Request : Busy(r) => RequestTyped(r)

\* Locks of two transactions do not conflict, a request that is over holds
\* none, and what is locked is there.
LocksOK ==
    /\ \A lk \in locks : Busy(lk.tx)
    /\ \A lk, l2 \in locks : lk.on = l2.on /\ Conflict(lk.mode, l2.mode) => lk.tx = l2.tx
    /\ \A lk \in locks : lk.on \in Campaign => camp[lk.on] # None
    /\ \A lk \in locks : lk.on \in Link => at[lk.on] # Absent /\ lk.mode = "nokey"

Holds(r, row, mode) == [tx |-> r, on |-> row, mode |-> mode] \in locks

\* A campaign that is to be committed: no other has its slug by then.
CreateOK(r) ==
    /\ pc[r] # "done" => camp[r] = None
    /\ pc[r] = "commit" /\ req[r].kind = "create" =>
          /\ Named(req[r].slug) = {}
          /\ \A e \in Request : pc[e] = "commit" /\ req[e].kind = "create"
                                  /\ req[e].slug = req[r].slug => e = r

\* The row a PATCH or a DELETE is about to write is locked.
WriteOK(r) ==
    /\ pc[r] = "commit" /\ req[r].kind = "patch" =>
          Holds(r, target[r], "nokey") /\ Ordered(Merge(camp[target[r]].detail, req[r].detail))
    /\ pc[r] \in {"cascade", "free"} => Holds(r, target[r], "update")
    /\ pc[r] = "free" => /\ {l \in Link : at[l] = target[r]} \subseteq todo[r] \cup mine[r]
                         /\ \A l \in mine[r] : at[l] = target[r]
                         /\ \A l \in todo[r] : at[l] # Absent

\* The links it has written are its own: new, or locked.
MineOK(r) ==
    /\ pc[r] \notin {"free", "row", "share", "commit"} => mine[r] = {}
    /\ \A l \in mine[r] : IF req[r].kind = "batch" THEN at[l] = Absent ELSE Holds(r, l, "nokey")
    /\ \A e \in Request \ {r} : mine[e] \cap mine[r] = {}

\* The link it moves is there, and so is the campaign it moves it to.
MoveOK(r) ==
    /\ pc[r] \in {"update", "hold"} => at[Head(req[r].keys)] # Absent
    /\ pc[r] \in {"share", "commit"} /\ req[r].kind \in {"assign", "unassign"} =>
          mine[r] = {Head(req[r].keys)}
    /\ pc[r] = "commit" /\ req[r].kind = "unassign" => at[Head(req[r].keys)] = target[r]
    /\ pc[r] = "commit" /\ req[r].kind = "assign" =>
          at[Head(req[r].keys)] = target[r] \/ Holds(r, target[r], "share")
    /\ pc[r] = "commit" /\ req[r].kind = "batch" => Holds(r, target[r], "share")

RequestOK(r) == CreateOK(r) /\ WriteOK(r) /\ MineOK(r) /\ MoveOK(r)

\* A link is never in a campaign that does not exist, however assignments,
\* batches and the cascade of a delete interleave.
NoDanglingMember == \A l \in Link : at[l] \in Campaign => camp[at[l]] # None

\* Two campaigns of a user never have the same slug, though the check for a
\* free one and the insert are separate statements.
SlugUnique ==
    \A c, d \in Campaign : camp[c] # None /\ camp[d] # None /\ c # d => camp[c].slug # camp[d].slug

\* A campaign's window is never inverted, not even by two PATCHes that each
\* move one end and were each judged against the row before the other.
WindowOrdered == \A c \in Campaign : camp[c] # None => Ordered(camp[c].detail)

\* The state invariant: types, exclusive locks, what each request holds and
\* relies on between its statements, and the tables as their constraints want
\* them.
CampaignsInv ==
    /\ TypeOK /\ LocksOK
    /\ \A r \in Request : RequestOK(r)
    /\ NoDanglingMember /\ SlugUnique /\ WindowOrdered

\* A request changes only what it asked to change, whatever was committed
\* between its looking and its UPDATE: a PATCH no column that it did not name, an
\* unassign no link that has left the campaign it named.
ChangesOnlyAsked ==
    [][\A r \in Request : pc[r] = "commit" /\ pc'[r] = "done" =>
         /\ req[r].kind = "patch" /\ camp' # camp =>
               \A f \in Field : req[r].detail[f] = Keep =>
                   camp'[target[r]].detail[f] = camp[target[r]].detail[f]
         /\ req[r].kind = "unassign" =>
               \A l \in Link : at'[l] # at[l] => at[l] = target[r]]_vars

\* What is committed behaves as the board promises: one atomic create, edit,
\* delete, move, removal or set of new links at a time.
Board == INSTANCE CampaignBoard WITH Detail <- Window
RefinesBoard == Board!Spec

\* No lock keeps r from its next statement.
Ready(r) ==
    \/ pc[r] \in {"slug", "read", "find", "resolve", "cascade", "get", "update", "commit"}
    \/ pc[r] = "insert" /\ SlugBlockers(r) = {}
    \/ pc[r] = "lock" /\ Free(r, target[r], IF req[r].kind = "patch" THEN "nokey" ELSE "update")
    \/ pc[r] = "free" /\ (todo[r] = {} \/ \E l \in todo[r] : Free(r, l, "nokey"))
    \/ pc[r] = "hold" /\ Free(r, Head(req[r].keys), "nokey")
    \/ pc[r] = "row" /\ NewLink
    \/ pc[r] = "share" /\ Free(r, target[r], "share")

\* While requests are under way, one of them is ready or is failed by PostgreSQL
\* to break a circle of waits (a delete holds its campaign and wants the links,
\* an assignment holds its link and wants the campaign).
SomeoneReady == (\E r \in Request : Busy(r)) => \E r \in Request : Ready(r) \/ MustFail(r)

\* The requests that are ready are those that can take a step, and there is one
\* as long as any is under way.  Each takes finitely many steps, so none waits
\* for ever.
NeverStuck == (\A r \in Request : Ready(r) <=> ENABLED Advance(r)) /\ SomeoneReady
==============================================================================
