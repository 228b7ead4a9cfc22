--------------------------- MODULE ClickStatsProofs ---------------------------
(***************************************************************************)
(* Proofs about ClickStats for any number of redirects, links, campaigns   *)
(* and readers, any days and any caps.  IInv is inductive; a step moves a  *)
(* redirect, the tables or one reader.  All parts of an answer are counted *)
(* over one table; a sum over a table is the size of a disjoint union, and *)
(* a ranking numbers the members of a finite order.                        *)
(***************************************************************************)
EXTENDS ClickStats, FiniteSetTheorems, FunctionTheorems, TLAPS

\* The inductive invariant, each part of which MCClickStats checks.
IInv == ClicksInv /\ DefaultWindowPast /\ FileNameOrdered

------------------------------------------------------------------------------
(* The statements of an endpoint and their order *)

LEMMA KindIs ==
  ASSUME NEW q \in Query
  PROVE  /\ q.kind \in {"rollup", "export", "detail", "link"}
         /\ q.kind = "link" => q.of \in Link
         /\ q.kind # "link" => q.of \in Campaign
         /\ q.bounds \in Bounds \cup {Unbounded}
         /\ q.kind \notin {"rollup", "export"} => q.bounds = Unbounded
  BY DEF Query

LEMMA RollupPlan ==
  /\ Len(Plan["rollup"]) = 7
  /\ Plan["rollup"][1] = "find" /\ Plan["rollup"][2] = "window" /\ Plan["rollup"][3] = "totals"
  /\ Plan["rollup"][4] = "sources" /\ Plan["rollup"][5] = "days"
  /\ Plan["rollup"][6] = "byLink" /\ Plan["rollup"][7] = "series"
  BY DEF Plan

LEMMA ExportPlan ==
  /\ Len(Plan["export"]) = 8
  /\ Plan["export"][1] = "find" /\ Plan["export"][2] = "window" /\ Plan["export"][3] = "totals"
  /\ Plan["export"][4] = "sources" /\ Plan["export"][5] = "days"
  /\ Plan["export"][6] = "byLink" /\ Plan["export"][7] = "series" /\ Plan["export"][8] = "links"
  BY DEF Plan

LEMMA DetailPlan ==
  /\ Len(Plan["detail"]) = 6
  /\ Plan["detail"][1] = "find" /\ Plan["detail"][2] = "links" /\ Plan["detail"][3] = "window"
  /\ Plan["detail"][4] = "totals" /\ Plan["detail"][5] = "sources" /\ Plan["detail"][6] = "days"
  BY DEF Plan

LEMMA LinkPlan ==
  /\ Len(Plan["link"]) = 4
  /\ Plan["link"][1] = "find" /\ Plan["link"][2] = "linkTotals"
  /\ Plan["link"][3] = "linkSources" /\ Plan["link"][4] = "linkDays"
  BY DEF Plan

\* The statement a reader of q is at when its program counter is n.
AtOf(q, n) == IF n > Len(Plan[q.kind]) THEN "none" ELSE Plan[q.kind][n]

LEMMA AtOfIs ==
  ASSUME NEW q \in Query, NEW n \in 1 .. 9, n <= Len(Plan[q.kind]) + 1
  PROVE  /\ q.kind \in {"rollup", "export"} =>
              /\ AtOf(q, n) = "find" <=> n = 1
              /\ AtOf(q, n) = "window" <=> n = 2
              /\ AtOf(q, n) = "totals" <=> n = 3
              /\ AtOf(q, n) = "sources" <=> n = 4
              /\ AtOf(q, n) = "days" <=> n = 5
              /\ AtOf(q, n) = "byLink" <=> n = 6
              /\ AtOf(q, n) = "series" <=> n = 7
              /\ AtOf(q, n) = "links" <=> n = 8 /\ q.kind = "export"
              /\ AtOf(q, n) \notin {"linkTotals", "linkSources", "linkDays"}
         /\ q.kind = "detail" =>
              /\ AtOf(q, n) = "find" <=> n = 1
              /\ AtOf(q, n) = "links" <=> n = 2
              /\ AtOf(q, n) = "window" <=> n = 3
              /\ AtOf(q, n) = "totals" <=> n = 4
              /\ AtOf(q, n) = "sources" <=> n = 5
              /\ AtOf(q, n) = "days" <=> n = 6
              /\ AtOf(q, n) \notin {"byLink", "series", "linkTotals", "linkSources", "linkDays"}
         /\ q.kind = "link" =>
              /\ AtOf(q, n) = "find" <=> n = 1
              /\ AtOf(q, n) = "linkTotals" <=> n = 2
              /\ AtOf(q, n) = "linkSources" <=> n = 3
              /\ AtOf(q, n) = "linkDays" <=> n = 4
              /\ AtOf(q, n) \notin Counts \cup {"window", "links"}
         /\ AtOf(q, n) = "none" <=> n = Len(Plan[q.kind]) + 1
         /\ Len(Plan[q.kind]) \in 4 .. 8
  <1>4. CASE q.kind = "rollup"
    <2>1. n \in {1, 2, 3, 4, 5, 6, 7, 8}
      BY <1>4, RollupPlan
    <2> QED
      BY <1>4, <2>1, RollupPlan DEF AtOf
  <1>5. CASE q.kind = "export"
    <2>1. n \in {1, 2, 3, 4, 5, 6, 7, 8, 9}
      BY <1>5, ExportPlan
    <2> QED
      BY <1>5, <2>1, ExportPlan DEF AtOf
  <1>6. CASE q.kind = "detail"
    <2>1. n \in {1, 2, 3, 4, 5, 6, 7}
      BY <1>6, DetailPlan
    <2> QED
      BY <1>6, <2>1, DetailPlan DEF AtOf
  <1>7. CASE q.kind = "link"
    <2>1. n \in {1, 2, 3, 4, 5}
      BY <1>7, LinkPlan
    <2> QED
      BY <1>7, <2>1, LinkPlan DEF AtOf, Counts
  <1> QED
    BY <1>4, <1>5, <1>6, <1>7, KindIs

\* What Put adds to an answer.
LEMMA PutIs ==
  ASSUME NEW r \in Reader, NEW field, NEW value, DOMAIN out = Reader, Put(r, field, value)
  PROVE  /\ DOMAIN out' = Reader
         /\ \A e \in Reader : e # r => out'[e] = out[e]
         /\ DOMAIN out'[r] = {field} \cup DOMAIN out[r]
         /\ out'[r][field] = value
         /\ \A f \in DOMAIN out[r] : f # field => out'[r][f] = out[r][f]
  <1>1. out'[r] = [f \in {field} \cup DOMAIN out[r] |-> IF f = field THEN value ELSE out[r][f]]
    BY DEF Put
  <1> QED
    BY <1>1 DEF Put

------------------------------------------------------------------------------
(* The inductive invariant *)

\* What is so of a reader, its window and its file.
ReaderSound(r) ==
    /\ ReaderOK(r)
    /\ req[r] # None /\ req[r].bounds = Unbounded /\ win[r].to # None => win[r].to <= today
    /\ Has(r, "file") => out[r].file.first <= out[r].file.last

LEMMA InvIs ==
  IInv <=> /\ TypeOK /\ Recording /\ NoDanglingClick
           /\ \A r \in Reader : ReaderSound(r)
  BY DEF IInv, ClicksInv, DefaultWindowPast, FileNameOrdered, ReaderSound

LEMMA InitInv == Init => IInv
  <1> SUFFICES ASSUME Init PROVE IInv
    OBVIOUS
  <1> USE ClickStatsAssumption, NoneAssumption DEF Init
  <1>1. 0 \in Day
    BY DEF Day
  <1>2. [stage |-> "over"] \in Flight
    BY DEF Flight
  <1>3. NoSnapshot \in [clicks : Table, taken : BOOLEAN]
    BY DEF NoSnapshot, Table
  <1>4. Unbounded \in [from : Int \cup {None}, to : Int \cup {None}]
    BY DEF Unbounded
  <1>5. fly \in [Click -> Flight \cup {None}]
    BY <1>2
  <1>6. TypeOK
    BY <1>1, <1>3, <1>4, <1>5 DEF TypeOK
  <1>7. \A k \in Click : Earlier[k] # None =>
          Earlier[k] \in Entry /\ Earlier[k].day = 0 /\ fly[k] = [stage |-> "over"]
    BY DEF Table
  <1>8. Recording
    <2> SUFFICES ASSUME NEW k \in Click
                 PROVE  /\ fly[k] # None /\ fly[k].stage # "over" => fly[k].day <= today
                        /\ row[k] # None => row[k].day <= today /\ fly[k] # None
                                            /\ fly[k].stage = "over"
      BY DEF Recording
    <2>1. CASE Earlier[k] = None
      BY <2>1
    <2>2. CASE Earlier[k] # None
      <3>1. fly[k] = [stage |-> "over"] /\ row[k].day = 0
        BY <2>2, <1>7
      <3> QED
        BY <3>1, <1>2
    <2> QED
      BY <2>1, <2>2
  <1>9. NoDanglingClick
    BY <1>7 DEF NoDanglingClick, Entry
  <1>10. ASSUME NEW r \in Reader PROVE ReaderSound(r)
    <2>1. pc[r] = 0 /\ req[r] = None /\ snap[r] = NoSnapshot /\ win[r] = Unbounded /\ out[r] = << >>
      OBVIOUS
    <2>2. At(r) = "none" /\ ~Counting(r)
      BY <2>1 DEF At, Counting, Counts
    <2>3. DOMAIN out[r] = {}
      BY <2>1
    <2> QED
      BY <2>1, <2>2, <2>3 DEF ReaderSound, ReaderOK, Counts, Has
  <1> QED
    BY <1>6, <1>8, <1>9, <1>10, InvIs

\* A step that moves no reader disturbs none: days only pass.
LEMMA ReadersKept ==
  ASSUME IInv, UNCHANGED reading, today' \in Int, today <= today'
  PROVE  \A r \in Reader : ReaderSound(r)'
  <1> SUFFICES ASSUME NEW r \in Reader PROVE ReaderSound(r)'
    OBVIOUS
  <1>1. pc' = pc /\ req' = req /\ snap' = snap /\ win' = win /\ out' = out
    BY DEF reading
  <1>2. ReaderSound(r) /\ today \in Int /\ win[r].to \in Int \cup {None}
    BY InvIs, ClickStatsAssumption DEF TypeOK, Day
  <1>3. (At(r))' = At(r) /\ (Counting(r))' = Counting(r)
    BY <1>1 DEF At, Counting
  <1>4. ReaderOK(r)'
    BY <1>1, <1>2, <1>3 DEF ReaderOK, ReaderSound
  <1>5. ASSUME (req[r] # None /\ req[r].bounds = Unbounded /\ win[r].to # None)'
        PROVE  (win[r].to)' <= today'
    BY <1>1, <1>2, <1>5 DEF ReaderSound
  <1>6. (Has(r, "file") => out[r].file.first <= out[r].file.last)'
    BY <1>1, <1>2 DEF ReaderSound, Has
  <1> QED
    BY <1>4, <1>5, <1>6 DEF ReaderSound

------------------------------------------------------------------------------
(* Recording, and what goes on around it *)

LEMMA RedirectStep == ASSUME IInv, NEW k \in Click, Redirect(k) PROVE IInv'
  <1>1. PICK l \in Link, bot \in {IsBot(ua) : ua \in UserAgent}, s \in Inbound :
          fly' = [fly EXCEPT ![k] = [stage |-> "spawned", link |-> l, day |-> today,
                                     bot |-> bot, src |-> s, camp |-> None]]
    BY DEF Redirect
  <1>2. UNCHANGED <<today, live, at, row, reading>> /\ fly[k] = None
    BY DEF Redirect
  <1>3. TypeOK /\ Recording /\ NoDanglingClick
    BY InvIs
  <1> DEFINE f == [stage |-> "spawned", link |-> l, day |-> today, bot |-> bot, src |-> s,
                   camp |-> None]
  <1>4. f \in Flight
    BY <1>3 DEF TypeOK, Flight, Source, IsBot
  <1>5. fly' \in [Click -> Flight \cup {None}] /\ fly'[k] = f
        /\ \A e \in Click : e # k => fly'[e] = fly[e]
    BY <1>1, <1>3, <1>4 DEF TypeOK
  <1>6. f.stage = "spawned" /\ f.day = today
    OBVIOUS
  <1> HIDE DEF f
  <1>7. TypeOK'
    BY <1>2, <1>3, <1>5 DEF TypeOK, reading
  <1>8. row[k] = None
    BY <1>2, <1>3 DEF Recording
  <1>9. Recording'
    BY <1>2, <1>3, <1>5, <1>6, <1>8, ClickStatsAssumption DEF Recording, TypeOK, Day
  <1>10. NoDanglingClick'
    BY <1>2, <1>3 DEF NoDanglingClick
  <1>11. \A r \in Reader : ReaderSound(r)'
    BY <1>2, <1>3, ReadersKept, ClickStatsAssumption DEF TypeOK, Day
  <1> QED
    BY <1>7, <1>9, <1>10, <1>11
       DEF IInv, ClicksInv, DefaultWindowPast, FileNameOrdered, ReaderSound

LEMMA SelectLinkStep == ASSUME IInv, NEW k \in Click, SelectLink(k) PROVE IInv'
  <1>1. UNCHANGED <<today, live, at, row, reading>> /\ fly[k] # None /\ fly[k].stage = "spawned"
    BY DEF SelectLink
  <1>2. TypeOK /\ Recording /\ NoDanglingClick
    BY InvIs
  <1>3. fly[k] \in [stage : {"spawned", "insert"}, link : Link, day : Day, bot : BOOLEAN,
                    src : Source, camp : Campaign \cup {None}]
    BY <1>1, <1>2 DEF TypeOK, Flight
  <1> DEFINE f == [fly[k] EXCEPT !.stage = "insert", !.camp = at[fly[k].link],
                                 !.src = Resolved(@, fly[k].link)]
  <1>4. Resolved(fly[k].src, fly[k].link) \in Source /\ at[fly[k].link] \in Campaign \cup {None}
    BY <1>2, <1>3, ClickStatsAssumption DEF Resolved, Source, TypeOK
  <1>5. f \in Flight /\ f.stage = "insert" /\ f.day = fly[k].day
    BY <1>3, <1>4 DEF Flight
  <1>6. fly' \in [Click -> Flight \cup {None}] /\ fly'[k] = f
        /\ \A e \in Click : e # k => fly'[e] = fly[e]
    BY <1>2, <1>5 DEF SelectLink, TypeOK
  <1> HIDE DEF f
  <1>7. TypeOK'
    BY <1>1, <1>2, <1>6 DEF TypeOK, reading
  <1>8. row[k] = None /\ fly[k].day <= today
    BY <1>1, <1>2 DEF Recording
  <1>9. Recording'
    BY <1>1, <1>2, <1>5, <1>6, <1>8 DEF Recording
  <1>10. NoDanglingClick'
    BY <1>1, <1>2 DEF NoDanglingClick
  <1>11. \A r \in Reader : ReaderSound(r)'
    BY <1>1, <1>2, ReadersKept, ClickStatsAssumption DEF TypeOK, Day
  <1> QED
    BY <1>7, <1>9, <1>10, <1>11
       DEF IInv, ClicksInv, DefaultWindowPast, FileNameOrdered, ReaderSound

\* The goroutine of k has left its row: what it read of the link, with a campaign
\* that the foreign key found.
LEMMA InsertIs ==
  ASSUME TypeOK, Recording, NEW k \in Click, Insert(k)
  PROVE  /\ ClickRow(k) \in Entry
         /\ ClickRow(k).camp \in live \cup {None} /\ ClickRow(k).day <= today
         /\ row[k] = None /\ row'[k] = ClickRow(k)
         /\ \A e \in Click : e # k => row'[e] = row[e] /\ fly'[e] = fly[e]
         /\ fly'[k] = [stage |-> "over"]
         /\ row' \in Table /\ fly' \in [Click -> Flight \cup {None}]
         /\ UNCHANGED <<today, live, at, reading>>
  <1>1. /\ fly[k] # None /\ fly[k].stage = "insert" /\ fly[k].camp \in live \cup {None}
        /\ row' = [row EXCEPT ![k] = ClickRow(k)]
        /\ fly' = [fly EXCEPT ![k] = [stage |-> "over"]]
        /\ UNCHANGED <<today, live, at, reading>>
    BY DEF Insert, Over
  <1>2. fly[k] \in [stage : {"spawned", "insert"}, link : Link, day : Day, bot : BOOLEAN,
                    src : Source, camp : Campaign \cup {None}]
    BY <1>1 DEF TypeOK, Flight
  <1>3. ClickRow(k) \in Entry /\ ClickRow(k).camp = fly[k].camp /\ ClickRow(k).day = fly[k].day
    BY <1>2 DEF ClickRow, Entry
  <1>4. row[k] = None /\ fly[k].day <= today
    BY <1>1 DEF Recording
  <1>5. row \in [Click -> Entry \cup {None}] /\ fly \in [Click -> Flight \cup {None}]
        /\ [stage |-> "over"] \in Flight
    BY DEF TypeOK, Table, Flight
  <1> HIDE DEF ClickRow
  <1>6. /\ row' \in [Click -> Entry \cup {None}] /\ fly' \in [Click -> Flight \cup {None}]
        /\ row'[k] = ClickRow(k) /\ fly'[k] = [stage |-> "over"]
        /\ \A e \in Click : e # k => row'[e] = row[e] /\ fly'[e] = fly[e]
    BY <1>1, <1>3, <1>5
  <1> QED
    BY <1>1, <1>3, <1>4, <1>6 DEF Table

LEMMA InsertStep == ASSUME IInv, NEW k \in Click, Insert(k) PROVE IInv'
  <1>1. TypeOK /\ Recording /\ NoDanglingClick
    BY InvIs
  <1>2. /\ ClickRow(k) \in Entry
        /\ ClickRow(k).camp \in live \cup {None} /\ ClickRow(k).day <= today
        /\ row[k] = None /\ row'[k] = ClickRow(k)
        /\ \A e \in Click : e # k => row'[e] = row[e] /\ fly'[e] = fly[e]
        /\ fly'[k] = [stage |-> "over"]
        /\ row' \in Table /\ fly' \in [Click -> Flight \cup {None}]
        /\ UNCHANGED <<today, live, at, reading>>
    BY <1>1, InsertIs
  <1>3. TypeOK'
    BY <1>1, <1>2 DEF TypeOK, reading
  <1>4. fly'[k] # None /\ fly'[k].stage = "over"
    BY <1>2, NoneAssumption DEF Flight
  <1>5. Recording'
    BY <1>1, <1>2, <1>4 DEF Recording
  <1>6. NoDanglingClick'
    BY <1>1, <1>2 DEF NoDanglingClick
  <1>7. \A r \in Reader : ReaderSound(r)'
    BY <1>1, <1>2, ReadersKept, ClickStatsAssumption DEF TypeOK, Day
  <1> QED
    BY <1>3, <1>5, <1>6, <1>7
       DEF IInv, ClicksInv, DefaultWindowPast, FileNameOrdered, ReaderSound

LEMMA LoseStep == ASSUME IInv, NEW k \in Click, Lose(k) PROVE IInv'
  <1>1. /\ fly[k] # None /\ fly[k].stage # "over" /\ fly' = [fly EXCEPT ![k] = None]
        /\ UNCHANGED <<today, live, at, row, reading>>
    BY DEF Lose
  <1>2. TypeOK /\ Recording /\ NoDanglingClick
    BY InvIs
  <1>3. fly' \in [Click -> Flight \cup {None}] /\ fly'[k] = None
        /\ \A e \in Click : e # k => fly'[e] = fly[e]
    BY <1>1, <1>2 DEF TypeOK
  <1>4. row[k] = None
    BY <1>1, <1>2 DEF Recording
  <1>5. TypeOK'
    BY <1>1, <1>2, <1>3 DEF TypeOK, reading
  <1>6. Recording'
    BY <1>1, <1>2, <1>3, <1>4 DEF Recording
  <1>7. NoDanglingClick'
    BY <1>1, <1>2 DEF NoDanglingClick
  <1>8. \A r \in Reader : ReaderSound(r)'
    BY <1>1, <1>2, ReadersKept, ClickStatsAssumption DEF TypeOK, Day
  <1> QED
    BY <1>5, <1>6, <1>7, <1>8
       DEF IInv, ClicksInv, DefaultWindowPast, FileNameOrdered, ReaderSound

LEMMA MoveStep == ASSUME IInv, NEW l \in Link, Move(l) PROVE IInv'
  <1>1. PICK c \in live \cup {None} : at' = [at EXCEPT ![l] = c]
    BY DEF Move
  <1>2. UNCHANGED <<today, live, clicks, reading>>
    BY DEF Move
  <1>3. TypeOK /\ Recording /\ NoDanglingClick
    BY InvIs
  <1>4. at' \in [Link -> Campaign \cup {None}]
    BY <1>1, <1>3 DEF TypeOK
  <1>5. TypeOK'
    BY <1>2, <1>3, <1>4 DEF TypeOK, reading, clicks
  <1>6. Recording'
    BY <1>2, <1>3 DEF Recording, clicks
  <1>7. NoDanglingClick'
    BY <1>1, <1>2, <1>3 DEF NoDanglingClick, clicks, TypeOK
  <1>8. \A r \in Reader : ReaderSound(r)'
    BY <1>2, <1>3, ReadersKept, ClickStatsAssumption DEF TypeOK, Day
  <1> QED
    BY <1>5, <1>6, <1>7, <1>8
       DEF IInv, ClicksInv, DefaultWindowPast, FileNameOrdered, ReaderSound

\* The cascades of a campaign's delete: its links and its clicks lose it.
LEMMA DeleteIs ==
  ASSUME TypeOK, NEW c \in Campaign, DeleteCampaign(c)
  PROVE  /\ live' = live \ {c} /\ UNCHANGED <<today, fly, reading>>
         /\ \A l \in Link : at'[l] = IF at[l] = c THEN None ELSE at[l]
         /\ \A k \in Click : row[k] = None => row'[k] = None
         /\ \A k \in Click : row[k] # None =>
              /\ row'[k] \in Entry /\ row'[k] # None
              /\ row'[k].link = row[k].link /\ row'[k].day = row[k].day /\ row'[k].bot = row[k].bot
              /\ row'[k].camp = IF row[k].camp = c THEN None ELSE row[k].camp
         /\ row' \in Table /\ at' \in [Link -> Campaign \cup {None}]
  <1>1. /\ live' = live \ {c} /\ UNCHANGED <<today, fly, reading>>
        /\ at' = [l \in Link |-> IF at[l] = c THEN None ELSE at[l]]
        /\ row' = [k \in Click |-> IF row[k] # None /\ row[k].camp = c
                                   THEN [row[k] EXCEPT !.camp = None] ELSE row[k]]
    BY DEF DeleteCampaign
  <1>2. at \in [Link -> Campaign \cup {None}] /\ \A k \in Click : row[k] \in Entry \cup {None}
    BY DEF TypeOK, Table
  <1>3. ASSUME NEW k \in Click, row[k] # None
        PROVE  /\ row'[k] \in Entry
               /\ row'[k].link = row[k].link /\ row'[k].day = row[k].day
               /\ row'[k].bot = row[k].bot
               /\ row'[k].camp = IF row[k].camp = c THEN None ELSE row[k].camp
    <2>1. row[k] \in Entry
      BY <1>2, <1>3
    <2>2. CASE row[k].camp = c
      <3>1. row'[k] = [row[k] EXCEPT !.camp = None]
        BY <1>1, <1>3, <2>2
      <3> QED
        BY <2>1, <2>2, <3>1 DEF Entry
    <2>3. CASE row[k].camp # c
      BY <1>1, <1>3, <2>1, <2>3
    <2> QED
      BY <2>2, <2>3
  <1>4. \A k \in Click : row[k] = None => row'[k] = None
    BY <1>1
  <1>5. \A k \in Click : row[k] # None => row'[k] \in Entry /\ row'[k] # None
    BY <1>3, NoneAssumption
  <1>6. row' \in Table
    BY <1>1, <1>4, <1>5 DEF Table
  <1>7. at' \in [Link -> Campaign \cup {None}]
    BY <1>1, <1>2
  <1> QED
    BY <1>1, <1>3, <1>4, <1>5, <1>6, <1>7

LEMMA DeleteCampaignStep == ASSUME IInv, NEW c \in Campaign, DeleteCampaign(c) PROVE IInv'
  <1>1. TypeOK /\ Recording /\ NoDanglingClick
    BY InvIs
  <1>2. /\ live' = live \ {c} /\ UNCHANGED <<today, fly, reading>>
        /\ \A l \in Link : at'[l] = IF at[l] = c THEN None ELSE at[l]
        /\ \A k \in Click : row[k] = None => row'[k] = None
        /\ \A k \in Click : row[k] # None =>
              /\ row'[k] \in Entry /\ row'[k] # None
              /\ row'[k].link = row[k].link /\ row'[k].day = row[k].day /\ row'[k].bot = row[k].bot
              /\ row'[k].camp = IF row[k].camp = c THEN None ELSE row[k].camp
        /\ row' \in Table /\ at' \in [Link -> Campaign \cup {None}]
    BY <1>1, DeleteIs
  <1>3. TypeOK'
    BY <1>1, <1>2 DEF TypeOK, reading
  <1>4. Recording'
    BY <1>1, <1>2 DEF Recording
  <1>5. NoDanglingClick'
    BY <1>1, <1>2 DEF NoDanglingClick
  <1>6. \A r \in Reader : ReaderSound(r)'
    BY <1>1, <1>2, ReadersKept, ClickStatsAssumption DEF TypeOK, Day
  <1> QED
    BY <1>3, <1>4, <1>5, <1>6
       DEF IInv, ClicksInv, DefaultWindowPast, FileNameOrdered, ReaderSound

LEMMA NextDayStep == ASSUME IInv, NextDay PROVE IInv'
  <1>1. today < MaxDay /\ today' = today + 1 /\ UNCHANGED <<live, at, clicks, reading>>
    BY DEF NextDay
  <1>2. TypeOK /\ Recording /\ NoDanglingClick
    BY InvIs
  <1>3. today \in Nat /\ today' \in Day /\ today' \in Int /\ today <= today'
    BY <1>1, <1>2, ClickStatsAssumption DEF TypeOK, Day
  <1>4. TypeOK'
    BY <1>1, <1>2, <1>3 DEF TypeOK, reading, clicks
  <1>5. ASSUME NEW k \in Click
        PROVE  /\ fly[k] # None /\ fly[k].stage # "over" => fly[k].day \in Int
               /\ row[k] # None => row[k].day \in Int
    BY <1>2 DEF TypeOK, Table, Entry, Flight, Day
  <1>6. Recording'
    BY <1>1, <1>2, <1>3, <1>5 DEF Recording, clicks
  <1>7. NoDanglingClick'
    BY <1>1, <1>2 DEF NoDanglingClick, clicks
  <1>8. \A r \in Reader : ReaderSound(r)'
    BY <1>1, <1>3, ReadersKept
  <1> QED
    BY <1>4, <1>6, <1>7, <1>8
       DEF IInv, ClicksInv, DefaultWindowPast, FileNameOrdered, ReaderSound

------------------------------------------------------------------------------
(* Readers *)

\* A step of one reader is sound if that reader is sound afterwards.
LEMMA ReaderStep ==
  ASSUME IInv, NEW r \in Reader, UNCHANGED <<today, live, at, clicks>>,
         pc' \in [Reader -> -1 .. 9], req' \in [Reader -> Query \cup {None}],
         snap' \in [Reader -> [clicks : Table, taken : BOOLEAN]],
         win' \in [Reader -> [from : Int \cup {None}, to : Int \cup {None}]],
         DOMAIN out' = Reader,
         \A e \in Reader : e # r => /\ pc'[e] = pc[e] /\ req'[e] = req[e] /\ snap'[e] = snap[e]
                                    /\ win'[e] = win[e] /\ out'[e] = out[e],
         ReaderSound(r)'
  PROVE  IInv'
  <1>1. TypeOK /\ Recording /\ NoDanglingClick /\ \A e \in Reader : ReaderSound(e)
    BY InvIs
  <1>2. today' = today /\ live' = live /\ at' = at /\ fly' = fly /\ row' = row
    BY DEF clicks
  <1>3. TypeOK'
    BY <1>1, <1>2 DEF TypeOK
  <1>4. Recording' /\ NoDanglingClick'
    BY <1>1, <1>2 DEF Recording, NoDanglingClick
  <1>5. ASSUME NEW e \in Reader, e # r PROVE ReaderSound(e)'
    <2>1. ReaderSound(e)
      BY <1>1
    <2>2. /\ pc'[e] = pc[e] /\ req'[e] = req[e] /\ snap'[e] = snap[e]
          /\ win'[e] = win[e] /\ out'[e] = out[e]
      BY <1>5
    <2>3. At(e)' = At(e) /\ Counting(e)' = Counting(e)
      BY <2>2 DEF At, Counting
    <2>4. ReaderOK(e)'
      BY <2>1, <2>2, <2>3 DEF ReaderOK, ReaderSound
    <2> QED
      BY <1>2, <2>1, <2>2, <2>4 DEF ReaderSound, Has
  <1>6. \A e \in Reader : ReaderSound(e)'
    BY <1>5
  <1> QED
    BY <1>3, <1>4, <1>6
       DEF IInv, ClicksInv, DefaultWindowPast, FileNameOrdered, ReaderSound

\* Where a reader that makes one step of its endpoint's comes from and gets to.
LEMMA NextAt ==
  ASSUME TypeOK, NEW r \in Reader, ReaderOK(r), At(r) # "none",
         pc'[r] = pc[r] + 1, req'[r] = req[r]
  PROVE  /\ req[r] # None /\ req[r] \in Query /\ pc[r] \in 1 .. 8
         /\ pc[r] + 1 <= Len(Plan[req[r].kind]) + 1
         /\ At(r) \in Counts \cup {"window", "links"} => req[r].kind # "link"
         /\ At(r) \in {"linkTotals", "linkSources", "linkDays"} => req[r].kind = "link"
         /\ At(r) = "find" => At(r)' \in {"window", "links", "linkTotals"}
         /\ At(r) = "window" => At(r)' = "totals"
         /\ At(r) = "totals" => At(r)' = "sources"
         /\ At(r) = "sources" => At(r)' = "days"
         /\ At(r) = "days" => At(r)' = IF req[r].kind = "detail" THEN "none" ELSE "byLink"
         /\ At(r) = "byLink" => At(r)' = "series"
         /\ At(r) = "series" => At(r)' = IF req[r].kind = "export" THEN "links" ELSE "none"
         /\ At(r) = "links" => At(r)' = IF req[r].kind = "export" THEN "none" ELSE "window"
         /\ At(r) = "linkTotals" => At(r)' = "linkSources"
         /\ At(r) = "linkSources" => At(r)' = "linkDays"
         /\ At(r) = "linkDays" => At(r)' = "none"
         /\ At(r) = "find" /\ At(r)' = "links" => req[r].kind = "detail"
  <1>1. req[r] # None /\ req[r] \in Query /\ pc[r] \in 1 .. 9
        /\ pc[r] <= Len(Plan[req[r].kind]) + 1
    BY DEF TypeOK, ReaderOK, At
  <1>2. PICK q \in Query : q = req[r]
    BY <1>1
  <1>3. PICK n \in 1 .. 9 : n = pc[r]
    BY <1>1
  <1>4. At(r) = AtOf(q, n)
    BY <1>1, <1>2, <1>3 DEF At, AtOf
  <1>5. Len(Plan[q.kind]) \in 4 .. 8 /\ n # Len(Plan[q.kind]) + 1
    BY <1>1, <1>2, <1>3, <1>4, AtOfIs
  <1>6. n \in 1 .. 8 /\ n + 1 \in 1 .. 9 /\ n + 1 <= Len(Plan[q.kind]) + 1
        /\ n <= Len(Plan[q.kind])
    <2>1. n <= Len(Plan[q.kind]) + 1
      BY <1>1, <1>2, <1>3
    <2>2. ASSUME NEW len \in 4 .. 8, n <= len + 1, n # len + 1
          PROVE  n \in 1 .. 8 /\ n + 1 \in 1 .. 9 /\ n + 1 <= len + 1 /\ n <= len
      BY <2>2
    <2> QED
      BY <1>5, <2>1, <2>2
  <1>7. At(r)' = AtOf(q, n + 1)
    BY <1>1, <1>2, <1>3, <1>6 DEF At, AtOf
  <1>8. /\ Len(Plan["rollup"]) = 7 /\ Len(Plan["export"]) = 8
        /\ Len(Plan["detail"]) = 6 /\ Len(Plan["link"]) = 4
    BY RollupPlan, ExportPlan, DetailPlan, LinkPlan
  <1>9. q.kind \in {"rollup", "export", "detail", "link"}
    BY KindIs
  <1>10. CASE q.kind = "rollup"
    <2>1. n \in {1, 2, 3, 4, 5, 6, 7}
      <3>1. n \in 1 .. 8 /\ n <= 7
        BY <1>6, <1>8, <1>10
      <3> QED
        BY <3>1
    <2> QED
      BY <1>1, <1>2, <1>3, <1>4, <1>6, <1>7, <1>10, <2>1, RollupPlan DEF AtOf, Counts
  <1>11. CASE q.kind = "export"
    <2>1. n \in {1, 2, 3, 4, 5, 6, 7, 8}
      BY <1>6
    <2> QED
      BY <1>1, <1>2, <1>3, <1>4, <1>6, <1>7, <1>11, <2>1, ExportPlan DEF AtOf, Counts
  <1>12. CASE q.kind = "detail"
    <2>1. n \in {1, 2, 3, 4, 5, 6}
      <3>1. n \in 1 .. 8 /\ n <= 6
        BY <1>6, <1>8, <1>12
      <3> QED
        BY <3>1
    <2> QED
      BY <1>1, <1>2, <1>3, <1>4, <1>6, <1>7, <1>12, <2>1, DetailPlan DEF AtOf, Counts
  <1>13. CASE q.kind = "link"
    <2>1. n \in {1, 2, 3, 4}
      <3>1. n \in 1 .. 8 /\ n <= 4
        BY <1>6, <1>8, <1>13
      <3> QED
        BY <3>1
    <2> QED
      BY <1>1, <1>2, <1>3, <1>4, <1>6, <1>7, <1>13, <2>1, LinkPlan DEF AtOf, Counts
  <1> QED
    BY <1>9, <1>10, <1>11, <1>12, <1>13

\* A step that puts a statement's result into the answer.
LEMMA PutStep ==
  ASSUME IInv, NEW r \in Reader, NEW field, At(r) # "none",
         \E value : /\ Put(r, field, value)
                    /\ field = "file" => value.first <= value.last,
         snap' \in [Reader -> [clicks : Table, taken : BOOLEAN]],
         win' \in [Reader -> [from : Int \cup {None}, to : Int \cup {None}]],
         \A e \in Reader : e # r => snap'[e] = snap[e] /\ win'[e] = win[e],
         Counting(r)' => win'[r] \in Window,
         req[r].bounds = Unbounded /\ win'[r].to # None => win'[r].to <= today,
         At(r)' \in Counts \ {"totals"} => snap'[r].taken,
         At(r)' = "totals" \/ (At(r)' \in {"find", "links", "window"} /\ ~Counting(r)') =>
             Counts \cap DOMAIN out[r] = {} /\ field \notin Counts
  PROVE  IInv'
  <1>1. PICK value : /\ Put(r, field, value)
                     /\ field = "file" => value.first <= value.last
    OBVIOUS
  <1>2. TypeOK /\ ReaderSound(r)
    BY InvIs
  <1>3. /\ pc' = [pc EXCEPT ![r] = @ + 1] /\ req' = req
        /\ UNCHANGED <<today, live, at, clicks>>
    BY <1>1 DEF Put
  <1>4. /\ DOMAIN out' = Reader
        /\ \A e \in Reader : e # r => out'[e] = out[e]
        /\ DOMAIN out'[r] = {field} \cup DOMAIN out[r]
        /\ out'[r][field] = value
        /\ \A f \in DOMAIN out[r] : f # field => out'[r][f] = out[r][f]
    BY <1>1, <1>2, PutIs DEF TypeOK
  <1>5. pc'[r] = pc[r] + 1 /\ req'[r] = req[r] /\ ReaderOK(r)
    BY <1>2, <1>3 DEF TypeOK, ReaderSound
  <1>6. /\ req[r] # None /\ req[r] \in Query /\ pc[r] \in 1 .. 8
        /\ pc[r] + 1 <= Len(Plan[req[r].kind]) + 1
    BY <1>2, <1>5, NextAt
  <1>7. pc' \in [Reader -> -1 .. 9] /\ \A e \in Reader : e # r => pc'[e] = pc[e]
    BY <1>2, <1>3, <1>6 DEF TypeOK
  <1>8. req' \in [Reader -> Query \cup {None}] /\ \A e \in Reader : e # r => req'[e] = req[e]
    BY <1>2, <1>3 DEF TypeOK
  <1>9. ReaderOK(r)'
    BY <1>4, <1>5, <1>6 DEF ReaderOK
  <1>10. (Has(r, "file") => out[r].file.first <= out[r].file.last)'
    <2> SUFFICES ASSUME "file" \in DOMAIN out'[r]
                 PROVE  out'[r]["file"].first <= out'[r]["file"].last
      BY DEF Has
    <2>1. CASE field = "file"
      BY <1>1, <1>4, <2>1
    <2>2. CASE field # "file"
      BY <1>2, <1>4, <2>2 DEF ReaderSound, Has
    <2> QED
      BY <2>1, <2>2
  <1>11. ReaderSound(r)'
    BY <1>3, <1>5, <1>9, <1>10 DEF ReaderSound
  <1> QED
    BY <1>3, <1>4, <1>7, <1>8, <1>11, ReaderStep

LEMMA FindFirst ==
  ASSUME NEW q \in Query
  PROVE  Plan[q.kind][1] = "find" /\ Len(Plan[q.kind]) \in 4 .. 8
  <1>1. CASE q.kind = "rollup"
    BY <1>1, RollupPlan
  <1>2. CASE q.kind = "export"
    BY <1>2, ExportPlan
  <1>3. CASE q.kind = "detail"
    BY <1>3, DetailPlan
  <1>4. CASE q.kind = "link"
    BY <1>4, LinkPlan
  <1> QED
    BY <1>1, <1>2, <1>3, <1>4, KindIs

LEMMA AskStep == ASSUME IInv, NEW r \in Reader, Ask(r) PROVE IInv'
  <1>1. TypeOK /\ ReaderSound(r)
    BY InvIs
  <1>2. /\ pc[r] = 0 /\ pc' = [pc EXCEPT ![r] = 1]
        /\ UNCHANGED <<today, live, at, clicks, snap, win, out>>
    BY DEF Ask
  <1>3. PICK q \in Query : req' = [req EXCEPT ![r] = q]
    <2>1. CASE \E kind \in {"rollup", "export"}, c \in Campaign, b \in Bounds :
                 req' = [req EXCEPT ![r] = [kind |-> kind, of |-> c, bounds |-> b]]
      BY <2>1 DEF Query
    <2>2. CASE \E c \in Campaign :
                 req' = [req EXCEPT ![r] = [kind |-> "detail", of |-> c, bounds |-> Unbounded]]
      BY <2>2 DEF Query
    <2>3. CASE \E l \in Link :
                 req' = [req EXCEPT ![r] = [kind |-> "link", of |-> l, bounds |-> Unbounded]]
      BY <2>3 DEF Query
    <2> QED
      BY <2>1, <2>2, <2>3 DEF Ask
  <1>4. /\ pc' \in [Reader -> -1 .. 9] /\ req' \in [Reader -> Query \cup {None}]
        /\ pc'[r] = 1 /\ req'[r] = q
        /\ \A e \in Reader : e # r => pc'[e] = pc[e] /\ req'[e] = req[e]
    BY <1>1, <1>2, <1>3 DEF TypeOK
  <1>5. q # None
    BY NoneAssumption
  <1>6. out'[r] = << >> /\ snap'[r] = NoSnapshot /\ win'[r] = Unbounded
    BY <1>1, <1>2 DEF ReaderSound, ReaderOK
  <1>7. Plan[q.kind][1] = "find" /\ Len(Plan[q.kind]) \in 4 .. 8
    BY FindFirst
  <1>8. At(r)' = "find" /\ ~Counting(r)'
    BY <1>4, <1>5, <1>7 DEF At, Counting, Counts
  <1>9. ReaderOK(r)'
    <2>1. DOMAIN out'[r] = {}
      BY <1>6
    <2>2. pc'[r] <= Len(Plan[req'[r].kind]) + 1
      BY <1>4, <1>7
    <2> QED
      BY <1>4, <1>5, <1>8, <2>1, <2>2 DEF ReaderOK, Counts
  <1>10. ReaderSound(r)'
    BY <1>6, <1>9 DEF ReaderSound, Has, Unbounded
  <1>11. /\ snap' \in [Reader -> [clicks : Table, taken : BOOLEAN]]
         /\ win' \in [Reader -> [from : Int \cup {None}, to : Int \cup {None}]]
         /\ DOMAIN out' = Reader /\ snap' = snap /\ win' = win /\ out' = out
         /\ UNCHANGED <<today, live, at, clicks>>
    BY <1>1, <1>2 DEF TypeOK
  <1> QED
    BY <1>4, <1>10, <1>11, ReaderStep

\* An answer of 404 or 500 leaves nothing of the request.
LEMMA FailStep == ASSUME IInv, NEW r \in Reader, Fail(r) PROVE IInv'
  <1>1. TypeOK /\ ReaderSound(r)
    BY InvIs
  <1>2. /\ pc' = [pc EXCEPT ![r] = -1] /\ out' = [out EXCEPT ![r] = << >>]
        /\ req' = [req EXCEPT ![r] = None] /\ snap' = [snap EXCEPT ![r] = NoSnapshot]
        /\ win' = [win EXCEPT ![r] = Unbounded] /\ UNCHANGED <<today, live, at, clicks>>
    BY DEF Fail
  <1>3. NoSnapshot \in [clicks : Table, taken : BOOLEAN]
    BY DEF NoSnapshot, Table
  <1>4. Unbounded \in [from : Int \cup {None}, to : Int \cup {None}]
    BY DEF Unbounded
  <1>5. /\ pc' \in [Reader -> -1 .. 9] /\ pc'[r] = -1
        /\ \A e \in Reader : e # r => pc'[e] = pc[e]
    BY <1>1, <1>2 DEF TypeOK
  <1>6. /\ req' \in [Reader -> Query \cup {None}] /\ req'[r] = None
        /\ \A e \in Reader : e # r => req'[e] = req[e]
    BY <1>1, <1>2 DEF TypeOK
  <1>7. /\ snap' \in [Reader -> [clicks : Table, taken : BOOLEAN]] /\ snap'[r] = NoSnapshot
        /\ \A e \in Reader : e # r => snap'[e] = snap[e]
    BY <1>1, <1>2, <1>3 DEF TypeOK
  <1>8. /\ win' \in [Reader -> [from : Int \cup {None}, to : Int \cup {None}]]
        /\ win'[r] = Unbounded /\ \A e \in Reader : e # r => win'[e] = win[e]
    BY <1>1, <1>2, <1>4 DEF TypeOK
  <1>9. /\ DOMAIN out' = Reader /\ out'[r] = << >> /\ \A e \in Reader : e # r => out'[e] = out[e]
    BY <1>1, <1>2 DEF TypeOK
  <1>10. At(r)' = "none" /\ ~Counting(r)'
    BY <1>6 DEF At, Counting, Counts
  <1>11. ReaderSound(r)'
    BY <1>5, <1>6, <1>7, <1>8, <1>9, <1>10 DEF ReaderSound, ReaderOK, Has, Counts
  <1> QED
    BY <1>2, <1>5, <1>6, <1>7, <1>8, <1>9, <1>11, ReaderStep

\* What a step that counts finds: its reader's statement and the next one.
LEMMA PutNext ==
  ASSUME IInv, NEW r \in Reader, At(r) # "none",
         pc' = [pc EXCEPT ![r] = @ + 1], req' = req
  PROVE  /\ TypeOK /\ ReaderSound(r) /\ ReaderOK(r) /\ req[r] # None /\ req[r] \in Query
         /\ pc'[r] = pc[r] + 1 /\ req'[r] = req[r]
         /\ Counting(r)' <=> At(r)' \in Counts \/ (At(r)' = "links" /\ req[r].kind = "export")
         /\ req[r].bounds = Unbounded /\ win[r].to # None => win[r].to <= today
  <1>1. TypeOK /\ ReaderSound(r)
    BY InvIs
  <1>2. pc'[r] = pc[r] + 1 /\ req'[r] = req[r] /\ ReaderOK(r)
    BY <1>1 DEF TypeOK, ReaderSound
  <1>3. req[r] # None /\ req[r] \in Query
    BY <1>1, <1>2, NextAt
  <1> QED
    BY <1>1, <1>2, <1>3 DEF Counting, ReaderSound

LEMMA FindStep == ASSUME IInv, NEW r \in Reader, Find(r) PROVE IInv'
  <1>1. /\ At(r) = "find" /\ \E value : Put(r, "allTime", value)
        /\ snap' = snap /\ win' = win
    BY DEF Find
  <1>2. pc' = [pc EXCEPT ![r] = @ + 1] /\ req' = req
    BY <1>1 DEF Put
  <1>3. /\ TypeOK /\ ReaderSound(r) /\ ReaderOK(r) /\ req[r] # None /\ req[r] \in Query
        /\ pc'[r] = pc[r] + 1 /\ req'[r] = req[r]
        /\ Counting(r)' <=> At(r)' \in Counts \/ (At(r)' = "links" /\ req[r].kind = "export")
        /\ req[r].bounds = Unbounded /\ win[r].to # None => win[r].to <= today
    BY <1>1, <1>2, PutNext
  <1>4. At(r)' \in {"window", "links", "linkTotals"} /\ (At(r)' = "links" => req[r].kind = "detail")
    BY <1>1, <1>3, NextAt
  <1>5. ~Counting(r)' /\ At(r)' \notin Counts
    BY <1>3, <1>4 DEF Counts
  <1>6. Counts \cap DOMAIN out[r] = {}
    BY <1>1, <1>3 DEF ReaderOK, Counting, Counts
  <1>7. "allTime" \notin Counts
    BY DEF Counts
  <1> QED
    BY <1>1, <1>3, <1>5, <1>6, <1>7, PutStep DEF TypeOK

LEMMA SeenIs ==
  ASSUME TypeOK, NEW r \in Reader
  PROVE  /\ Seen(r) \in Table
         /\ Take(r) => /\ snap' \in [Reader -> [clicks : Table, taken : BOOLEAN]]
                       /\ snap'[r] = [clicks |-> Seen(r), taken |-> TRUE]
                       /\ snap'[r].taken
                       /\ \A e \in Reader : e # r => snap'[e] = snap[e]
  <1>1. Seen(r) \in Table
    BY DEF TypeOK, Seen
  <1> DEFINE s == [clicks |-> Seen(r), taken |-> TRUE]
  <1>2. s \in [clicks : Table, taken : BOOLEAN] /\ s.taken
    BY <1>1
  <1> HIDE DEF s
  <1>3. snap \in [Reader -> [clicks : Table, taken : BOOLEAN]]
    BY DEF TypeOK
  <1>4. Take(r) => snap' = [snap EXCEPT ![r] = s]
    BY DEF Take, s
  <1>5. Take(r) => /\ snap' \in [Reader -> [clicks : Table, taken : BOOLEAN]]
                   /\ snap'[r] = s
                   /\ \A e \in Reader : e # r => snap'[e] = snap[e]
    BY <1>2, <1>3, <1>4
  <1> QED
    BY <1>1, <1>2, <1>5 DEF s

LEMMA WindowIs ==
  ASSUME today \in Day
  PROVE  /\ \A t \in Int : LastDays(t) \in Window /\ LastDays(t).to = t
         /\ \A s \in Schedules : Default(s) \in Window /\ Default(s).to <= today
         /\ \A b \in Bounds : LET to == IF b.to = None THEN today ELSE b.to
                              IN  (IF b.from = None THEN LastDays(to)
                                   ELSE [from |-> b.from, to |-> to]) \in Window
         /\ today \in Int /\ Window \subseteq [from : Int \cup {None}, to : Int \cup {None}]
  <1>1. today \in Int /\ Span \in Int /\ Day \subseteq Int
    BY ClickStatsAssumption DEF Day
  <1>2. \A t \in Int : LastDays(t) \in Window /\ LastDays(t).to = t
    BY <1>1 DEF LastDays, Window
  <1>3. ASSUME NEW s \in Schedules PROVE Default(s) \in Window /\ Default(s).to <= today
    <2>1. s.from \in Day \cup {None} /\ s.to \in Day \cup {None}
      BY ClickStatsAssumption
    <2>2. CASE s.from # None /\ s.to # None
      <3>1. s.from \in Int /\ s.to \in Int
        BY <1>1, <2>1, <2>2
      <3>2. PICK to \in Int : to = (IF s.to > today THEN today ELSE s.to) /\ to <= today
        BY <1>1, <3>1
      <3>3. Default(s) = [from |-> s.from, to |-> to]
        BY <2>2, <3>2 DEF Default
      <3> QED
        BY <3>1, <3>2, <3>3 DEF Window
    <2>3. CASE s.from = None \/ s.to = None
      <3>1. Default(s) = LastDays(today)
        BY <2>3 DEF Default
      <3> QED
        BY <1>1, <1>2, <3>1
    <2> QED
      BY <2>2, <2>3
  <1>4. ASSUME NEW b \in Bounds, NEW to, to = IF b.to = None THEN today ELSE b.to
        PROVE  (IF b.from = None THEN LastDays(to) ELSE [from |-> b.from, to |-> to]) \in Window
    <2>1. b.from \in Day \cup {None} /\ b.to \in Day \cup {None}
      BY ClickStatsAssumption DEF Bounds
    <2>2. to \in Int
      BY <1>1, <1>4, <2>1
    <2> QED
      BY <1>1, <1>2, <2>1, <2>2 DEF Window
  <1> QED
    BY <1>1, <1>2, <1>3, <1>4 DEF Window

LEMMA ResolveWindowStep == ASSUME IInv, NEW r \in Reader, ResolveWindow(r) PROVE IInv'
  <1>1. /\ At(r) = "window" /\ pc' = [pc EXCEPT ![r] = @ + 1]
        /\ UNCHANGED <<today, live, at, clicks, req, out>>
    BY DEF ResolveWindow
  <1>2. /\ TypeOK /\ ReaderSound(r) /\ ReaderOK(r) /\ req[r] # None /\ req[r] \in Query
        /\ pc'[r] = pc[r] + 1 /\ req'[r] = req[r]
        /\ Counting(r)' <=> At(r)' \in Counts \/ (At(r)' = "links" /\ req[r].kind = "export")
    BY <1>1, PutNext
  <1>3. /\ At(r)' = "totals" /\ pc[r] \in 1 .. 8
        /\ pc[r] + 1 <= Len(Plan[req[r].kind]) + 1
    BY <1>1, <1>2, NextAt
  <1>4. today \in Day
    BY <1>2 DEF TypeOK
  <1>5. req[r].bounds \in Bounds \cup {Unbounded}
    BY <1>2, KindIs
  <1>6. \E w \in Window : /\ win' = [win EXCEPT ![r] = w]
                          /\ req[r].bounds = Unbounded => w.to <= today
    BY <1>4, <1>5, WindowIs DEF ResolveWindow
  <1>7. PICK w \in Window : /\ win' = [win EXCEPT ![r] = w]
                            /\ req[r].bounds = Unbounded => w.to <= today
    BY <1>6
  <1>8. w \in [from : Int \cup {None}, to : Int \cup {None}]
    BY <1>4, WindowIs
  <1>9. /\ win' \in [Reader -> [from : Int \cup {None}, to : Int \cup {None}]]
        /\ win'[r] = w /\ \A e \in Reader : e # r => win'[e] = win[e]
    BY <1>2, <1>7, <1>8 DEF TypeOK
  <1>10. Take(r) \/ snap' = snap
    BY DEF ResolveWindow
  <1>11. /\ snap' \in [Reader -> [clicks : Table, taken : BOOLEAN]]
         /\ \A e \in Reader : e # r => snap'[e] = snap[e]
    BY <1>2, <1>10, SeenIs DEF TypeOK
  <1>12. /\ pc' \in [Reader -> -1 .. 9] /\ \A e \in Reader : e # r => pc'[e] = pc[e]
    BY <1>1, <1>2, <1>3 DEF TypeOK
  <1>13. /\ req' = req /\ out' = out /\ req' \in [Reader -> Query \cup {None}]
         /\ DOMAIN out' = Reader /\ today' = today
    BY <1>1, <1>2 DEF TypeOK
  <1>14. Counts \cap DOMAIN out[r] = {}
    BY <1>1, <1>2 DEF ReaderOK, Counting, Counts
  <1>15. ReaderOK(r)'
    BY <1>2, <1>3, <1>9, <1>13, <1>14 DEF ReaderOK
  <1>16. ReaderSound(r)'
    BY <1>2, <1>7, <1>9, <1>13, <1>15 DEF ReaderSound, Has
  <1> QED
    BY <1>1, <1>9, <1>11, <1>12, <1>13, <1>16, ReaderStep

\* The counts over a campaign's clicks: the first takes the snapshot, the last
\* gives it back.
LEMMA CountStep ==
  ASSUME IInv, NEW r \in Reader, NEW field \in Counts, At(r) = field,
         \E value : Put(r, field, value), win' = win,
         \/ Take(r)
         \/ snap' = snap /\ field # "totals"
         \/ EndAfter(r) /\ field # "totals"
  PROVE  IInv'
  <1>0. field # "file" /\ field # "none"
    BY DEF Counts
  <1>1. pc' = [pc EXCEPT ![r] = @ + 1] /\ req' = req
    BY DEF Put
  <1>2. /\ TypeOK /\ ReaderSound(r) /\ ReaderOK(r) /\ req[r] # None /\ req[r] \in Query
        /\ pc'[r] = pc[r] + 1 /\ req'[r] = req[r]
        /\ Counting(r)' <=> At(r)' \in Counts \/ (At(r)' = "links" /\ req[r].kind = "export")
        /\ req[r].bounds = Unbounded /\ win[r].to # None => win[r].to <= today
    BY <1>0, <1>1, PutNext
  <1>3. win[r] \in Window
    BY <1>2 DEF ReaderOK, Counting
  <1>4. /\ At(r) = "totals" => At(r)' = "sources"
        /\ At(r) = "sources" => At(r)' = "days"
        /\ At(r) = "days" => At(r)' = IF req[r].kind = "detail" THEN "none" ELSE "byLink"
        /\ At(r) = "byLink" => At(r)' = "series"
        /\ At(r) = "series" => At(r)' = IF req[r].kind = "export" THEN "links" ELSE "none"
    BY <1>0, <1>2, NextAt
  <1>5. ~(At(r)' = "totals" \/ (At(r)' \in {"find", "links", "window"} /\ ~Counting(r)'))
    BY <1>2, <1>4 DEF Counts
  <1>6. NoSnapshot \in [clicks : Table, taken : BOOLEAN]
    BY DEF NoSnapshot, Table
  <1>7. snap' = snap /\ field # "totals" => snap'[r].taken
    BY <1>2 DEF ReaderOK
  <1>8. /\ snap' \in [Reader -> [clicks : Table, taken : BOOLEAN]]
        /\ \A e \in Reader : e # r => snap'[e] = snap[e]
        /\ At(r)' \in Counts \ {"totals"} => snap'[r].taken
    <2>1. CASE Take(r)
      <3>1. /\ snap' \in [Reader -> [clicks : Table, taken : BOOLEAN]] /\ snap'[r].taken
            /\ \A e \in Reader : e # r => snap'[e] = snap[e]
        BY <1>2, <2>1, SeenIs
      <3> QED
        BY <3>1
    <2>2. CASE snap' = snap /\ field # "totals"
      BY <1>2, <1>7, <2>2 DEF TypeOK
    <2>3. CASE EndAfter(r) /\ field # "totals"
      <3>1. CASE field = IF req[r].kind = "detail" THEN "days" ELSE "series"
        <4>1. snap' = [snap EXCEPT ![r] = NoSnapshot]
          BY <2>3, <3>1 DEF EndAfter
        <4>2. At(r)' \notin Counts
          BY <1>4, <3>1 DEF Counts
        <4> QED
          BY <1>2, <1>6, <4>1, <4>2 DEF TypeOK
      <3>2. CASE field # IF req[r].kind = "detail" THEN "days" ELSE "series"
        <4>1. snap' = snap
          BY <2>3, <3>2 DEF EndAfter
        <4> QED
          BY <1>2, <1>7, <2>3, <4>1 DEF TypeOK
      <3> QED
        BY <3>1, <3>2
    <2> QED
      BY <2>1, <2>2, <2>3
  <1> QED
    BY <1>0, <1>2, <1>3, <1>5, <1>8, PutStep DEF TypeOK

LEMMA CountsStep ==
  ASSUME IInv, NEW r \in Reader,
         CountTotals(r) \/ CountSources(r) \/ CountDays(r) \/ CountByLink(r) \/ CountSeries(r)
  PROVE  IInv'
  <1>1. {"totals", "sources", "days", "byLink", "series"} \subseteq Counts
    BY DEF Counts
  <1>2. CASE CountTotals(r)
    <2>1. At(r) = "totals" /\ (\E value : Put(r, "totals", value)) /\ win' = win /\ Take(r)
      BY <1>2 DEF CountTotals
    <2> QED
      BY <1>1, <2>1, CountStep
  <1>3. CASE CountSources(r)
    <2>1. At(r) = "sources" /\ (\E value : Put(r, "sources", value)) /\ win' = win /\ snap' = snap
      BY <1>3 DEF CountSources
    <2> QED
      BY <1>1, <2>1, CountStep
  <1>4. CASE CountDays(r)
    <2>1. At(r) = "days" /\ (\E value : Put(r, "days", value)) /\ win' = win /\ EndAfter(r)
      BY <1>4 DEF CountDays
    <2> QED
      BY <1>1, <2>1, CountStep
  <1>5. CASE CountByLink(r)
    <2>1. At(r) = "byLink" /\ (\E value : Put(r, "byLink", value)) /\ win' = win /\ snap' = snap
      BY <1>5 DEF CountByLink
    <2> QED
      BY <1>1, <2>1, CountStep
  <1>6. CASE CountSeries(r)
    <2>1. At(r) = "series" /\ (\E value : Put(r, "series", value)) /\ win' = win /\ EndAfter(r)
      BY <1>6 DEF CountSeries
    <2> QED
      BY <1>1, <2>1, CountStep
  <1> QED
    BY <1>2, <1>3, <1>4, <1>5, <1>6

LEMMA ListLinksStep == ASSUME IInv, NEW r \in Reader, ListLinks(r) PROVE IInv'
  <1>1. At(r) = "links" /\ snap' = snap /\ win' = win
    BY DEF ListLinks
  <1>2. pc' = [pc EXCEPT ![r] = @ + 1] /\ req' = req
    BY DEF ListLinks, Put
  <1>3. /\ TypeOK /\ ReaderSound(r) /\ ReaderOK(r) /\ req[r] # None /\ req[r] \in Query
        /\ pc'[r] = pc[r] + 1 /\ req'[r] = req[r]
        /\ Counting(r)' <=> At(r)' \in Counts \/ (At(r)' = "links" /\ req[r].kind = "export")
        /\ req[r].bounds = Unbounded /\ win[r].to # None => win[r].to <= today
    BY <1>1, <1>2, PutNext
  <1>4. At(r)' = IF req[r].kind = "export" THEN "none" ELSE "window"
    BY <1>1, <1>3, NextAt
  <1>5. ~Counting(r)' /\ At(r)' \notin Counts
    BY <1>3, <1>4 DEF Counts
  <1>6. "file" \notin Counts /\ "links" \notin Counts
    BY DEF Counts
  <1>7. CASE req[r].kind = "export"
    <2>1. win[r] \in Window
      BY <1>1, <1>3, <1>7 DEF ReaderOK, Counting
    <2>2. LastDay(win[r]) \in Int /\ win[r].from <= LastDay(win[r])
      BY <2>1 DEF LastDay, Window
    <2>3. Put(r, "file", [rows |-> Listed(r), first |-> win[r].from, last |-> LastDay(win[r])])
      BY <1>7 DEF ListLinks
    <2>4. \E value : Put(r, "file", value) /\ value.first <= value.last
      BY <2>2, <2>3
    <2> QED
      BY <1>1, <1>3, <1>4, <1>5, <1>7, <2>4, PutStep DEF TypeOK
  <1>8. CASE req[r].kind # "export"
    <2>1. \E value : Put(r, "links", value)
      BY <1>8 DEF ListLinks
    <2>2. Counts \cap DOMAIN out[r] = {}
      BY <1>1, <1>3, <1>6, <1>8 DEF ReaderOK, Counting
    <2> QED
      BY <1>1, <1>3, <1>5, <1>6, <2>1, <2>2, PutStep DEF TypeOK
  <1> QED
    BY <1>7, <1>8

LEMMA CountLinkStep ==
  ASSUME IInv, NEW r \in Reader, CountLink(r) \/ CountLinkSources(r) \/ CountLinkDays(r)
  PROVE  IInv'
  <1> DEFINE field == IF CountLink(r) THEN "totals" ELSE
                      IF CountLinkSources(r) THEN "sources" ELSE "days"
  <1>1. /\ At(r) \in {"linkTotals", "linkSources", "linkDays"} /\ snap' = snap
        /\ \E value : Put(r, field, value)
        /\ win' = win \/ win' = [win EXCEPT ![r] = LastDays(today)]
    BY DEF CountLink, CountLinkSources, CountLinkDays
  <1>2. field # "file"
    OBVIOUS
  <1>3. PICK f : f = field
    OBVIOUS
  <1> HIDE DEF field
  <1>4. pc' = [pc EXCEPT ![r] = @ + 1] /\ req' = req
    BY <1>1 DEF Put
  <1>5. /\ TypeOK /\ ReaderSound(r) /\ ReaderOK(r) /\ req[r] # None /\ req[r] \in Query
        /\ pc'[r] = pc[r] + 1 /\ req'[r] = req[r]
        /\ Counting(r)' <=> At(r)' \in Counts \/ (At(r)' = "links" /\ req[r].kind = "export")
        /\ req[r].bounds = Unbounded /\ win[r].to # None => win[r].to <= today
    BY <1>1, <1>4, PutNext
  <1>6. At(r)' \in {"linkSources", "linkDays", "none"}
    BY <1>1, <1>5, NextAt
  <1>7. ~Counting(r)' /\ At(r)' \notin Counts
    BY <1>5, <1>6 DEF Counts
  <1>8. today \in Int /\ LastDays(today) \in Window /\ LastDays(today).to = today
        /\ LastDays(today) \in [from : Int \cup {None}, to : Int \cup {None}]
    BY <1>5, WindowIs DEF TypeOK
  <1>9. /\ win' \in [Reader -> [from : Int \cup {None}, to : Int \cup {None}]]
        /\ \A e \in Reader : e # r => win'[e] = win[e]
        /\ req[r].bounds = Unbounded /\ win'[r].to # None => win'[r].to <= today
    BY <1>1, <1>5, <1>8 DEF TypeOK
  <1>10. \E value : Put(r, f, value)
    BY <1>1, <1>3
  <1>11. f # "file" /\ At(r) # "none"
    BY <1>1, <1>2, <1>3
  <1>12. /\ snap' \in [Reader -> [clicks : Table, taken : BOOLEAN]]
         /\ \A e \in Reader : e # r => snap'[e] = snap[e]
    BY <1>1, <1>5 DEF TypeOK
  <1>13. ~(At(r)' = "totals" \/ (At(r)' \in {"find", "links", "window"} /\ ~Counting(r)'))
    BY <1>6
  <1>14. \E value : Put(r, f, value) /\ (f = "file" => value.first <= value.last)
    BY <1>10, <1>11
  <1> QED
    BY <1>7, <1>9, <1>11, <1>12, <1>13, <1>14, PutStep

LEMMA StutterStep == ASSUME IInv, UNCHANGED vars PROVE IInv'
  BY DEF IInv, vars, clicks, reading, ClicksInv, TypeOK, Recording, NoDanglingClick,
         ReaderOK, DefaultWindowPast, FileNameOrdered, Counting, At, Has

LEMMA NextStep == ASSUME IInv, [Next]_vars PROVE IInv'
  <1>1. ASSUME NEW r \in Reader, NotFound(r) \/ WindowGone(r) PROVE IInv'
    <2>1. Fail(r)
      BY <1>1 DEF NotFound, WindowGone
    <2> QED
      BY <2>1, FailStep
  <1> QED
    BY <1>1, RedirectStep, SelectLinkStep, InsertStep, LoseStep, MoveStep, DeleteCampaignStep,
       NextDayStep, AskStep, FindStep, ResolveWindowStep, CountsStep, ListLinksStep,
       CountLinkStep, StutterStep DEF Next

\* However clicks are recorded while links move, campaigns are deleted and days
\* pass: no click and no link refers to a campaign that is gone, a row is written
\* once, and from its first count to its last a reader keeps one snapshot.
THEOREM ClicksInvariant == Spec => []ClicksInv
  <1> QED
    BY InitInv, NextStep, PTL DEF Spec, IInv

\* What a step does to a reader.
LEMMA ReaderMoves ==
  ASSUME TypeOK, [Next]_vars, NEW r \in Reader
  PROVE  \/ /\ pc'[r] = pc[r] /\ req'[r] = req[r] /\ snap'[r] = snap[r] /\ win'[r] = win[r]
            /\ out'[r] = out[r]
         \/ Ask(r) \/ NotFound(r) \/ Find(r) \/ ResolveWindow(r) \/ WindowGone(r)
         \/ CountTotals(r) \/ CountSources(r) \/ CountDays(r) \/ CountByLink(r)
         \/ CountSeries(r) \/ ListLinks(r)
         \/ CountLink(r) \/ CountLinkSources(r) \/ CountLinkDays(r)
  <1>1. ASSUME NEW e \in Reader, e # r,
               \/ Ask(e) \/ NotFound(e) \/ Find(e) \/ ResolveWindow(e) \/ WindowGone(e)
               \/ CountTotals(e) \/ CountSources(e) \/ CountDays(e) \/ CountByLink(e)
               \/ CountSeries(e) \/ ListLinks(e)
               \/ CountLink(e) \/ CountLinkSources(e) \/ CountLinkDays(e)
        PROVE  /\ pc'[r] = pc[r] /\ req'[r] = req[r] /\ snap'[r] = snap[r] /\ win'[r] = win[r]
               /\ out'[r] = out[r]
    BY <1>1
       DEF Ask, NotFound, Find, Fail, Put, ResolveWindow, WindowGone, CountTotals, CountSources,
           CountDays, CountByLink, CountSeries, ListLinks, CountLink, CountLinkSources,
           CountLinkDays, Take, EndAfter, TypeOK
  <1>2. UNCHANGED reading \/ \E e \in Reader :
               \/ Ask(e) \/ NotFound(e) \/ Find(e) \/ ResolveWindow(e) \/ WindowGone(e)
               \/ CountTotals(e) \/ CountSources(e) \/ CountDays(e) \/ CountByLink(e)
               \/ CountSeries(e) \/ ListLinks(e)
               \/ CountLink(e) \/ CountLinkSources(e) \/ CountLinkDays(e)
    BY DEF Next, vars, Redirect, SelectLink, Insert, Lose, Move, DeleteCampaign, NextDay
  <1>3. CASE UNCHANGED reading
    BY <1>3 DEF reading
  <1> QED
    BY <1>1, <1>2, <1>3

LEMMA AtAfterAsk ==
  ASSUME IInv, IInv', NEW r \in Reader, Ask(r)
  PROVE  At(r)' = "find" /\ out'[r] = << >> /\ req'[r] # None
  <1>1. TypeOK /\ TypeOK' /\ ReaderOK(r)
    BY DEF IInv, ClicksInv
  <1>2. pc'[r] = 1 /\ req'[r] # None /\ req'[r] \in Query /\ out' = out /\ pc[r] = 0
    BY <1>1 DEF Ask, TypeOK, IInv, ClicksInv, ReaderOK
  <1>3. Plan[req'[r].kind][1] = "find" /\ Len(Plan[req'[r].kind]) \in 4 .. 8
    BY <1>2, FindFirst
  <1> QED
    BY <1>1, <1>2, <1>3 DEF At, ReaderOK

------------------------------------------------------------------------------
(* Action properties *)

\* Rows are not removed, and lose nothing but a campaign that goes.
LEMMA RowsStay ==
  ASSUME IInv, [Next]_vars, NEW k \in Click, row[k] # None
  PROVE  /\ row'[k] # None /\ row'[k].link = row[k].link /\ row'[k].bot = row[k].bot
         /\ row[k].camp \in live' => row'[k].camp = row[k].camp
  <1>1. TypeOK /\ Recording
    BY InvIs
  <1>2. CASE UNCHANGED row
    BY <1>2
  <1>3. ASSUME NEW e \in Click, Insert(e)
        PROVE  /\ row'[k] # None /\ row'[k].link = row[k].link /\ row'[k].bot = row[k].bot
               /\ row'[k].camp = row[k].camp
    BY <1>1, <1>3, InsertIs
  <1>4. ASSUME NEW d \in Campaign, DeleteCampaign(d)
        PROVE  /\ row'[k] # None /\ row'[k].link = row[k].link /\ row'[k].bot = row[k].bot
               /\ row[k].camp \in live' => row'[k].camp = row[k].camp
    BY <1>1, <1>4, DeleteIs
  <1>5. UNCHANGED row \/ (\E e \in Click : Insert(e)) \/ \E d \in Campaign : DeleteCampaign(d)
    BY DEF Next, vars, clicks, Redirect, SelectLink, Lose, Move, NextDay, Ask, NotFound, Find,
           Fail, Put, ResolveWindow, WindowGone, CountTotals, CountSources, CountDays,
           CountByLink, CountSeries, ListLinks, CountLink, CountLinkSources, CountLinkDays
  <1> QED
    BY <1>2, <1>3, <1>4, <1>5

LEMMA HistoryStep ==
  ASSUME IInv, [Next]_vars, NEW c \in live \cap live'
  PROVE  Human(row, Matching(row, c, Unbounded)) \subseteq Human(row, Matching(row, c, Unbounded))'
  <1>1. \A k \in Click : row[k] # None /\ row[k].camp = c =>
           row'[k] # None /\ row'[k].camp = c /\ row'[k].bot = row[k].bot
    BY RowsStay
  <1>2. Human(row, Matching(row, c, Unbounded))
          = {k \in Click : row[k] # None /\ row[k].camp = c /\ ~row[k].bot}
    BY DEF Human, Matching, In, Unbounded
  <1>3. Human(row, Matching(row, c, Unbounded))'
          = {k \in Click : row'[k] # None /\ row'[k].camp = c /\ ~row'[k].bot}
    BY DEF Human, Matching, In, Unbounded
  <1> QED
    BY <1>1, <1>2, <1>3

\* As long as a campaign lives, no click that was counted for it is lost to it,
\* wherever its links are moved and whatever else is deleted.
THEOREM HistoryIsKept == Spec => HistoryKept
  <1>1. IInv /\ [Next]_vars =>
          [\A c \in live \cap live' :
              Human(row, Matching(row, c, Unbounded))
                  \subseteq Human(row, Matching(row, c, Unbounded))']_vars
    BY HistoryStep
  <1> QED
    BY <1>1, InitInv, NextStep, PTL DEF Spec, HistoryKept

------------------------------------------------------------------------------
(* One table for one answer *)

\* What a campaign's statement counts over a table t and the rows S of it.
Result(statement, t, S) ==
    CASE statement = "totals" -> Totals(t, S)
      [] statement = "sources" -> Breakdown(t, S)
      [] statement = "days" -> Days(t, S)
      [] statement = "byLink" -> ByLink(t, S)
      [] statement = "series" -> Series(t, S)

\* All counts of an answer are of t, which is the reader's snapshot as long as it
\* has more to count, and of one window.
AnswerOf(r, t) ==
    /\ Counts \cap DOMAIN out[r] # {} => win[r] \in Window
    /\ \A f \in Counts \cap DOMAIN out[r] :
          out[r][f] = Result(f, t, Matching(t, req[r].of, win[r]))
    /\ At(r) \in Counts \ {"totals"} => t = snap[r].clicks

\* Every campaign answer is counted over one table of clicks.
FromOneTable ==
    \A r \in Reader : OfCampaign(r) => \E t \in Table : AnswerOf(r, t)

\* Nothing counted yet, and no count to come before the total.
LEMMA NothingCounted ==
  ASSUME NEW r \in Reader, TypeOK', Counts \cap DOMAIN out'[r] = {},
         At(r)' \notin Counts \ {"totals"}
  PROVE  (OfCampaign(r) => \E t \in Table : AnswerOf(r, t))'
  <1>1. PICK t \in Table : t = snap'[r].clicks
    BY DEF TypeOK
  <1>2. AnswerOf(r, t)'
    BY DEF AnswerOf
  <1> QED
    BY <1>2

LEMMA CountIsOfTable ==
  ASSUME IInv, IInv', FromOneTable, NEW r \in Reader, NEW field \in Counts, At(r) = field,
         Put(r, field, Result(field, Seen(r), InWindow(r))), win' = win,
         \/ Take(r)
         \/ snap' = snap /\ field # "totals"
         \/ EndAfter(r) /\ field # "totals"
  PROVE  (OfCampaign(r) => \E t \in Table : AnswerOf(r, t))'
  <1>0. field # "none"
    BY DEF Counts
  <1>1. pc' = [pc EXCEPT ![r] = @ + 1] /\ req' = req
    BY DEF Put
  <1>2. /\ TypeOK /\ ReaderSound(r) /\ ReaderOK(r) /\ req[r] # None /\ req[r] \in Query
        /\ pc'[r] = pc[r] + 1 /\ req'[r] = req[r]
    BY <1>0, <1>1, PutNext
  <1>3. /\ At(r) \in Counts => req[r].kind # "link"
        /\ At(r) = "days" => At(r)' = IF req[r].kind = "detail" THEN "none" ELSE "byLink"
        /\ At(r) = "series" => At(r)' = IF req[r].kind = "export" THEN "links" ELSE "none"
    BY <1>0, <1>2, NextAt
  <1>4. OfCampaign(r)
    BY <1>2, <1>3 DEF OfCampaign
  <1>5. PICK value : value = Result(field, Seen(r), InWindow(r))
    OBVIOUS
  <1>6. Put(r, field, value) /\ DOMAIN out = Reader
    BY <1>2, <1>5 DEF TypeOK
  <1>7. /\ DOMAIN out'[r] = {field} \cup DOMAIN out[r]
        /\ out'[r][field] = value
        /\ \A f \in DOMAIN out[r] : f # field => out'[r][f] = out[r][f]
    BY <1>6, PutIs
  <1>8. PICK t \in Table :
          /\ t = Seen(r)
          /\ \A f \in Counts \cap DOMAIN out[r] :
                f # field => out[r][f] = Result(f, t, Matching(t, req[r].of, win[r]))
    <2>1. Seen(r) \in Table
      BY <1>2, SeenIs
    <2>2. CASE field = "totals"
      <3>1. Counts \cap DOMAIN out[r] = {}
        BY <1>2, <2>2 DEF ReaderOK
      <3> QED
        BY <2>1, <3>1
    <2>3. CASE field # "totals"
      <3>1. snap[r].taken
        BY <1>2, <2>3 DEF ReaderOK
      <3>2. Seen(r) = snap[r].clicks
        BY <3>1 DEF Seen
      <3>3. PICK t \in Table : AnswerOf(r, t)
        BY <1>4 DEF FromOneTable
      <3>4. t = Seen(r)
        BY <2>3, <3>2, <3>3 DEF AnswerOf
      <3> QED
        BY <3>3, <3>4 DEF AnswerOf
    <2> QED
      BY <2>2, <2>3
  <1>9. value = Result(field, t, Matching(t, req[r].of, win[r]))
    BY <1>5, <1>8 DEF InWindow
  <1>10. \A f \in Counts \cap DOMAIN out'[r] :
           out'[r][f] = Result(f, t, Matching(t, req'[r].of, win'[r]))
    BY <1>1, <1>7, <1>8, <1>9
  <1>11. At(r)' \in Counts \ {"totals"} => t = snap'[r].clicks
    <2>1. CASE Take(r)
      <3>1. snap'[r] = [clicks |-> Seen(r), taken |-> TRUE]
        BY <1>2, <2>1, SeenIs
      <3> QED
        BY <1>8, <3>1
    <2>2. field # "totals" => t = snap[r].clicks
      BY <1>2, <1>8 DEF ReaderOK, Seen
    <2>3. CASE snap' = snap /\ field # "totals"
      BY <2>2, <2>3
    <2>4. CASE EndAfter(r) /\ field # "totals"
      <3>1. CASE field = IF req[r].kind = "detail" THEN "days" ELSE "series"
        BY <1>3, <3>1 DEF Counts
      <3>2. CASE field # IF req[r].kind = "detail" THEN "days" ELSE "series"
        BY <2>2, <2>4, <3>2 DEF EndAfter
      <3> QED
        BY <3>1, <3>2
    <2> QED
      BY <2>1, <2>3, <2>4
  <1>12. win'[r] \in Window
    <2>1. win[r] \in Window
      BY <1>2 DEF ReaderOK, Counting
    <2> QED
      BY <2>1
  <1> QED
    BY <1>10, <1>11, <1>12 DEF AnswerOf

LEMMA OneTableStep == ASSUME IInv, IInv', FromOneTable, [Next]_vars PROVE FromOneTable'
  <1> SUFFICES ASSUME NEW r \in Reader
               PROVE  (OfCampaign(r) => \E t \in Table : AnswerOf(r, t))'
    BY DEF FromOneTable
  <1>1. TypeOK /\ TypeOK' /\ ReaderOK(r) /\ ReaderOK(r)'
    BY DEF IInv, ClicksInv
  <1>2. ASSUME pc'[r] = pc[r], req'[r] = req[r], snap'[r] = snap[r], win'[r] = win[r],
               out'[r] = out[r]
        PROVE  (OfCampaign(r) => \E t \in Table : AnswerOf(r, t))'
    BY <1>2 DEF FromOneTable, OfCampaign, AnswerOf, At
  <1>3. CASE Ask(r)
    <2>1. At(r)' = "find"
      BY <1>3, AtAfterAsk
    <2>2. Counts \cap DOMAIN out'[r] = {}
      BY <1>1, <2>1 DEF ReaderOK, Counting, Counts
    <2> QED
      BY <1>1, <2>1, <2>2, NothingCounted DEF Counts
  <1>4. CASE NotFound(r) \/ WindowGone(r)
    <2>1. req'[r] = None
      BY <1>1, <1>4 DEF NotFound, WindowGone, Fail, TypeOK
    <2> QED
      BY <2>1 DEF OfCampaign
  <1>5. CASE Find(r)
    <2>1. At(r) = "find" /\ pc'[r] = pc[r] + 1 /\ req'[r] = req[r]
      BY <1>1, <1>5 DEF Find, Put, TypeOK
    <2>2. At(r)' \in {"window", "links", "linkTotals"}
          /\ (At(r)' = "links" => req[r].kind = "detail")
      BY <1>1, <2>1, NextAt
    <2>3. CASE At(r)' = "linkTotals"
      <3>1. req'[r].kind = "link"
        <4>1. At(r)' = "linkTotals" /\ req'[r] # None /\ req'[r] \in Query /\ pc'[r] \in 1 .. 9
              /\ pc'[r] <= Len(Plan[req'[r].kind]) + 1
          BY <1>1, <2>3 DEF At, ReaderOK, TypeOK
        <4>2. PICK q \in Query : q = req'[r]
          BY <4>1
        <4>3. PICK n \in 1 .. 9 : n = pc'[r]
          BY <4>1
        <4>4. AtOf(q, n) = "linkTotals" /\ n <= Len(Plan[q.kind]) + 1
          BY <4>1, <4>2, <4>3 DEF At, AtOf
        <4> QED
          BY <4>2, <4>4, AtOfIs, KindIs
      <3> QED
        BY <3>1 DEF OfCampaign
    <2>4. CASE At(r)' # "linkTotals"
      <3>1. ~Counting(r)' /\ At(r)' \in {"links", "window"}
        BY <2>1, <2>2, <2>4 DEF Counting, Counts
      <3>2. Counts \cap DOMAIN out'[r] = {}
        BY <1>1, <3>1 DEF ReaderOK
      <3> QED
        BY <1>1, <3>1, <3>2, NothingCounted DEF Counts
    <2> QED
      BY <2>3, <2>4
  <1>6. CASE ResolveWindow(r)
    <2>1. At(r) = "window" /\ pc'[r] = pc[r] + 1 /\ req'[r] = req[r]
      BY <1>1, <1>6 DEF ResolveWindow, TypeOK
    <2>2. At(r)' = "totals"
      BY <1>1, <2>1, NextAt
    <2>3. Counts \cap DOMAIN out'[r] = {}
      BY <1>1, <2>2 DEF ReaderOK
    <2> QED
      BY <1>1, <2>2, <2>3, NothingCounted
  <1>7. CASE CountTotals(r)
    <2>1. /\ At(r) = "totals" /\ win' = win /\ Take(r) /\ "totals" \in Counts
          /\ Put(r, "totals", Result("totals", Seen(r), InWindow(r)))
      BY <1>7 DEF CountTotals, Result, Counts
    <2> QED
      BY <2>1, CountIsOfTable
  <1>8. CASE CountSources(r)
    <2>1. /\ At(r) = "sources" /\ win' = win /\ snap' = snap /\ "sources" \in Counts
          /\ Put(r, "sources", Result("sources", Seen(r), InWindow(r)))
      BY <1>8 DEF CountSources, Result, Counts
    <2> QED
      BY <2>1, CountIsOfTable
  <1>9. CASE CountDays(r)
    <2>1. /\ At(r) = "days" /\ win' = win /\ EndAfter(r) /\ "days" \in Counts
          /\ Put(r, "days", Result("days", Seen(r), InWindow(r)))
      BY <1>9 DEF CountDays, Result, Counts
    <2> QED
      BY <2>1, CountIsOfTable
  <1>10. CASE CountByLink(r)
    <2>1. /\ At(r) = "byLink" /\ win' = win /\ snap' = snap /\ "byLink" \in Counts
          /\ Put(r, "byLink", Result("byLink", Seen(r), InWindow(r)))
      BY <1>10 DEF CountByLink, Result, Counts
    <2> QED
      BY <2>1, CountIsOfTable
  <1>11. CASE CountSeries(r)
    <2>1. /\ At(r) = "series" /\ win' = win /\ EndAfter(r) /\ "series" \in Counts
          /\ Put(r, "series", Result("series", Seen(r), InWindow(r)))
      BY <1>11 DEF CountSeries, Result, Counts
    <2> QED
      BY <2>1, CountIsOfTable
  <1>12. CASE ListLinks(r)
    <2>1. /\ At(r) = "links" /\ pc'[r] = pc[r] + 1 /\ req'[r] = req[r] /\ req' = req
          /\ win' = win
      BY <1>1, <1>12 DEF ListLinks, Put, TypeOK
    <2>2. At(r)' = IF req[r].kind = "export" THEN "none" ELSE "window"
      BY <1>1, <2>1, NextAt
    <2>3. CASE req[r].kind = "export"
      <3>1. Put(r, "file", [rows |-> Listed(r), first |-> win[r].from, last |-> LastDay(win[r])])
        BY <1>12, <2>3 DEF ListLinks
      <3>2. PICK value : Put(r, "file", value)
        BY <3>1
      <3>3. /\ DOMAIN out'[r] = {"file"} \cup DOMAIN out[r]
            /\ \A f \in DOMAIN out[r] : f # "file" => out'[r][f] = out[r][f]
        BY <1>1, <3>2, PutIs DEF TypeOK
      <3>4. "file" \notin Counts
        BY DEF Counts
      <3>5. ASSUME OfCampaign(r)' PROVE (\E t \in Table : AnswerOf(r, t))'
        <4>1. PICK t \in Table : AnswerOf(r, t)
          BY <2>1, <3>5 DEF FromOneTable, OfCampaign
        <4>2. \A f \in Counts \cap DOMAIN out'[r] :
                out'[r][f] = Result(f, t, Matching(t, req'[r].of, win'[r]))
          BY <2>1, <3>3, <3>4, <4>1 DEF AnswerOf
        <4>3. At(r)' \notin Counts
          BY <2>2, <2>3 DEF Counts
        <4>4. Counts \cap DOMAIN out'[r] # {} => win'[r] \in Window
          BY <2>1, <3>3, <3>4, <4>1 DEF AnswerOf
        <4>5. AnswerOf(r, t)'
          BY <4>2, <4>3, <4>4 DEF AnswerOf
        <4> QED
          BY <4>5
      <3> QED
        BY <3>5
    <2>4. CASE req[r].kind # "export"
      <3>1. At(r)' = "window" /\ ~Counting(r)'
        BY <2>2, <2>4 DEF Counting, Counts
      <3>2. Counts \cap DOMAIN out'[r] = {}
        BY <1>1, <3>1 DEF ReaderOK
      <3> QED
        BY <1>1, <3>1, <3>2, NothingCounted DEF Counts
    <2> QED
      BY <2>3, <2>4
  <1>13. CASE CountLink(r) \/ CountLinkSources(r) \/ CountLinkDays(r)
    <2>1. /\ At(r) \in {"linkTotals", "linkSources", "linkDays"}
          /\ pc'[r] = pc[r] + 1 /\ req'[r] = req[r]
      BY <1>1, <1>13 DEF CountLink, CountLinkSources, CountLinkDays, Put, TypeOK
    <2>2. req[r].kind = "link"
      BY <1>1, <2>1, NextAt
    <2> QED
      BY <2>1, <2>2 DEF OfCampaign
  <1> QED
    BY <1>1, <1>2, <1>3, <1>4, <1>5, <1>6, <1>7, <1>8, <1>9, <1>10, <1>11, <1>12, <1>13,
       ReaderMoves

\* The REPEATABLE READ transaction does what it is there for: totals, breakdown,
\* days, links and series of one campaign answer are counted over one and the same
\* table of clicks and one window, however clicks are recorded, links moved and
\* campaigns deleted between its statements.
THEOREM OneTablePerAnswer == Spec => []FromOneTable
  <1>1. Init => FromOneTable
    BY DEF Init, FromOneTable, OfCampaign
  <1>2. IInv /\ IInv' /\ FromOneTable /\ [Next]_vars => FromOneTable'
    BY OneTableStep
  <1> QED
    BY <1>1, <1>2, InitInv, NextStep, PTL DEF Spec

\* What is counted in a window is of its days: of days that are over when it ends
\* by today, of none when it runs backwards.
LEMMA WindowsFit == ASSUME IInv, FromOneTable PROVE WindowsSound
  <1> SUFFICES ASSUME NEW r \in Reader, OfCampaign(r), "totals" \in DOMAIN out[r]
               PROVE  /\ req[r].bounds = Unbounded /\ Has(r, "days") =>
                            \A d \in DOMAIN out[r].days : d < today
                      /\ win[r].to <= win[r].from => Empty(r)
    BY DEF WindowsSound, IInv, Has
  <1>1. PICK t \in Table : AnswerOf(r, t)
    BY DEF FromOneTable
  <1>2. win[r] \in Window /\ today \in Int /\ None \notin Int /\ Day \subseteq Int
    BY <1>1, ClickStatsAssumption DEF AnswerOf, Counts, IInv, ClicksInv, TypeOK, Day
  <1>3. PICK from \in Int, to \in Int : win[r].from = from /\ win[r].to = to
    BY <1>2 DEF Window
  <1> DEFINE S == Matching(t, req[r].of, win[r])
  <1>4. \A k \in S : t[k].day \in Int /\ from <= t[k].day /\ t[k].day < to
    BY <1>2, <1>3 DEF Matching, In, Table, Entry
  <1>5. /\ out[r]["totals"] = Totals(t, S)
        /\ Has(r, "sources") => out[r]["sources"] = Breakdown(t, S)
        /\ Has(r, "days") => out[r]["days"] = Days(t, S)
        /\ Has(r, "byLink") => out[r]["byLink"] = ByLink(t, S)
    BY <1>1 DEF AnswerOf, Has, Counts, Result
  <1> HIDE DEF S
  <1>6. ASSUME req[r].bounds = Unbounded, Has(r, "days"), NEW d \in DOMAIN out[r]["days"]
        PROVE  d < today
    <2>1. PICK k \in S : d = t[k].day
      BY <1>5, <1>6 DEF Days, Tally, Human
    <2>2. to <= today
      BY <1>2, <1>3, <1>6 DEF IInv, DefaultWindowPast, OfCampaign
    <2> QED
      BY <1>2, <1>4, <2>1, <2>2
  <1>7. ASSUME win[r].to <= win[r].from PROVE Empty(r)
    <2>1. S = {} /\ Human(t, S) = {}
      BY <1>3, <1>4, <1>7 DEF Human
    <2>2. Totals(t, S) = [count |-> 0, bots |-> 0]
      BY <2>1, FS_EmptySet DEF Totals
    <2>3. DOMAIN Days(t, S) = {} /\ DOMAIN ByLink(t, S) = {}
      BY <2>1 DEF Days, ByLink, Tally
    <2>4. DOMAIN Breakdown(t, S) = {}
      BY <2>1 DEF Breakdown, Restricted, First, Tally
    <2> QED
      BY <1>5, <2>2, <2>3, <2>4 DEF Empty
  <1> QED
    BY <1>6, <1>7

\* Whatever schedule an edit has left the campaign with: an answer over it shows
\* only days that are over and, when the campaign is yet to begin, nothing, and no
\* export is named for dates that run backwards.
THEOREM WindowsAreSound == Spec => []WindowsSound
  <1>1. Init => FromOneTable
    BY DEF Init, FromOneTable, OfCampaign
  <1>2. IInv /\ IInv' /\ FromOneTable /\ [Next]_vars => FromOneTable'
    BY OneTableStep
  <1>3. IInv /\ FromOneTable => WindowsSound
    BY WindowsFit
  <1> QED
    BY <1>1, <1>2, <1>3, InitInv, NextStep, PTL DEF Spec

------------------------------------------------------------------------------
(* Counts of a link *)

\* How many clicks a link has, bots apart.
HumanClicks(l) == Cardinality(Human(row, OfLink(row, l, Unbounded)))

\* What the page of a link has counted, the table has still.
CountsBehind ==
    \A r \in Reader : req[r] # None /\ req[r].kind = "link" =>
        /\ At(r) # "find" => /\ Has(r, "allTime") /\ out[r].allTime \in Nat
                             /\ out[r].allTime <= HumanClicks(req[r].of)
        /\ Has(r, "totals") => /\ Has(r, "allTime") /\ out[r].totals.count \in Nat
                               /\ out[r].allTime \in Nat /\ out[r].allTime <= out[r].totals.count

LEMMA HumanClicksIs ==
  ASSUME NEW l
  PROVE  /\ Human(row, OfLink(row, l, Unbounded))
              = {k \in Click : row[k] # None /\ row[k].link = l /\ ~row[k].bot}
         /\ HumanClicks(l) \in Nat
         /\ Totals(row, OfLink(row, l, Unbounded)).count = HumanClicks(l)
  <1>1. Human(row, OfLink(row, l, Unbounded))
          = {k \in Click : row[k] # None /\ row[k].link = l /\ ~row[k].bot}
    BY DEF Human, OfLink, In, Unbounded
  <1>2. IsFiniteSet(Human(row, OfLink(row, l, Unbounded)))
    BY <1>1, FS_Subset, ClickStatsAssumption
  <1>3. HumanClicks(l) \in Nat
    BY <1>2, FS_CardinalityType DEF HumanClicks
  <1> QED
    BY <1>1, <1>3 DEF Totals, HumanClicks

LEMMA HumanClicksNext == ASSUME NEW l PROVE HumanClicks(l)' \in Nat
  <1>1. Human(row, OfLink(row, l, Unbounded))' \subseteq Click
    BY DEF Human, OfLink
  <1> QED
    BY <1>1, FS_Subset, FS_CardinalityType, ClickStatsAssumption DEF HumanClicks

\* Clicks are not removed, and keep the link they are of.
LEMMA ClicksGrow ==
  ASSUME IInv, [Next]_vars, NEW l
  PROVE  HumanClicks(l) <= HumanClicks(l)'
  <1>2. \A k \in Click : row[k] # None =>
           row'[k] # None /\ row'[k].link = row[k].link /\ row'[k].bot = row[k].bot
    BY RowsStay
  <1> DEFINE S == {k \in Click : row[k] # None /\ row[k].link = l /\ ~row[k].bot}
             T == {k \in Click : row'[k] # None /\ row'[k].link = l /\ ~row'[k].bot}
  <1>3. HumanClicks(l) = Cardinality(S) /\ HumanClicks(l)' = Cardinality(T)
    BY DEF HumanClicks, Human, OfLink, In, Unbounded
  <1>4. S \subseteq T /\ T \subseteq Click
    BY <1>2
  <1> HIDE DEF S, T
  <1>5. IsFiniteSet(T)
    BY <1>4, FS_Subset, ClickStatsAssumption
  <1>6. Cardinality(S) <= Cardinality(T)
    BY <1>4, <1>5, FS_Subset
  <1> QED
    BY <1>3, <1>6

LEMMA CountsBehindStep == ASSUME IInv, IInv', CountsBehind, [Next]_vars PROVE CountsBehind'
  <1> SUFFICES ASSUME NEW r \in Reader, req'[r] # None, req'[r].kind = "link"
               PROVE  /\ At(r)' # "find" =>
                            /\ Has(r, "allTime")' /\ out'[r].allTime \in Nat
                            /\ out'[r].allTime <= HumanClicks(req[r].of)'
                      /\ Has(r, "totals")' =>
                            /\ Has(r, "allTime")' /\ out'[r].totals.count \in Nat
                            /\ out'[r].allTime \in Nat
                            /\ out'[r].allTime <= out'[r].totals.count
    BY DEF CountsBehind
  <1>1. TypeOK /\ TypeOK' /\ ReaderOK(r) /\ ReaderOK(r)' /\ ReaderSound(r)
    BY InvIs DEF IInv, ClicksInv
  <1>2. PICK l : l = req'[r].of
    OBVIOUS
  <1>3. PICK n \in Nat : n = HumanClicks(l)
    BY HumanClicksIs
  <1>4. PICK m \in Nat : m = HumanClicks(l)' /\ n <= m
    BY <1>3, ClicksGrow, HumanClicksNext
  <1>5. HumanClicks(req[r].of)' = m
    BY <1>2, <1>4 DEF HumanClicks
  <1> SUFFICES /\ At(r)' # "find" => /\ Has(r, "allTime")' /\ out'[r].allTime \in Nat
                                     /\ out'[r].allTime <= m
               /\ Has(r, "totals")' => /\ Has(r, "allTime")' /\ out'[r].totals.count \in Nat
                                       /\ out'[r].allTime \in Nat
                                       /\ out'[r].allTime <= out'[r].totals.count
    BY <1>5
  <1>6. ASSUME req[r] = req'[r]
        PROVE  /\ At(r) # "find" => /\ Has(r, "allTime") /\ out[r].allTime \in Nat
                                    /\ out[r].allTime <= n
               /\ Has(r, "totals") => /\ Has(r, "allTime") /\ out[r].totals.count \in Nat
                                      /\ out[r].allTime \in Nat
                                      /\ out[r].allTime <= out[r].totals.count
    BY <1>2, <1>3, <1>6 DEF CountsBehind
  <1>7. CASE pc'[r] = pc[r] /\ req'[r] = req[r] /\ out'[r] = out[r]
    <2>1. At(r)' = At(r)
      BY <1>7 DEF At
    <2>2. \A x \in Nat : x <= n => x <= m
      BY <1>4
    <2> QED
      BY <1>6, <1>7, <2>1, <2>2 DEF Has
  <1>8. CASE Ask(r)
    <2>1. At(r)' = "find" /\ DOMAIN out'[r] = {}
      BY <1>8, AtAfterAsk
    <2> QED
      BY <2>1 DEF Has
  <1>9. CASE NotFound(r) \/ WindowGone(r)
    BY <1>1, <1>9 DEF NotFound, WindowGone, Fail, TypeOK
  <1>10. CASE Find(r)
    <2>1. At(r) = "find" /\ req'[r] = req[r] /\ row' = row
      BY <1>1, <1>10 DEF Find, Put, TypeOK, clicks
    <2>2. PICK value : Put(r, "allTime", value) /\ value = n
      BY <1>2, <1>3, <1>10, <2>1, HumanClicksIs DEF Find
    <2>3. m = n
      BY <1>3, <1>4, <2>1 DEF HumanClicks, Human, OfLink
    <2>4. Counts \cap DOMAIN out[r] = {}
      BY <1>1, <2>1 DEF ReaderOK, Counting, Counts
    <2>5. DOMAIN out'[r] = {"allTime"} \cup DOMAIN out[r] /\ out'[r]["allTime"] = n
      BY <1>1, <2>2, PutIs DEF TypeOK
    <2> QED
      BY <1>3, <2>3, <2>4, <2>5 DEF Has, Counts
  <1>11. ASSUME At(r) \in Counts \cup {"window", "links"}, pc'[r] = pc[r] + 1, req'[r] = req[r]
         PROVE  FALSE
    <2>1. At(r) # "none"
      BY <1>11 DEF Counts
    <2>2. req[r].kind # "link"
      BY <1>1, <1>11, <2>1, NextAt
    <2> QED
      BY <1>11, <2>2
  <1>12. CASE \/ ResolveWindow(r) \/ CountTotals(r) \/ CountSources(r) \/ CountDays(r)
              \/ CountByLink(r) \/ CountSeries(r) \/ ListLinks(r)
    BY <1>1, <1>11, <1>12 DEF ResolveWindow, CountTotals, CountSources, CountDays, CountByLink,
                              CountSeries, ListLinks, Put, Counts, TypeOK
  <1>13. CASE CountLink(r)
    <2>1. At(r) = "linkTotals" /\ req'[r] = req[r]
      BY <1>1, <1>13 DEF CountLink, Put, TypeOK
    <2>2. PICK value : Put(r, "totals", value) /\ value.count = n
      BY <1>2, <1>3, <1>13, <2>1, HumanClicksIs DEF CountLink
    <2>3. /\ DOMAIN out'[r] = {"totals"} \cup DOMAIN out[r] /\ out'[r]["totals"] = value
          /\ \A f \in DOMAIN out[r] : f # "totals" => out'[r][f] = out[r][f]
      BY <1>1, <2>2, PutIs DEF TypeOK
    <2>4. "allTime" \in DOMAIN out[r] /\ out[r]["allTime"] \in Nat /\ out[r]["allTime"] <= n
      BY <1>6, <2>1 DEF Has
    <2>5. "allTime" \in DOMAIN out'[r] /\ out'[r]["allTime"] = out[r]["allTime"]
          /\ out'[r]["totals"].count = n
      BY <2>2, <2>3, <2>4
    <2>6. \A x \in Nat : x <= n => x <= m
      BY <1>4
    <2> QED
      BY <2>4, <2>5, <2>6 DEF Has
  <1>14. CASE CountLinkSources(r) \/ CountLinkDays(r)
    <2>1. PICK f \in {"sources", "days"} :
            /\ At(r) # "find" /\ req'[r] = req[r]
            /\ \E value : Put(r, f, value)
      <3>1. At(r) # "find" /\ \E f \in {"sources", "days"} : \E value : Put(r, f, value)
        <4>1. CASE CountLinkSources(r)
          BY <4>1 DEF CountLinkSources
        <4>2. CASE CountLinkDays(r)
          BY <4>2 DEF CountLinkDays
        <4> QED
          BY <1>14, <4>1, <4>2
      <3> QED
        BY <3>1 DEF Put
    <2>2. PICK value : Put(r, f, value)
      BY <2>1
    <2>3. /\ DOMAIN out'[r] = {f} \cup DOMAIN out[r]
          /\ \A g \in DOMAIN out[r] : g # f => out'[r][g] = out[r][g]
      BY <1>1, <2>2, PutIs DEF TypeOK
    <2>4. "allTime" \in DOMAIN out[r] /\ out[r]["allTime"] \in Nat /\ out[r]["allTime"] <= n
      BY <1>6, <2>1 DEF Has
    <2>5. \A x \in Nat : x <= n => x <= m
      BY <1>4
    <2>6. /\ "allTime" \in DOMAIN out'[r] /\ out'[r]["allTime"] = out[r]["allTime"]
          /\ "totals" \in DOMAIN out'[r] =>
                "totals" \in DOMAIN out[r] /\ out'[r]["totals"] = out[r]["totals"]
      BY <2>3, <2>4
    <2> QED
      BY <1>6, <2>1, <2>4, <2>5, <2>6 DEF Has
  <1> QED
    BY <1>1, <1>7, <1>8, <1>9, <1>10, <1>12, <1>13, <1>14, ReaderMoves

\* The two statements of a link's page that count its clicks see no snapshot in
\* common, yet the first is never ahead of the second.
THEOREM AllTimeIsBehind == Spec => []AllTimeBehind
  <1>1. Init => CountsBehind
    BY DEF Init, CountsBehind
  <1>2. IInv /\ IInv' /\ CountsBehind /\ [Next]_vars => CountsBehind'
    BY CountsBehindStep
  <1>3. CountsBehind => AllTimeBehind
    BY DEF CountsBehind, AllTimeBehind
  <1> QED
    BY <1>1, <1>2, <1>3, InitInv, NextStep, PTL DEF Spec

------------------------------------------------------------------------------
(* Sums and rankings *)

\* A set has as many elements as the positions of a numbering of it.
LEMMA Numbering ==
  ASSUME NEW C, IsFiniteSet(C)
  PROVE  /\ Cardinality(C) \in Nat
         /\ \E h \in [C -> 1 .. Cardinality(C)] :
               /\ \A a, b \in C : h[a] = h[b] => a = b
               /\ \A i \in 1 .. Cardinality(C) : \E a \in C : h[a] = i
  <1>1. Cardinality(C) \in Nat /\ ExistsBijection(1 .. Cardinality(C), C)
    BY FS_CardinalityType
  <1>2. ExistsBijection(C, 1 .. Cardinality(C))
    BY <1>1, Fun_ExistsBijSymmetric
  <1>3. PICK h : h \in Bijection(C, 1 .. Cardinality(C))
    BY <1>2 DEF ExistsBijection
  <1> DEFINE T == 1 .. Cardinality(C)
  <1> HIDE DEF T
  <1>4. h \in [C -> T] /\ (\A a, b \in C : h[a] = h[b] => a = b)
        /\ \A i \in T : \E a \in C : h[a] = i
    <2>1. h \in Bijection(C, T)
      BY <1>3 DEF T
    <2> QED
      BY <2>1, Fun_BijectionProperties
  <1> QED
    BY <1>1, <1>4 DEF T

\* When g sorts the members of S into the places of f, and f counts what is in each
\* of them, then f sums to what it counts.
LEMMA SumCounts ==
  ASSUME NEW S, IsFiniteSet(S), NEW g, NEW f,
         \A x \in DOMAIN f : f[x] = Cardinality({k \in S : g[k] = x})
  PROVE  SumOf(f) = Cardinality({k \in S : g[k] \in DOMAIN f})
  <1> DEFINE D == DOMAIN f
             C(x) == {k \in S : g[k] = x}
             P == {k \in S : g[k] \in D}
             U == UNION {{<<x, i>> : i \in 1 .. f[x]} : x \in D}
             Numbers(x, h) == /\ h \in [C(x) -> 1 .. f[x]]
                              /\ \A a, b \in C(x) : h[a] = h[b] => a = b
                              /\ \A i \in 1 .. f[x] : \E a \in C(x) : h[a] = i
             b == [x \in D |-> CHOOSE h : Numbers(x, h)]
             H == [k \in P |-> <<g[k], b[g[k]][k]>>]
  <1>1. ASSUME NEW x \in D PROVE f[x] \in Nat /\ Numbers(x, b[x])
    <2>1. IsFiniteSet(C(x)) /\ f[x] = Cardinality(C(x))
      BY FS_Subset
    <2>2. f[x] \in Nat /\ \E h : Numbers(x, h)
      BY <2>1, Numbering
    <2> HIDE DEF Numbers
    <2> QED
      BY <2>2
  <1>2. \A u : u \in U <=> \E x \in D : \E i \in 1 .. f[x] : u = <<x, i>>
    OBVIOUS
  <1>3. \A k \in P : k \in S /\ g[k] \in D /\ k \in C(g[k])
    OBVIOUS
  <1>4. \A k, m \in P : g[k] = g[m] => m \in C(g[k])
    OBVIOUS
  <1>5. \A x \in D : \A k \in C(x) : k \in P /\ g[k] = x
    OBVIOUS
  <1>6. \A k \in P : H[k] = <<g[k], b[g[k]][k]>>
    OBVIOUS
  <1> HIDE DEF D, C, P, U, b
  <1>8. \A k \in P : <<g[k], b[g[k]][k]>> \in U
    <2> SUFFICES ASSUME NEW k \in P PROVE <<g[k], b[g[k]][k]>> \in U
      OBVIOUS
    <2>1. g[k] \in D /\ k \in C(g[k])
      BY <1>3
    <2>2. b[g[k]] \in [C(g[k]) -> 1 .. f[g[k]]]
      BY <1>1, <2>1
    <2>3. b[g[k]][k] \in 1 .. f[g[k]]
      BY <2>1, <2>2
    <2> QED
      BY <1>2, <2>1, <2>3
  <1>9. H \in [P -> U]
    BY <1>8
  <1> HIDE DEF H
  <1>10. \A k, m \in P : H[k] = H[m] => k = m
    <2> SUFFICES ASSUME NEW k \in P, NEW m \in P, H[k] = H[m] PROVE k = m
      OBVIOUS
    <2>1. g[k] = g[m] /\ b[g[k]][k] = b[g[m]][m]
      BY <1>6
    <2> QED
      BY <2>1, <1>1, <1>3, <1>4
  <1>11. \A u \in U : \E k \in P : H[k] = u
    <2> SUFFICES ASSUME NEW u \in U PROVE \E k \in P : H[k] = u
      OBVIOUS
    <2>1. PICK x \in D : \E i \in 1 .. f[x] : u = <<x, i>>
      BY <1>2
    <2>2. PICK i \in 1 .. f[x] : u = <<x, i>>
      BY <2>1
    <2>3. PICK k \in C(x) : b[x][k] = i
      BY <1>1
    <2> QED
      BY <1>5, <1>6, <2>2, <2>3
  <1>12. H \in Bijection(P, U)
    BY <1>9, <1>10, <1>11, Fun_IsBij
  <1>13. IsFiniteSet(P)
    BY FS_Subset DEF P
  <1>14. Cardinality(U) = Cardinality(P)
    BY <1>12, <1>13, FS_Bijection DEF ExistsBijection
  <1> QED
    BY <1>14 DEF SumOf, U, P, D

\* Among the members of a finite set, a strict total order R gives each its own rank:
\* how many come before it.
Rank(D, R, x) == Cardinality({y \in D : <<y, x>> \in R})

Orders(R, D) ==
    /\ \A x \in D : <<x, x>> \notin R
    /\ \A x, y, z \in D : <<x, y>> \in R /\ <<y, z>> \in R => <<x, z>> \in R
    /\ \A x, y \in D : x # y => <<x, y>> \in R \/ <<y, x>> \in R

LEMMA Ranks ==
  ASSUME NEW D, IsFiniteSet(D), NEW R, Orders(R, D)
  PROVE  /\ Cardinality(D) \in Nat
         /\ \A x \in D : Rank(D, R, x) \in 0 .. Cardinality(D) - 1
         /\ \A x, y \in D : <<x, y>> \in R <=> Rank(D, R, x) < Rank(D, R, y)
         /\ \A i \in 0 .. Cardinality(D) - 1 : \E x \in D : Rank(D, R, x) = i
  <1> DEFINE B(x) == {y \in D : <<y, x>> \in R}
             N == 0 .. Cardinality(D) - 1
             rank == [x \in D |-> Cardinality(B(x))]
  <1>1. Cardinality(D) \in Nat
    BY FS_CardinalityType
  <1>2. ASSUME NEW x \in D
        PROVE  IsFiniteSet(B(x)) /\ Cardinality(B(x)) \in N
    <2>1. B(x) \in SUBSET D /\ x \notin B(x)
      BY DEF Orders
    <2>2. B(x) # D
      BY <2>1
    <2> HIDE DEF B
    <2>3. IsFiniteSet(B(x)) /\ Cardinality(B(x)) <= Cardinality(D)
          /\ Cardinality(D) # Cardinality(B(x))
      BY <2>1, <2>2, FS_Subset
    <2>4. Cardinality(B(x)) \in Nat
      BY <2>3, FS_CardinalityType
    <2> QED
      BY <1>1, <2>3, <2>4
  <1>3. ASSUME NEW x \in D, NEW y \in D, <<x, y>> \in R
        PROVE  Cardinality(B(x)) < Cardinality(B(y))
    <2>1. B(x) \in SUBSET B(y) /\ x \in B(y) /\ x \notin B(x)
      BY <1>3 DEF Orders
    <2>2. B(x) # B(y)
      BY <2>1
    <2> HIDE DEF B
    <2>3. IsFiniteSet(B(y)) /\ Cardinality(B(x)) \in Nat /\ Cardinality(B(y)) \in Nat
      BY <1>2, FS_CardinalityType
    <2>4. Cardinality(B(x)) <= Cardinality(B(y)) /\ Cardinality(B(y)) # Cardinality(B(x))
      BY <2>1, <2>2, <2>3, FS_Subset
    <2> QED
      BY <2>3, <2>4
  <1>4. \A x \in D : rank[x] = Cardinality(B(x)) /\ Rank(D, R, x) = rank[x]
    BY DEF Rank
  <1>5. rank \in [D -> N]
    BY <1>2
  <1> HIDE DEF rank, N, B
  <1>6. \A x, y \in D : <<x, y>> \in R => rank[x] < rank[y]
    BY <1>3, <1>4
  <1>7. \A x \in D : rank[x] \in Int
    BY <1>1, <1>5 DEF N
  <1>8. ASSUME NEW x \in D, NEW y \in D
        PROVE  /\ rank[x] < rank[y] => <<x, y>> \in R
               /\ rank[x] = rank[y] => x = y
    <2>1. x = y \/ <<x, y>> \in R \/ <<y, x>> \in R
      BY DEF Orders
    <2>2. rank[x] \in Int /\ rank[y] \in Int
      BY <1>7
    <2>3. <<x, y>> \in R => rank[x] < rank[y]
      BY <1>6
    <2>4. <<y, x>> \in R => rank[y] < rank[x]
      BY <1>6
    <2> QED
      BY <2>1, <2>2, <2>3, <2>4
  <1>9. rank \in Injection(D, N)
    BY <1>5, <1>8, Fun_IsInj
  <1>10. IsFiniteSet(N) /\ Cardinality(N) = Cardinality(D)
    <2>1. IsFiniteSet(N)
          /\ Cardinality(N) = IF 0 > Cardinality(D) - 1 THEN 0 ELSE Cardinality(D) - 1 - 0 + 1
      <3>1. 0 \in Int /\ Cardinality(D) - 1 \in Int
        BY <1>1
      <3> QED
        BY <3>1, FS_Interval DEF N
    <2> QED
      BY <1>1, <2>1
  <1>11. rank \in Surjection(D, N)
    BY <1>9, <1>10, FS_Injection
  <1>12. \A i \in N : \E x \in D : rank[x] = i
    BY <1>11, Fun_SurjectionProperties
  <1> QED
    BY <1>1, <1>4, <1>5, <1>6, <1>8, <1>12 DEF N

\* Tables of numbers, of which a query returns the first.
Counted(f) == IsFiniteSet(DOMAIN f) /\ DOMAIN f \subseteq Int /\ \A x \in DOMAIN f : f[x] \in Int

\* LIMIT n returns the n first of the rows, or all when there are no more than n.
LEMMA FirstIs ==
  ASSUME NEW f, Counted(f), NEW n \in Nat
  PROVE  /\ Cardinality(DOMAIN f) \in Nat /\ Cardinality(First(f, n)) \in Nat
         /\ First(f, n) \subseteq DOMAIN f /\ Cardinality(First(f, n)) <= n
         /\ Cardinality(DOMAIN f) <= n => First(f, n) = DOMAIN f
         /\ Cardinality(DOMAIN f) > n => Cardinality(First(f, n)) = n
         /\ \A x \in First(f, n), y \in DOMAIN f \ First(f, n) : Before(f, x, y)
  <1> DEFINE D == DOMAIN f
             R == {p \in D \X D : Before(f, p[1], p[2])}
             F == First(f, n)
             M == Cardinality(D)
  <1>1. IsFiniteSet(D) /\ M \in Nat
    BY FS_CardinalityType DEF Counted
  <1>2. \A x, y \in D : <<x, y>> \in R <=> Before(f, x, y)
    OBVIOUS
  <1>3. Orders(R, D)
    <2>1. \A x \in D : x \in Int /\ f[x] \in Int
      BY DEF Counted
    <2> HIDE DEF R, D
    <2> QED
      BY <1>2, <2>1 DEF Orders, Before
  <1>4. \A x \in D : Cardinality({y \in D : Before(f, y, x)}) = Rank(D, R, x)
    <2> SUFFICES ASSUME NEW x \in D
                 PROVE  Cardinality({y \in D : Before(f, y, x)}) = Rank(D, R, x)
      OBVIOUS
    <2>1. {y \in D : Before(f, y, x)} = {y \in D : <<y, x>> \in R}
      BY <1>2
    <2> QED
      BY <2>1 DEF Rank
  <1>5. F = {x \in D : Rank(D, R, x) < n}
    BY <1>4 DEF First
  <1>6. /\ \A x \in D : Rank(D, R, x) \in 0 .. M - 1
        /\ \A x, y \in D : <<x, y>> \in R <=> Rank(D, R, x) < Rank(D, R, y)
        /\ \A i \in 0 .. M - 1 : \E x \in D : Rank(D, R, x) = i
    BY <1>1, <1>3, Ranks
  <1> HIDE DEF R, F, D, M
  <1>7. M <= n => F = D
    BY <1>1, <1>5, <1>6
  <1>8. IsFiniteSet(F) /\ Cardinality(F) \in Nat /\ F \subseteq D
    BY <1>1, <1>5, FS_Subset, FS_CardinalityType
  <1>9. ASSUME M > n PROVE Cardinality(F) = n
    <2> DEFINE N == 0 .. n - 1
               h == [x \in F |-> Rank(D, R, x)]
    <2>1. h \in [F -> N]
      BY <1>5, <1>6
    <2>2. \A x, y \in F : h[x] = h[y] => x = y
      <3> SUFFICES ASSUME NEW x \in F, NEW y \in F, h[x] = h[y] PROVE x = y
        OBVIOUS
      <3>1. Rank(D, R, x) = Rank(D, R, y) /\ x \in D /\ y \in D
        BY <1>8
      <3>2. Rank(D, R, x) \in Int /\ Rank(D, R, y) \in Int
        BY <3>1, <1>1, <1>6
      <3>3. <<x, y>> \notin R /\ <<y, x>> \notin R
        BY <3>1, <3>2, <1>6
      <3> QED
        BY <3>1, <3>3, <1>3 DEF Orders
    <2>3. \A i \in N : \E x \in F : h[x] = i
      <3> SUFFICES ASSUME NEW i \in N PROVE \E x \in F : h[x] = i
        OBVIOUS
      <3>1. i \in 0 .. M - 1 /\ i < n
        BY <1>1, <1>9
      <3>2. PICK x \in D : Rank(D, R, x) = i
        BY <3>1, <1>6
      <3> QED
        BY <3>1, <3>2, <1>5
    <2> HIDE DEF h, N
    <2>4. h \in Bijection(F, N)
      BY <2>1, <2>2, <2>3, Fun_IsBij
    <2>5. Cardinality(N) = Cardinality(F)
      BY <2>4, <1>8, FS_Bijection DEF ExistsBijection
    <2>6. Cardinality(N) = IF 0 > n - 1 THEN 0 ELSE n - 1 - 0 + 1
      BY FS_Interval DEF N
    <2> QED
      BY <2>5, <2>6
  <1>10. Cardinality(F) <= n
    BY <1>1, <1>7, <1>8, <1>9 DEF M
  <1>11. \A x \in F, y \in D \ F : Before(f, x, y)
    <2> SUFFICES ASSUME NEW x \in F, NEW y \in D \ F PROVE Before(f, x, y)
      OBVIOUS
    <2>1. x \in D /\ y \in D /\ Rank(D, R, x) < n /\ ~(Rank(D, R, y) < n)
      BY <1>5
    <2>2. Rank(D, R, x) \in Int /\ Rank(D, R, y) \in Int
      BY <1>1, <1>6, <2>1
    <2>3. Rank(D, R, x) < Rank(D, R, y)
      BY <2>1, <2>2
    <2>4. <<x, y>> \in R
      BY <1>6, <2>1, <2>3
    <2> QED
      BY <1>2, <2>1, <2>4
  <1> QED
    BY <1>1, <1>7, <1>8, <1>9, <1>10, <1>11 DEF F, D, M

\* There is one order in which the rows of a file stand.
LEMMA SortedIs ==
  ASSUME NEW f, Counted(f)
  PROVE  /\ Cardinality(DOMAIN f) \in Nat
         /\ Sorted(f) \in [1 .. Cardinality(DOMAIN f) -> DOMAIN f]
         /\ \A i, j \in DOMAIN Sorted(f) : i < j => Above(f, Sorted(f)[i], Sorted(f)[j])
  <1> DEFINE D == DOMAIN f
             R == {p \in D \X D : Above(f, p[1], p[2])}
             M == Cardinality(D)
             s == [i \in 1 .. M |-> CHOOSE x \in D : Rank(D, R, x) = i - 1]
             Sorts(z) == z \in [1 .. M -> D]
                         /\ \A i, j \in DOMAIN z : i < j => Above(f, z[i], z[j])
  <1>1. IsFiniteSet(D) /\ M \in Nat
    BY FS_CardinalityType DEF Counted
  <1>2. \A x, y \in D : <<x, y>> \in R <=> Above(f, x, y)
    OBVIOUS
  <1>3. Orders(R, D)
    <2>1. \A x \in D : x \in Int /\ f[x] \in Int
      BY DEF Counted
    <2> HIDE DEF R, D
    <2> QED
      BY <1>2, <2>1 DEF Orders, Above
  <1>4. /\ \A x, y \in D : <<x, y>> \in R <=> Rank(D, R, x) < Rank(D, R, y)
        /\ \A i \in 0 .. M - 1 : \E x \in D : Rank(D, R, x) = i
    BY <1>1, <1>3, Ranks
  <1> HIDE DEF R, D, M
  <1>5. \A i \in 1 .. M : s[i] \in D /\ Rank(D, R, s[i]) = i - 1
    <2> SUFFICES ASSUME NEW i \in 1 .. M
                 PROVE  s[i] \in D /\ Rank(D, R, s[i]) = i - 1
      OBVIOUS
    <2>1. i - 1 \in 0 .. M - 1
      BY <1>1
    <2>2. \E x \in D : Rank(D, R, x) = i - 1
      BY <1>4, <2>1
    <2> QED
      BY <2>2
  <1>6. s \in [1 .. M -> D]
    BY <1>5
  <1>7. DOMAIN s = 1 .. M
    OBVIOUS
  <1> HIDE DEF s
  <1>8. Sorts(s)
    <2> SUFFICES ASSUME NEW i \in 1 .. M, NEW j \in 1 .. M, i < j PROVE Above(f, s[i], s[j])
      BY <1>6, <1>7
    <2>1. Rank(D, R, s[i]) < Rank(D, R, s[j])
      BY <1>1, <1>5
    <2> QED
      BY <2>1, <1>2, <1>4, <1>5
  <1>9. Sorted(f) = CHOOSE z \in [1 .. M -> D] :
                        \A i, j \in DOMAIN z : i < j => Above(f, z[i], z[j])
    BY DEF Sorted, M, D
  <1>10. Sorts(Sorted(f))
    BY <1>8, <1>9
  <1> QED
    BY <1>1, <1>10 DEF M, D

\* A row with fewer clicks has no larger share.
LEMMA ShareGrows ==
  ASSUME NEW n \in Nat, NEW m \in Nat, NEW total \in Nat, n <= m
  PROVE  /\ Share(n, total) \in Int /\ Share(m, total) \in Int
         /\ Share(n, total) <= Share(m, total)
  <1>1. CASE total = 0
    BY <1>1 DEF Share
  <1>2. CASE total # 0
    <2> DEFINE a == 200 * n + total
               c == 200 * m + total
               d == 2 * total
    <2>1. a \in Nat /\ c \in Nat /\ d \in Nat /\ d > 0 /\ a <= c
      BY <1>2
    <2>2. Share(n, total) = a \div d /\ Share(m, total) = c \div d
      BY <1>2 DEF Share
    <2> HIDE DEF a, c, d
    <2>3. PICK p \in Int, q \in Int : p = a \div d /\ q = c \div d
      BY <2>1
    <2>4. d * p <= a /\ c < d * (q + 1)
      BY <2>1, <2>3
    <2>5. p <= q
      <3> SUFFICES ASSUME q + 1 <= p PROVE FALSE
        OBVIOUS
      <3>1. d * (q + 1) <= d * p
        BY <2>1
      <3>2. d * (q + 1) \in Int /\ d * p \in Int
        BY <2>1
      <3> QED
        BY <2>1, <2>4, <3>1, <3>2
    <2> QED
      BY <2>2, <2>3, <2>5
  <1> QED
    BY <1>1, <1>2

------------------------------------------------------------------------------
(* What a query returns *)

\* f says how often each value of g occurs among the members of S.
Tallies(f, g, S) ==
    /\ DOMAIN f = {g[k] : k \in S}
    /\ \A x \in DOMAIN f : f[x] = Cardinality({k \in S : g[k] = x})

LEMMA TallyIs ==
  ASSUME NEW S, IsFiniteSet(S), NEW g \in [S -> Int], NEW f, Tallies(f, g, S)
  PROVE  /\ Counted(f) /\ \A x \in DOMAIN f : f[x] \in Nat
         /\ SumOf(f) = Cardinality(S)
         /\ \A T \in SUBSET DOMAIN f :
               SumOf(Restricted(f, T)) = Cardinality({k \in S : g[k] \in T})
  <1>1. /\ \A k \in S : g[k] \in DOMAIN f /\ g[k] \in Int
        /\ \A x \in DOMAIN f : \E k \in S : g[k] = x
        /\ DOMAIN f \subseteq Int
    BY DEF Tallies
  <1>2. g \in Surjection(S, DOMAIN f)
    <2>1. g \in [S -> DOMAIN f]
      BY <1>1
    <2> QED
      BY <1>1, <2>1, Fun_IsSurj
  <1>3. IsFiniteSet(DOMAIN f)
    BY <1>2, FS_Surjection
  <1>4. \A x \in DOMAIN f : f[x] \in Nat
    <2> SUFFICES ASSUME NEW x \in DOMAIN f PROVE f[x] \in Nat
      OBVIOUS
    <2>1. IsFiniteSet({k \in S : g[k] = x})
      BY FS_Subset
    <2> QED
      BY <2>1, FS_CardinalityType DEF Tallies
  <1>5. SumOf(f) = Cardinality(S)
    <2>1. {k \in S : g[k] \in DOMAIN f} = S
      BY <1>1
    <2> QED
      BY <2>1, SumCounts DEF Tallies
  <1>6. ASSUME NEW T \in SUBSET DOMAIN f
        PROVE  SumOf(Restricted(f, T)) = Cardinality({k \in S : g[k] \in T})
    <2>1. DOMAIN Restricted(f, T) = T
          /\ \A x \in T : Restricted(f, T)[x] = Cardinality({k \in S : g[k] = x})
      BY DEF Restricted, Tallies
    <2>2. PICK h : h = Restricted(f, T)
      OBVIOUS
    <2>3. DOMAIN h = T /\ \A x \in DOMAIN h : h[x] = Cardinality({k \in S : g[k] = x})
      BY <2>1, <2>2
    <2>4. SumOf(h) = Cardinality({k \in S : g[k] \in DOMAIN h})
      BY <2>3, SumCounts
    <2> QED
      BY <2>2, <2>3, <2>4
  <1> QED
    BY <1>1, <1>3, <1>4, <1>5, <1>6 DEF Counted

\* A part and the rest of a finite set.
LEMMA PartAndRest ==
  ASSUME NEW S, IsFiniteSet(S), NEW T \in SUBSET S
  PROVE  /\ Cardinality(S) \in Nat /\ Cardinality(T) \in Nat /\ Cardinality(S \ T) \in Nat
         /\ Cardinality(T) + Cardinality(S \ T) = Cardinality(S)
         /\ Cardinality(T) <= Cardinality(S)
  <1>1. IsFiniteSet(T) /\ IsFiniteSet(S \ T) /\ Cardinality(T) <= Cardinality(S)
    BY FS_Subset
  <1>2. T \cup (S \ T) = S /\ T \cap (S \ T) = {}
    OBVIOUS
  <1>3. Cardinality(T \cup (S \ T))
          = Cardinality(T) + Cardinality(S \ T) - Cardinality(T \cap (S \ T))
    BY <1>1, FS_Union
  <1>4. Cardinality(S) \in Nat /\ Cardinality(T) \in Nat /\ Cardinality(S \ T) \in Nat
        /\ Cardinality({}) = 0
    BY <1>1, FS_CardinalityType, FS_EmptySet
  <1>5. Cardinality(S) = Cardinality(T) + Cardinality(S \ T) - 0
    BY <1>2, <1>3, <1>4
  <1>6. ASSUME NEW a \in Nat, NEW b \in Nat, NEW c \in Nat, c = a + b - 0 PROVE a + b = c
    BY <1>6
  <1> QED
    BY <1>1, <1>4, <1>5, <1>6

\* Rows of clicks that are there.
LEMMA RowsAre ==
  ASSUME NEW t \in Table, NEW S \in SUBSET {k \in Click : t[k] # None}
  PROVE  /\ IsFiniteSet(Human(t, S)) /\ Human(t, S) \subseteq S
         /\ \A k \in Human(t, S) :
               t[k] \in Entry /\ t[k].link \in Int /\ t[k].src \in Int /\ t[k].day \in Int
         /\ Totals(t, S).count = Cardinality(Human(t, S)) /\ Totals(t, S).count \in Nat
         /\ \A T \in SUBSET Human(t, S) : Human(t, T) = T
  <1>1. Human(t, S) \subseteq S /\ S \subseteq Click
    BY DEF Human
  <1>2. IsFiniteSet(Human(t, S))
    BY <1>1, FS_Subset, ClickStatsAssumption
  <1>3. ASSUME NEW k \in Human(t, S)
        PROVE  t[k] \in Entry /\ t[k].link \in Int /\ t[k].src \in Int /\ t[k].day \in Int
    <2>1. t[k] \in Entry
      BY <1>1 DEF Table
    <2>2. Source \subseteq Int /\ Day \subseteq Int /\ Link \subseteq Int
      <3>1. Link \subseteq Nat /\ Inbound \subseteq Nat /\ \A l \in Link : Utm[l] \in Nat
        BY ClickStatsAssumption
      <3>2. ASSUME NEW x \in Source PROVE x \in Int
        <4>1. x \in Inbound \/ (\E l \in Link : x = Utm[l]) \/ x = 0
          BY DEF Source
        <4>2. CASE x \in Inbound
          BY <3>1, <4>2
        <4>3. CASE \E l \in Link : x = Utm[l]
          <5>1. PICK l \in Link : x = Utm[l]
            BY <4>3
          <5>2. Utm[l] \in Nat
            BY <3>1
          <5> QED
            BY <5>1, <5>2
        <4> QED
          BY <4>1, <4>2, <4>3
      <3>3. Source \subseteq Int
        BY <3>2
      <3>4. Day \subseteq Int
        BY ClickStatsAssumption DEF Day
      <3> QED
        BY <3>1, <3>3, <3>4
    <2> QED
      BY <2>1, <2>2 DEF Entry
  <1>4. Totals(t, S).count = Cardinality(Human(t, S))
    BY DEF Totals
  <1>5. Cardinality(Human(t, S)) \in Nat
    BY <1>2, FS_CardinalityType
  <1>6. ASSUME NEW T \in SUBSET Human(t, S) PROVE Human(t, T) = T
    BY DEF Human
  <1> QED
    BY <1>1, <1>2, <1>3, <1>4, <1>5, <1>6

\* The breakdown, unless the limit cut it, and the days add up to the total.
LEMMA BreakdownIs ==
  ASSUME NEW t \in Table, NEW S \in SUBSET {k \in Click : t[k] # None}
  PROVE  /\ SumOf(Breakdown(t, S)) \in Nat /\ SumOf(Breakdown(t, S)) <= Totals(t, S).count
         /\ Cardinality(DOMAIN Breakdown(t, S)) \in Nat
         /\ Cardinality(DOMAIN Breakdown(t, S)) <= SourceCap
         /\ Cardinality(DOMAIN Breakdown(t, S)) < SourceCap =>
               SumOf(Breakdown(t, S)) = Totals(t, S).count
  <1> DEFINE H == Human(t, S)
             g == [k \in H |-> t[k].src]
             f == [x \in {t[k].src : k \in H} |-> Cardinality({k \in H : t[k].src = x})]
  <1>1. IsFiniteSet(H) /\ (\A k \in H : t[k].src \in Int)
        /\ Totals(t, S).count = Cardinality(H)
    BY RowsAre
  <1>2. Breakdown(t, S) = Restricted(f, First(f, SourceCap))
    BY DEF Breakdown, Tally
  <1>3. g \in [H -> Int] /\ \A k \in H : g[k] = t[k].src
    BY <1>1
  <1>4. Tallies(f, g, H)
    <2>1. {t[k].src : k \in H} = {g[k] : k \in H}
      OBVIOUS
    <2>2. \A x : {k \in H : t[k].src = x} = {k \in H : g[k] = x}
      OBVIOUS
    <2> QED
      BY <2>1, <2>2 DEF Tallies
  <1>5. PICK c \in Nat : c = SourceCap
    BY ClickStatsAssumption
  <1> HIDE DEF H, f, g
  <1>6. /\ Counted(f) /\ SumOf(f) = Cardinality(H)
        /\ \A T \in SUBSET DOMAIN f :
              SumOf(Restricted(f, T)) = Cardinality({k \in H : g[k] \in T})
    BY <1>1, <1>3, <1>4, TallyIs
  <1> DEFINE F == First(f, c)
             P == {k \in H : g[k] \in F}
  <1>7. /\ Cardinality(DOMAIN f) \in Nat /\ Cardinality(F) \in Nat
        /\ F \subseteq DOMAIN f /\ Cardinality(F) <= c
        /\ Cardinality(DOMAIN f) <= c => F = DOMAIN f
        /\ Cardinality(DOMAIN f) > c => Cardinality(F) = c
    BY <1>6, FirstIs
  <1>8. DOMAIN Breakdown(t, S) = F
    BY <1>2, <1>5 DEF Restricted
  <1>9. SumOf(Breakdown(t, S)) = Cardinality(P)
    BY <1>2, <1>5, <1>6, <1>7
  <1>10. Cardinality(P) \in Nat /\ Cardinality(P) <= Cardinality(H)
    BY <1>1, PartAndRest
  <1>11. ASSUME Cardinality(F) < c PROVE P = H
    <2>1. F = DOMAIN f
      BY <1>7, <1>11
    <2> QED
      BY <1>4, <2>1 DEF Tallies
  <1> QED
    BY <1>1, <1>5, <1>7, <1>8, <1>9, <1>10, <1>11

LEMMA DaysIs ==
  ASSUME NEW t \in Table, NEW S \in SUBSET {k \in Click : t[k] # None}
  PROVE  /\ SumOf(Days(t, S)) = Totals(t, S).count
         /\ DOMAIN Days(t, S) = {t[k].day : k \in Human(t, S)}
  <1> DEFINE H == Human(t, S)
             g == [k \in H |-> t[k].day]
             f == [x \in {t[k].day : k \in H} |-> Cardinality({k \in H : t[k].day = x})]
  <1>1. IsFiniteSet(H) /\ (\A k \in H : t[k].day \in Int)
        /\ Totals(t, S).count = Cardinality(H)
    BY RowsAre
  <1>2. Days(t, S) = f
    BY DEF Days, Tally
  <1>3. g \in [H -> Int]
    BY <1>1
  <1>4. Tallies(f, g, H)
    <2>1. {t[k].day : k \in H} = {g[k] : k \in H}
      OBVIOUS
    <2>2. \A x : {k \in H : t[k].day = x} = {k \in H : g[k] = x}
      OBVIOUS
    <2> QED
      BY <2>1, <2>2 DEF Tallies
  <1>5. DOMAIN Days(t, S) = {t[k].day : k \in Human(t, S)}
    BY <1>2
  <1> HIDE DEF H, f, g
  <1> QED
    BY <1>1, <1>2, <1>3, <1>4, <1>5, TallyIs

\* The links of an answer with the clicks of each.
LEMMA ByLinkIs ==
  ASSUME NEW t \in Table, NEW S \in SUBSET {k \in Click : t[k] # None}
  PROVE  /\ Counted(ByLink(t, S))
         /\ SumOf(ByLink(t, S)) = Totals(t, S).count
         /\ DOMAIN ByLink(t, S) = {t[k].link : k \in Human(t, S)}
         /\ \A l \in DOMAIN ByLink(t, S) :
               /\ ByLink(t, S)[l] \in Nat
               /\ ByLink(t, S)[l] = Cardinality({k \in Human(t, S) : t[k].link = l})
         /\ \A T \in SUBSET DOMAIN ByLink(t, S) :
               SumOf(Restricted(ByLink(t, S), T))
                   = Cardinality({k \in Human(t, S) : t[k].link \in T})
  <1> DEFINE H == Human(t, S)
             g == [k \in H |-> t[k].link]
             f == [x \in {t[k].link : k \in H} |-> Cardinality({k \in H : t[k].link = x})]
  <1>1. IsFiniteSet(H) /\ (\A k \in H : t[k].link \in Int)
        /\ Totals(t, S).count = Cardinality(H)
    BY RowsAre
  <1>2. ByLink(t, S) = f
    BY DEF ByLink, Tally
  <1>3. g \in [H -> Int] /\ \A k \in H : g[k] = t[k].link
    BY <1>1
  <1>4. Tallies(f, g, H)
    <2>1. {t[k].link : k \in H} = {g[k] : k \in H}
      OBVIOUS
    <2>2. \A x : {k \in H : t[k].link = x} = {k \in H : g[k] = x}
      OBVIOUS
    <2> QED
      BY <2>1, <2>2 DEF Tallies
  <1>5. DOMAIN f = {t[k].link : k \in H}
        /\ \A l \in DOMAIN f : f[l] = Cardinality({k \in H : t[k].link = l})
    OBVIOUS
  <1>6. \A T : {k \in H : g[k] \in T} = {k \in H : t[k].link \in T}
    BY <1>3
  <1> HIDE DEF f, g
  <1>7. /\ Counted(f) /\ SumOf(f) = Cardinality(H) /\ \A x \in DOMAIN f : f[x] \in Nat
        /\ \A T \in SUBSET DOMAIN f :
              SumOf(Restricted(f, T)) = Cardinality({k \in H : g[k] \in T})
    <2> HIDE DEF H
    <2> QED
      BY <1>1, <1>3, <1>4, TallyIs
  <1>8. \A T \in SUBSET DOMAIN f :
           SumOf(Restricted(f, T)) = Cardinality({k \in H : t[k].link \in T})
    BY <1>6, <1>7
  <1> QED
    BY <1>1, <1>2, <1>5, <1>7, <1>8

\* The series of an answer and its list of links, over the same rows.
LEMMA SeriesIs ==
  ASSUME NEW t \in Table, NEW S \in SUBSET {k \in Click : t[k] # None},
         NEW s, s = Series(t, S), NEW all, all = ByLink(t, S)
  PROVE  /\ SumOf(SeriesTotals(s)) + SumOf(s.other) = Totals(t, S).count
         /\ Cardinality(DOMAIN SeriesTotals(s)) <= SeriesCap
         /\ \A l \in DOMAIN SeriesTotals(s) :
               l \in DOMAIN all /\ SeriesTotals(s)[l] = all[l]
         /\ \A l \in DOMAIN SeriesTotals(s), m \in DOMAIN all \ DOMAIN SeriesTotals(s) :
               all[l] >= all[m]
         /\ DOMAIN s.other # {} <=> Cardinality(DOMAIN all) > SeriesCap
  <1> DEFINE H == Human(t, S)
             named == First(all, SeriesCap)
             Of(l) == {k \in H : t[k].link = l}
             Named == {k \in H : t[k].link \in named}
             Rest == {k \in H : t[k].link \notin named}
  <1>1. /\ IsFiniteSet(H) /\ H \subseteq S /\ Totals(t, S).count = Cardinality(H)
        /\ \A T \in SUBSET H : Human(t, T) = T
    BY RowsAre
  <1>2. PICK cap \in Nat : cap = SeriesCap /\ cap # 0
    BY ClickStatsAssumption
  <1>3. /\ Counted(all) /\ DOMAIN all = {t[k].link : k \in H}
        /\ \A l \in DOMAIN all : all[l] \in Nat /\ all[l] = Cardinality(Of(l))
        /\ \A T \in SUBSET DOMAIN all :
              SumOf(Restricted(all, T)) = Cardinality({k \in H : t[k].link \in T})
    BY ByLinkIs
  <1>4. /\ Cardinality(DOMAIN all) \in Nat /\ Cardinality(named) \in Nat
        /\ named \subseteq DOMAIN all /\ Cardinality(named) <= cap
        /\ Cardinality(DOMAIN all) <= cap => named = DOMAIN all
        /\ Cardinality(DOMAIN all) > cap => Cardinality(named) = cap
        /\ \A l \in named, m \in DOMAIN all \ named : Before(all, l, m)
    BY <1>2, <1>3, FirstIs
  <1>5. s = [named |-> [l \in named |-> Days(t, Of(l))], other |-> Days(t, Rest)]
    BY DEF Series
  <1>6. DOMAIN s.named = named /\ (\A l \in named : s.named[l] = Days(t, Of(l)))
        /\ s.other = Days(t, Rest)
    BY <1>5
  <1>7. ASSUME NEW T \in SUBSET H
        PROVE  SumOf(Days(t, T)) = Cardinality(T) /\ DOMAIN Days(t, T) = {t[k].day : k \in T}
    <2>1. T \in SUBSET {k \in Click : t[k] # None} /\ Human(t, T) = T
      BY <1>1
    <2>2. SumOf(Days(t, T)) = Totals(t, T).count /\ DOMAIN Days(t, T) = {t[k].day : k \in T}
      BY <2>1, DaysIs
    <2>3. Totals(t, T).count = Cardinality(T)
      BY <2>1, RowsAre
    <2> QED
      BY <2>2, <2>3
  <1>8. Named \in SUBSET H /\ Rest \in SUBSET H /\ Rest = H \ Named
        /\ \A l : Of(l) \in SUBSET H
    OBVIOUS
  <1>9. Rest = {} <=> DOMAIN all \subseteq named
    BY <1>3
  <1> HIDE DEF H, named, Of, Named, Rest
  <1>10. ASSUME NEW l \in named PROVE SumOf(s.named[l]) = all[l]
    <2>1. l \in DOMAIN all /\ Of(l) \in SUBSET H
      BY <1>4, <1>8
    <2>2. SumOf(Days(t, Of(l))) = Cardinality(Of(l))
      BY <1>7, <2>1
    <2> QED
      BY <1>3, <1>6, <2>1, <2>2
  <1>11. SeriesTotals(s) = Restricted(all, named)
    BY <1>6, <1>10 DEF SeriesTotals, Restricted
  <1>12. DOMAIN SeriesTotals(s) = named /\ \A l \in named : SeriesTotals(s)[l] = all[l]
    BY <1>11 DEF Restricted
  <1>13. SumOf(SeriesTotals(s)) = Cardinality(Named) /\ SumOf(s.other) = Cardinality(Rest)
    <2>1. SumOf(Restricted(all, named)) = Cardinality(Named)
      BY <1>3, <1>4 DEF Named
    <2> QED
      BY <2>1, <1>6, <1>7, <1>8, <1>11
  <1>14. Cardinality(Named) + Cardinality(Rest) = Cardinality(H)
    BY <1>1, <1>8, PartAndRest
  <1>15. DOMAIN s.other # {} <=> Rest # {}
    <2>1. DOMAIN s.other = {t[k].day : k \in Rest}
      BY <1>6, <1>7, <1>8
    <2> QED
      BY <2>1
  <1>16. DOMAIN all \subseteq named <=> Cardinality(DOMAIN all) <= cap
    BY <1>4
  <1>17. \A l \in named, m \in DOMAIN all \ named : all[l] >= all[m]
    <2> SUFFICES ASSUME NEW l \in named, NEW m \in DOMAIN all \ named PROVE all[l] >= all[m]
      OBVIOUS
    <2>1. all[l] \in Nat /\ all[m] \in Nat /\ Before(all, l, m)
      BY <1>3, <1>4
    <2> QED
      BY <2>1 DEF Before
  <1>18. DOMAIN s.other # {} <=> Cardinality(DOMAIN all) > SeriesCap
    BY <1>2, <1>4, <1>9, <1>15, <1>16
  <1>19. SumOf(SeriesTotals(s)) + SumOf(s.other) = Totals(t, S).count
    BY <1>1, <1>13, <1>14
  <1> QED
    BY <1>2, <1>4, <1>12, <1>17, <1>18, <1>19

\* The rows of an export whose counts were taken of the rows S of t.
LEMMA ListedIs ==
  ASSUME NEW r \in Reader, NEW t \in Table, NEW S \in SUBSET {k \in Click : t[k] # None},
         out[r].byLink = ByLink(t, S)
  PROVE  /\ SumOf([i \in DOMAIN Listed(r) |-> Listed(r)[i].clicks]) <= Totals(t, S).count
         /\ \A i, j \in DOMAIN Listed(r) : i < j =>
               /\ Listed(r)[i].clicks >= Listed(r)[j].clicks
               /\ Listed(r)[i].share >= Listed(r)[j].share
  <1> DEFINE H == Human(t, S)
             f == ExportRows(r)
             D == {m \in Link : at[m] = req[r].of}
             s == Sorted(f)
             M == Cardinality(D)
             total == SumOf(f)
             L == Listed(r)
             Of(l) == {k \in H : t[k].link = l}
  <1>1. IsFiniteSet(H) /\ Totals(t, S).count = Cardinality(H)
        /\ \A k \in H : t[k].link \in Int
    BY RowsAre
  <1>2. DOMAIN f = D /\ \A l \in D : f[l] = Count(r, l)
    BY DEF ExportRows
  <1>3. \A l \in D : f[l] = Cardinality(Of(l)) /\ f[l] \in Nat
    <2> SUFFICES ASSUME NEW l \in D PROVE f[l] = Cardinality(Of(l)) /\ f[l] \in Nat
      OBVIOUS
    <2> DEFINE all == ByLink(t, S)
    <2>1. DOMAIN all = {t[k].link : k \in H}
          /\ \A m \in DOMAIN all : all[m] \in Nat /\ all[m] = Cardinality(Of(m))
      BY ByLinkIs
    <2>4. f[l] = IF l \in DOMAIN all THEN all[l] ELSE 0
      BY <1>2 DEF Count
    <2> HIDE DEF all, f
    <2>2. CASE l \in DOMAIN all
      BY <2>1, <2>2, <2>4
    <2>3. CASE l \notin DOMAIN all
      <3>1. Of(l) = {} /\ f[l] = 0
        BY <2>1, <2>3, <2>4
      <3>2. Cardinality({}) = 0
        BY FS_EmptySet
      <3> HIDE DEF Of
      <3> QED
        BY <3>1, <3>2
    <2> QED
      BY <2>2, <2>3
  <1>4. Counted(f)
    <2>1. D \in SUBSET Link /\ IsFiniteSet(Link) /\ Link \subseteq Int
      BY ClickStatsAssumption
    <2> HIDE DEF D, f, Of
    <2>2. IsFiniteSet(D) /\ D \subseteq Int
      BY <2>1, FS_Subset
    <2>3. \A x \in D : f[x] \in Int
      BY <1>3
    <2>4. DOMAIN f = D
      BY <1>2
    <2> QED
      BY <2>2, <2>3, <2>4 DEF Counted
  <1>5. /\ M \in Nat /\ s \in [1 .. M -> D]
        /\ \A i, j \in DOMAIN s : i < j => Above(f, s[i], s[j])
    BY <1>2, <1>4, SortedIs
  <1>6. L = [i \in DOMAIN s |-> [link |-> s[i], clicks |-> f[s[i]],
                                share |-> Share(f[s[i]], total)]]
    BY DEF Listed
  <1>7. DOMAIN L = 1 .. M
        /\ \A i \in 1 .. M : L[i].clicks = f[s[i]] /\ L[i].share = Share(f[s[i]], total)
    BY <1>5, <1>6
  <1> DEFINE linkOf == [k \in H |-> t[k].link]
  <1>8. total \in Nat
    <2>1. \A x \in DOMAIN f : f[x] = Cardinality({k \in H : linkOf[k] = x})
      <3>1. \A x : {k \in H : linkOf[k] = x} = Of(x)
        OBVIOUS
      <3> QED
        BY <1>2, <1>3, <3>1
    <2> HIDE DEF H, linkOf, f
    <2>2. total = Cardinality({k \in H : linkOf[k] \in DOMAIN f})
      BY <1>1, <2>1, SumCounts
    <2>3. IsFiniteSet({k \in H : linkOf[k] \in DOMAIN f})
      BY <1>1, FS_Subset
    <2> HIDE DEF total
    <2> QED
      BY <2>2, <2>3, FS_CardinalityType
  <1>9. D \subseteq Int
    BY <1>2, <1>4 DEF Counted
  <1> HIDE DEF f, D, s, M, total, L, H
  <1>10. \A i \in 1 .. M : s[i] \in D /\ f[s[i]] \in Nat /\ s[i] \in Int
    BY <1>3, <1>5, <1>9
  <1>11. ASSUME NEW i \in 1 .. M, NEW j \in 1 .. M, i < j
         PROVE  L[i].clicks >= L[j].clicks /\ L[i].share >= L[j].share /\ s[i] # s[j]
    <2>1. PICK a \in Nat, b \in Nat : a = f[s[i]] /\ b = f[s[j]]
      BY <1>10
    <2>2. Above(f, s[i], s[j])
      BY <1>5, <1>11
    <2>3. b <= a /\ s[i] # s[j]
      BY <1>10, <2>1, <2>2 DEF Above
    <2>4. Share(b, total) <= Share(a, total) /\ Share(a, total) \in Int /\ Share(b, total) \in Int
      BY <1>8, <2>3, ShareGrows
    <2> QED
      BY <1>7, <2>1, <2>3, <2>4
  <1>12. \A i, j \in 1 .. M : s[i] = s[j] => i = j
    <2> SUFFICES ASSUME NEW i \in 1 .. M, NEW j \in 1 .. M, s[i] = s[j], i # j PROVE FALSE
      OBVIOUS
    <2>1. CASE i < j
      BY <1>11, <2>1
    <2>2. CASE j < i
      BY <1>11, <2>2
    <2> QED
      BY <1>5, <2>1, <2>2
  <1> DEFINE c == [i \in DOMAIN L |-> L[i].clicks]
             place == [k \in H |-> IF \E i \in 1 .. M : s[i] = t[k].link
                                   THEN CHOOSE i \in 1 .. M : s[i] = t[k].link ELSE 0]
  <1>13. \A k \in H : \A i \in 1 .. M : place[k] = i <=> t[k].link = s[i]
    <2> SUFFICES ASSUME NEW k \in H, NEW i \in 1 .. M PROVE place[k] = i <=> t[k].link = s[i]
      OBVIOUS
    <2>1. CASE \E j \in 1 .. M : s[j] = t[k].link
      <3>1. place[k] \in 1 .. M /\ s[place[k]] = t[k].link
        BY <2>1
      <3> HIDE DEF place
      <3> QED
        BY <3>1, <1>12
    <2>2. CASE ~ \E j \in 1 .. M : s[j] = t[k].link
      <3>1. place[k] = 0
        BY <2>2
      <3> HIDE DEF place
      <3> QED
        BY <3>1, <2>2
    <2> QED
      BY <2>1, <2>2
  <1>14. DOMAIN c = 1 .. M /\ \A i \in 1 .. M : c[i] = f[s[i]]
    BY <1>7
  <1> HIDE DEF c, place
  <1>15. \A i \in DOMAIN c : c[i] = Cardinality({k \in H : place[k] = i})
    <2> SUFFICES ASSUME NEW i \in 1 .. M
                 PROVE  c[i] = Cardinality({k \in H : place[k] = i})
      BY <1>14
    <2>1. {k \in H : place[k] = i} = Of(s[i])
      BY <1>13
    <2> HIDE DEF Of
    <2> QED
      BY <1>3, <1>10, <1>14, <2>1
  <1>16. SumOf(c) = Cardinality({k \in H : place[k] \in DOMAIN c})
    BY <1>1, <1>15, SumCounts
  <1>17. Cardinality({k \in H : place[k] \in DOMAIN c}) <= Cardinality(H)
    BY <1>1, FS_Subset
  <1>18. SumOf(c) <= Totals(t, S).count
    BY <1>1, <1>16, <1>17
  <1> QED
    BY <1>7, <1>11, <1>18 DEF c, L

------------------------------------------------------------------------------
(* The parts of an answer *)

\* The rows of a file are those of its answer.
FileFits(r) ==
    LET f == out[r].file.rows IN
    /\ SumOf([i \in DOMAIN f |-> f[i].clicks]) <= out[r].totals.count
    /\ \A i, j \in DOMAIN f : i < j =>
          /\ f[i].clicks >= f[j].clicks
          /\ f[i].share >= f[j].share

Exporting(r) == At(r) = "links" /\ req[r].kind = "export"

\* What an answer holds when it is asked for more: a series comes after the list
\* of links, a file last of all.
InOrder(r) ==
    /\ At(r) \in Counts \ {"totals"} \/ Exporting(r) => Has(r, "totals")
    /\ At(r) = "series" \/ Exporting(r) => Has(r, "byLink")
    /\ Has(r, "series") => OfCampaign(r) /\ Has(r, "byLink")
    /\ Has(r, "file") => At(r) = "none" /\ FileFits(r)

LEMMA PutInOrder ==
  ASSUME IInv, IInv', NEW r \in Reader, InOrder(r), NEW field, NEW value,
         Put(r, field, value), field # "file",
         \/ field \in Counts /\ At(r) = field
         \/ field # "series" /\ At(r) \in {"find", "linkTotals", "linkSources", "linkDays"}
         \/ field # "series" /\ At(r) = "links" /\ req[r].kind # "export"
  PROVE  InOrder(r)'
  <1>1. TypeOK /\ ReaderOK(r) /\ At(r) # "none"
    BY DEF IInv, ClicksInv, Counts
  <1>2. /\ pc'[r] = pc[r] + 1 /\ req'[r] = req[r]
        /\ DOMAIN out'[r] = {field} \cup DOMAIN out[r]
    BY <1>1, PutIs DEF Put, TypeOK
  <1>3. ~Has(r, "file") /\ ~Has(r, "file")'
    BY <1>1, <1>2 DEF InOrder, Has
  <1>4. (At(r)' \in Counts \ {"totals"} \/ Exporting(r)') => Has(r, "totals")'
    BY <1>1, <1>2, NextAt DEF InOrder, Has, Counts, Exporting
  <1>5. At(r)' = "series" \/ Exporting(r)' => Has(r, "byLink")'
    BY <1>1, <1>2, NextAt DEF InOrder, Has, Counts, Exporting
  <1>6. Has(r, "series")' => OfCampaign(r)' /\ Has(r, "byLink")'
    BY <1>1, <1>2, NextAt DEF InOrder, Has, Counts, OfCampaign
  <1> QED
    BY <1>3, <1>4, <1>5, <1>6 DEF InOrder

LEMMA ExportFits ==
  ASSUME IInv, FromOneTable, NEW r \in Reader, InOrder(r), ListLinks(r), req[r].kind = "export"
  PROVE  InOrder(r)'
  <1>1. TypeOK /\ ReaderOK(r) /\ At(r) = "links"
    BY DEF IInv, ClicksInv, ListLinks
  <1>2. PICK file : file = [rows |-> Listed(r), first |-> win[r].from, last |-> LastDay(win[r])]
                    /\ Put(r, "file", file)
    BY DEF ListLinks
  <1>3. /\ pc'[r] = pc[r] + 1 /\ req'[r] = req[r]
        /\ DOMAIN out'[r] = {"file"} \cup DOMAIN out[r]
        /\ out'[r]["file"] = file
        /\ \A f \in DOMAIN out[r] : f # "file" => out'[r][f] = out[r][f]
    BY <1>1, <1>2, PutIs DEF Put, TypeOK
  <1>4. At(r)' = "none" /\ OfCampaign(r)
    BY <1>1, <1>3, NextAt DEF OfCampaign
  <1>5. {"totals", "byLink"} \subseteq Counts \cap DOMAIN out[r]
    BY <1>1 DEF InOrder, Exporting, Has, Counts
  <1>6. PICK t \in Table : AnswerOf(r, t)
    BY <1>4 DEF FromOneTable
  <1> DEFINE S == Matching(t, req[r].of, win[r])
  <1>7. out[r]["totals"] = Totals(t, S) /\ out[r]["byLink"] = ByLink(t, S)
    BY <1>5, <1>6 DEF AnswerOf, Result
  <1>8. S \in SUBSET {k \in Click : t[k] # None}
    BY DEF Matching
  <1> HIDE DEF S
  <1>9. /\ SumOf([i \in DOMAIN Listed(r) |-> Listed(r)[i].clicks]) <= Totals(t, S).count
        /\ \A i, j \in DOMAIN Listed(r) : i < j =>
              /\ Listed(r)[i].clicks >= Listed(r)[j].clicks
              /\ Listed(r)[i].share >= Listed(r)[j].share
    BY <1>7, <1>8, ListedIs
  <1>10. PICK rows : rows = Listed(r)
    OBVIOUS
  <1>11. out'[r]["file"].rows = rows
    BY <1>2, <1>3, <1>10
  <1>12. out'[r]["totals"].count = Totals(t, S).count
    BY <1>3, <1>5, <1>7
  <1>13. FileFits(r)'
    BY <1>9, <1>10, <1>11, <1>12 DEF FileFits
  <1>14. ~Exporting(r)' /\ At(r)' \notin Counts
    BY <1>4 DEF Exporting, Counts
  <1>15. Has(r, "series")' => OfCampaign(r)' /\ Has(r, "byLink")'
    BY <1>3, <1>4, <1>5 DEF Has, OfCampaign
  <1> QED
    BY <1>4, <1>13, <1>14, <1>15 DEF InOrder, Counts

LEMMA InOrderStep ==
  ASSUME IInv, IInv', FromOneTable, [Next]_vars, NEW r \in Reader, InOrder(r)
  PROVE  InOrder(r)'
  <1>1. TypeOK /\ TypeOK' /\ ReaderOK(r) /\ ReaderOK(r)'
    BY DEF IInv, ClicksInv
  <1>2. CASE pc'[r] = pc[r] /\ req'[r] = req[r] /\ out'[r] = out[r]
    BY <1>2 DEF InOrder, Exporting, FileFits, Has, OfCampaign, At
  <1>3. CASE Ask(r)
    <2>1. At(r)' = "find" /\ DOMAIN out'[r] = {}
      BY <1>3, AtAfterAsk
    <2> QED
      BY <2>1 DEF InOrder, Exporting, Has, Counts
  <1>4. CASE NotFound(r) \/ WindowGone(r)
    <2>1. req'[r] = None /\ out'[r] = << >>
      BY <1>1, <1>4 DEF NotFound, WindowGone, Fail, TypeOK
    <2>2. At(r)' = "none" /\ DOMAIN out'[r] = {}
      BY <2>1 DEF At
    <2> QED
      BY <2>2 DEF InOrder, Exporting, Has, Counts
  <1>5. CASE ResolveWindow(r)
    <2>1. At(r) = "window" /\ pc'[r] = pc[r] + 1 /\ req'[r] = req[r] /\ out' = out
      BY <1>1, <1>5 DEF ResolveWindow, TypeOK
    <2>2. At(r)' = "totals"
      BY <1>1, <2>1, NextAt
    <2> QED
      BY <2>1, <2>2 DEF InOrder, Exporting, Has, OfCampaign
  <1>6. CASE ListLinks(r) /\ req[r].kind = "export"
    BY <1>6, ExportFits
  <1>7. ASSUME NEW field, NEW value, Put(r, field, value), field # "file",
               \/ field \in Counts /\ At(r) = field
               \/ field # "series" /\ At(r) \in {"find", "linkTotals", "linkSources", "linkDays"}
               \/ field # "series" /\ At(r) = "links" /\ req[r].kind # "export"
        PROVE  InOrder(r)'
    BY <1>7, PutInOrder
  <1>8. CASE \/ Find(r) \/ CountTotals(r) \/ CountSources(r) \/ CountDays(r) \/ CountByLink(r)
             \/ CountSeries(r) \/ CountLink(r) \/ CountLinkSources(r) \/ CountLinkDays(r)
             \/ ListLinks(r) /\ req[r].kind # "export"
    <2>1. PICK field : /\ \E value : Put(r, field, value)
                       /\ field # "file"
                       /\ \/ field \in Counts /\ At(r) = field
                          \/ field # "series"
                             /\ At(r) \in {"find", "linkTotals", "linkSources", "linkDays"}
                          \/ field # "series" /\ At(r) = "links" /\ req[r].kind # "export"
      <3>1. CASE Find(r)
        <4>1. (\E value : Put(r, "allTime", value)) /\ At(r) = "find"
          BY <3>1 DEF Find
        <4> QED
          BY <4>1
      <3>2. CASE CountTotals(r)
        <4>1. (\E value : Put(r, "totals", value)) /\ At(r) = "totals"
          BY <3>2 DEF CountTotals
        <4> QED
          BY <4>1 DEF Counts
      <3>3. CASE CountSources(r)
        <4>1. (\E value : Put(r, "sources", value)) /\ At(r) = "sources"
          BY <3>3 DEF CountSources
        <4> QED
          BY <4>1 DEF Counts
      <3>4. CASE CountDays(r)
        <4>1. (\E value : Put(r, "days", value)) /\ At(r) = "days"
          BY <3>4 DEF CountDays
        <4> QED
          BY <4>1 DEF Counts
      <3>5. CASE CountByLink(r)
        <4>1. (\E value : Put(r, "byLink", value)) /\ At(r) = "byLink"
          BY <3>5 DEF CountByLink
        <4> QED
          BY <4>1 DEF Counts
      <3>6. CASE CountSeries(r)
        <4>1. (\E value : Put(r, "series", value)) /\ At(r) = "series"
          BY <3>6 DEF CountSeries
        <4> QED
          BY <4>1 DEF Counts
      <3>7. CASE CountLink(r)
        <4>1. (\E value : Put(r, "totals", value)) /\ At(r) = "linkTotals"
          BY <3>7 DEF CountLink
        <4> QED
          BY <4>1
      <3>8. CASE CountLinkSources(r)
        <4>1. (\E value : Put(r, "sources", value)) /\ At(r) = "linkSources"
          BY <3>8 DEF CountLinkSources
        <4> QED
          BY <4>1
      <3>9. CASE CountLinkDays(r)
        <4>1. (\E value : Put(r, "days", value)) /\ At(r) = "linkDays"
          BY <3>9 DEF CountLinkDays
        <4> QED
          BY <4>1
      <3>10. CASE ListLinks(r) /\ req[r].kind # "export"
        <4>1. (\E value : Put(r, "links", value)) /\ At(r) = "links"
          BY <3>10 DEF ListLinks
        <4> QED
          BY <3>10, <4>1
      <3> QED
        BY <1>8, <3>1, <3>2, <3>3, <3>4, <3>5, <3>6, <3>7, <3>8, <3>9, <3>10
    <2>2. PICK value : Put(r, field, value)
      BY <2>1
    <2> QED
      BY <1>7, <2>1, <2>2
  <1> QED
    BY <1>1, <1>2, <1>3, <1>4, <1>5, <1>6, <1>8, ReaderMoves

\* All parts of an answer are counted over one table, hence fit together.
LEMMA OneTableAgrees ==
  ASSUME FromOneTable, \A r \in Reader : InOrder(r)
  PROVE  PartsAgree /\ SeriesRanked /\ ExportWithinTotal
  <1>1. ASSUME NEW r \in Reader, OfCampaign(r)
        PROVE  \E t \in Table : \E S \in SUBSET {k \in Click : t[k] # None} :
                  \A f \in Counts \cap DOMAIN out[r] : out[r][f] = Result(f, t, S)
    <2>1. PICK t \in Table : AnswerOf(r, t)
      BY <1>1 DEF FromOneTable
    <2>2. Matching(t, req[r].of, win[r]) \in SUBSET {k \in Click : t[k] # None}
      BY DEF Matching
    <2> QED
      BY <2>1, <2>2 DEF AnswerOf
  <1>2. PartsAgree
    <2> SUFFICES ASSUME NEW r \in Reader, OfCampaign(r), "totals" \in DOMAIN out[r]
                 PROVE  LET n == out[r].totals.count IN
                        /\ Has(r, "sources") =>
                              /\ SumOf(out[r].sources) <= n
                              /\ Cardinality(DOMAIN out[r].sources) < SourceCap =>
                                    SumOf(out[r].sources) = n
                        /\ Has(r, "days") => SumOf(out[r].days) = n
                        /\ Has(r, "byLink") => SumOf(out[r].byLink) = n
                        /\ Has(r, "series") =>
                              SumOf(SeriesTotals(out[r].series)) + SumOf(out[r].series.other) = n
      BY DEF PartsAgree, Has
    <2>0. PICK t \in Table : \E S \in SUBSET {k \in Click : t[k] # None} :
             \A f \in Counts \cap DOMAIN out[r] : out[r][f] = Result(f, t, S)
      BY <1>1
    <2>1. PICK S \in SUBSET {k \in Click : t[k] # None} :
             \A f \in Counts \cap DOMAIN out[r] : out[r][f] = Result(f, t, S)
      BY <2>0
    <2>2. /\ out[r]["totals"] = Totals(t, S)
          /\ Has(r, "sources") => out[r]["sources"] = Breakdown(t, S)
          /\ Has(r, "days") => out[r]["days"] = Days(t, S)
          /\ Has(r, "byLink") => out[r]["byLink"] = ByLink(t, S)
          /\ Has(r, "series") => out[r]["series"] = Series(t, S)
      BY <2>1 DEF Has, Counts, Result
    <2>3. PICK n : n = Totals(t, S).count
      OBVIOUS
    <2>4. PICK s : s = Series(t, S)
      OBVIOUS
    <2>5. SumOf(SeriesTotals(s)) + SumOf(s.other) = n
      BY <2>3, <2>4, SeriesIs
    <2>6. SumOf(Days(t, S)) = n /\ SumOf(ByLink(t, S)) = n
      BY <2>3, DaysIs, ByLinkIs
    <2>7. /\ SumOf(Breakdown(t, S)) <= n
          /\ Cardinality(DOMAIN Breakdown(t, S)) < SourceCap => SumOf(Breakdown(t, S)) = n
      BY <2>3, BreakdownIs
    <2> QED
      BY <2>2, <2>3, <2>4, <2>5, <2>6, <2>7
  <1>3. SeriesRanked
    <2> SUFFICES ASSUME NEW r \in Reader, "series" \in DOMAIN out[r]
                 PROVE  LET s == SeriesTotals(out[r].series)
                            all == out[r].byLink
                        IN /\ Cardinality(DOMAIN s) <= SeriesCap
                           /\ \A l \in DOMAIN s : l \in DOMAIN all /\ s[l] = all[l]
                           /\ \A l \in DOMAIN s, m \in DOMAIN all \ DOMAIN s : all[l] >= all[m]
                           /\ DOMAIN out[r].series.other # {} <=>
                                 Cardinality(DOMAIN all) > SeriesCap
      BY DEF SeriesRanked, Has
    <2>1. OfCampaign(r) /\ "byLink" \in DOMAIN out[r]
      BY DEF InOrder, Has
    <2>0. PICK t \in Table : \E S \in SUBSET {k \in Click : t[k] # None} :
             \A f \in Counts \cap DOMAIN out[r] : out[r][f] = Result(f, t, S)
      BY <1>1, <2>1
    <2>2. PICK S \in SUBSET {k \in Click : t[k] # None} :
             \A f \in Counts \cap DOMAIN out[r] : out[r][f] = Result(f, t, S)
      BY <2>0
    <2>3. out[r]["byLink"] = ByLink(t, S) /\ out[r]["series"] = Series(t, S)
      BY <2>1, <2>2 DEF Counts, Result
    <2>4. PICK s : s = Series(t, S)
      OBVIOUS
    <2>5. PICK all : all = ByLink(t, S)
      OBVIOUS
    <2> QED
      BY <2>3, <2>4, <2>5, SeriesIs
  <1>4. ExportWithinTotal
    BY DEF ExportWithinTotal, InOrder, FileFits
  <1> QED
    BY <1>2, <1>3, <1>4

\* A breakdown shows n clicks or more, unless the limit cut it.
Shown(sources, n) == n <= SumOf(sources) \/ Cardinality(DOMAIN sources) = SourceCap

\* The total of a link's page was counted before its breakdown, and counts no more
\* than the table holds by now.
TotalBehind ==
    \A r \in Reader : req[r] # None /\ req[r].kind = "link" =>
        /\ At(r) = "linkTotals" => ~Has(r, "sources")
        /\ Has(r, "totals") => /\ out[r].totals.count \in Nat
                               /\ out[r].totals.count <= HumanClicks(req[r].of)
        /\ Has(r, "totals") /\ Has(r, "sources") =>
              Shown(out[r].sources, out[r].totals.count)

LEMMA LinkBreakdownIs ==
  ASSUME TypeOK, NEW l
  PROVE  /\ SumOf(Breakdown(row, OfLink(row, l, Unbounded))) \in Nat
         /\ Shown(Breakdown(row, OfLink(row, l, Unbounded)), HumanClicks(l))
  <1> DEFINE S == OfLink(row, l, Unbounded)
  <1>1. row \in Table /\ S \in SUBSET {k \in Click : row[k] # None}
    BY DEF TypeOK, OfLink
  <1>2. HumanClicks(l) \in Nat /\ Totals(row, S).count = HumanClicks(l)
    BY HumanClicksIs
  <1> HIDE DEF S
  <1>3. PICK f : f = Breakdown(row, S)
    OBVIOUS
  <1>4. /\ SumOf(f) \in Nat /\ Cardinality(DOMAIN f) \in Nat /\ Cardinality(DOMAIN f) <= SourceCap
        /\ Cardinality(DOMAIN f) < SourceCap => SumOf(f) = HumanClicks(l)
    BY <1>1, <1>2, <1>3, BreakdownIs
  <1>5. SourceCap \in Nat
    BY ClickStatsAssumption
  <1>6. Shown(f, HumanClicks(l))
    BY <1>2, <1>4, <1>5 DEF Shown
  <1> QED
    BY <1>3, <1>4, <1>6 DEF S

LEMMA TotalBehindStep == ASSUME IInv, IInv', TotalBehind, [Next]_vars PROVE TotalBehind'
  <1> SUFFICES ASSUME NEW r \in Reader, req'[r] # None, req'[r].kind = "link"
               PROVE  /\ At(r)' = "linkTotals" => ~Has(r, "sources")'
                      /\ Has(r, "totals")' => /\ out'[r].totals.count \in Nat
                                              /\ out'[r].totals.count <= HumanClicks(req[r].of)'
                      /\ Has(r, "totals")' /\ Has(r, "sources")' =>
                            Shown(out[r].sources, out[r].totals.count)'
    BY DEF TotalBehind
  <1>1. TypeOK /\ TypeOK' /\ ReaderOK(r) /\ ReaderOK(r)'
    BY DEF IInv, ClicksInv
  <1>2. PICK l : l = req'[r].of
    OBVIOUS
  <1>3. PICK n \in Nat : n = HumanClicks(l)
    BY HumanClicksIs
  <1>4. PICK m \in Nat : m = HumanClicks(l)' /\ n <= m
    BY <1>3, ClicksGrow, HumanClicksNext
  <1>5. HumanClicks(req[r].of)' = m
    BY <1>2, <1>4 DEF HumanClicks
  <1> SUFFICES /\ At(r)' = "linkTotals" => ~Has(r, "sources")'
               /\ Has(r, "totals")' => /\ out'[r].totals.count \in Nat
                                       /\ out'[r].totals.count <= m
               /\ Has(r, "totals")' /\ Has(r, "sources")' =>
                     Shown(out'[r].sources, out'[r].totals.count)
    BY <1>5 DEF Shown
  <1>6. ASSUME req[r] = req'[r]
        PROVE  /\ At(r) = "linkTotals" => ~Has(r, "sources")
               /\ Has(r, "totals") => out[r].totals.count \in Nat /\ out[r].totals.count <= n
               /\ Has(r, "totals") /\ Has(r, "sources") =>
                     Shown(out[r].sources, out[r].totals.count)
    BY <1>2, <1>3, <1>6 DEF TotalBehind
  <1>7. \A x \in Nat : x <= n => x <= m
    BY <1>4
  <1>8. CASE pc'[r] = pc[r] /\ req'[r] = req[r] /\ out'[r] = out[r]
    <2>1. At(r)' = At(r)
      BY <1>8 DEF At
    <2> QED
      BY <1>6, <1>7, <1>8, <2>1 DEF Has
  <1>9. CASE Ask(r)
    <2>1. DOMAIN out'[r] = {}
      BY <1>9, AtAfterAsk
    <2> QED
      BY <2>1 DEF Has
  <1>10. CASE NotFound(r) \/ WindowGone(r)
    BY <1>1, <1>10 DEF NotFound, WindowGone, Fail, TypeOK
  <1>11. CASE Find(r)
    <2>1. At(r) = "find" /\ \E value : Put(r, "allTime", value)
      BY <1>11 DEF Find
    <2>2. PICK value : Put(r, "allTime", value)
      BY <2>1
    <2>3. DOMAIN out'[r] = {"allTime"} \cup DOMAIN out[r]
      BY <1>1, <2>2, PutIs DEF TypeOK
    <2>4. Counts \cap DOMAIN out[r] = {}
      BY <1>1, <2>1 DEF ReaderOK, Counting, Counts
    <2> QED
      BY <2>3, <2>4 DEF Has, Counts
  <1>12. ASSUME At(r) \in Counts \cup {"window", "links"}, pc'[r] = pc[r] + 1, req'[r] = req[r]
         PROVE  FALSE
    <2>1. At(r) # "none"
      BY <1>12 DEF Counts
    <2>2. req[r].kind # "link"
      BY <1>1, <1>12, <2>1, NextAt
    <2> QED
      BY <1>12, <2>2
  <1>13. CASE \/ ResolveWindow(r) \/ CountTotals(r) \/ CountSources(r) \/ CountDays(r)
              \/ CountByLink(r) \/ CountSeries(r) \/ ListLinks(r)
    BY <1>1, <1>12, <1>13 DEF ResolveWindow, CountTotals, CountSources, CountDays, CountByLink,
                              CountSeries, ListLinks, Put, Counts, TypeOK
  <1>14. CASE CountLink(r)
    <2>1. At(r) = "linkTotals" /\ req'[r] = req[r] /\ pc'[r] = pc[r] + 1
      BY <1>1, <1>14 DEF CountLink, Put, TypeOK
    <2>2. PICK value : Put(r, "totals", value) /\ value.count = n
      BY <1>2, <1>3, <1>14, <2>1, HumanClicksIs DEF CountLink
    <2>3. DOMAIN out'[r] = {"totals"} \cup DOMAIN out[r] /\ out'[r]["totals"] = value
      BY <1>1, <2>2, PutIs DEF TypeOK
    <2>4. ~Has(r, "sources")'
      BY <1>6, <2>1, <2>3 DEF Has
    <2> QED
      BY <1>3, <1>4, <2>2, <2>3, <2>4
  <1>15. CASE CountLinkSources(r)
    <2>1. At(r) = "linkSources" /\ req'[r] = req[r] /\ pc'[r] = pc[r] + 1
      BY <1>1, <1>15 DEF CountLinkSources, Put, TypeOK
    <2>2. PICK value : Put(r, "sources", value) /\ Shown(value, n) /\ SumOf(value) \in Nat
      BY <1>1, <1>2, <1>3, <1>15, <2>1, LinkBreakdownIs DEF CountLinkSources
    <2>3. /\ DOMAIN out'[r] = {"sources"} \cup DOMAIN out[r] /\ out'[r]["sources"] = value
          /\ \A g \in DOMAIN out[r] : g # "sources" => out'[r][g] = out[r][g]
      BY <1>1, <2>2, PutIs DEF TypeOK
    <2>4. At(r)' = "linkDays"
      BY <1>1, <2>1, NextAt
    <2>5. ASSUME Has(r, "totals")'
          PROVE  /\ out'[r]["totals"].count \in Nat
                 /\ out'[r]["totals"].count <= n
      BY <1>6, <2>1, <2>3, <2>5 DEF Has
    <2>6. ASSUME NEW f, Shown(f, n), NEW x \in Nat, x <= n, SumOf(f) \in Nat PROVE Shown(f, x)
      BY <1>3, <2>6 DEF Shown
    <2>7. ASSUME Has(r, "totals")'
          PROVE  Shown(out'[r]["sources"], out'[r]["totals"].count)
      BY <2>2, <2>3, <2>5, <2>6, <2>7
    <2> QED
      BY <1>7, <2>4, <2>5, <2>7
  <1>16. CASE CountLinkDays(r)
    <2>1. At(r) = "linkDays" /\ req'[r] = req[r] /\ pc'[r] = pc[r] + 1
          /\ \E value : Put(r, "days", value)
      BY <1>1, <1>16 DEF CountLinkDays, Put, TypeOK
    <2>2. PICK value : Put(r, "days", value)
      BY <2>1
    <2>3. /\ DOMAIN out'[r] = {"days"} \cup DOMAIN out[r]
          /\ \A g \in DOMAIN out[r] : g # "days" => out'[r][g] = out[r][g]
      BY <1>1, <2>2, PutIs DEF TypeOK
    <2>4. At(r)' = "none"
      BY <1>1, <2>1, NextAt
    <2>5. /\ Has(r, "totals")' => Has(r, "totals") /\ out'[r]["totals"] = out[r]["totals"]
          /\ Has(r, "sources")' => Has(r, "sources") /\ out'[r]["sources"] = out[r]["sources"]
      BY <2>3 DEF Has
    <2> QED
      BY <1>6, <1>7, <2>1, <2>4, <2>5
  <1> QED
    BY <1>1, <1>8, <1>9, <1>10, <1>11, <1>13, <1>14, <1>15, <1>16, ReaderMoves

\* Everything one answer shows fits together, however many redirects, links and readers
\* there are and whatever is recorded, moved or deleted between its statements: the parts
\* add up to the total, the chart names the links that lead, a file stays within its
\* roll-up in the order of its clicks, and a link's page never counts ahead of itself.
THEOREM AnswersFit == Spec => []AnswerConsistent
  <1>1. Init => FromOneTable /\ CountsBehind /\ TotalBehind /\ \A r \in Reader : InOrder(r)
    <2> SUFFICES ASSUME Init
                 PROVE  FromOneTable /\ CountsBehind /\ TotalBehind
                        /\ \A r \in Reader : InOrder(r)
      OBVIOUS
    <2>1. \A r \in Reader : req[r] = None /\ DOMAIN out[r] = {}
      BY DEF Init
    <2>2. \A r \in Reader : At(r) = "none"
      BY <2>1 DEF At
    <2> QED
      BY <2>1, <2>2 DEF FromOneTable, OfCampaign, CountsBehind, TotalBehind, InOrder, Exporting,
                        Counts, Has
  <1>2. IInv /\ IInv' /\ FromOneTable /\ [Next]_vars => FromOneTable'
    BY OneTableStep
  <1>3. IInv /\ IInv' /\ FromOneTable /\ (\A r \in Reader : InOrder(r)) /\ [Next]_vars
           => (\A r \in Reader : InOrder(r))'
    BY InOrderStep
  <1>4. IInv /\ IInv' /\ CountsBehind /\ [Next]_vars => CountsBehind'
    BY CountsBehindStep
  <1>5. IInv /\ IInv' /\ TotalBehind /\ [Next]_vars => TotalBehind'
    BY TotalBehindStep
  <1>6. CountsBehind /\ TotalBehind => LinkTotalNeverAhead
    BY DEF CountsBehind, TotalBehind, LinkTotalNeverAhead, AllTimeBehind, Shown
  <1>7. FromOneTable /\ (\A r \in Reader : InOrder(r))
           => PartsAgree /\ SeriesRanked /\ ExportWithinTotal
    BY OneTableAgrees
  <1>8. FromOneTable /\ (\A r \in Reader : InOrder(r)) /\ CountsBehind /\ TotalBehind
           => AnswerConsistent
    BY <1>6, <1>7 DEF AnswerConsistent
  <1> QED
    BY <1>1, <1>2, <1>3, <1>4, <1>5, <1>8, InitInv, NextStep, PTL DEF Spec

==============================================================================
