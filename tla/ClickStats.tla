----------------------------- MODULE ClickStats ------------------------------
(***************************************************************************)
(* Clicks and what is counted of them: the redirect handler's goroutine,   *)
(* internal/clicks/recorder.go and botdetect.go, the queries of            *)
(* internal/clicks/stats.go, and the endpoints of                          *)
(* internal/handlers/{links,campaigns,campaigns_export}.go that answer     *)
(* with several of them.                                                   *)
(*                                                                         *)
(* One user's links are modelled, all of them active; a link's number      *)
(* stands for its id, its key and its age.  utm_source stands for the      *)
(* dimensions of a breakdown, its values ordered as numbers, 0 for NULL    *)
(* and '' ("(none)").  A day stands for the midnight UTC it begins at and  *)
(* for every instant of it.                                                *)
(***************************************************************************)
EXTENDS Integers, Sequences, FiniteSets, SequencesExt

CONSTANTS Click,      \* redirects, and the row each may leave in clicks
          Link,       \* ids of links
          Campaign,   \* campaigns of the user
          Utm,        \* Utm[l]: the link's own utm_source
          Inbound,    \* utm_source values a request may carry, 0 for none
          Reader,     \* requests for statistics
          MaxDay,     \* days modelled: 0 .. MaxDay
          Span,       \* defaultTimeseriesDays
          SourceCap,  \* breakdownLimit
          SeriesCap,  \* seriesByLinkCap
          Schedules,  \* starts_at and ends_at edits may leave a campaign with
          Earlier,    \* Earlier[k]: a row there is already, or None
          Asked,      \* the optional ?from= and ?to= of a request
          None        \* no campaign, no row, no date

Source == Inbound \cup {Utm[l] : l \in Link} \cup {0}
Day == 0 .. MaxDay

\* A row of clicks, and a table of them.
Entry == [link : Link, day : Day, bot : BOOLEAN, src : Source, camp : Campaign \cup {None}]
Table == [Click -> Entry \cup {None}]

\* What the goroutine of a redirect holds.
Flight == [stage : {"over"}] \cup
          [stage : {"spawned", "insert"}, link : Link, day : Day, bot : BOOLEAN, src : Source,
           camp : Campaign \cup {None}]

\* parseStatsWindow: a to before from is answered with 400.
Bounds == {b \in Asked : b.from # None /\ b.to # None => b.from <= b.to}

Unbounded == [from |-> None, to |-> None]

\* What a request for statistics asks for.
Query == [kind : {"rollup", "export"}, of : Campaign, bounds : Bounds] \cup
         [kind : {"detail"}, of : Campaign, bounds : {Unbounded}] \cup
         [kind : {"link"}, of : Link, bounds : {Unbounded}]

ASSUME ClickStatsAssumption ==
    /\ Link \subseteq Nat /\ Inbound \subseteq Nat /\ Utm \in [Link -> Nat]
    /\ Earlier \in Table /\ \A k \in Click : Earlier[k] # None => Earlier[k].day = 0
    /\ IsFiniteSet(Link) /\ IsFiniteSet(Inbound) /\ IsFiniteSet(Click)
    /\ MaxDay \in Nat /\ {Span, SourceCap, SeriesCap} \subseteq Nat \ {0}
    /\ None \notin Int \cup Campaign
    /\ Schedules \cup Asked \subseteq [from : Day \cup {None}, to : Day \cup {None}]

\* None is no row, no goroutine and no request.
ASSUME NoneAssumption == None \notin Entry /\ None \notin Flight /\ None \notin Query

VARIABLES today,  \* the server's day
          live,   \* the campaigns that have a row
          at,     \* at[l]: the committed links.campaign_id
          fly,    \* fly[k]: the recording goroutine of redirect k
          row,    \* row[k]: its committed row of clicks
          pc,     \* control of each reader
          req,    \* what it asks for
          snap,   \* the snapshot of its REPEATABLE READ transaction
          win,    \* the window it has resolved
          out     \* what its answer holds so far

clicks == <<fly, row>>
reading == <<pc, req, snap, win, out>>
vars == <<today, live, at, clicks, reading>>

Window == [from : Int, to : Int]

\* What each endpoint reads, in its order.
Plan == [rollup |-> <<"find", "window", "totals", "sources", "days", "byLink", "series">>,
         export |-> <<"find", "window", "totals", "sources", "days", "byLink", "series",
                      "links">>,
         detail |-> <<"find", "links", "window", "totals", "sources", "days">>,
         link   |-> <<"find", "linkTotals", "linkSources", "linkDays">>]

NoSnapshot == [clicks |-> [k \in Click |-> None], taken |-> FALSE]

Init ==
    /\ today = 0
    /\ live = Campaign
    /\ at \in [Link -> Campaign \cup {None}]
    /\ fly = [k \in Click |-> IF Earlier[k] = None THEN None ELSE [stage |-> "over"]]
    /\ row = Earlier
    /\ pc = [r \in Reader |-> 0]
    /\ req = [r \in Reader |-> None]
    /\ snap = [r \in Reader |-> NoSnapshot]
    /\ win = [r \in Reader |-> Unbounded]
    /\ out = [r \in Reader |-> << >>]

------------------------------------------------------------------------------
(* Recording a click *)

\* The markers of the lists that a User-Agent contains; "" contains none.
UserAgent == SUBSET {"exception", "marker"}

IsBot(ua) == "exception" \notin ua /\ "marker" \in ua

\* ServeHTTP: the goroutine is started before the 302 is written, with the
\* day, the User-Agent and the inbound parameters of the request.
Redirect(k) ==
    /\ fly[k] = None
    /\ \E l \in Link, bot \in {IsBot(ua) : ua \in UserAgent}, s \in Inbound :
          fly' = [fly EXCEPT ![k] = [stage |-> "spawned", link |-> l, day |-> today,
                                     bot |-> bot, src |-> s, camp |-> None]]
    /\ UNCHANGED <<today, live, at, row, reading>>

\* COALESCE(NULLIF(inbound, ''), l.utm_source)
Resolved(s, l) == IF s # 0 THEN s ELSE Utm[l]

\* INSERT ... SELECT: the link's row as the statement's snapshot has it.
SelectLink(k) ==
    /\ fly[k] # None /\ fly[k].stage = "spawned"
    /\ fly' = [fly EXCEPT ![k].stage = "insert", ![k].camp = at[fly[k].link],
                          ![k].src = Resolved(@, fly[k].link)]
    /\ UNCHANGED <<today, live, at, row, reading>>

ClickRow(k) == [link |-> fly[k].link, day |-> fly[k].day, bot |-> fly[k].bot,
                src |-> fly[k].src, camp |-> fly[k].camp]

Over(k) == [fly EXCEPT ![k] = [stage |-> "over"]]

\* Mutant: clicks.campaign_id without its foreign key.
InsertUnchecked(k) ==
    /\ fly[k] # None /\ fly[k].stage = "insert"
    /\ row' = [row EXCEPT ![k] = ClickRow(k)]
    /\ fly' = Over(k)
    /\ UNCHANGED <<today, live, at, reading>>

\* ... and its foreign key finds the campaign.
Insert(k) ==
    /\ fly[k] # None /\ fly[k].stage = "insert"
    /\ fly[k].camp \in live \cup {None}
    /\ row' = [row EXCEPT ![k] = ClickRow(k)]
    /\ fly' = Over(k)
    /\ UNCHANGED <<today, live, at, reading>>

\* RecordClick logs and drops: the campaign is gone, the database fails or
\* takes more than recordTimeout, or the server stops.  Nothing is left of
\* the redirect, and k may stand for another one.
Lose(k) ==
    /\ fly[k] # None /\ fly[k].stage \in {"spawned", "insert"}
    /\ fly' = [fly EXCEPT ![k] = None]
    /\ UNCHANGED <<today, live, at, row, reading>>

------------------------------------------------------------------------------
(* What goes on around it *)

\* AssignLinkToCampaign and UnassignLinkFromCampaign.
Move(l) ==
    /\ \E c \in live \cup {None} :
          at[l] # c /\ at' = [at EXCEPT ![l] = c]
    /\ UNCHANGED <<today, live, clicks, reading>>

\* DeleteCampaign commits, and its cascades with it.
DeleteCampaign(c) ==
    /\ c \in live
    /\ live' = live \ {c}
    /\ at' = [l \in Link |-> IF at[l] = c THEN None ELSE at[l]]
    /\ row' = [k \in Click |-> IF row[k] # None /\ row[k].camp = c
                               THEN [row[k] EXCEPT !.camp = None] ELSE row[k]]
    /\ UNCHANGED <<today, fly, reading>>

NextDay ==
    /\ today < MaxDay
    /\ today' = today + 1
    /\ UNCHANGED <<live, at, clicks, reading>>

------------------------------------------------------------------------------
(* The queries, over a table t of clicks *)

\* The sum of a function to Nat: x counts f[x] times.
SumOf(f) == Cardinality(UNION {{<<x, i>> : i \in 1 .. f[x]} : x \in DOMAIN f})

Tally(S, key(_)) == [x \in {key(k) : k \in S} |-> Cardinality({k \in S : key(k) = x})]

In(day, w) == (w.from = None \/ w.from <= day) /\ (w.to = None \/ day < w.to)

\* Mutant: the campaign is the link's, joined when the clicks are read.
MatchingByLink(t, c, w) ==
    {k \in Click : t[k] # None /\ at[t[k].link] = c /\ In(t[k].day, w)}

\* WHERE campaign_id = $1 AND clicked_at >= $2 AND clicked_at < $3
Matching(t, c, w) == {k \in Click : t[k] # None /\ t[k].camp = c /\ In(t[k].day, w)}

OfLink(t, l, w) == {k \in Click : t[k] # None /\ t[k].link = l /\ In(t[k].day, w)}

\* AND is_bot = FALSE
Human(t, S) == {k \in S : ~t[k].bot}

Totals(t, S) == [count |-> Cardinality(Human(t, S)),
                 bots |-> Cardinality(S \ Human(t, S))]

\* ORDER BY count DESC, value ASC: the first n of the keys of a tally.
Before(f, x, y) == f[x] > f[y] \/ (f[x] = f[y] /\ x < y)

First(f, n) == {x \in DOMAIN f : Cardinality({y \in DOMAIN f : Before(f, y, x)}) < n}

Restricted(f, S) == [x \in S |-> f[x]]

Breakdown(t, S) ==
    LET f == Tally(Human(t, S), LAMBDA k : t[k].src) IN Restricted(f, First(f, SourceCap))

Days(t, S) == Tally(Human(t, S), LAMBDA k : t[k].day)

ByLink(t, S) == Tally(Human(t, S), LAMBDA k : t[k].link)

\* The days of the links with most clicks, and of all the others together.
Series(t, S) ==
    LET H == Human(t, S)
        named == First(ByLink(t, S), SeriesCap)
    IN [named |-> [l \in named |-> Days(t, {k \in H : t[k].link = l})],
        other |-> Days(t, {k \in H : t[k].link \notin named})]

------------------------------------------------------------------------------
(* A request for statistics *)

At(r) == IF pc[r] = 0 \/ req[r] = None \/ pc[r] > Len(Plan[req[r].kind]) THEN "none"
         ELSE Plan[req[r].kind][pc[r]]

Ask(r) ==
    /\ pc[r] = 0
    /\ \/ \E kind \in {"rollup", "export"}, c \in Campaign, b \in Bounds :
             req' = [req EXCEPT ![r] = [kind |-> kind, of |-> c, bounds |-> b]]
       \/ \E c \in Campaign :
             req' = [req EXCEPT ![r] = [kind |-> "detail", of |-> c, bounds |-> Unbounded]]
       \/ \E l \in Link :
             req' = [req EXCEPT ![r] = [kind |-> "link", of |-> l, bounds |-> Unbounded]]
    /\ pc' = [pc EXCEPT ![r] = 1]
    /\ UNCHANGED <<today, live, at, clicks, snap, win, out>>

\* The next statement's result joins the answer.
Put(r, field, value) ==
    /\ out' = [out EXCEPT ![r] = [f \in {field} \cup DOMAIN @ |->
                                     IF f = field THEN value ELSE @[f]]]
    /\ pc' = [pc EXCEPT ![r] = @ + 1]
    /\ UNCHANGED <<today, live, at, clicks, req>>

\* 404 or 500: nothing more is read.
Fail(r) ==
    /\ pc' = [pc EXCEPT ![r] = -1]
    /\ out' = [out EXCEPT ![r] = << >>]
    /\ req' = [req EXCEPT ![r] = None]
    /\ snap' = [snap EXCEPT ![r] = NoSnapshot]
    /\ win' = [win EXCEPT ![r] = Unbounded]
    /\ UNCHANGED <<today, live, at, clicks>>

NotFound(r) ==
    /\ At(r) = "find" /\ req[r].kind # "link" /\ req[r].of \notin live
    /\ Fail(r)

\* GetCampaignBySlug; for the detail page GetCampaignBySlugWithCounts, for a
\* link GetLink.
Find(r) ==
    /\ At(r) = "find"
    /\ req[r].kind # "link" => req[r].of \in live
    /\ Put(r, "allTime",
           CASE req[r].kind = "detail" -> Totals(row, Matching(row, req[r].of, Unbounded)).count
             [] req[r].kind = "link" -> Totals(row, OfLink(row, req[r].of, Unbounded)).count
             [] OTHER -> 0)
    /\ UNCHANGED <<snap, win>>

\* Mutant: the reads go to the pool, outside the transaction.
SeenInPool(r) == row

\* The table as a transaction sees it: its first statement takes the snapshot.
Seen(r) == IF snap[r].taken THEN snap[r].clicks ELSE row

Take(r) == snap' = [snap EXCEPT ![r] = [clicks |-> Seen(r), taken |-> TRUE]]

LastDays(to) == [from |-> to - Span, to |-> to]

\* Mutant: ends_at is taken as it is.
DefaultUnclamped(s) ==
    IF s.from # None /\ s.to # None THEN s ELSE LastDays(today)

\* The campaign's own dates, never past today, or the last Span days.
Default(s) ==
    IF s.from # None /\ s.to # None
    THEN [from |-> s.from, to |-> IF s.to > today THEN today ELSE s.to]
    ELSE LastDays(today)

\* campaignWindow: it reads the row only when the request gives no bound,
\* and finds the schedule the last edit has left there.
ResolveWindow(r) ==
    /\ At(r) = "window"
    /\ IF req[r].bounds = Unbounded
       THEN /\ req[r].of \in live
            /\ \E s \in Schedules : win' = [win EXCEPT ![r] = Default(s)]
            /\ Take(r)
       ELSE LET b == req[r].bounds
                to == IF b.to = None THEN today ELSE b.to
            IN /\ win' = [win EXCEPT ![r] =
                      IF b.from = None THEN LastDays(to) ELSE [from |-> b.from, to |-> to]]
               /\ UNCHANGED snap
    /\ pc' = [pc EXCEPT ![r] = @ + 1]
    /\ UNCHANGED <<today, live, at, clicks, req, out>>

\* No rows: the campaign was deleted since it was found.
WindowGone(r) ==
    /\ At(r) = "window" /\ req[r].bounds = Unbounded /\ req[r].of \notin live
    /\ Fail(r)

InWindow(r) == Matching(Seen(r), req[r].of, win[r])

CountTotals(r) ==
    /\ At(r) = "totals"
    /\ Put(r, "totals", Totals(Seen(r), InWindow(r)))
    /\ Take(r)
    /\ UNCHANGED win

\* The deferred Rollback, once the last query of the transaction is read.
EndAfter(r) ==
    snap' = IF At(r) = (IF req[r].kind = "detail" THEN "days" ELSE "series")
            THEN [snap EXCEPT ![r] = NoSnapshot] ELSE snap

CountSources(r) ==
    /\ At(r) = "sources"
    /\ Put(r, "sources", Breakdown(Seen(r), InWindow(r)))
    /\ UNCHANGED <<snap, win>>

CountDays(r) ==
    /\ At(r) = "days"
    /\ Put(r, "days", Days(Seen(r), InWindow(r)))
    /\ EndAfter(r)
    /\ UNCHANGED win

CountByLink(r) ==
    /\ At(r) = "byLink"
    /\ Put(r, "byLink", ByLink(Seen(r), InWindow(r)))
    /\ UNCHANGED <<snap, win>>

CountSeries(r) ==
    /\ At(r) = "series"
    /\ Put(r, "series", Series(Seen(r), InWindow(r)))
    /\ EndAfter(r)
    /\ UNCHANGED win

\* ListLinksForCampaign, in a statement of its own; youngest first.
Members(c) == SetToSortSeq({l \in Link : at[l] = c}, LAMBDA l, m : l > m)

Count(r, l) == IF l \in DOMAIN out[r].byLink THEN out[r].byLink[l] ELSE 0

\* math.Round of a percentage.
Share(n, total) == IF total = 0 THEN 0 ELSE (200 * n + total) \div (2 * total)

\* buildCampaignExportRows: each current member with its clicks in the window.
ExportRows(r) == [l \in {m \in Link : at[m] = req[r].of} |-> Count(r, l)]

\* The rows by clicks, most first; ties stay as listed.
Above(f, l, m) == f[l] > f[m] \/ (f[l] = f[m] /\ l > m)

Sorted(f) == CHOOSE s \in [1 .. Cardinality(DOMAIN f) -> DOMAIN f] :
                 \A i, j \in DOMAIN s : i < j => Above(f, s[i], s[j])

Listed(r) ==
    LET f == ExportRows(r)
        total == SumOf(f)
        order == Sorted(f)
    IN [i \in DOMAIN order |-> [link |-> order[i], clicks |-> f[order[i]],
                                share |-> Share(f[order[i]], total)]]

\* campaignExportFilename: the last day named, never before the first.
LastDay(w) == IF w.to - 1 < w.from THEN w.from ELSE w.to - 1

ListLinks(r) ==
    /\ At(r) = "links"
    /\ IF req[r].kind = "export"
       THEN Put(r, "file", [rows |-> Listed(r), first |-> win[r].from, last |-> LastDay(win[r])])
       ELSE Put(r, "links", Members(req[r].of))
    /\ UNCHANGED <<snap, win>>

\* UTMStatsForLink and ClicksOverTime: each statement sees the table as it is.
CountLink(r) ==
    /\ At(r) = "linkTotals"
    /\ Put(r, "totals", Totals(row, OfLink(row, req[r].of, Unbounded)))
    /\ UNCHANGED <<snap, win>>

CountLinkSources(r) ==
    /\ At(r) = "linkSources"
    /\ Put(r, "sources", Breakdown(row, OfLink(row, req[r].of, Unbounded)))
    /\ UNCHANGED <<snap, win>>

CountLinkDays(r) ==
    /\ At(r) = "linkDays"
    /\ Put(r, "days", Days(row, OfLink(row, req[r].of, LastDays(today))))
    /\ win' = [win EXCEPT ![r] = LastDays(today)]
    /\ UNCHANGED snap

------------------------------------------------------------------------------
Next ==
    \/ \E k \in Click : Redirect(k) \/ SelectLink(k) \/ Insert(k) \/ Lose(k)
    \/ \E l \in Link : Move(l)
    \/ \E c \in Campaign : DeleteCampaign(c)
    \/ NextDay
    \/ \E r \in Reader :
          \/ Ask(r) \/ NotFound(r) \/ Find(r) \/ ResolveWindow(r) \/ WindowGone(r)
          \/ CountTotals(r) \/ CountSources(r) \/ CountDays(r) \/ CountByLink(r)
          \/ CountSeries(r) \/ ListLinks(r)
          \/ CountLink(r) \/ CountLinkSources(r) \/ CountLinkDays(r)

Spec == Init /\ [][Next]_vars

------------------------------------------------------------------------------
(* Properties *)

\* Every variable has its type.
TypeOK ==
    /\ today \in Day
    /\ live \subseteq Campaign
    /\ at \in [Link -> Campaign \cup {None}]
    /\ fly \in [Click -> Flight \cup {None}]
    /\ row \in Table
    /\ pc \in [Reader -> -1 .. 9]
    /\ req \in [Reader -> Query \cup {None}]
    /\ snap \in [Reader -> [clicks : Table, taken : BOOLEAN]]
    /\ win \in [Reader -> [from : Int \cup {None}, to : Int \cup {None}]]
    /\ DOMAIN out = Reader

\* A goroutine that has left a row is over, and clicks are not of days to come.
Recording ==
    \A k \in Click :
        /\ fly[k] # None /\ fly[k].stage # "over" => fly[k].day <= today
        /\ row[k] # None => row[k].day <= today /\ fly[k] # None /\ fly[k].stage = "over"

\* A click recorded while its campaign is being deleted, after its link's row
\* was read, is never left pointing at a campaign that is not there.
NoDanglingClick ==
    /\ \A k \in Click : row[k] # None => row[k].camp \in live \cup {None}
    /\ \A l \in Link : at[l] \in live \cup {None}

\* The statements that count clicks of a campaign.
Counts == {"totals", "sources", "days", "byLink", "series"}

Counting(r) == At(r) \in Counts \/ (At(r) = "links" /\ req[r].kind = "export")

\* Who counts has a window with two ends, and after its first count the snapshot
\* that one took; before it an answer holds no counts.
ReaderOK(r) ==
    /\ req[r] = None <=> pc[r] \in {-1, 0}
    /\ req[r] = None => out[r] = << >> /\ snap[r] = NoSnapshot /\ win[r] = Unbounded
    /\ req[r] # None => pc[r] <= Len(Plan[req[r].kind]) + 1
    /\ Counting(r) => win[r] \in Window
    /\ At(r) \in Counts \ {"totals"} => snap[r].taken
    /\ At(r) = "totals" \/ (At(r) \in {"find", "links", "window"} /\ ~Counting(r)) =>
          Counts \cap DOMAIN out[r] = {}

\* The state invariant: types, what goroutines and readers hold, and a table of
\* clicks that refers to nothing gone.
ClicksInv == TypeOK /\ Recording /\ NoDanglingClick /\ \A r \in Reader : ReaderOK(r)

Has(r, field) == field \in DOMAIN out[r]

OfCampaign(r) == req[r] # None /\ req[r].kind # "link"

SeriesTotals(s) == [l \in DOMAIN s.named |-> SumOf(s.named[l])]

\* All parts of one campaign answer agree, whatever is recorded, moved or
\* deleted while its queries run: the days, the links and the series add up
\* to the total, and so does the breakdown unless the limit cut it.
PartsAgree ==
    \A r \in Reader : OfCampaign(r) /\ Has(r, "totals") =>
        LET n == out[r].totals.count IN
        /\ Has(r, "sources") =>
              /\ SumOf(out[r].sources) <= n
              /\ Cardinality(DOMAIN out[r].sources) < SourceCap => SumOf(out[r].sources) = n
        /\ Has(r, "days") => SumOf(out[r].days) = n
        /\ Has(r, "byLink") => SumOf(out[r].byLink) = n
        /\ Has(r, "series") =>
              SumOf(SeriesTotals(out[r].series)) + SumOf(out[r].series.other) = n

\* The capped series names the links that lead by_link of the same answer, at
\* most SeriesCap of them, folds the rest into "Other" and none when there is
\* no rest.
SeriesRanked ==
    \A r \in Reader : Has(r, "series") =>
        LET s == SeriesTotals(out[r].series)
            all == out[r].byLink
        IN /\ Cardinality(DOMAIN s) <= SeriesCap
           /\ \A l \in DOMAIN s : l \in DOMAIN all /\ s[l] = all[l]
           /\ \A l \in DOMAIN s, m \in DOMAIN all \ DOMAIN s : all[l] >= all[m]
           /\ DOMAIN out[r].series.other # {} <=> Cardinality(DOMAIN all) > SeriesCap

\* An export lists the members of the moment with counts of the roll-up: they
\* never exceed its total, its rows come by clicks, a row with fewer clicks
\* has no larger share.
ExportWithinTotal ==
    \A r \in Reader : Has(r, "file") =>
        LET f == out[r].file.rows IN
        /\ SumOf([i \in DOMAIN f |-> f[i].clicks]) <= out[r].totals.count
        /\ \A i, j \in DOMAIN f : i < j =>
              /\ f[i].clicks >= f[j].clicks
              /\ f[i].share >= f[j].share

\* The page of a link counts all of its clicks, then those of its breakdown: the
\* first count is never ahead, because clicks are not removed.
AllTimeBehind ==
    \A r \in Reader : req[r] # None /\ req[r].kind = "link" /\ Has(r, "totals") =>
        out[r].allTime <= out[r].totals.count

\* A link's detail page reads its total first: it may be behind the breakdown
\* and the all-time count behind both, but neither is ever ahead.
LinkTotalNeverAhead ==
    /\ AllTimeBehind
    /\ \A r \in Reader :
          req[r] # None /\ req[r].kind = "link" /\ Has(r, "sources") /\ Has(r, "totals") =>
              \/ out[r].totals.count <= SumOf(out[r].sources)
              \/ Cardinality(DOMAIN out[r].sources) = SourceCap

\* Whatever is recorded, moved or deleted while the queries of an answer run,
\* its parts, the chart, the export's rows and a link's page fit together.
AnswerConsistent == PartsAgree /\ SeriesRanked /\ ExportWithinTotal /\ LinkTotalNeverAhead

\* A window the server chose for itself never asks for days still to come.
DefaultWindowPast ==
    \A r \in Reader :
        req[r] # None /\ req[r].bounds = Unbounded /\ win[r].to # None => win[r].to <= today

\* The dates in the name of an export never run backwards.
FileNameOrdered ==
    \A r \in Reader : Has(r, "file") => out[r].file.first <= out[r].file.last

\* No clicks, and no line in any list or chart.
Empty(r) ==
    /\ out[r].totals = [count |-> 0, bots |-> 0]
    /\ \A part \in {"sources", "days", "byLink"} : Has(r, part) => DOMAIN out[r][part] = {}

\* Whatever dates an edit has left a campaign with, none, one, past or to come,
\* and whenever the day changes: an answer over the campaign's own dates shows
\* only days that are over; a campaign that is yet to begin, whose window then
\* runs backwards, is answered with nothing rather than with the clicks its
\* links already have; and an export of it is still named for dates in order.
WindowsSound ==
    /\ DefaultWindowPast /\ FileNameOrdered
    /\ \A r \in Reader : OfCampaign(r) /\ Has(r, "totals") =>
          /\ req[r].bounds = Unbounded /\ Has(r, "days") =>
                \A d \in DOMAIN out[r].days : d < today
          /\ win[r].to <= win[r].from => Empty(r)

\* A campaign's history is not rewritten: as long as it lives, what a query
\* would count for it only grows, wherever its links are moved.
HistoryKept ==
    [][\A c \in live \cap live' :
          Human(row, Matching(row, c, Unbounded))
              \subseteq Human(row, Matching(row, c, Unbounded))']_vars
==============================================================================
