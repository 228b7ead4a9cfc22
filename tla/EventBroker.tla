----------------------------- MODULE EventBroker -----------------------------
(***************************************************************************)
(* Live dashboards: the hub of internal/events/broker.go between the       *)
(* publisher (LinksHandler.Create, after its commit) and the subscribers   *)
(* (EventsHandler.Stream, one per open dashboard), and the dashboard itself*)
(* (web/src/views/Dashboard.svelte), which loads its page of links and     *)
(* opens the stream at the same time and shows a link for every event.     *)
(*                                                                         *)
(* A link is the number of its commit; made[n] is its owner.  A stream's   *)
(* channel is known by its tab: a tab has one stream at a time.  The order *)
(* of subscribers[u] is kept because Unsubscribe works on it by index.     *)
(* owed is a history variable.                                             *)
(***************************************************************************)
EXTENDS Naturals, Sequences

CONSTANTS User,
          Tab,        \* open dashboards
          Owner,      \* Owner[t]: the user signed in on tab t
          Creator,    \* in-flight POST /api/links requests
          MaxLinks,   \* bound: committed links
          BufCap      \* subscriberBuffer

ASSUME ConstAssumption ==
    /\ Owner \in [Tab -> User]
    /\ MaxLinks \in Nat /\ BufCap \in Nat \ {0}

VARIABLES made,     \* made[n]: owner of the n-th committed link
          subs,     \* Broker.subscribers
          buf,      \* buf[t]: events in the channel of tab t
          stream,   \* control of the Stream handler of tab t
          pc,       \* control of each create request
          link,     \* the link it committed
          todo,     \* channels its Publish has still to send to
          page,     \* loadPage on tab t: off, loading, loaded
          answer,   \* the list in the response on its way to tab t
          list,     \* links shown on tab t
          owed      \* history: links committed while t was loaded and subscribed

serverVars == <<made, subs, buf, stream>>
pubVars    == <<pc, link, todo>>
tabVars    == <<page, answer, list>>
vars == <<serverVars, pubVars, tabVars, owed>>

Init ==
    /\ made = <<>>
    /\ subs = [u \in User |-> <<>>]
    /\ buf = [t \in Tab |-> <<>>]
    /\ stream = [t \in Tab |-> "off"]
    /\ pc = [p \in Creator |-> "idle"]
    /\ link = [p \in Creator |-> 0]
    /\ todo = [p \in Creator |-> <<>>]
    /\ page = [t \in Tab |-> "off"]
    /\ answer = [t \in Tab |-> {}]
    /\ list = [t \in Tab |-> {}]
    /\ owed = [t \in Tab |-> {}]

LinksOf(u) == {n \in DOMAIN made : made[n] = u}

\* Publish holds the read lock while it sends; the write lock excludes it.
NoReader == \A p \in Creator : pc[p] # "sending"

------------------------------------------------------------------------------
(* The dashboard *)

\* onMount: loadPage asks for the list; the server's SELECT answers it.
Mount(t) ==
    /\ page[t] = "off"
    /\ page' = [page EXCEPT ![t] = "loading"]
    /\ answer' = [answer EXCEPT ![t] = LinksOf(Owner[t])]
    /\ UNCHANGED <<serverVars, pubVars, list, owed>>

\* The response arrives: links.set(res.links).
PageArrives(t) ==
    /\ page[t] = "loading"
    /\ page' = [page EXCEPT ![t] = "loaded"]
    /\ list' = [list EXCEPT ![t] = answer[t]]
    /\ answer' = [answer EXCEPT ![t] = {}]
    /\ UNCHANGED <<serverVars, pubVars, owed>>

\* The EventSource connects, or connects again; Stream flushes its first
\* frame and the client sees the stream open.
Connect(t) ==
    /\ page[t] # "off" /\ stream[t] = "off"
    /\ stream' = [stream EXCEPT ![t] = "open"]
    /\ UNCHANGED <<made, subs, buf, pubVars, tabVars, owed>>

\* Stream reads an event from its channel and flushes a frame; the tab
\* prepends the link.
Deliver(t) ==
    /\ stream[t] = "live" /\ buf[t] # <<>>
    /\ buf' = [buf EXCEPT ![t] = Tail(@)]
    /\ list' = [list EXCEPT ![t] = @ \cup {Head(buf[t])}]
    /\ UNCHANGED <<made, subs, stream, pubVars, page, answer, owed>>

\* The connection is gone: ctx.Done.
ClientGone(t) ==
    /\ stream[t] = "live"
    /\ stream' = [stream EXCEPT ![t] = "leaving"]
    /\ owed' = [owed EXCEPT ![t] = {}]
    /\ UNCHANGED <<made, subs, buf, pubVars, tabVars>>

------------------------------------------------------------------------------
(* The broker *)

\* Subscribe: a new channel at the end of the user's slice.
Subscribe(t) ==
    /\ stream[t] = "open"
    /\ NoReader
    /\ subs' = [subs EXCEPT ![Owner[t]] = Append(@, t)]
    /\ stream' = [stream EXCEPT ![t] = "live"]
    /\ UNCHANGED <<made, buf, pubVars, tabVars, owed>>

\* Mutant: the last subscriber is cut off without taking the place of the one
\* that leaves.
TruncateLast(s, i) == SubSeq(s, 1, Len(s) - 1)

\* The last element takes the place of element i, and the slice is truncated.
SwapRemove(s, i) == SubSeq([s EXCEPT ![i] = s[Len(s)]], 1, Len(s) - 1)

\* Mutant: Unsubscribe takes no lock.
UnsubscribeUnlocked(t) ==
    /\ stream[t] = "leaving"
    /\ \E i \in DOMAIN subs[Owner[t]] :
          /\ subs[Owner[t]][i] = t
          /\ subs' = [subs EXCEPT ![Owner[t]] = SwapRemove(@, i)]
    /\ buf' = [buf EXCEPT ![t] = <<>>]
    /\ stream' = [stream EXCEPT ![t] = "off"]
    /\ UNCHANGED <<made, pubVars, tabVars, owed>>

\* The deferred Unsubscribe: out of the set, and closed.
Unsubscribe(t) ==
    /\ stream[t] = "leaving"
    /\ NoReader
    /\ \E i \in DOMAIN subs[Owner[t]] :
          /\ subs[Owner[t]][i] = t
          /\ subs' = [subs EXCEPT ![Owner[t]] = SwapRemove(@, i)]
    /\ buf' = [buf EXCEPT ![t] = <<>>]
    /\ stream' = [stream EXCEPT ![t] = "off"]
    /\ UNCHANGED <<made, pubVars, tabVars, owed>>

Watching(u) == {t \in Tab : Owner[t] = u /\ page[t] = "loaded" /\ stream[t] = "live"}

\* A create (insert or reactivation) of user u commits.
Commit(p) ==
    /\ pc[p] = "idle" /\ Len(made) < MaxLinks
    /\ \E u \in User :
          /\ made' = Append(made, u)
          /\ owed' = [t \in Tab |-> IF t \in Watching(u) THEN owed[t] \cup {Len(made) + 1}
                                                         ELSE owed[t]]
    /\ link' = [link EXCEPT ![p] = Len(made) + 1]
    /\ pc' = [pc EXCEPT ![p] = "committed"]
    /\ UNCHANGED <<subs, buf, stream, todo, tabVars>>

\* Publish: read lock, and a loop over the owner's channels.
FanOut(p) ==
    /\ pc[p] = "committed"
    /\ todo' = [todo EXCEPT ![p] = subs[made[link[p]]]]
    /\ pc' = [pc EXCEPT ![p] = "sending"]
    /\ UNCHANGED <<serverVars, link, tabVars, owed>>

\* Mutant: the send waits for room in the channel.
SendBlocking(p) ==
    /\ pc[p] = "sending" /\ todo[p] # <<>>
    /\ Len(buf[Head(todo[p])]) < BufCap
    /\ buf' = [buf EXCEPT ![Head(todo[p])] = Append(@, link[p])]
    /\ todo' = [todo EXCEPT ![p] = Tail(@)]
    /\ UNCHANGED <<made, subs, stream, pc, link, tabVars, owed>>

\* Mutant: the loop ends at the first subscriber whose buffer is full.
SendOrStop(p) ==
    /\ pc[p] = "sending" /\ todo[p] # <<>>
    /\ LET t == Head(todo[p])
       IN  IF Len(buf[t]) < BufCap
           THEN /\ buf' = [buf EXCEPT ![t] = Append(@, link[p])]
                /\ todo' = [todo EXCEPT ![p] = Tail(@)]
                /\ UNCHANGED owed
           ELSE /\ owed' = [owed EXCEPT ![t] = @ \ {link[p]}]
                /\ todo' = [todo EXCEPT ![p] = <<>>]
                /\ UNCHANGED buf
    /\ UNCHANGED <<made, subs, stream, pc, link, tabVars>>

\* The non-blocking send: into the buffer, or dropped for this subscriber.
Send(p) ==
    /\ pc[p] = "sending" /\ todo[p] # <<>>
    /\ LET t == Head(todo[p])
       IN  IF Len(buf[t]) < BufCap
           THEN /\ buf' = [buf EXCEPT ![t] = Append(@, link[p])]
                /\ UNCHANGED owed
           ELSE /\ owed' = [owed EXCEPT ![t] = @ \ {link[p]}]
                /\ UNCHANGED buf
    /\ todo' = [todo EXCEPT ![p] = Tail(@)]
    /\ UNCHANGED <<made, subs, stream, pc, link, tabVars>>

\* Unlock, and the 201 is written.
Return(p) ==
    /\ pc[p] = "sending" /\ todo[p] = <<>>
    /\ pc' = [pc EXCEPT ![p] = "idle"] /\ link' = [link EXCEPT ![p] = 0]
    /\ UNCHANGED <<serverVars, todo, tabVars, owed>>

\* The process dies and restarts: no subscribers; the tabs connect again.
Restart ==
    /\ subs' = [u \in User |-> <<>>]
    /\ buf' = [t \in Tab |-> <<>>]
    /\ stream' = [t \in Tab |-> "off"]
    /\ pc' = [p \in Creator |-> "idle"]
    /\ link' = [p \in Creator |-> 0]
    /\ todo' = [p \in Creator |-> <<>>]
    /\ owed' = [t \in Tab |-> {}]
    /\ UNCHANGED <<made, tabVars>>

Publish(p) == FanOut(p) \/ Send(p) \/ Return(p)

Next ==
    \/ \E t \in Tab : \/ Mount(t) \/ PageArrives(t) \/ Connect(t) \/ Subscribe(t)
                      \/ Deliver(t) \/ ClientGone(t) \/ Unsubscribe(t)
    \/ \E p \in Creator : Commit(p) \/ Publish(p)
    \/ Restart

Spec == Init /\ [][Next]_vars

\* A handler that has committed publishes and returns, whatever its readers do.
PublisherFairness == \A p \in Creator : WF_vars(Publish(p))

\* Stream handlers run.
StreamFairness == \A t \in Tab : WF_vars(Deliver(t))

FairSpec == Spec /\ PublisherFairness

------------------------------------------------------------------------------
(* Properties *)

\* Types; no channel holds more than its buffer, and no subscriber set ever
\* holds anything but a channel.
TypeOK ==
    /\ made \in Seq(User) /\ Len(made) <= MaxLinks
    /\ subs \in [User -> Seq(Tab)]
    /\ buf \in [Tab -> Seq(1 .. MaxLinks)]
    /\ stream \in [Tab -> {"off", "open", "live", "leaving"}]
    /\ pc \in [Creator -> {"idle", "committed", "sending"}]
    /\ link \in [Creator -> 0 .. MaxLinks]
    /\ todo \in [Creator -> Seq(Tab)]
    /\ page \in [Tab -> {"off", "loading", "loaded"}]
    /\ answer \in [Tab -> SUBSET (1 .. MaxLinks)] /\ list \in [Tab -> SUBSET (1 .. MaxLinks)]
    /\ owed \in [Tab -> SUBSET (1 .. MaxLinks)]
    /\ \A t \in Tab : Len(buf[t]) <= BufCap

Subscribed(t) == stream[t] \in {"live", "leaving"}

\* Unsubscribe removes the right channel: a stream is registered once, under
\* its own user, exactly while it is subscribed.
Registered ==
    /\ \A u \in User : \A i \in DOMAIN subs[u] :
          /\ Owner[subs[u][i]] = u /\ Subscribed(subs[u][i])
          /\ \A j \in DOMAIN subs[u] : subs[u][i] = subs[u][j] => i = j
    /\ \A t \in Tab : Subscribed(t) => \E i \in DOMAIN subs[Owner[t]] : subs[Owner[t]][i] = t

\* A Publish under way never sends on a closed channel (a panic in Go): every
\* channel still to be sent to is open.
NoSendOnClosed ==
    \A p \in Creator : \A i \in DOMAIN todo[p] : Subscribed(todo[p][i])

\* A Publish under way is of a committed link, to channels of its owner.
Publishing ==
    \A p \in Creator :
        /\ pc[p] # "idle" => link[p] \in DOMAIN made
        /\ pc[p] # "sending" => todo[p] = <<>>
        /\ \A i \in DOMAIN todo[p] : Owner[todo[p][i]] = made[link[p]]

\* The links tab t shows or has on the way.
Reaching(t) == list[t] \cup answer[t] \cup {buf[t][i] : i \in DOMAIN buf[t]}

\* A dashboard only ever shows, or has on the way, links of its own user.
OwnLinksOnly == \A t \in Tab : Reaching(t) \subseteq LinksOf(Owner[t])

\* p has yet to hand link n to the channel of t.
StillToSend(p, n, t) ==
    link[p] = n /\ (pc[p] = "committed" \/ \E i \in DOMAIN todo[p] : todo[p][i] = t)

\* Link n is shown on t, in its channel, or about to be sent to it.
Coming(n, t) ==
    \/ n \in list[t]
    \/ \E i \in DOMAIN buf[t] : buf[t][i] = n
    \/ \E p \in Creator : StillToSend(p, n, t)

\* No order of subscribing, loading and publishing loses a link that is owed to
\* a dashboard.
NothingLost ==
    \A t \in Tab : \A n \in owed[t] :
        /\ n \in LinksOf(Owner[t]) /\ page[t] = "loaded" /\ stream[t] = "live"
        /\ Coming(n, t)

\* The state invariant: types, an exact registry, publishers that send to the
\* owner's channels, no way for a link to another user's dashboard, and no way
\* for one to be lost that a dashboard waits for.
BrokerInv == TypeOK /\ Registered /\ Publishing /\ OwnLinksOnly /\ NothingLost

\* A stuck reader never holds up a create: Publish ends although no stream
\* reads its channel (no fairness for the streams).
PublishReturns == \A p \in Creator : (pc[p] # "idle") ~> (pc[p] = "idle")

\* A link committed while a dashboard is loaded and subscribed is eventually
\* shown there, unless this very subscriber's buffer was full or its stream
\* broke; what other subscribers do does not matter.
EventuallyShown ==
    StreamFairness =>
        \A t \in Tab, n \in 1 .. MaxLinks :
            (n \in owed[t]) ~> (n \in list[t] \/ n \notin owed[t])
==============================================================================
