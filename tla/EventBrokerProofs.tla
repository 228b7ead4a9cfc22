-------------------------- MODULE EventBrokerProofs --------------------------
(***************************************************************************)
(* Proofs about EventBroker for any number of users, dashboards, creates   *)
(* and links and any buffer.  IInv is inductive: the registry is exact     *)
(* because Subscribe and Unsubscribe exclude every Publish under way, and  *)
(* what is owed to a dashboard moves from the publisher to its channel to  *)
(* its list without a gap.                                                 *)
(***************************************************************************)
EXTENDS EventBroker, SequenceTheorems, TLAPS

\* The inductive invariant, each part of which MCEventBroker checks.
IInv == BrokerInv /\ NoSendOnClosed

\* The head of a sequence and what is left when it is taken.
LEMMA TailIs ==
  ASSUME NEW S, NEW s \in Seq(S), s # <<>>
  PROVE  /\ Head(s) = s[1] /\ s[1] \in S /\ 1 \in DOMAIN s
         /\ Tail(s) \in Seq(S) /\ Len(Tail(s)) = Len(s) - 1 /\ Len(s) \in Nat \ {0}
         /\ \A i \in DOMAIN Tail(s) : i + 1 \in DOMAIN s /\ Tail(s)[i] = s[i + 1]
         /\ \A i \in DOMAIN s : i # 1 => i - 1 \in DOMAIN Tail(s) /\ Tail(s)[i - 1] = s[i]
  <1>1. Len(s) \in Nat \ {0} /\ DOMAIN s = 1 .. Len(s)
    OBVIOUS
  <1>2. /\ Tail(s) \in Seq(S) /\ Len(Tail(s)) = Len(s) - 1
        /\ DOMAIN Tail(s) = 1 .. Len(s) - 1
        /\ \A i \in 1 .. Len(s) - 1 : Tail(s)[i] = s[i + 1]
    BY <1>1
  <1>3. Head(s) = s[1] /\ s[1] \in S
    BY <1>1
  <1> QED
    BY <1>1, <1>2, <1>3

\* r is s with x at the end.
Extended(r, s, x) ==
    /\ Len(r) = Len(s) + 1 /\ Len(s) \in Nat
    /\ \A i \in DOMAIN s : i \in DOMAIN r /\ r[i] = s[i]
    /\ \E i \in DOMAIN r : r[i] = x
    /\ \A i \in DOMAIN r : i \in DOMAIN s \/ r[i] = x

LEMMA AppendIs ==
  ASSUME NEW S, NEW s \in Seq(S), NEW x \in S
  PROVE  Append(s, x) \in Seq(S) /\ Extended(Append(s, x), s, x)
  <1>1. Len(s) \in Nat /\ DOMAIN s = 1 .. Len(s)
    OBVIOUS
  <1>2. /\ Append(s, x) \in Seq(S) /\ Len(Append(s, x)) = Len(s) + 1
        /\ \A i \in 1 .. Len(s) : Append(s, x)[i] = s[i]
        /\ Append(s, x)[Len(s) + 1] = x
    BY <1>1
  <1>3. DOMAIN Append(s, x) = 1 .. Len(s) + 1
    BY <1>1, <1>2
  <1> DEFINE r == Append(s, x)
  <1> HIDE DEF r
  <1>4. /\ r \in Seq(S) /\ Len(r) = Len(s) + 1 /\ DOMAIN r = 1 .. Len(s) + 1
        /\ \A i \in 1 .. Len(s) : r[i] = s[i]
        /\ r[Len(s) + 1] = x
    BY <1>2, <1>3 DEF r
  <1>5. r \in Seq(S) /\ Extended(r, s, x)
    BY <1>1, <1>4 DEF Extended
  <1> QED
    BY <1>5 DEF r

LEMMA InitInv == Init => IInv
  <1> SUFFICES ASSUME Init PROVE IInv
    OBVIOUS
  <1> USE ConstAssumption DEF Init
  <1>1. TypeOK
    BY DEF TypeOK
  <1>2. Registered /\ Publishing /\ OwnLinksOnly /\ NothingLost /\ NoSendOnClosed
    BY DEF Registered, Subscribed, Publishing, OwnLinksOnly, Reaching, NothingLost, NoSendOnClosed
  <1> QED
    BY <1>1, <1>2 DEF IInv, BrokerInv

\* Links are numbered from 1 in the order of their commits.
LEMMA LinkNumbers ==
  ASSUME TypeOK
  PROVE  /\ DOMAIN made = 1 .. Len(made) /\ Len(made) \in Nat
         /\ \A n \in DOMAIN made : n \in 1 .. MaxLinks /\ made[n] \in User
         /\ \A u : LinksOf(u) \subseteq 1 .. MaxLinks
  <1>1. made \in Seq(User) /\ Len(made) <= MaxLinks
    BY DEF TypeOK
  <1>2. DOMAIN made = 1 .. Len(made) /\ Len(made) \in Nat
    BY <1>1
  <1>3. \A n \in DOMAIN made : n \in 1 .. MaxLinks /\ made[n] \in User
    BY <1>1, <1>2, ConstAssumption
  <1> QED
    BY <1>2, <1>3 DEF LinksOf

\* What a step must show of the dashboards: nothing new on the way to one but
\* links of its user, and what is owed still coming.
LEMMA TabsKept ==
  ASSUME IInv, UNCHANGED made,
         \A t \in Tab : Reaching(t)' \subseteq Reaching(t) \cup LinksOf(Owner[t]),
         \A t \in Tab : owed'[t] \subseteq owed[t],
         \A t \in Tab : owed'[t] # {} => page'[t] = page[t] /\ stream'[t] = stream[t],
         \A t \in Tab : \A n \in owed'[t] : Coming(n, t) => Coming(n, t)'
  PROVE  OwnLinksOnly' /\ NothingLost'
  <1>1. \A u : LinksOf(u)' = LinksOf(u)
    BY DEF LinksOf
  <1>2. OwnLinksOnly'
    BY <1>1 DEF IInv, BrokerInv, OwnLinksOnly
  <1>3. ASSUME NEW t \in Tab, NEW n \in owed'[t]
        PROVE  (n \in LinksOf(Owner[t]) /\ page[t] = "loaded" /\ stream[t] = "live" /\ Coming(n, t))'
    BY <1>1, <1>3 DEF IInv, BrokerInv, NothingLost
  <1> QED
    BY <1>2, <1>3 DEF NothingLost

\* Channels, lists and publishers as they were.
LEMMA StillComing ==
  ASSUME NEW n, NEW t \in Tab, Coming(n, t), UNCHANGED <<buf, pubVars>>, list[t] \subseteq list'[t]
  PROVE  Coming(n, t)'
  BY DEF Coming, StillToSend, pubVars

LEMMA RegistryKept ==
  ASSUME IInv, UNCHANGED subs, \A t \in Tab : Subscribed(t)' <=> Subscribed(t)
  PROVE  Registered'
  <1>1. \A u \in User : \A i \in DOMAIN subs[u] : subs[u][i] \in Tab
    BY DEF IInv, BrokerInv, TypeOK
  <1>2. Registered
    BY DEF IInv, BrokerInv
  <1> QED
    BY <1>1, <1>2 DEF Registered

------------------------------------------------------------------------------
(* The dashboard *)

LEMMA MountStep ==
  ASSUME IInv, NEW t \in Tab, Mount(t)
  PROVE  IInv'
  <1> USE ConstAssumption DEF Mount, IInv, BrokerInv, serverVars, pubVars
  <1>1. TypeOK'
    BY LinkNumbers DEF TypeOK
  <1>2. (Registered /\ Publishing /\ NoSendOnClosed)'
    BY DEF Registered, Subscribed, Publishing, NoSendOnClosed
  <1>3. \A s \in Tab : Reaching(s)' \subseteq Reaching(s) \cup LinksOf(Owner[s])
    BY DEF Reaching, TypeOK
  <1>4. ASSUME NEW s \in Tab, owed[s] # {} PROVE page'[s] = page[s]
    BY <1>4 DEF NothingLost, TypeOK
  <1>5. OwnLinksOnly' /\ NothingLost'
    BY <1>3, <1>4, TabsKept, StillComing
  <1> QED
    BY <1>1, <1>2, <1>5

LEMMA PageArrivesStep ==
  ASSUME IInv, NEW t \in Tab, PageArrives(t)
  PROVE  IInv'
  <1> USE ConstAssumption DEF PageArrives, IInv, BrokerInv, serverVars, pubVars
  <1>1. TypeOK'
    BY DEF TypeOK
  <1>2. (Registered /\ Publishing /\ NoSendOnClosed)'
    BY DEF Registered, Subscribed, Publishing, NoSendOnClosed
  <1>3. \A s \in Tab : Reaching(s)' \subseteq Reaching(s)
    BY DEF Reaching, TypeOK
  <1>4. ASSUME NEW s \in Tab, owed[s] # {} PROVE page'[s] = page[s] /\ list'[s] = list[s]
    BY <1>4 DEF NothingLost, TypeOK
  <1>5. OwnLinksOnly' /\ NothingLost'
    BY <1>3, <1>4, TabsKept, StillComing
  <1> QED
    BY <1>1, <1>2, <1>5

LEMMA ConnectStep ==
  ASSUME IInv, NEW t \in Tab, Connect(t)
  PROVE  IInv'
  <1> USE ConstAssumption DEF Connect, IInv, BrokerInv, pubVars, tabVars
  <1>1. TypeOK'
    BY DEF TypeOK
  <1>2. \A s \in Tab : Subscribed(s)' <=> Subscribed(s)
    BY DEF Subscribed, TypeOK
  <1>3. Registered'
    BY <1>2, RegistryKept
  <1>4. Publishing' /\ NoSendOnClosed'
    BY <1>2 DEF Publishing, NoSendOnClosed, TypeOK
  <1>5. \A s \in Tab : Reaching(s)' \subseteq Reaching(s)
    BY DEF Reaching
  <1>6. ASSUME NEW s \in Tab PROVE owed'[s] \subseteq owed[s] /\ (owed'[s] # {} => stream'[s] = stream[s])
    BY DEF NothingLost, TypeOK
  <1>7. OwnLinksOnly' /\ NothingLost'
    BY <1>5, <1>6, TabsKept, StillComing
  <1> QED
    BY <1>1, <1>3, <1>4, <1>7

\* The head of the channel goes to the list; the rest moves up by one.
LEMMA DeliverStep ==
  ASSUME IInv, NEW t \in Tab, Deliver(t)
  PROVE  IInv'
  <1> USE ConstAssumption DEF IInv, BrokerInv, pubVars
  <1>1. TypeOK /\ buf[t] \in Seq(1 .. MaxLinks) /\ Len(buf[t]) <= BufCap /\ buf[t] # <<>>
    BY DEF TypeOK, Deliver
  <1> DEFINE h == buf[t][1]
             rest == Tail(buf[t])
  <1>2. /\ Head(buf[t]) = h /\ h \in 1 .. MaxLinks /\ 1 \in DOMAIN buf[t]
        /\ rest \in Seq(1 .. MaxLinks) /\ Len(rest) = Len(buf[t]) - 1 /\ Len(buf[t]) \in Nat \ {0}
        /\ \A i \in DOMAIN rest : i + 1 \in DOMAIN buf[t] /\ rest[i] = buf[t][i + 1]
        /\ \A i \in DOMAIN buf[t] : i # 1 => i - 1 \in DOMAIN rest /\ rest[i - 1] = buf[t][i]
    BY <1>1, TailIs
  <1>3. /\ buf' = [buf EXCEPT ![t] = rest]
        /\ list' = [list EXCEPT ![t] = @ \cup {h}]
        /\ UNCHANGED <<made, subs, stream, pc, link, todo, page, answer, owed>>
    BY <1>1, <1>2 DEF Deliver, TypeOK
  <1> HIDE DEF h, rest
  <1>4. TypeOK'
    <2>1. Len(rest) <= BufCap
      BY <1>1, <1>2
    <2>2. buf' \in [Tab -> Seq(1 .. MaxLinks)] /\ \A s \in Tab : Len(buf'[s]) <= BufCap
      BY <1>1, <1>2, <1>3, <2>1 DEF TypeOK
    <2> QED
      BY <1>1, <1>2, <1>3, <2>2 DEF TypeOK
  <1>5. (Registered /\ Publishing /\ NoSendOnClosed)'
    BY <1>3 DEF Registered, Subscribed, Publishing, NoSendOnClosed
  <1>6. /\ \A s \in Tab : s # t => buf'[s] = buf[s] /\ list'[s] = list[s]
        /\ buf'[t] = rest /\ list'[t] = list[t] \cup {h}
    BY <1>1, <1>3 DEF TypeOK
  <1>7. \A s \in Tab : Reaching(s)' \subseteq Reaching(s)
    <2>1. Reaching(t)' \subseteq Reaching(t)
      BY <1>2, <1>3, <1>6 DEF Reaching, h
    <2> QED
      BY <1>3, <1>6, <2>1 DEF Reaching
  <1>8. ASSUME NEW s \in Tab, NEW n \in owed[s], Coming(n, s) PROVE Coming(n, s)'
    <2>1. (\E p \in Creator : StillToSend(p, n, s)) => (\E p \in Creator : StillToSend(p, n, s)')
      BY <1>3 DEF StillToSend
    <2>2. n \in list[s] => n \in list'[s]
      BY <1>6
    <2>3. ASSUME NEW i \in DOMAIN buf[s], buf[s][i] = n
          PROVE  n \in list'[s] \/ (\E j \in DOMAIN buf'[s] : buf'[s][j] = n)
      <3>1. CASE s # t
        BY <1>6, <2>3, <3>1
      <3>2. CASE s = t /\ i = 1
        BY <1>6, <2>3, <3>2 DEF h
      <3>3. CASE s = t /\ i # 1
        BY <1>2, <1>6, <2>3, <3>3
      <3> QED
        BY <3>1, <3>2, <3>3
    <2> QED
      BY <1>8, <2>1, <2>2, <2>3 DEF Coming
  <1>9. OwnLinksOnly' /\ NothingLost'
    BY <1>3, <1>7, <1>8, TabsKept
  <1> QED
    BY <1>4, <1>5, <1>9

LEMMA ClientGoneStep ==
  ASSUME IInv, NEW t \in Tab, ClientGone(t)
  PROVE  IInv'
  <1> USE ConstAssumption DEF ClientGone, IInv, BrokerInv, pubVars, tabVars
  <1>1. TypeOK'
    BY DEF TypeOK
  <1>2. \A s \in Tab : Subscribed(s)' <=> Subscribed(s)
    BY DEF Subscribed, TypeOK
  <1>3. Registered'
    BY <1>2, RegistryKept
  <1>4. Publishing' /\ NoSendOnClosed'
    BY <1>2 DEF Publishing, NoSendOnClosed, TypeOK
  <1>5. \A s \in Tab : Reaching(s)' \subseteq Reaching(s)
    BY DEF Reaching
  <1>6. ASSUME NEW s \in Tab PROVE owed'[s] \subseteq owed[s] /\ (owed'[s] # {} => stream'[s] = stream[s])
    BY DEF TypeOK
  <1>7. OwnLinksOnly' /\ NothingLost'
    BY <1>5, <1>6, TabsKept, StillComing
  <1> QED
    BY <1>1, <1>3, <1>4, <1>7

------------------------------------------------------------------------------
(* The registry: no Publish is under way while it changes *)

LEMMA NothingToSend ==
  ASSUME IInv, NoReader
  PROVE  \A p \in Creator : todo[p] = <<>>
  BY DEF IInv, BrokerInv, Publishing, NoReader

LEMMA SubscribeStep ==
  ASSUME IInv, NEW t \in Tab, Subscribe(t)
  PROVE  IInv'
  <1> USE ConstAssumption DEF IInv, BrokerInv, pubVars, tabVars
  <1> DEFINE u == Owner[t]
  <1>1. TypeOK /\ u \in User /\ subs[u] \in Seq(Tab) /\ ~Subscribed(t)
    BY DEF TypeOK, Subscribe, Subscribed
  <1> HIDE DEF u
  <1>2. /\ Append(subs[u], t) \in Seq(Tab)
        /\ DOMAIN subs[u] = 1 .. Len(subs[u]) /\ Len(subs[u]) \in Nat
        /\ DOMAIN Append(subs[u], t) = 1 .. Len(subs[u]) + 1
        /\ \A i \in DOMAIN subs[u] : Append(subs[u], t)[i] = subs[u][i]
        /\ Append(subs[u], t)[Len(subs[u]) + 1] = t
    BY <1>1
  <1>3. /\ subs' = [subs EXCEPT ![u] = Append(@, t)] /\ stream' = [stream EXCEPT ![t] = "live"]
        /\ UNCHANGED <<made, buf, pc, link, todo, page, answer, list, owed>>
    BY DEF Subscribe, u
  <1>4. TypeOK'
    BY <1>1, <1>2, <1>3 DEF TypeOK
  <1>5. \A s \in Tab : Subscribed(s)' <=> (Subscribed(s) \/ s = t)
    BY <1>1, <1>3 DEF Subscribed, TypeOK
  <1>6. Registered'
    <2>1. ASSUME NEW v \in User, NEW i \in DOMAIN subs'[v]
          PROVE  /\ Owner[subs'[v][i]] = v /\ Subscribed(subs[v][i])'
                 /\ \A j \in DOMAIN subs'[v] : subs'[v][i] = subs'[v][j] => i = j
      <3>1. CASE v # u
        BY <1>1, <1>3, <1>5, <3>1 DEF Registered, TypeOK
      <3>2. CASE v = u
        <4>1. subs'[v] = Append(subs[u], t)
          BY <1>1, <1>3, <3>2 DEF TypeOK
        <4>2. \A j \in DOMAIN subs[u] :
                 /\ Owner[subs[u][j]] = u /\ Subscribed(subs[u][j])
                 /\ subs[u][j] # t /\ subs[u][j] \in Tab
          BY <1>1 DEF Registered
        <4>3. Owner[subs'[v][i]] = v /\ Subscribed(subs[v][i])'
          BY <1>1, <1>2, <1>5, <3>2, <4>1, <4>2 DEF u
        <4>4. \A j \in DOMAIN subs'[v] : subs'[v][i] = subs'[v][j] => i = j
          BY <1>1, <1>2, <3>2, <4>1, <4>2 DEF Registered
        <4> QED
          BY <4>3, <4>4
      <3> QED
        BY <3>1, <3>2
    <2>2. ASSUME NEW s \in Tab, Subscribed(s)'
          PROVE  \E i \in DOMAIN subs'[Owner[s]] : subs'[Owner[s]][i] = s
      <3>1. CASE s = t
        <4>1. subs'[u] = Append(subs[u], t) /\ Owner[s] = u
          BY <1>1, <1>3, <3>1 DEF TypeOK, u
        <4>2. Len(subs[u]) + 1 \in DOMAIN Append(subs[u], t)
          BY <1>2
        <4> QED
          BY <1>2, <3>1, <4>1, <4>2
      <3>2. CASE s # t
        <4>1. PICK i \in DOMAIN subs[Owner[s]] : subs[Owner[s]][i] = s
          BY <1>5, <2>2, <3>2 DEF Registered
        <4>2. i \in DOMAIN subs'[Owner[s]] /\ subs'[Owner[s]][i] = s
          BY <1>1, <1>2, <1>3, <4>1 DEF TypeOK
        <4> QED
          BY <4>2
      <3> QED
        BY <3>1, <3>2
    <2> QED
      BY <2>1, <2>2 DEF Registered
  <1>7. Publishing' /\ NoSendOnClosed'
    BY <1>3, NothingToSend DEF Publishing, NoSendOnClosed, Subscribe
  <1>8. OwnLinksOnly' /\ NothingLost'
    <2>1. \A s \in Tab : Reaching(s)' \subseteq Reaching(s)
      BY <1>3 DEF Reaching
    <2>2. \A s \in Tab : owed[s] # {} => stream'[s] = stream[s]
      BY <1>1, <1>3 DEF NothingLost, TypeOK, Subscribed
    <2> QED
      BY <1>3, <2>1, <2>2, TabsKept, StillComing
  <1> QED
    BY <1>4, <1>6, <1>7, <1>8

\* SwapRemove puts the last element in the place of the one that leaves.
LEMMA SwapRemoveIs ==
  ASSUME NEW S, NEW s \in Seq(S), NEW i \in DOMAIN s
  PROVE  /\ SwapRemove(s, i) \in Seq(S) /\ DOMAIN SwapRemove(s, i) = 1 .. Len(s) - 1
         /\ \A j \in 1 .. Len(s) - 1 : SwapRemove(s, i)[j] = IF j = i THEN s[Len(s)] ELSE s[j]
  <1> DEFINE r == [s EXCEPT ![i] = s[Len(s)]]
  <1>1. Len(s) \in Nat \ {0} /\ DOMAIN s = 1 .. Len(s) /\ s[Len(s)] \in S
    OBVIOUS
  <1>2. r \in Seq(S) /\ Len(r) = Len(s) /\ \A j \in DOMAIN s : r[j] = IF j = i THEN s[Len(s)] ELSE s[j]
    BY <1>1
  <1> HIDE DEF r
  <1>3. /\ SubSeq(r, 1, Len(s) - 1) \in Seq(S) /\ Len(SubSeq(r, 1, Len(s) - 1)) = Len(s) - 1
        /\ \A j \in 1 .. Len(s) - 1 : SubSeq(r, 1, Len(s) - 1)[j] = r[j]
    BY <1>1, <1>2
  <1> QED
    BY <1>1, <1>2, <1>3 DEF SwapRemove, r

LEMMA UnsubscribeStep ==
  ASSUME IInv, NEW t \in Tab, Unsubscribe(t)
  PROVE  IInv'
  <1> USE ConstAssumption DEF IInv, BrokerInv, pubVars, tabVars
  <1> DEFINE u == Owner[t]
  <1>1. TypeOK /\ u \in User /\ subs[u] \in Seq(Tab) /\ stream[t] = "leaving"
    BY DEF TypeOK, Unsubscribe
  <1>2. PICK i \in DOMAIN subs[u] : subs[u][i] = t /\ subs' = [subs EXCEPT ![u] = SwapRemove(@, i)]
    BY DEF Unsubscribe
  <1>3. /\ buf' = [buf EXCEPT ![t] = <<>>] /\ stream' = [stream EXCEPT ![t] = "off"]
        /\ UNCHANGED <<made, pc, link, todo, page, answer, list, owed>>
    BY DEF Unsubscribe
  <1> HIDE DEF u
  <1> DEFINE old == subs[u]
             new == SwapRemove(subs[u], i)
             last == Len(subs[u])
  <1>4. /\ new \in Seq(Tab) /\ DOMAIN new = 1 .. last - 1
        /\ \A j \in 1 .. last - 1 : new[j] = IF j = i THEN old[last] ELSE old[j]
        /\ last \in Nat /\ DOMAIN old = 1 .. last
    <2>1. old \in Seq(Tab) /\ i \in DOMAIN old
      BY <1>1, <1>2
    <2> HIDE DEF old
    <2>2. last \in Nat /\ DOMAIN old = 1 .. last
      BY <2>1 DEF old
    <2>3. /\ SwapRemove(old, i) \in Seq(Tab) /\ DOMAIN SwapRemove(old, i) = 1 .. Len(old) - 1
          /\ \A j \in 1 .. Len(old) - 1 :
                SwapRemove(old, i)[j] = IF j = i THEN old[Len(old)] ELSE old[j]
      BY <2>1, SwapRemoveIs
    <2> QED
      BY <2>2, <2>3 DEF old
  <1>5. subs'[u] = new /\ \A v \in User : v # u => subs'[v] = subs[v]
    BY <1>1, <1>2 DEF TypeOK
  <1>6. TypeOK'
    <2>1. subs' \in [User -> Seq(Tab)]
      BY <1>1, <1>2, <1>4 DEF TypeOK
    <2>2. buf' \in [Tab -> Seq(1 .. MaxLinks)] /\ \A s \in Tab : Len(buf'[s]) <= BufCap
      BY <1>1, <1>3 DEF TypeOK
    <2> QED
      BY <1>1, <1>3, <2>1, <2>2 DEF TypeOK
  <1>7. \A s \in Tab : Subscribed(s)' <=> (Subscribed(s) /\ s # t)
    BY <1>1, <1>3 DEF Subscribed, TypeOK
  <1>8. \A j, k \in DOMAIN old :
           /\ old[j] \in Tab /\ Owner[old[j]] = u /\ Subscribed(old[j])
           /\ old[j] = old[k] => j = k
    BY <1>1 DEF Registered
  <1> HIDE DEF old, new, last
  <1>9. Registered'
    <2>1. ASSUME NEW v \in User, v # u, NEW j \in DOMAIN subs'[v]
          PROVE  /\ Owner[subs'[v][j]] = v /\ Subscribed(subs[v][j])'
                 /\ \A k \in DOMAIN subs'[v] : subs'[v][j] = subs'[v][k] => j = k
      <3>1. subs'[v] = subs[v]
        BY <1>5, <2>1
      <3>2. subs[v][j] \in Tab /\ Owner[subs[v][j]] = v /\ Subscribed(subs[v][j])
        BY <1>1, <2>1, <3>1 DEF Registered, TypeOK
      <3>3. \A k \in DOMAIN subs[v] : subs[v][j] = subs[v][k] => j = k
        BY <2>1, <3>1 DEF Registered
      <3> QED
        BY <1>7, <2>1, <3>1, <3>2, <3>3 DEF u
    <2>2. ASSUME NEW j \in DOMAIN new
          PROVE  /\ new[j] # t /\ new[j] \in Tab /\ Owner[new[j]] = u /\ Subscribed(new[j])
                 /\ \A k \in DOMAIN new : new[j] = new[k] => j = k
      <3>1. old[i] = t /\ i \in 1 .. last
        BY <1>2, <1>4 DEF old
      <3>2. j \in DOMAIN old /\ last \in DOMAIN old /\ j # last
        BY <1>4, <3>1
      <3>3. new[j] # t /\ new[j] \in Tab /\ Owner[new[j]] = u /\ Subscribed(new[j])
        BY <1>4, <1>8, <3>1, <3>2
      <3>4. ASSUME NEW k \in DOMAIN new, new[j] = new[k] PROVE j = k
        BY <1>4, <1>8, <3>1, <3>2, <3>4
      <3> QED
        BY <3>3, <3>4
    <2>3. ASSUME NEW s \in Tab, Subscribed(s)'
          PROVE  \E j \in DOMAIN subs'[Owner[s]] : subs'[Owner[s]][j] = s
      <3>1. PICK j \in DOMAIN subs[Owner[s]] : subs[Owner[s]][j] = s
        BY <1>7, <2>3 DEF Registered
      <3>2. CASE Owner[s] # u
        BY <1>5, <3>1, <3>2
      <3>3. CASE Owner[s] = u
        <4>1. j \in DOMAIN old /\ old[j] = s /\ old[i] = t /\ s # t /\ i \in DOMAIN old
          BY <1>2, <1>7, <2>3, <3>1, <3>3 DEF old
        <4>2. CASE j = last
          <5>1. i \in DOMAIN new /\ new[i] = s
            BY <1>4, <4>1, <4>2
          <5> QED
            BY <1>5, <3>3, <5>1
        <4>3. CASE j # last
          <5>1. j \in DOMAIN new /\ new[j] = s
            BY <1>4, <4>1, <4>3
          <5> QED
            BY <1>5, <3>3, <5>1
        <4> QED
          BY <4>2, <4>3
      <3> QED
        BY <3>2, <3>3
    <2>4. ASSUME NEW v \in User, NEW j \in DOMAIN subs'[v]
          PROVE  /\ Owner[subs'[v][j]] = v /\ Subscribed(subs[v][j])'
                 /\ \A k \in DOMAIN subs'[v] : subs'[v][j] = subs'[v][k] => j = k
      <3>1. CASE v = u
        BY <1>5, <1>7, <2>2, <2>4, <3>1
      <3> QED
        BY <2>1, <2>4, <3>1
    <2> QED
      BY <2>3, <2>4 DEF Registered
  <1>10. Publishing' /\ NoSendOnClosed'
    BY <1>3, NothingToSend DEF Publishing, NoSendOnClosed, Unsubscribe
  <1>11. OwnLinksOnly' /\ NothingLost'
    <2>1. \A s \in Tab : s # t => buf'[s] = buf[s] /\ stream'[s] = stream[s]
      BY <1>1, <1>3 DEF TypeOK
    <2>2. buf'[t] = <<>> /\ owed[t] = {}
      BY <1>1, <1>3 DEF TypeOK, NothingLost
    <2>3. \A s \in Tab : Reaching(s)' \subseteq Reaching(s)
      BY <1>3, <2>1, <2>2 DEF Reaching
    <2>4. ASSUME NEW s \in Tab, NEW n \in owed[s], Coming(n, s) PROVE Coming(n, s)'
      <3>1. s # t
        BY <2>2, <2>4
      <3> QED
        BY <1>3, <2>1, <2>4, <3>1 DEF Coming, StillToSend
    <2>5. \A s \in Tab : owed[s] # {} => stream'[s] = stream[s]
      BY <2>1, <2>2
    <2> QED
      BY <1>3, <2>3, <2>4, <2>5, TabsKept
  <1> QED
    BY <1>6, <1>9, <1>10, <1>11

------------------------------------------------------------------------------
(* The publisher *)

\* The link is owed from here on to every dashboard that is watching.
LEMMA CommitStep ==
  ASSUME IInv, NEW p \in Creator, Commit(p)
  PROVE  IInv'
  <1> USE ConstAssumption DEF IInv, BrokerInv, tabVars
  <1>1. TypeOK /\ pc[p] = "idle" /\ Len(made) < MaxLinks
    BY DEF Commit
  <1> PICK n \in Nat : n = Len(made) + 1
    BY <1>1 DEF TypeOK
  <1>2. PICK u \in User :
           /\ made' = Append(made, u)
           /\ owed' = [t \in Tab |-> IF t \in Watching(u) THEN owed[t] \cup {n} ELSE owed[t]]
    BY DEF Commit
  <1>3. /\ link' = [link EXCEPT ![p] = n] /\ pc' = [pc EXCEPT ![p] = "committed"]
        /\ UNCHANGED <<subs, buf, stream, todo, page, answer, list>>
    BY DEF Commit
  <1>4. /\ made' \in Seq(User) /\ Len(made') = n /\ n \in 1 .. MaxLinks
        /\ DOMAIN made = 1 .. Len(made) /\ Len(made) \in Nat /\ DOMAIN made' = 1 .. n
        /\ \A m \in DOMAIN made : m \in DOMAIN made' /\ made'[m] = made[m]
        /\ made'[n] = u /\ n \in DOMAIN made'
    <2>1. made \in Seq(User) /\ Len(made) \in Nat /\ n \in 1 .. MaxLinks
      BY <1>1 DEF TypeOK
    <2>2. made' \in Seq(User) /\ Len(made') = n /\ \A m \in 1 .. Len(made) : made'[m] = made[m]
      BY <1>2, <2>1
    <2>3. made'[n] = u /\ DOMAIN made = 1 .. Len(made) /\ DOMAIN made' = 1 .. n
      BY <1>2, <2>1, <2>2
    <2> QED
      BY <2>1, <2>2, <2>3
  <1>5. TypeOK'
    BY <1>1, <1>2, <1>3, <1>4 DEF TypeOK
  <1>6. Registered'
    BY <1>3, RegistryKept DEF Subscribed
  <1>7. Publishing' /\ NoSendOnClosed'
    <2>1. todo[p] = <<>>
      BY <1>1 DEF Publishing
    <2>2. ASSUME NEW q \in Creator
          PROVE  /\ pc'[q] # "idle" => link'[q] \in DOMAIN made'
                 /\ pc'[q] # "sending" => todo'[q] = <<>>
                 /\ \A i \in DOMAIN todo'[q] : Owner[todo'[q][i]] = made'[link'[q]]
      <3>1. CASE q = p
        BY <1>1, <1>3, <1>4, <2>1, <3>1 DEF TypeOK
      <3>2. CASE q # p
        <4>1. pc'[q] = pc[q] /\ link'[q] = link[q] /\ todo'[q] = todo[q]
          BY <1>1, <1>3, <3>2 DEF TypeOK
        <4>2. /\ pc[q] # "idle" => link[q] \in DOMAIN made
              /\ pc[q] # "sending" => todo[q] = <<>>
              /\ \A i \in DOMAIN todo[q] : Owner[todo[q][i]] = made[link[q]]
          BY DEF Publishing
        <4>3. CASE pc[q] # "sending"
          BY <1>4, <4>1, <4>2, <4>3
        <4>4. CASE pc[q] = "sending"
          BY <1>4, <4>1, <4>2, <4>4
        <4> QED
          BY <4>3, <4>4
      <3> QED
        BY <3>1, <3>2
    <2>3. NoSendOnClosed'
      BY <1>3 DEF NoSendOnClosed, Subscribed
    <2> QED
      BY <2>2, <2>3 DEF Publishing
  <1>8. \A v : LinksOf(v) \subseteq LinksOf(v)'
    BY <1>4 DEF LinksOf
  <1>9. OwnLinksOnly'
    BY <1>3, <1>8 DEF OwnLinksOnly, Reaching
  <1>10. ASSUME NEW t \in Tab, NEW m \in owed'[t]
         PROVE  (m \in LinksOf(Owner[t]) /\ page[t] = "loaded" /\ stream[t] = "live" /\ Coming(m, t))'
    <2>1. CASE m \in owed[t]
      <3>1. m \in LinksOf(Owner[t]) /\ page[t] = "loaded" /\ stream[t] = "live" /\ Coming(m, t)
        BY <2>1 DEF NothingLost
      <3>2. todo[p] = <<>>
        BY <1>1 DEF Publishing
      <3>3. ASSUME NEW q \in Creator, StillToSend(q, m, t) PROVE StillToSend(q, m, t)'
        <4>1. q # p
          BY <1>1, <3>2, <3>3 DEF StillToSend
        <4> QED
          BY <1>1, <1>3, <3>3, <4>1 DEF StillToSend, TypeOK
      <3>4. Coming(m, t)'
        BY <1>3, <3>1, <3>3 DEF Coming
      <3> QED
        BY <1>3, <1>8, <3>1, <3>4
    <2>2. CASE m \notin owed[t]
      <3>1. m = n /\ t \in Watching(u)
        BY <1>2, <1>10, <2>2
      <3>2. StillToSend(p, n, t)'
        BY <1>1, <1>3 DEF StillToSend, TypeOK
      <3>3. Owner[t] = u /\ page[t] = "loaded" /\ stream[t] = "live"
        BY <3>1 DEF Watching
      <3>4. n \in LinksOf(Owner[t])'
        BY <1>4, <3>3 DEF LinksOf
      <3> QED
        BY <1>3, <3>1, <3>2, <3>3, <3>4 DEF Coming
    <2> QED
      BY <2>1, <2>2
  <1> QED
    BY <1>5, <1>6, <1>7, <1>9, <1>10 DEF NothingLost

\* The owner's channels are exactly those registered: a watching dashboard is
\* among them.
LEMMA FanOutStep ==
  ASSUME IInv, NEW p \in Creator, FanOut(p)
  PROVE  IInv'
  <1> USE ConstAssumption DEF IInv, BrokerInv, tabVars, serverVars
  <1> DEFINE u == made[link[p]]
  <1>1. TypeOK /\ pc[p] = "committed" /\ link[p] \in DOMAIN made /\ u \in User
    BY LinkNumbers DEF FanOut, Publishing
  <1>2. /\ todo' = [todo EXCEPT ![p] = subs[u]] /\ pc' = [pc EXCEPT ![p] = "sending"]
        /\ UNCHANGED <<made, subs, buf, stream, link, page, answer, list, owed>>
    BY DEF FanOut
  <1>3. \A i \in DOMAIN subs[u] : Owner[subs[u][i]] = u /\ Subscribed(subs[u][i])
    BY <1>1 DEF Registered
  <1>4. TypeOK'
    BY <1>1, <1>2 DEF TypeOK
  <1>5. Registered'
    BY <1>2, RegistryKept DEF Subscribed
  <1>6. Publishing'
    BY <1>1, <1>2, <1>3 DEF Publishing, TypeOK
  <1>7. NoSendOnClosed'
    BY <1>1, <1>2, <1>3 DEF NoSendOnClosed, TypeOK, Subscribed
  <1>8. \A t \in Tab : Reaching(t)' = Reaching(t)
    BY <1>2 DEF Reaching
  <1>9. ASSUME NEW t \in Tab, NEW n \in owed[t], Coming(n, t) PROVE Coming(n, t)'
    <2>1. ASSUME NEW q \in Creator, StillToSend(q, n, t) PROVE StillToSend(q, n, t)'
      <3>1. CASE q # p
        BY <1>1, <1>2, <2>1, <3>1 DEF StillToSend, TypeOK
      <3>2. CASE q = p
        <4>1. link[p] = n /\ Owner[t] = u /\ Subscribed(t)
          BY <2>1, <3>2 DEF StillToSend, NothingLost, LinksOf, Subscribed
        <4>2. \E i \in DOMAIN subs[u] : subs[u][i] = t
          BY <4>1 DEF Registered
        <4>3. todo'[p] = subs[u] /\ link'[p] = n
          BY <1>1, <1>2, <4>1 DEF TypeOK
        <4> QED
          BY <3>2, <4>2, <4>3 DEF StillToSend
      <3> QED
        BY <3>1, <3>2
    <2> QED
      BY <1>2, <1>9, <2>1 DEF Coming
  <1>10. OwnLinksOnly' /\ NothingLost'
    BY <1>2, <1>8, <1>9, TabsKept
  <1> QED
    BY <1>4, <1>5, <1>6, <1>7, <1>10

\* The link goes from the publisher into the channel, or is no longer owed.
LEMMA SendStep ==
  ASSUME IInv, NEW p \in Creator, Send(p)
  PROVE  IInv'
  <1> USE ConstAssumption DEF IInv, BrokerInv, tabVars
  <1>1. TypeOK /\ pc[p] = "sending" /\ todo[p] \in Seq(Tab) /\ todo[p] # <<>>
    BY DEF TypeOK, Send
  <1> DEFINE s == todo[p]
             t == todo[p][1]
             n == link[p]
             longer == Append(buf[t], n)
  <1>2. /\ Tail(s) \in Seq(Tab) /\ Head(s) = t /\ t \in Tab /\ 1 \in DOMAIN s
        /\ \A i \in DOMAIN Tail(s) : i + 1 \in DOMAIN s /\ Tail(s)[i] = s[i + 1]
        /\ \A i \in DOMAIN s : i # 1 => i - 1 \in DOMAIN Tail(s) /\ Tail(s)[i - 1] = s[i]
    BY <1>1, TailIs
  <1>3. n \in DOMAIN made /\ Owner[t] = made[n] /\ n \in 1 .. MaxLinks
    BY <1>1, <1>2, LinkNumbers DEF Publishing
  <1>4. /\ todo' = [todo EXCEPT ![p] = Tail(s)]
        /\ UNCHANGED <<made, subs, stream, pc, link, page, answer, list>>
        /\ \/ /\ Len(buf[t]) < BufCap
              /\ buf' = [buf EXCEPT ![t] = longer] /\ UNCHANGED owed
           \/ owed' = [owed EXCEPT ![t] = @ \ {n}] /\ UNCHANGED buf
    BY <1>1, <1>2 DEF Send, TypeOK
  <1> HIDE DEF s, t, n
  <1>5. longer \in Seq(1 .. MaxLinks) /\ Extended(longer, buf[t], n)
    <2>1. buf[t] \in Seq(1 .. MaxLinks)
      BY <1>1, <1>2 DEF TypeOK
    <2> QED
      BY <1>3, <2>1, AppendIs
  <1> HIDE DEF longer
  <1>6. TypeOK'
    <2>1. buf' \in [Tab -> Seq(1 .. MaxLinks)] /\ \A r \in Tab : Len(buf'[r]) <= BufCap
      <3>1. CASE UNCHANGED buf
        BY <1>1, <3>1 DEF TypeOK
      <3>2. CASE Len(buf[t]) < BufCap /\ buf' = [buf EXCEPT ![t] = longer]
        <4>1. buf \in [Tab -> Seq(1 .. MaxLinks)] /\ \A r \in Tab : Len(buf[r]) <= BufCap
          BY <1>1 DEF TypeOK
        <4>2. Len(longer) <= BufCap
          BY <1>5, <3>2 DEF Extended
        <4> QED
          BY <1>2, <1>5, <3>2, <4>1, <4>2
      <3> QED
        BY <1>4, <3>1, <3>2
    <2>2. todo' \in [Creator -> Seq(Tab)] /\ owed' \in [Tab -> SUBSET (1 .. MaxLinks)]
      BY <1>1, <1>2, <1>4 DEF TypeOK
    <2> QED
      BY <1>1, <1>4, <2>1, <2>2 DEF TypeOK
  <1>7. Registered'
    BY <1>4, RegistryKept DEF Subscribed
  <1>8. todo'[p] = Tail(s) /\ \A q \in Creator : q # p => todo'[q] = todo[q]
    BY <1>1, <1>4 DEF TypeOK
  <1>9. Publishing' /\ NoSendOnClosed'
    <2>1. ASSUME NEW q \in Creator, NEW i \in DOMAIN todo'[q]
          PROVE  \E j \in DOMAIN todo[q] : todo'[q][i] = todo[q][j]
      <3>1. CASE q = p
        <4>1. i + 1 \in DOMAIN s /\ todo'[q][i] = s[i + 1] /\ s = todo[q]
          BY <1>2, <1>8, <2>1, <3>1 DEF s
        <4> QED
          BY <4>1
      <3> QED
        BY <1>8, <2>1, <3>1
    <2> QED
      BY <1>1, <1>4, <1>8, <2>1 DEF Publishing, NoSendOnClosed, Subscribed
  <1>10. \A r \in Tab : r # t => buf'[r] = buf[r] /\ owed'[r] = owed[r]
    BY <1>1, <1>4 DEF TypeOK
  <1>11. \A r \in Tab : owed'[r] \subseteq owed[r]
    BY <1>1, <1>4 DEF TypeOK
  <1>12. buf'[t] = buf[t] \/ buf'[t] = longer
    BY <1>1, <1>2, <1>4 DEF TypeOK
  <1>13. \A r \in Tab : Reaching(r)' \subseteq Reaching(r) \cup LinksOf(Owner[r])
    <2>1. n \in LinksOf(Owner[t])
      BY <1>3 DEF LinksOf
    <2>2. \A i \in DOMAIN buf'[t] : buf'[t][i] = n \/ \E j \in DOMAIN buf[t] : buf'[t][i] = buf[t][j]
      BY <1>5, <1>12 DEF Extended
    <2> QED
      BY <1>4, <1>10, <2>1, <2>2 DEF Reaching
  <1>14. ASSUME NEW r \in Tab, NEW m \in owed'[r], Coming(m, r) PROVE Coming(m, r)'
    <2>1. ASSUME NEW i \in DOMAIN buf[r] PROVE i \in DOMAIN buf'[r] /\ buf'[r][i] = buf[r][i]
      <3>1. CASE r # t
        BY <1>10, <2>1, <3>1
      <3>2. CASE r = t
        BY <1>5, <1>12, <2>1, <3>2 DEF Extended
      <3> QED
        BY <3>1, <3>2
    <2>2. ASSUME NEW q \in Creator, q # p, StillToSend(q, m, r) PROVE StillToSend(q, m, r)'
      BY <1>4, <1>8, <2>2 DEF StillToSend
    <2>3. ASSUME StillToSend(p, m, r)
          PROVE  StillToSend(p, m, r)' \/ \E i \in DOMAIN buf'[r] : buf'[r][i] = m
      <3>1. m = n /\ \E i \in DOMAIN s : s[i] = r
        BY <1>1, <2>3 DEF StillToSend, s, n
      <3>2. CASE r # t
        <4>1. PICK i \in DOMAIN s : s[i] = r /\ i # 1
          BY <3>1, <3>2 DEF s, t
        <4>2. i - 1 \in DOMAIN todo'[p] /\ todo'[p][i - 1] = r
          BY <1>2, <1>8, <4>1
        <4> QED
          BY <1>4, <3>1, <4>2 DEF StillToSend, n
      <3>3. CASE r = t
        <4>1. n \in owed'[t]
          BY <1>14, <3>1, <3>3
        <4>2. buf'[t] = longer
          <5>1. owed' # [owed EXCEPT ![t] = @ \ {n}]
            BY <1>1, <1>2, <4>1 DEF TypeOK
          <5> QED
            BY <1>1, <1>2, <1>4, <5>1 DEF TypeOK
        <4> QED
          BY <1>5, <3>1, <3>3, <4>2 DEF Extended
      <3> QED
        BY <3>2, <3>3
    <2> QED
      BY <1>4, <1>14, <2>1, <2>2, <2>3 DEF Coming
  <1>15. OwnLinksOnly' /\ NothingLost'
    BY <1>4, <1>11, <1>13, <1>14, TabsKept
  <1> QED
    BY <1>6, <1>7, <1>9, <1>15

LEMMA ReturnStep ==
  ASSUME IInv, NEW p \in Creator, Return(p)
  PROVE  IInv'
  <1> USE ConstAssumption DEF Return, IInv, BrokerInv, serverVars, tabVars
  <1>1. TypeOK'
    BY DEF TypeOK
  <1>2. Registered'
    BY RegistryKept DEF Subscribed
  <1>3. Publishing' /\ NoSendOnClosed'
    <2>1. \A q \in Creator : q # p => pc'[q] = pc[q] /\ link'[q] = link[q]
      BY DEF TypeOK
    <2>2. todo[p] = <<>> /\ pc'[p] = "idle"
      BY DEF TypeOK
    <2> QED
      BY <2>1, <2>2 DEF Publishing, NoSendOnClosed, Subscribed
  <1>4. \A t \in Tab : Reaching(t)' = Reaching(t)
    BY DEF Reaching
  <1>5. ASSUME NEW t \in Tab, NEW n \in owed[t], Coming(n, t) PROVE Coming(n, t)'
    <2>1. ASSUME NEW q \in Creator, StillToSend(q, n, t) PROVE StillToSend(q, n, t)'
      <3>1. q # p
        BY <2>1 DEF StillToSend
      <3> QED
        BY <2>1, <3>1 DEF StillToSend, TypeOK
    <2> QED
      BY <1>5, <2>1 DEF Coming
  <1>6. OwnLinksOnly' /\ NothingLost'
    BY <1>4, <1>5, TabsKept
  <1> QED
    BY <1>1, <1>2, <1>3, <1>6

LEMMA RestartStep ==
  ASSUME IInv, Restart
  PROVE  IInv'
  <1> USE ConstAssumption DEF Restart, IInv, BrokerInv, tabVars
  <1>1. TypeOK'
    BY DEF TypeOK
  <1>2. Registered'
    BY DEF Registered, Subscribed
  <1>3. Publishing' /\ NoSendOnClosed'
    BY DEF Publishing, NoSendOnClosed
  <1>4. \A t \in Tab : Reaching(t)' \subseteq Reaching(t)
    BY DEF Reaching
  <1>5. OwnLinksOnly' /\ NothingLost'
    BY <1>4, TabsKept
  <1> QED
    BY <1>1, <1>2, <1>3, <1>5

LEMMA StutterStep ==
  ASSUME IInv, UNCHANGED vars
  PROVE  IInv'
  <1> USE DEF IInv, BrokerInv, vars, serverVars, pubVars, tabVars
  <1>1. TypeOK'
    BY DEF TypeOK
  <1>2. Registered' /\ NoSendOnClosed' /\ Publishing'
    BY DEF Registered, Subscribed, NoSendOnClosed, Publishing
  <1>3. OwnLinksOnly' /\ NothingLost'
    BY DEF OwnLinksOnly, Reaching, NothingLost, Coming, StillToSend, LinksOf
  <1> QED
    BY <1>1, <1>2, <1>3

LEMMA NextStep ==
  ASSUME IInv, [Next]_vars
  PROVE  IInv'
  BY MountStep, PageArrivesStep, ConnectStep, SubscribeStep, DeliverStep, ClientGoneStep,
     UnsubscribeStep, CommitStep, FanOutStep, SendStep, ReturnStep, RestartStep, StutterStep
     DEF Next, Publish

\* However streams open, break and leave while links are published: the registry
\* is exact, a dashboard only gets links of its own user, and a link owed to one
\* is in its list, in its channel, or still with a publisher that will send it.
THEOREM BrokerInvariant == Spec => []BrokerInv
  <1> QED
    BY InitInv, NextStep, PTL DEF Spec, IInv

\* No Publish ever sends on a channel that Unsubscribe has closed.
THEOREM SendsOnlyOnOpen == Spec => []NoSendOnClosed
  <1> QED
    BY InitInv, NextStep, PTL DEF Spec, IInv
==============================================================================
