--------------------------- MODULE DeliveryProofs ---------------------------
(***************************************************************************)
(* Proofs about Delivery, for any engines, together or not, and any number *)
(* of events and initialisations.  The numbers of events grow from what    *)
(* was heard over the channel of an engine to the looper: what is heard    *)
(* next is new, and heard as often as CallModule listens to the channel,   *)
(* which is as often as initSipModule found nobody listening to calls.     *)
(***************************************************************************)
EXTENDS Delivery, SequenceTheorems, TLAPS

\* An event in the looper.
IsEvent(m) == m.what = "event"

(* The order over the looper l, the channel c and what was heard, h, of an *)
(* engine that listens u times, when n events have been sent.              *)
LooperInOrder(l, n) ==
    /\ \A i \in DOMAIN l : IsEvent(l[i]) => l[i].event.number <= n
    /\ \A i, j \in DOMAIN l :
          i < j /\ IsEvent(l[i]) /\ IsEvent(l[j]) => l[i].event.number < l[j].event.number

ChannelInOrder(l, c, n) ==
    /\ \A i \in DOMAIN c : c[i].number <= n
    /\ \A i, j \in DOMAIN c : i < j => c[i].number < c[j].number
    /\ \A i \in DOMAIN c, j \in DOMAIN l : IsEvent(l[j]) => c[i].number < l[j].event.number

Before(x, y, u) == x < y \/ (u > 1 /\ x = y)

HeardInOrder(l, c, h, n, u) ==
    \A s \in Streams :
      /\ \A i \in DOMAIN h[s] : h[s][i] <= n
      /\ \A i, j \in DOMAIN h[s] : i < j => Before(h[s][i], h[s][j], u)
      /\ \A i \in DOMAIN h[s], j \in DOMAIN c : h[s][i] < c[j].number
      /\ \A i \in DOMAIN h[s], j \in DOMAIN l : IsEvent(l[j]) => h[s][i] < l[j].event.number

InOrder(l, c, h, n, u) ==
    LooperInOrder(l, n) /\ ChannelInOrder(l, c, n) /\ HeardInOrder(l, c, h, n, u)

ListensAsCalled ==
    \A e \in Engines : subscriptions[e] = unheard[e] /\ unheard[e] <= inits[e]

EventsInOrder == \A e \in Engines : InOrder(looper, channel[e], heard[e], sent, unheard[e])

IInv == TypeOK /\ ListensAsCalled /\ EventsInOrder
-----------------------------------------------------------------------------
(* Messages and events.                                                    *)

LEMMA MessageTypes ==
    /\ \A e \in Engines : ListenMessage(e) \in Messages /\ ~IsEvent(ListenMessage(e))
                          /\ InitMessage(e) \in Messages /\ ~IsEvent(InitMessage(e))
    /\ \A event \in Events : EventMessage(event) \in Messages /\ IsEvent(EventMessage(event))
                             /\ EventMessage(event).event = event
    /\ \A m \in Messages : IsEvent(m) => m.event \in Events
    /\ \A m \in Messages : ~IsEvent(m) => m.engine \in Engines
    /\ \A event \in Events : event.number \in 1..MaxEvents /\ event.stream \in Streams
BY DEF Messages, ListenMessage, InitMessage, EventMessage, IsEvent, Events

\* The looper loses its first message.
LEMMA FewerMessages ==
    ASSUME NEW l \in Seq(Messages), l # <<>>, NEW c \in Seq(Events),
           NEW h \in [Streams -> Seq(1..MaxEvents)], NEW n \in Nat,
           NEW u \in Nat, InOrder(l, c, h, n, u)
    PROVE  InOrder(Tail(l), c, h, n, u)
<1>1. /\ Tail(l) \in Seq(Messages)
      /\ DOMAIN l = 1..Len(l) /\ Len(l) \in Nat
      /\ DOMAIN Tail(l) = 1..Len(l) - 1
      /\ \A i \in DOMAIN Tail(l) : i \in 1..Len(l) - 1 /\ i + 1 \in DOMAIN l /\ Tail(l)[i] = l[i + 1]
  BY HeadTailProperties, LenProperties
<1>2. LooperInOrder(Tail(l), n)
  <2>1. \A i \in DOMAIN Tail(l) : IsEvent(Tail(l)[i]) => Tail(l)[i].event.number <= n
    BY <1>1 DEF InOrder, LooperInOrder
  <2>2. \A i, j \in DOMAIN Tail(l) : i < j /\ IsEvent(Tail(l)[i]) /\ IsEvent(Tail(l)[j])
            => Tail(l)[i].event.number < Tail(l)[j].event.number
    <3> SUFFICES ASSUME NEW i \in DOMAIN Tail(l), NEW j \in DOMAIN Tail(l), i < j,
                        IsEvent(Tail(l)[i]), IsEvent(Tail(l)[j])
                 PROVE  Tail(l)[i].event.number < Tail(l)[j].event.number
      OBVIOUS
    <3>1. i + 1 < j + 1 /\ i + 1 \in DOMAIN l /\ j + 1 \in DOMAIN l
      BY <1>1
    <3> QED BY <3>1, <1>1 DEF InOrder, LooperInOrder
  <2> QED BY <2>1, <2>2 DEF LooperInOrder
<1>3. ChannelInOrder(Tail(l), c, n)
  BY <1>1 DEF InOrder, ChannelInOrder
<1>4. HeardInOrder(Tail(l), c, h, n, u)
  BY <1>1 DEF InOrder, HeardInOrder
<1> QED BY <1>2, <1>3, <1>4 DEF InOrder

\* An event goes from the looper into the channel.
LEMMA MoreInChannel ==
    ASSUME NEW l \in Seq(Messages), l # <<>>, NEW c \in Seq(Events),
           NEW h \in [Streams -> Seq(1..MaxEvents)], NEW n \in Nat,
           NEW u \in Nat, InOrder(l, c, h, n, u),
           IsEvent(Head(l))
    PROVE  InOrder(Tail(l), Append(c, Head(l).event), h, n, u)
<1> DEFINE event == Head(l).event
           d == Append(c, event)
<1>1. /\ Tail(l) \in Seq(Messages)
      /\ DOMAIN l = 1..Len(l) /\ Len(l) \in Nat /\ 1 \in DOMAIN l /\ Head(l) = l[1]
      /\ DOMAIN Tail(l) = 1..Len(l) - 1
      /\ \A i \in DOMAIN Tail(l) : i + 1 \in DOMAIN l /\ 1 < i + 1 /\ Tail(l)[i] = l[i + 1]
  BY HeadTailProperties, LenProperties
<1>2. event \in Events
  BY <1>1, MessageTypes, HeadTailProperties
<1>3. /\ d \in Seq(Events) /\ Len(c) \in Nat
      /\ DOMAIN c = 1..Len(c) /\ DOMAIN d = 1..Len(c) + 1
      /\ \A i \in DOMAIN c : d[i] = c[i]
      /\ d[Len(c) + 1] = event
  BY <1>2, AppendProperties, LenProperties
<1>4. /\ \A i \in DOMAIN d : i \in DOMAIN c \/ i = Len(c) + 1
      /\ \A i, j \in DOMAIN d : i < j => i \in DOMAIN c
  BY <1>3
<1>5. LooperInOrder(Tail(l), n)
  BY FewerMessages DEF InOrder
<1>6. ChannelInOrder(Tail(l), d, n)
  <2>1. \A i \in DOMAIN d : d[i].number <= n
    BY <1>1, <1>3, <1>4 DEF InOrder, ChannelInOrder, LooperInOrder
  <2>2. \A i, j \in DOMAIN d : i < j => d[i].number < d[j].number
    BY <1>1, <1>3, <1>4 DEF InOrder, ChannelInOrder
  <2>3. \A i \in DOMAIN d, j \in DOMAIN Tail(l) :
            IsEvent(Tail(l)[j]) => d[i].number < Tail(l)[j].event.number
    BY <1>1, <1>3, <1>4 DEF InOrder, ChannelInOrder, LooperInOrder
  <2> HIDE DEF d
  <2> QED BY <2>1, <2>2, <2>3 DEF ChannelInOrder
<1>7. HeardInOrder(Tail(l), d, h, n, u)
  <2> SUFFICES ASSUME NEW s \in Streams
               PROVE  /\ \A i \in DOMAIN h[s] : h[s][i] <= n
                      /\ \A i, j \in DOMAIN h[s] : i < j => Before(h[s][i], h[s][j], u)
                      /\ \A i \in DOMAIN h[s], j \in DOMAIN d : h[s][i] < d[j].number
                      /\ \A i \in DOMAIN h[s], j \in DOMAIN Tail(l) :
                            IsEvent(Tail(l)[j]) => h[s][i] < Tail(l)[j].event.number
    BY DEF HeardInOrder
  <2>1. \A i \in DOMAIN h[s], j \in DOMAIN d : h[s][i] < d[j].number
    BY <1>1, <1>3, <1>4 DEF InOrder, HeardInOrder
  <2> QED BY <1>1, <2>1 DEF InOrder, HeardInOrder
<1> QED BY <1>5, <1>6, <1>7 DEF InOrder

\* A message that is no event comes into the looper.
LEMMA MoreMessages ==
    ASSUME NEW l \in Seq(Messages), NEW c \in Seq(Events),
           NEW h \in [Streams -> Seq(1..MaxEvents)], NEW n \in Nat,
           NEW u \in Nat, InOrder(l, c, h, n, u),
           NEW m \in Messages, ~IsEvent(m)
    PROVE  Append(l, m) \in Seq(Messages) /\ InOrder(Append(l, m), c, h, n, u)
<1> DEFINE k == Append(l, m)
<1>1. /\ k \in Seq(Messages) /\ Len(l) \in Nat
      /\ DOMAIN l = 1..Len(l) /\ DOMAIN k = 1..Len(l) + 1
      /\ \A i \in DOMAIN l : k[i] = l[i]
      /\ k[Len(l) + 1] = m
  BY AppendProperties, LenProperties
<1>2. \A i \in DOMAIN k : IsEvent(k[i]) => i \in DOMAIN l /\ k[i] = l[i]
  BY <1>1
<1> HIDE DEF k
<1>3. LooperInOrder(k, n)
  BY <1>2 DEF InOrder, LooperInOrder
<1>4. ChannelInOrder(k, c, n)
  BY <1>2 DEF InOrder, ChannelInOrder
<1>5. HeardInOrder(k, c, h, n, u)
  BY <1>2 DEF InOrder, HeardInOrder
<1> QED BY <1>1, <1>3, <1>4, <1>5 DEF InOrder, k

\* The next event comes into the looper.
LEMMA MoreEvents ==
    ASSUME NEW l \in Seq(Messages), NEW c \in Seq(Events),
           NEW h \in [Streams -> Seq(1..MaxEvents)], NEW n \in Nat,
           NEW u \in Nat, InOrder(l, c, h, n, u),
           NEW event \in Events, event.number = n + 1
    PROVE  InOrder(Append(l, EventMessage(event)), c, h, n + 1, u)
<1> DEFINE k == Append(l, EventMessage(event))
           m == EventMessage(event)
<1>1. m \in Messages /\ m.event.number = n + 1
  BY MessageTypes
<1>2. /\ k \in Seq(Messages) /\ Len(l) \in Nat
      /\ DOMAIN l = 1..Len(l) /\ DOMAIN k = 1..Len(l) + 1
      /\ \A i \in DOMAIN l : k[i] = l[i]
      /\ k[Len(l) + 1] = m
  BY <1>1, AppendProperties, LenProperties
<1>3. /\ \A i \in DOMAIN k : (i \in DOMAIN l /\ k[i] = l[i]) \/ (i = Len(l) + 1 /\ k[i] = m)
      /\ \A i, j \in DOMAIN k : i < j => i \in DOMAIN l /\ k[i] = l[i]
  BY <1>2
<1>4. /\ \A i \in DOMAIN l : IsEvent(l[i]) => l[i].event.number \in Nat
      /\ \A i \in DOMAIN c : c[i].number \in Nat
      /\ \A s \in Streams : \A i \in DOMAIN h[s] : h[s][i] \in Nat
  BY <1>2, MessageTypes, ElementOfSeq, LenProperties, BoundsAssumption
<1> HIDE DEF k, m
<1>5. LooperInOrder(k, n + 1)
  <2>1. \A i \in DOMAIN k : IsEvent(k[i]) => k[i].event.number <= n + 1
    <3> SUFFICES ASSUME NEW i \in DOMAIN k, IsEvent(k[i])
                 PROVE  k[i].event.number <= n + 1
      OBVIOUS
    <3>1. CASE i \in DOMAIN l /\ k[i] = l[i]
      <4>1. l[i].event.number <= n /\ l[i].event.number \in Nat
        BY <3>1, <1>4 DEF InOrder, LooperInOrder
      <4> QED BY <4>1, <3>1
    <3>2. CASE k[i] = m
      BY <3>2, <1>1
    <3> QED BY <3>1, <3>2, <1>3
  <2>2. \A i, j \in DOMAIN k :
           i < j /\ IsEvent(k[i]) /\ IsEvent(k[j]) => k[i].event.number < k[j].event.number
    BY <1>1, <1>3, <1>4 DEF InOrder, LooperInOrder
  <2> QED BY <2>1, <2>2 DEF LooperInOrder
<1>6. ChannelInOrder(k, c, n + 1)
  <2>1. \A i \in DOMAIN c : c[i].number <= n /\ c[i].number \in Nat
    BY <1>4 DEF InOrder, ChannelInOrder
  <2>2. \A i \in DOMAIN c : c[i].number <= n + 1 /\ c[i].number < n + 1
    BY <2>1
  <2>3. \A i \in DOMAIN c, j \in DOMAIN k : IsEvent(k[j]) => c[i].number < k[j].event.number
    BY <1>1, <1>3, <2>2 DEF InOrder, ChannelInOrder
  <2> QED BY <2>2, <2>3 DEF InOrder, ChannelInOrder
<1>7. HeardInOrder(k, c, h, n + 1, u)
  <2> SUFFICES ASSUME NEW s \in Streams
               PROVE  /\ \A i \in DOMAIN h[s] : h[s][i] <= n + 1
                      /\ \A i, j \in DOMAIN h[s] : i < j => Before(h[s][i], h[s][j], u)
                      /\ \A i \in DOMAIN h[s], j \in DOMAIN c : h[s][i] < c[j].number
                      /\ \A i \in DOMAIN h[s], j \in DOMAIN k :
                            IsEvent(k[j]) => h[s][i] < k[j].event.number
    BY DEF HeardInOrder
  <2>1. \A i \in DOMAIN h[s] : h[s][i] <= n /\ h[s][i] \in Nat
    BY <1>4 DEF InOrder, HeardInOrder
  <2>2. \A i \in DOMAIN h[s] : h[s][i] <= n + 1 /\ h[s][i] < n + 1
    BY <2>1
  <2>3. \A i \in DOMAIN h[s], j \in DOMAIN k : IsEvent(k[j]) => h[s][i] < k[j].event.number
    BY <1>1, <1>3, <2>2 DEF InOrder, HeardInOrder
  <2> QED BY <2>2, <2>3 DEF InOrder, HeardInOrder
<1> QED BY <1>5, <1>6, <1>7 DEF InOrder, k, m

\* An event leaves the channel, and nobody hears it.
LEMMA FewerInChannel ==
    ASSUME NEW l \in Seq(Messages), NEW c \in Seq(Events), c # <<>>,
           NEW h \in [Streams -> Seq(1..MaxEvents)], NEW n \in Nat,
           NEW u \in Nat, InOrder(l, c, h, n, u)
    PROVE  InOrder(l, Tail(c), h, n, u)
<1>1. /\ DOMAIN c = 1..Len(c) /\ Len(c) \in Nat
      /\ DOMAIN Tail(c) = 1..Len(c) - 1
      /\ \A i \in DOMAIN Tail(c) : i \in 1..Len(c) - 1 /\ i + 1 \in DOMAIN c /\ Tail(c)[i] = c[i + 1]
  BY HeadTailProperties, LenProperties
<1>2. ChannelInOrder(l, Tail(c), n)
  <2>1. \A i, j \in DOMAIN Tail(c) : i < j => Tail(c)[i].number < Tail(c)[j].number
    <3> SUFFICES ASSUME NEW i \in DOMAIN Tail(c), NEW j \in DOMAIN Tail(c), i < j
                 PROVE  Tail(c)[i].number < Tail(c)[j].number
      OBVIOUS
    <3>1. i + 1 < j + 1 /\ i + 1 \in DOMAIN c /\ j + 1 \in DOMAIN c
      BY <1>1
    <3> QED BY <3>1, <1>1 DEF InOrder, ChannelInOrder
  <2> QED BY <2>1, <1>1 DEF InOrder, ChannelInOrder
<1>3. HeardInOrder(l, Tail(c), h, n, u)
  BY <1>1 DEF InOrder, HeardInOrder
<1> QED BY <1>2, <1>3 DEF InOrder

\* What is heard n times comes after what was heard before.
Longer(q, h, x, n) ==
    /\ DOMAIN q = 1..Len(h) + n
    /\ \A i \in DOMAIN q : q[i] = IF i \in DOMAIN h THEN h[i] ELSE x

LEMMA MoreTimes ==
    ASSUME NEW S, NEW h \in Seq(S), NEW x \in S, NEW n \in Nat, NEW q, q = h \o Times(n, x)
    PROVE  q \in Seq(S) /\ Longer(q, h, x, n)
<1>1. PICK r : r = Times(n, x)
  OBVIOUS
<1>2. r \in Seq(S) /\ Len(r) = n /\ \A i \in 1..n : r[i] = x
  BY <1>1 DEF Times
<1>3. Len(h) \in Nat /\ DOMAIN h = 1..Len(h)
  BY LenProperties
<1>5. /\ q \in Seq(S) /\ Len(q) = Len(h) + n /\ DOMAIN q = 1..Len(q)
      /\ \A i \in 1..Len(h) + n : q[i] = IF i <= Len(h) THEN h[i] ELSE r[i - Len(h)]
  <2>1. q = h \o r
    BY <1>1
  <2>2. /\ h \o r \in Seq(S) /\ Len(h \o r) = Len(h) + Len(r)
        /\ \A i \in 1..Len(h) + Len(r) :
              (h \o r)[i] = IF i <= Len(h) THEN h[i] ELSE r[i - Len(h)]
    BY <1>2, ConcatProperties
  <2>3. /\ q \in Seq(S) /\ Len(q) = Len(h) + n
        /\ \A i \in 1..Len(h) + n : q[i] = IF i <= Len(h) THEN h[i] ELSE r[i - Len(h)]
    BY <1>2, <2>1, <2>2, Zenon
  <2> QED BY <2>3, LenProperties
<1>6. ASSUME NEW i \in 1..Len(h) + n PROVE q[i] = IF i \in DOMAIN h THEN h[i] ELSE x
  <2>1. CASE i <= Len(h)
    BY <1>3, <1>5, <2>1
  <2>2. CASE ~ (i <= Len(h))
    <3>1. i - Len(h) \in 1..n
      BY <1>3, <2>2
    <3> QED BY <1>2, <1>3, <1>5, <2>2, <3>1
  <2> QED BY <2>1, <2>2
<1> QED BY <1>5, <1>6 DEF Longer

\* An event leaves the channel and is heard u times.
LEMMA MoreHeard ==
    ASSUME NEW l \in Seq(Messages), NEW c \in Seq(Events), c # <<>>,
           NEW h \in [Streams -> Seq(1..MaxEvents)], NEW n \in Nat,
           NEW u \in Nat, InOrder(l, c, h, n, u),
           NEW t \in Streams
    PROVE  InOrder(l, Tail(c), [h EXCEPT ![t] = @ \o Times(u, Head(c).number)], n, u)
<1> DEFINE x == Head(c).number
           g == [h EXCEPT ![t] = @ \o Times(u, x)]
<1>1. /\ DOMAIN c = 1..Len(c) /\ Len(c) \in Nat /\ 1 \in DOMAIN c /\ Head(c) = c[1]
      /\ DOMAIN Tail(c) = 1..Len(c) - 1
      /\ \A i \in DOMAIN Tail(c) : i + 1 \in DOMAIN c /\ 1 < i + 1 /\ Tail(c)[i] = c[i + 1]
      /\ Head(c) \in Events
  BY HeadTailProperties, LenProperties
<1>2. x \in 1..MaxEvents
  BY <1>1, MessageTypes
<1>3. /\ h[t] \in Seq(1..MaxEvents) /\ Len(h[t]) \in Nat
      /\ g[t] = h[t] \o Times(u, x)
      /\ DOMAIN h[t] = 1..Len(h[t]) /\ DOMAIN g[t] = 1..Len(h[t]) + u
      /\ \A i \in DOMAIN g[t] : g[t][i] = IF i \in DOMAIN h[t] THEN h[t][i] ELSE x
  <2>1. PICK q \in Seq(1..MaxEvents) : q = h[t]
    OBVIOUS
  <2>2. PICK r : r = q \o Times(u, x)
    OBVIOUS
  <2>3. /\ Len(q) \in Nat /\ DOMAIN q = 1..Len(q) /\ DOMAIN r = 1..Len(q) + u
        /\ \A i \in DOMAIN r : r[i] = IF i \in DOMAIN q THEN q[i] ELSE x
    <3>1. x \in 1..MaxEvents
      BY <1>2
    <3>2. Len(q) \in Nat /\ DOMAIN q = 1..Len(q)
      BY LenProperties
    <3> HIDE DEF x
    <3>3. /\ DOMAIN r = 1..Len(q) + u
          /\ \A i \in DOMAIN r : r[i] = IF i \in DOMAIN q THEN q[i] ELSE x
      <4>1. PICK S : S = 1..MaxEvents
        OBVIOUS
      <4>2. PICK y : y = x
        OBVIOUS
      <4>3. q \in Seq(S) /\ y \in S /\ u \in Nat /\ r = q \o Times(u, y)
        BY <2>2, <3>1, <4>1, <4>2
      <4>4. Longer(r, q, y, u)
        BY <4>3, MoreTimes, Zenon
      <4> QED BY <4>2, <4>4 DEF Longer
    <3> QED BY <3>2, <3>3
  <2>4. g[t] = h[t] \o Times(u, x)
    OBVIOUS
  <2>5. g[t] = r
    BY <2>1, <2>2, <2>4
  <2> HIDE DEF g, x
  <2> QED BY <2>1, <2>3, <2>4, <2>5
<1>4. /\ \A i \in DOMAIN g[t] :
            \/ i \in DOMAIN h[t] /\ g[t][i] = h[t][i]
            \/ i \notin DOMAIN h[t] /\ g[t][i] = x
      /\ \A i, j \in DOMAIN g[t] : i < j =>
            \/ i \in DOMAIN h[t] /\ g[t][i] = h[t][i]
            \/ u > 1 /\ i \notin DOMAIN h[t] /\ j \notin DOMAIN h[t]
  <2> HIDE DEF g, x
  <2> QED BY <1>3
<1>5. \A s \in Streams : s # t => g[s] = h[s]
  OBVIOUS
<1>6. /\ x <= n
      /\ \A j \in DOMAIN Tail(c) : x < Tail(c)[j].number
      /\ \A j \in DOMAIN l : IsEvent(l[j]) => x < l[j].event.number
      /\ \A i \in DOMAIN h[t] : h[t][i] < x
  BY <1>1 DEF InOrder, ChannelInOrder, HeardInOrder
<1> HIDE DEF g, x
<1>7. HeardInOrder(l, Tail(c), h, n, u)
  BY FewerInChannel DEF InOrder
<1>8. HeardInOrder(l, Tail(c), g, n, u)
  <2> SUFFICES ASSUME NEW s \in Streams
               PROVE  /\ \A i \in DOMAIN g[s] : g[s][i] <= n
                      /\ \A i, j \in DOMAIN g[s] : i < j => Before(g[s][i], g[s][j], u)
                      /\ \A i \in DOMAIN g[s], j \in DOMAIN Tail(c) : g[s][i] < Tail(c)[j].number
                      /\ \A i \in DOMAIN g[s], j \in DOMAIN l :
                            IsEvent(l[j]) => g[s][i] < l[j].event.number
    BY DEF HeardInOrder
  <2>1. CASE s # t
    BY <2>1, <1>5, <1>7 DEF HeardInOrder
  <2>2. CASE s = t
    <3>1. \A i \in DOMAIN g[t] : g[t][i] <= n
      BY <1>4, <1>6, <1>7 DEF HeardInOrder
    <3>2. \A i, j \in DOMAIN g[t] : i < j => Before(g[t][i], g[t][j], u)
      <4> SUFFICES ASSUME NEW i \in DOMAIN g[t], NEW j \in DOMAIN g[t], i < j
                   PROVE  Before(g[t][i], g[t][j], u)
        OBVIOUS
      <4>1. CASE u > 1 /\ i \notin DOMAIN h[t] /\ j \notin DOMAIN h[t]
        BY <1>4, <4>1 DEF Before
      <4>2. CASE i \in DOMAIN h[t] /\ j \in DOMAIN h[t]
        <5>1. Before(h[t][i], h[t][j], u)
          BY <4>2, <1>7 DEF HeardInOrder
        <5> QED BY <1>4, <4>2, <5>1
      <4>3. CASE i \in DOMAIN h[t] /\ j \notin DOMAIN h[t]
        <5>1. g[t][i] = h[t][i] /\ g[t][j] = x /\ h[t][i] < x
          BY <1>4, <1>6, <4>3
        <5> QED BY <5>1 DEF Before
      <4> QED BY <1>4, <4>1, <4>2, <4>3
    <3>3. \A i \in DOMAIN g[t], j \in DOMAIN Tail(c) : g[t][i] < Tail(c)[j].number
      BY <1>4, <1>6, <1>7 DEF HeardInOrder
    <3>4. \A i \in DOMAIN g[t], j \in DOMAIN l : IsEvent(l[j]) => g[t][i] < l[j].event.number
      BY <1>4, <1>6, <1>7 DEF HeardInOrder
    <3> QED BY <2>2, <3>1, <3>2, <3>3, <3>4
  <2> QED BY <2>1, <2>2
<1> QED BY <1>8, FewerInChannel DEF InOrder, g, x
-----------------------------------------------------------------------------
(* Every engine has its order, whatever becomes of the others.             *)

\* A step that changes none of it.
LEMMA OrderStays ==
    ASSUME IInv, TypeOK', UNCHANGED <<looper, channel, heard, sent>>, UNCHANGED <<inits, unheard, subscriptions>>
    PROVE  IInv'
BY DEF IInv, ListensAsCalled, EventsInOrder, InOrder, LooperInOrder, ChannelInOrder, HeardInOrder

\* What a call of initSipModule puts into the looper.
LEMMA InitMessages ==
    ASSUME NEW e \in Engines, NEW listens \in BOOLEAN, NEW l \in Seq(Messages)
    PROVE  l \o (IF listens THEN <<ListenMessage(e)>> ELSE <<>>) \o <<InitMessage(e)>>
              = IF listens THEN Append(Append(l, ListenMessage(e)), InitMessage(e))
                           ELSE Append(l, InitMessage(e))
<1>1. ListenMessage(e) \in Messages /\ InitMessage(e) \in Messages
  BY MessageTypes
<1>2. Append(l, InitMessage(e)) = l \o <<InitMessage(e)>>
  BY <1>1, AppendIsConcat
<1>3. Append(l, ListenMessage(e)) = l \o <<ListenMessage(e)>>
      /\ Append(l, ListenMessage(e)) \in Seq(Messages)
  BY <1>1, AppendIsConcat, AppendProperties
<1>4. Append(Append(l, ListenMessage(e)), InitMessage(e))
         = Append(l, ListenMessage(e)) \o <<InitMessage(e)>>
  BY <1>1, <1>3, AppendIsConcat
<1>5. l \o <<>> = l
  BY ConcatEmptySeq
<1> QED BY <1>2, <1>3, <1>4, <1>5
-----------------------------------------------------------------------------
THEOREM InitInv == Init => IInv
<1> SUFFICES ASSUME Init PROVE IInv
  OBVIOUS
<1>1. TypeOK
  <2>1. looper \in Seq(Messages) /\ channel \in [Engines -> Seq(Events)]
    BY EmptySeq DEF Init
  <2>2. heard \in [Engines -> [Streams -> Seq(1..MaxEvents)]]
    BY EmptySeq DEF Init
  <2>3. due \in [Engines -> [Streams -> SUBSET (1..MaxEvents)]]
    BY DEF Init
  <2>4. 0 \in 0..MaxEvents /\ 0 \in 0..MaxInits
    BY BoundsAssumption
  <2> QED BY <2>1, <2>2, <2>3, <2>4 DEF Init, TypeOK
<1>2. ListensAsCalled
  BY DEF Init, ListensAsCalled
<1>3. EventsInOrder
  BY DEF Init, EventsInOrder, InOrder, LooperInOrder, ChannelInOrder, HeardInOrder
<1> QED BY <1>1, <1>2, <1>3 DEF IInv

LEMMA AttachInv ==
    ASSUME IInv, NEW e \in Engines, OnAttachedToEngine(e)
    PROVE  IInv'
<1>1. TypeOK'
  BY DEF IInv, TypeOK, OnAttachedToEngine, dart
<1> QED BY <1>1, OrderStays DEF OnAttachedToEngine, dart

LEMMA DetachInv ==
    ASSUME IInv, NEW e \in Engines, OnDetachedFromEngine(e)
    PROVE  IInv'
<1>1. TypeOK'
  BY EmptySeq, BoundsAssumption DEF IInv, TypeOK, OnDetachedFromEngine, DartEnds
<1>2. ListensAsCalled'
  BY DEF IInv, TypeOK, ListensAsCalled, OnDetachedFromEngine, DartEnds
<1>3. EventsInOrder'
  <2> SUFFICES ASSUME NEW d \in Engines
               PROVE  InOrder(looper', channel'[d], heard'[d], sent', unheard'[d])
    BY DEF EventsInOrder
  <2>1. looper' = looper /\ sent' = sent /\ InOrder(looper, channel[d], heard[d], sent, unheard[d])
    BY DEF IInv, EventsInOrder, OnDetachedFromEngine
  <2>2. CASE d = e
    <3>1. channel'[d] = <<>> /\ heard'[d] = [s \in Streams |-> <<>>]
      BY <2>2 DEF IInv, TypeOK, OnDetachedFromEngine, DartEnds
    <3> QED BY <2>1, <3>1 DEF InOrder, ChannelInOrder, HeardInOrder
  <2>3. CASE d # e
    <3>1. channel'[d] = channel[d] /\ heard'[d] = heard[d] /\ unheard'[d] = unheard[d]
      BY <2>3 DEF IInv, TypeOK, OnDetachedFromEngine, DartEnds
    <3> QED BY <2>1, <3>1
  <2> QED BY <2>2, <2>3
<1> QED BY <1>1, <1>2, <1>3 DEF IInv

LEMMA InitSipModuleInv ==
    ASSUME IInv, NEW e \in Engines, InitSipModule(e), UNCHANGED <<android, sent>>
    PROVE  IInv'
<1> DEFINE listens == ~("call" \in listening[e]) /\ subscriptions[e] = 0
<1>1. /\ looper' = IF listens THEN Append(Append(looper, ListenMessage(e)), InitMessage(e))
                             ELSE Append(looper, InitMessage(e))
      /\ looper \in Seq(Messages)
  BY InitMessages, listens \in BOOLEAN DEF InitSipModule, IInv, TypeOK
<1>2. ListenMessage(e) \in Messages /\ ~IsEvent(ListenMessage(e))
      /\ InitMessage(e) \in Messages /\ ~IsEvent(InitMessage(e))
  BY MessageTypes
<1>3. looper' \in Seq(Messages)
  BY <1>1, <1>2, AppendProperties
<1>4. inits' = [inits EXCEPT ![e] = @ + 1] /\ inits'[e] > 0 /\ inits'[e] \in 0..MaxInits
  BY BoundsAssumption DEF InitSipModule, IInv, TypeOK
<1>5. /\ subscriptions' = [subscriptions EXCEPT ![e] = subscriptions'[e]]
      /\ unheard' = [unheard EXCEPT ![e] = unheard'[e]]
      /\ subscriptions'[e] = unheard'[e] /\ unheard'[e] \in {unheard[e], unheard[e] + 1}
      /\ unheard[e] \in Nat /\ unheard'[e] \in 0..MaxInits /\ unheard'[e] <= inits'[e]
  BY <1>4, BoundsAssumption DEF InitSipModule, IInv, TypeOK, ListensAsCalled
<1>6. TypeOK'
  BY <1>3, <1>4, <1>5 DEF InitSipModule, IInv, TypeOK, android
<1>7. ListensAsCalled'
  BY <1>4, <1>5 DEF IInv, TypeOK, ListensAsCalled
<1>8. EventsInOrder'
  <2> SUFFICES ASSUME NEW d \in Engines
               PROVE  InOrder(looper', channel[d], heard[d], sent, unheard'[d])
    BY DEF EventsInOrder, InitSipModule
  <2>1. /\ InOrder(looper, channel[d], heard[d], sent, unheard[d]) /\ sent \in Nat
        /\ unheard[d] \in Nat
        /\ channel[d] \in Seq(Events) /\ heard[d] \in [Streams -> Seq(1..MaxEvents)]
    BY BoundsAssumption DEF IInv, EventsInOrder, TypeOK
  <2>4. unheard[d] \in Nat /\ unheard'[d] \in Nat /\ unheard[d] <= unheard'[d]
    BY <1>5 DEF IInv, TypeOK, InitSipModule
  <2>5. InOrder(looper, channel[d], heard[d], sent, unheard'[d])
    BY <2>1, <2>4 DEF InOrder, HeardInOrder, Before
  <2>2. CASE ~listens
    BY <2>1, <2>2, <2>4, <2>5, <1>1, <1>2, MoreMessages
  <2>3. CASE listens
    <3>1. Append(looper, ListenMessage(e)) \in Seq(Messages)
          /\ InOrder(Append(looper, ListenMessage(e)), channel[d], heard[d], sent, unheard'[d])
      BY <2>1, <2>4, <2>5, <1>1, <1>2, MoreMessages
    <3> QED BY <2>1, <2>3, <2>4, <3>1, <1>1, <1>2, MoreMessages
  <2> QED BY <2>2, <2>3
<1> QED BY <1>6, <1>7, <1>8 DEF IInv

LEMMA ListeningInv ==
    ASSUME IInv, NEW e \in Engines, NEW s \in Streams, ListenTo(e, s) \/ CancelListening(e, s),
           UNCHANGED <<android, sent>>
    PROVE  IInv'
<1>1. TypeOK'
  <2>1. CASE ListenTo(e, s)
    BY <2>1 DEF IInv, TypeOK, ListenTo, android
  <2>2. CASE CancelListening(e, s)
    BY <2>2 DEF IInv, TypeOK, CancelListening, android
  <2> QED BY <2>1, <2>2
<1> QED BY <1>1, OrderStays DEF ListenTo, CancelListening

LEMMA ListenerInv ==
    ASSUME IInv, NEW e \in Engines, Listener(e), UNCHANGED <<android, sent>>
    PROVE  IInv'
<1> DEFINE event == Head(channel[e])
           t == event.stream
           more == [heard[e] EXCEPT ![t] = @ \o Times(unheard[e], event.number)]
<1>1. /\ channel[e] \in Seq(Events) /\ channel[e] # <<>> /\ event \in Events
      /\ t \in Streams /\ event.number \in 1..MaxEvents
      /\ heard[e] \in [Streams -> Seq(1..MaxEvents)] /\ heard[e][t] \in Seq(1..MaxEvents)
  BY HeadTailProperties, MessageTypes DEF Listener, IInv, TypeOK
<1>2. channel' = [channel EXCEPT ![e] = Tail(@)] /\ Tail(channel[e]) \in Seq(Events)
  BY <1>1, HeadTailProperties DEF Listener
<1>3. heard' = heard \/ heard' = [heard EXCEPT ![e] = more]
  <2>1. subscriptions[e] = unheard[e]
    BY DEF IInv, ListensAsCalled
  <2>2. heard' = heard
        \/ heard' = [heard EXCEPT ![e][t] = @ \o Times(subscriptions[e], event.number)]
    BY DEF Listener
  <2> QED BY <2>1, <2>2
<1>4. more \in [Streams -> Seq(1..MaxEvents)] /\ unheard[e] \in Nat
  <2>1. unheard[e] \in Nat
    BY DEF IInv, TypeOK
  <2>2. PICK q \in Seq(1..MaxEvents) : q = heard[e][t]
    BY <1>1
  <2>3. PICK r : r = q \o Times(unheard[e], event.number)
    OBVIOUS
  <2>4. r \in Seq(1..MaxEvents)
    <3>1. PICK S, x : S = 1..MaxEvents /\ x = event.number
      OBVIOUS
    <3>2. PICK n : n = unheard[e]
      OBVIOUS
    <3>3. q \in Seq(S) /\ x \in S /\ n \in Nat /\ r = q \o Times(n, x)
      BY <1>1, <2>1, <2>3, <3>1, <3>2
    <3>4. r \in Seq(S)
      BY <3>3, MoreTimes, Zenon
    <3> QED BY <3>1, <3>4
  <2> QED BY <1>1, <2>1, <2>2, <2>3, <2>4
<1> HIDE DEF more, event, t
<1>5. TypeOK'
  <2>1. UNCHANGED <<dart, looper, due>>
    BY DEF Listener
  <2>2. heard' \in [Engines -> [Streams -> Seq(1..MaxEvents)]]
    BY <1>3, <1>4 DEF IInv, TypeOK
  <2>3. channel' \in [Engines -> Seq(Events)]
    BY <1>2 DEF IInv, TypeOK
  <2> QED BY <2>1, <2>2, <2>3 DEF IInv, TypeOK, dart, android
<1>6. ListensAsCalled'
  BY DEF Listener, dart, IInv, ListensAsCalled
<1>7. EventsInOrder'
  <2> SUFFICES ASSUME NEW d \in Engines
               PROVE  InOrder(looper, channel'[d], heard'[d], sent, unheard[d])
    BY DEF EventsInOrder, Listener, dart
  <2>1. /\ InOrder(looper, channel[d], heard[d], sent, unheard[d]) /\ sent \in Nat
        /\ unheard[d] \in Nat
        /\ looper \in Seq(Messages) /\ heard[d] \in [Streams -> Seq(1..MaxEvents)]
    BY BoundsAssumption DEF IInv, EventsInOrder, TypeOK
  <2>2. CASE d # e
    <3>1. channel'[d] = channel[d] /\ heard'[d] = heard[d]
      BY <2>2, <1>2, <1>3 DEF IInv, TypeOK
    <3> QED BY <2>1, <3>1
  <2>3. CASE d = e
    <3>1. channel'[d] = Tail(channel[e]) /\ (heard'[d] = heard[e] \/ heard'[d] = more)
      BY <2>3, <1>2, <1>3 DEF IInv, TypeOK
    <3>2. InOrder(looper, Tail(channel[e]), heard[e], sent, unheard[d])
      BY <2>1, <2>3, <1>1, FewerInChannel
    <3>3. InOrder(looper, Tail(channel[e]), more, sent, unheard[d])
      BY <2>1, <2>3, <1>1, <1>4, MoreHeard DEF more, event, t
    <3> QED BY <3>1, <3>2, <3>3
  <2> QED BY <2>2, <2>3
<1> QED BY <1>5, <1>6, <1>7 DEF IInv

LEMMA SendEventInv ==
    ASSUME IInv, NEW s \in Streams, SendEvent(s)
    PROVE  IInv'
<1> DEFINE event == [number |-> sent + 1, stream |-> s]
<1>1. sent \in Nat /\ sent' = sent + 1 /\ sent' \in 1..MaxEvents
  BY BoundsAssumption DEF SendEvent, IInv, TypeOK
<1>2. event \in Events /\ event.number = sent + 1 /\ EventMessage(event) \in Messages
  BY <1>1, MessageTypes DEF Events
<1>3. looper' = Append(looper, EventMessage(event))
  BY DEF SendEvent
<1> HIDE DEF event
<1>4. looper' \in Seq(Messages)
  BY <1>2, <1>3, AppendProperties DEF IInv, TypeOK
<1>5. due' \in [Engines -> [Streams -> SUBSET (1..MaxEvents)]]
  BY <1>1 DEF SendEvent, IInv, TypeOK
<1>6. TypeOK'
  BY <1>1, <1>4, <1>5 DEF SendEvent, IInv, TypeOK, android, dart
<1>7. ListensAsCalled'
  BY DEF SendEvent, dart, IInv, ListensAsCalled
<1>8. EventsInOrder'
  <2> SUFFICES ASSUME NEW d \in Engines
               PROVE  InOrder(looper', channel[d], heard[d], sent', unheard[d])
    BY DEF EventsInOrder, SendEvent, dart
  <2>1. /\ InOrder(looper, channel[d], heard[d], sent, unheard[d]) /\ looper \in Seq(Messages)
        /\ unheard[d] \in Nat
        /\ channel[d] \in Seq(Events) /\ heard[d] \in [Streams -> Seq(1..MaxEvents)]
    BY DEF IInv, EventsInOrder, TypeOK
  <2> QED BY <2>1, <1>1, <1>2, <1>3, MoreEvents
<1> QED BY <1>6, <1>7, <1>8 DEF IInv

LEMMA MainLooperInv ==
    ASSUME IInv, MainLooper
    PROVE  IInv'
<1> DEFINE message == Head(looper)
<1>1. /\ looper \in Seq(Messages) /\ looper # <<>> /\ message \in Messages
      /\ looper' = Tail(looper) /\ looper' \in Seq(Messages)
  BY HeadTailProperties DEF MainLooper, IInv, TypeOK
<1>2. IsEvent(message) => message.event \in Events
  BY <1>1, MessageTypes
<1>3. \/ channel' = channel /\ eventSink' \in attached \union {NoSink} /\ initialised' \in BOOLEAN
      \/ /\ IsEvent(message) /\ eventSink \in Engines
         /\ channel' = [channel EXCEPT ![eventSink] = Append(@, message.event)]
         /\ eventSink' = eventSink /\ initialised' = initialised
  BY DEF MainLooper, Success, OnListen, OnInitSipModule, IsEvent, IInv, TypeOK
<1> HIDE DEF message
<1>4. channel' \in [Engines -> Seq(Events)]
  <2>1. channel \in [Engines -> Seq(Events)]
    BY DEF IInv, TypeOK
  <2>2. CASE IsEvent(message) /\ eventSink \in Engines
             /\ channel' = [channel EXCEPT ![eventSink] = Append(@, message.event)]
    <3>1. Append(channel[eventSink], message.event) \in Seq(Events)
      BY <2>1, <2>2, <1>2, AppendProperties
    <3> QED BY <2>1, <2>2, <3>1
  <2> QED BY <2>1, <2>2, <1>3
<1>5. TypeOK'
  BY <1>1, <1>3, <1>4 DEF MainLooper, dart, IInv, TypeOK
<1>6. ListensAsCalled'
  BY DEF MainLooper, dart, IInv, ListensAsCalled
<1>7. EventsInOrder'
  <2> SUFFICES ASSUME NEW d \in Engines
               PROVE  InOrder(looper', channel'[d], heard[d], sent, unheard[d])
    BY DEF EventsInOrder, MainLooper, dart
  <2>1. /\ InOrder(looper, channel[d], heard[d], sent, unheard[d]) /\ sent \in Nat
        /\ unheard[d] \in Nat
        /\ channel[d] \in Seq(Events) /\ heard[d] \in [Streams -> Seq(1..MaxEvents)]
    BY BoundsAssumption DEF IInv, EventsInOrder, TypeOK
  <2>2. CASE channel'[d] = channel[d]
    BY <2>1, <2>2, <1>1, FewerMessages
  <2>3. CASE channel'[d] = Append(channel[d], message.event) /\ IsEvent(message)
    BY <2>1, <2>3, <1>1, MoreInChannel DEF message
  <2> QED BY <2>2, <2>3, <1>3 DEF IInv, TypeOK
<1> QED BY <1>5, <1>6, <1>7 DEF IInv

LEMMA NextInv ==
    ASSUME IInv, [Next]_vars
    PROVE  IInv'
<1>1. ASSUME NEW e \in Engines, OnAttachedToEngine(e)
      PROVE  IInv'
  BY <1>1, AttachInv
<1>2. ASSUME NEW e \in Engines, OnDetachedFromEngine(e)
      PROVE  IInv'
  BY <1>2, DetachInv
<1>3. ASSUME NEW e \in Engines, App(e)
      PROVE  IInv'
  BY <1>3, InitSipModuleInv, ListeningInv, ListenerInv DEF App
<1>4. ASSUME NEW s \in Streams, SendEvent(s)
      PROVE  IInv'
  BY <1>4, SendEventInv
<1>5. CASE MainLooper
  BY <1>5, MainLooperInv
<1>6. CASE UNCHANGED vars
  <2>1. TypeOK'
    BY <1>6 DEF IInv, TypeOK, vars, android, dart
  <2> QED BY <1>6, <2>1, OrderStays DEF vars, dart
<1> QED BY <1>1, <1>2, <1>3, <1>4, <1>5, <1>6 DEF Next

LEMMA OrderIsHeard == IInv => HeardOnceInOrder
BY DEF IInv, EventsInOrder, InOrder, HeardInOrder, HeardOnceInOrder, Before

(* The variables of Delivery keep their types, and eventSink is never that *)
(* of an engine that is gone, whatever the application does.               *)
THEOREM TypeCorrect == Spec => []TypeOK
<1>1. IInv /\ [Next]_vars => IInv'
  BY NextInv
<1>2. IInv => TypeOK
  BY DEF IInv
<1> QED BY <1>1, <1>2, InitInv, PTL DEF Spec

(* No application hears an event before one that was sent earlier, or      *)
(* twice, unless at least two of its calls of initSipModule found nobody   *)
(* listening to calls; for any engines, one after the other or together,   *)
(* and any number of events and of calls.                                  *)
THEOREM HeardAsSent == Spec => []HeardOnceInOrder
<1>1. IInv /\ [Next]_vars => IInv'
  BY NextInv
<1> QED BY <1>1, InitInv, OrderIsHeard, PTL DEF Spec
=============================================================================
