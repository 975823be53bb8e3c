----------------------------- MODULE IosProofs -----------------------------
(***************************************************************************)
(* Proofs about IosClient, for any calls, UAs, methods, faults and length  *)
(* of the main queue: the events of calls implement CallStatus, and when   *)
(* no block waits the current call is not one that has ended nor, where    *)
(* calls come in turn, another than the one that lives.                    *)
(***************************************************************************)
EXTENDS IosClient, SequenceTheorems, TLAPS

-----------------------------------------------------------------------------
(* Types.                                                                  *)

\* The events of accounts and of calls tell the blocks apart.
LEMMA BlockTypes ==
    /\ \A e \in AccountEvents, u \in Uas : Block(e, u) \in Blocks
    /\ \A e \in CallEvents, c \in CallIds : Block(e, c) \in Blocks
    /\ \A b \in Blocks : b.event \in CallEvents => b.of \in CallIds
    /\ \A b \in Blocks : b.event \in AccountEvents => b.event \notin CallEvents
BY DEF Blocks, AccountEvents, CallEvents, Block

LEMMA RaiseType ==
    ASSUME NEW q \in Seq(Blocks), NEW b \in Blocks, NEW d \in Blocks
    PROVE  q \o <<b>> \in Seq(Blocks) /\ q \o <<b, d>> \in Seq(Blocks)
<1>1. <<b>> \in Seq(Blocks) /\ <<b, d>> \in Seq(Blocks)
  OBVIOUS
<1> QED BY <1>1, ConcatProperties

LEMMA TailType ==
    ASSUME NEW T, NEW q \in Seq(T), q # <<>>
    PROVE  Head(q) \in T /\ Tail(q) \in Seq(T)
BY HeadTailProperties

Ops == [op : {"registry"}]

LEMMA UnregisterTypes ==
    ASSUME TypeOK, Unregister
    PROVE  /\ queue' \in Seq(Blocks) /\ pending' \subseteq Transactions
           /\ wanted' \in [Uas -> {"none", "register", "unregister"}]
           /\ outcome' \in [Uas -> {"none", "ok", "failed"}]
<1>1. CASE ua = NoUa
  BY <1>1 DEF Unregister, registrar, TypeOK
<1>2. CASE ua # NoUa
  <2>1. ua \in Uas /\ Block("unregistering", ua) \in Blocks
    BY <1>2, BlockTypes DEF TypeOK, AccountEvents
  <2>2. queue' = queue \o <<Block("unregistering", ua)>>
    BY <1>2 DEF Unregister, Raise
  <2>3. queue' \in Seq(Blocks)
    BY <2>1, <2>2, RaiseType DEF TypeOK
  <2>4. [ua |-> ua, kind |-> "unregister"] \in Transactions
    BY <2>1 DEF Transactions
  <2> QED BY <1>2, <2>1, <2>3, <2>4 DEF Unregister, registrar, TypeOK
<1> QED BY <1>1, <1>2

LEMMA ScriptTypes ==
    ASSUME TypeOK
    PROVE  /\ Start("main", <<[op |-> "registry"]>>) => todo' \in [{"main"} -> Seq(Ops)]
           /\ At("main", "registry") /\ Continue("main", <<>>) => todo' \in [{"main"} -> Seq(Ops)]
<1>1. todo \in [{"main"} -> Seq(Ops)]
  BY DEF TypeOK, Ops
<1>2. <<[op |-> "registry"]>> \in Seq(Ops)
  BY DEF Ops
<1>3. ASSUME At("main", "registry") PROVE <<>> \o Tail(todo["main"]) \in Seq(Ops)
  <2>1. Tail(todo["main"]) \in Seq(Ops)
    BY <1>1, <1>3, TailType DEF At
  <2>2. <<>> \in Seq(Ops)
    OBVIOUS
  <2> QED BY <2>1, <2>2, ConcatProperties
<1>4. Start("main", <<[op |-> "registry"]>>) => todo' \in [{"main"} -> Seq(Ops)]
  BY <1>1, <1>2 DEF Start
<1>5. At("main", "registry") /\ Continue("main", <<>>) => todo' \in [{"main"} -> Seq(Ops)]
  BY <1>1, <1>3 DEF Continue
<1> QED BY <1>4, <1>5

LEMMA RegistryTypes ==
    ASSUME TypeOK, Registry
    PROVE  TypeOK'
<1>1. todo' \in [{"main"} -> Seq([op : {"registry"}])]
  BY ScriptTypes DEF Registry, Ops
<1>2. CASE UNCHANGED <<ua, queue, registrar>>
  BY <1>1, <1>2 DEF Registry, TypeOK, registrar
<1>3. ASSUME NEW u \in Uas, ua' = u, wanted' = [wanted EXCEPT ![u] = "register"],
             \/ /\ Raise(<<Block("registering", u)>>)
                /\ pending' = pending \union {[ua |-> u, kind |-> "register"]}
                /\ UNCHANGED outcome
             \/ /\ Raise(<<Block("registering", u), Block("failed", u)>>)
                /\ outcome' = [outcome EXCEPT ![u] = "failed"]
                /\ UNCHANGED pending
      PROVE  TypeOK'
  <2>1. Block("registering", u) \in Blocks /\ Block("failed", u) \in Blocks
    BY BlockTypes DEF AccountEvents
  <2>2. queue' \in Seq(Blocks)
    <3>1. queue \in Seq(Blocks)
      BY DEF TypeOK
    <3>2. CASE queue' = queue \o <<Block("registering", u)>>
      BY <2>1, <3>1, <3>2, RaiseType
    <3>3. CASE queue' = queue \o <<Block("registering", u), Block("failed", u)>>
      BY <2>1, <3>1, <3>3, RaiseType
    <3> QED BY <1>3, <3>2, <3>3 DEF Raise
  <2>3. pending' \subseteq Transactions
    BY <1>3 DEF TypeOK, Transactions
  <2>4. outcome' \in [Uas -> {"none", "ok", "failed"}]
    BY <1>3 DEF TypeOK
  <2> QED BY <1>1, <1>3, <2>2, <2>3, <2>4 DEF Registry, TypeOK
<1> QED BY <1>2, <1>3, Zenon DEF Registry

LEMMA CallBlockRaised ==
    ASSUME TypeOK, NEW e \in CallEvents, NEW c \in CallIds, Raise(<<Block(e, c)>>)
    PROVE  queue' \in Seq(Blocks)
BY BlockTypes, RaiseType DEF Raise, TypeOK

LEMMA CallTypes ==
    ASSUME TypeOK, Call
    PROVE  TypeOK'
<1>1. CASE \E c \in CallIds :
             /\ Raise(<<Block("outgoing", c)>>)
             /\ \/ /\ phase' = [phase EXCEPT ![c] = "outgoing"]
                   /\ currentCall' = c
                \/ /\ phase' = [phase EXCEPT ![c] = "failed"]
                   /\ currentCall' = NoHandle
  <2>1. queue' \in Seq(Blocks)
    BY <1>1, CallBlockRaised DEF CallEvents
  <2> QED BY <1>1, <2>1 DEF Call, TypeOK, registrar, Phases
<1>2. CASE currentCall' = NoHandle /\ UNCHANGED <<queue, phase>>
  BY <1>2 DEF Call, TypeOK, registrar
<1> QED BY <1>1, <1>2, Zenon DEF Call

LEMMA HangupTypes ==
    ASSUME TypeOK, NEW c \in CallIds, Hangup(c)
    PROVE  TypeOK'
<1>1. CASE Over(c)
  BY <1>1 DEF Hangup, TypeOK, manager, registrar
<1>2. CASE ~ Over(c)
  <2>1. queue' \in Seq(Blocks)
    BY <1>2, CallBlockRaised DEF CallEvents, Hangup
  <2> QED BY <1>2, <2>1 DEF Hangup, TypeOK, manager, registrar, Phases
<1> QED BY <1>1, <1>2

LEMMA PeerTypes ==
    ASSUME TypeOK, NEW c \in CallIds, NEW before, NEW after \in Phases, NEW e \in CallEvents,
           Peer(c, before, after, e)
    PROVE  TypeOK'
<1>1. queue' \in Seq(Blocks)
  BY CallBlockRaised DEF Peer
<1> QED BY <1>1 DEF Peer, TypeOK, manager, registrar

LEMMA AnswerTypes ==
    ASSUME TypeOK, NEW tr \in Transactions, AnswerTransaction(tr)
    PROVE  TypeOK'
<1>1. PICK ok \in BOOLEAN :
          /\ Raise(<<Block(IF ok THEN "registered" ELSE "failed", tr.ua)>>)
          /\ outcome' = [outcome EXCEPT ![tr.ua] =
                            CASE tr.kind # wanted[tr.ua] -> @
                              [] ok -> "ok"
                              [] OTHER -> "failed"]
  BY DEF AnswerTransaction
<1>2. tr.ua \in Uas
  BY DEF Transactions
<1>3. Block(IF ok THEN "registered" ELSE "failed", tr.ua) \in Blocks
  BY <1>2, BlockTypes DEF AccountEvents
<1>4. queue' \in Seq(Blocks)
  BY <1>1, <1>3, RaiseType DEF Raise, TypeOK
<1>5. outcome' \in [Uas -> {"none", "ok", "failed"}]
  <2>1. CASE tr.kind # wanted[tr.ua]
    BY <1>1, <1>2, <2>1 DEF TypeOK
  <2>2. CASE tr.kind = wanted[tr.ua]
    BY <1>1, <1>2, <2>2 DEF TypeOK
  <2> QED BY <2>1, <2>2
<1> QED BY <1>4, <1>5 DEF AnswerTransaction, TypeOK, manager

HistoryTypes == Seq({"Ring", "Up", "Hangup"})

LEMMA BlockHandledTypes ==
    ASSUME TypeOK, HandleBlock
    PROVE  TypeOK'
<1> DEFINE b == Head(queue)
<1>1. b \in Blocks /\ queue' \in Seq(Blocks)
  BY TailType DEF HandleBlock, TypeOK
<1>2. CASE OnAccount(b)
  <2>1. State(b.event) \in States
    BY <1>2 DEF OnAccount, AccountEvents, State, States
  <2> QED BY <1>1, <1>2, <2>1 DEF OnAccount, HandleBlock, TypeOK, registrar
<1>3. CASE OnCall(b)
  <2>1. b.of \in CallIds
    BY <1>1, <1>3, BlockTypes DEF OnCall
  <2>2. CurrentAfter(b) \in CallIds \union {NoCall}
    BY <2>1 DEF CurrentAfter
  <2>3. Told(b) \in HistoryTypes
    <3>1. /\ <<"Ring">> \in HistoryTypes /\ <<"Up">> \in HistoryTypes
          /\ <<"Hangup">> \in HistoryTypes /\ <<>> \in HistoryTypes
      BY DEF HistoryTypes
    <3> QED BY <3>1 DEF Told
  <2>4. told[b.of] \o Told(b) \in HistoryTypes
    BY <2>1, <2>3, ConcatProperties DEF TypeOK, HistoryTypes
  <2>5. told' \in [CallIds -> HistoryTypes]
    BY <1>3, <2>1, <2>4 DEF OnCall, TypeOK, HistoryTypes
  <2> QED BY <1>1, <1>3, <2>2, <2>5 DEF OnCall, HandleBlock, TypeOK, registrar, HistoryTypes
<1> QED BY <1>2, <1>3 DEF HandleBlock

LEMMA InitTypes ==
    ASSUME Init
    PROVE  TypeOK
<1>1. /\ queue \in Seq(Blocks)
      /\ told \in [CallIds -> Seq({"Ring", "Up", "Hangup"})]
      /\ todo \in [{"main"} -> Seq([op : {"registry"}])]
  <2>1. \A T : <<>> \in Seq(T)
    OBVIOUS
  <2> QED BY <2>1 DEF Init
<1>2. /\ mode \in Modes /\ ua \in Uas \union {NoUa} /\ cacheStateAccount \in States
      /\ currentCall \in CallIds \union {NoCall, NoHandle} /\ misused \in BOOLEAN
      /\ pending \subseteq Transactions
  BY DEF Init, States
<1>3. /\ phase \in [CallIds -> Phases]
      /\ wanted \in [Uas -> {"none", "register", "unregister"}]
      /\ outcome \in [Uas -> {"none", "ok", "failed"}]
  BY DEF Init, Phases
<1> QED BY <1>1, <1>2, <1>3 DEF TypeOK

LEMMA NextTypes == TypeOK /\ [Next]_vars => TypeOK'
<1> SUFFICES ASSUME TypeOK, [Next]_vars PROVE TypeOK'
  OBVIOUS
<1>1. CASE InitSipModule
  <2>1. CASE ua # NoUa /\ outcome[ua] = "ok"
    BY <1>1, <2>1, UnregisterTypes, ScriptTypes DEF InitSipModule, TypeOK, manager, Ops
  <2>2. CASE ~ (ua # NoUa /\ outcome[ua] = "ok")
    BY <1>1, <2>2, ScriptTypes DEF InitSipModule, TypeOK, manager, registrar, Ops
  <2> QED BY <2>1, <2>2
<1>2. CASE RefreshSipAccount
  <2>1. todo' \in [{"main"} -> Seq(Ops)]
    BY <1>2, ScriptTypes DEF RefreshSipAccount
  <2> QED BY <1>2, <2>1 DEF RefreshSipAccount, TypeOK, manager, registrar, Ops
<1>3. CASE UnregisterSipAccount
  <2>1. Unregister
    BY <1>3 DEF UnregisterSipAccount
  <2> QED BY <1>3, <2>1, UnregisterTypes DEF UnregisterSipAccount, TypeOK, manager
<1>4. CASE Registry
  BY <1>4, RegistryTypes
<1>5. CASE Call
  BY <1>5, CallTypes
<1>6. CASE HandleBlock
  BY <1>6, BlockHandledTypes
<1>7. ASSUME NEW c \in CallIds, Answer(c) PROVE TypeOK'
  BY <1>7 DEF Answer, TypeOK, manager, registrar, Phases, Over
<1>8. ASSUME NEW c \in CallIds, Hangup(c) PROVE TypeOK'
  BY <1>8, HangupTypes
<1>9. ASSUME NEW c \in CallIds, Hold("pause", c) \/ Hold("resume", c) PROVE TypeOK'
  <2>1. misused' \in BOOLEAN
    <3>1. misused' = Over(c)
      BY <1>9, Zenon DEF Hold
    <3>2. Over(c) \in BOOLEAN
      BY SMT DEF Over
    <3> QED BY <3>1, <3>2
  <2>2. UNCHANGED <<mode, manager, queue, phase, registrar, told, todo>>
    BY <1>9, Zenon DEF Hold
  <2> QED BY <2>1, <2>2 DEF TypeOK, manager, registrar
<1>10. ASSUME NEW c \in CallIds, Incoming(c) \/ Progress(c) \/ Established(c) \/ Close(c)
       PROVE  TypeOK'
  BY <1>10, PeerTypes DEF Incoming, Progress, Established, Close, Phases, CallEvents
<1>11. ASSUME NEW tr \in Transactions, AnswerTransaction(tr) PROVE TypeOK'
  BY <1>11, AnswerTypes
<1>12. ASSUME NEW u \in Uas, PeriodicRefresh(u) PROVE TypeOK'
  BY <1>12 DEF PeriodicRefresh, TypeOK, manager, Transactions
<1>13. CASE UNCHANGED vars
  BY <1>13 DEF vars, TypeOK, manager, registrar
<1> QED BY <1>1, <1>2, <1>3, <1>4, <1>5, <1>6, <1>7, <1>8, <1>9, <1>10, <1>11, <1>12, <1>13,
           Zenon DEF Next

(* Every variable keeps its type: the state of an account is one of        *)
(* RegisterSipState, the current call a call, and blocks are of what they  *)
(* are about (SipManager.swift, ua_event_handler).                         *)
THEOREM TypeCorrect == Spec => []TypeOK
<1>1. Init => TypeOK
  BY InitTypes
<1>2. TypeOK /\ [Next]_vars => TypeOK'
  BY NextTypes
<1> QED BY <1>1, <1>2, PTL DEF Spec

-----------------------------------------------------------------------------
(* The order of the blocks of a call.  Its beginning is the first that is  *)
(* told of it, its end is raised once, and after its end nothing is.       *)

R == <<"Ring">>
RU == <<"Ring", "Up">>
RH == <<"Ring", "Hangup">>
RUH == <<"Ring", "Up", "Hangup">>

About(b, c) == b.event \in CallEvents /\ b.of = c
Begins(b, c) == b.event \in {"outgoing", "incoming"} /\ b.of = c
Establishes(b, c) == b.event = "established" /\ b.of = c
Closes(b, c) == b.event = "closed" /\ b.of = c

\* Whatever is told of a call, its beginning came before.
BeginsFirst(c, q, p, t) ==
    /\ p = "none" => t = <<>> /\ \A i \in 1 .. Len(q) : ~ About(q[i], c)
    /\ p # "none" /\ t = <<>> => \E i \in 1 .. Len(q) : Begins(q[i], c)
    /\ \A i \in 1 .. Len(q) : Begins(q[i], c) =>
          t = <<>> /\ \A j \in 1 .. i - 1 : ~ About(q[j], c)

\* It is established at most once, and not after its end.
EstablishedOnce(c, q, p, t) ==
    /\ t = RU => p \in {"up", "gone"}
    /\ \A i \in 1 .. Len(q) : Establishes(q[i], c) =>
          /\ p \in {"up", "gone"} /\ t \in {<<>>, R}
          /\ \A j \in 1 .. i - 1 : ~ Establishes(q[j], c) /\ ~ Closes(q[j], c)

\* It ends once.
ClosedOnce(c, q, p, t) ==
    /\ t \in {RH, RUH} => p = "gone"
    /\ \A i \in 1 .. Len(q) : Closes(q[i], c) =>
          /\ p = "gone" /\ t \in {<<>>, R, RU}
          /\ \A j \in 1 .. i - 1 : ~ Closes(q[j], c)

Ordered(c, q, p, t) ==
    /\ t \in {<<>>, R, RU, RH, RUH}
    /\ BeginsFirst(c, q, p, t) /\ EstablishedOnce(c, q, p, t) /\ ClosedOnce(c, q, p, t)

\* The current call exists; none that has ended becomes it again for good.
CurrentInOrder(c, q, p, current) ==
    /\ current = c => p # "none"
    /\ p = "gone" =>
        /\ current = c => \E i \in 1 .. Len(q) : Closes(q[i], c)
        /\ \A i \in 1 .. Len(q) : About(q[i], c) =>
              \E j \in i .. Len(q) : Closes(q[j], c)

EventsInOrder ==
    \A c \in CallIds : /\ Ordered(c, queue, phase[c], told[c])
                       /\ CurrentInOrder(c, queue, phase[c], currentCall)

IInv == TypeOK /\ EventsInOrder

Longer(s, e, t) ==
    Len(t) = Len(s) + 1 /\ (\A i \in 1 .. Len(s) : t[i] = s[i]) /\ t[Len(s) + 1] = e

LEMMA Grows ==
    ASSUME NEW s \in HistoryTypes, NEW e \in {"Ring", "Up", "Hangup"},
           NEW t \in HistoryTypes, Longer(s, e, t)
    PROVE  s \o <<e>> = t /\ Append(s, e) = t
<1>1. s \o <<e>> = Append(s, e)
  BY AppendIsConcat DEF HistoryTypes
<1> DEFINE a == Append(s, e)
<1>2. /\ a \in HistoryTypes /\ Len(a) = Len(s) + 1 /\ Len(s) \in Nat
      /\ \A i \in 1 .. Len(s) : a[i] = s[i]
      /\ a[Len(s) + 1] = e
  BY AppendProperties DEF HistoryTypes
<1> HIDE DEF a
<1>3. Len(a) = Len(t) /\ \A i \in 1 .. Len(a) : a[i] = t[i]
  BY <1>2 DEF Longer
<1>4. a = t
  BY <1>2, <1>3, SeqEqual DEF HistoryTypes
<1> QED BY <1>1, <1>4 DEF a

LEMMA Histories ==
    /\ <<>> # R /\ <<>> # RU /\ <<>> # RH /\ <<>> # RUH
    /\ R # RU /\ R # RH /\ R # RUH /\ RU # RH /\ RU # RUH /\ RH # RUH
    /\ <<>> \o <<"Ring">> = R /\ Append(<<>>, "Ring") = R
    /\ R \o <<"Up">> = RU /\ Append(R, "Up") = RU
    /\ R \o <<"Hangup">> = RH /\ Append(R, "Hangup") = RH
    /\ RU \o <<"Hangup">> = RUH /\ Append(RU, "Hangup") = RUH
<1>1. /\ <<>> # R /\ <<>> # RU /\ <<>> # RH /\ <<>> # RUH
      /\ R # RU /\ R # RH /\ R # RUH
  BY DEF R, RU, RH, RUH
<1>2. RU # RH /\ RU # RUH /\ RH # RUH
  <2>1. RU[2] = "Up" /\ RH[2] = "Hangup" /\ RUH[2] = "Up" /\ Len(RU) = 2 /\ Len(RUH) = 3
    BY DEF RU, RH, RUH
  <2> QED BY <2>1
<1>3. /\ <<>> \in HistoryTypes /\ R \in HistoryTypes /\ RU \in HistoryTypes
      /\ RH \in HistoryTypes /\ RUH \in HistoryTypes
  BY DEF R, RU, RH, RUH, HistoryTypes
<1>4. /\ Len(<<>>) = 0 /\ Len(R) = 1 /\ Len(RU) = 2 /\ Len(RH) = 2 /\ Len(RUH) = 3
      /\ R[1] = "Ring" /\ RU[1] = "Ring" /\ RH[1] = "Ring" /\ RUH[1] = "Ring"
      /\ RU[2] = "Up" /\ RH[2] = "Hangup" /\ RUH[2] = "Up" /\ RUH[3] = "Hangup"
  BY DEF R, RU, RH, RUH
<1> HIDE DEF R, RU, RH, RUH
<1>5. Longer(<<>>, "Ring", R) /\ Longer(R, "Up", RU) /\ Longer(R, "Hangup", RH)
  BY <1>4 DEF Longer
<1>6. Longer(RU, "Hangup", RUH)
  <2>1. \A i \in 1 .. 2 : i = 1 \/ i = 2
    OBVIOUS
  <2> QED BY <1>4, <2>1 DEF Longer
<1> QED BY <1>1, <1>2, <1>3, <1>5, <1>6, Grows

LEMMA Kinds ==
    ASSUME NEW b, NEW c
    PROVE  /\ Begins(b, c) \/ Establishes(b, c) \/ Closes(b, c) => About(b, c)
           /\ ~ (Begins(b, c) /\ Establishes(b, c))
           /\ ~ (Begins(b, c) /\ Closes(b, c))
           /\ ~ (Establishes(b, c) /\ Closes(b, c))
BY DEF About, Begins, Establishes, Closes, CallEvents

LEMMA AddBlock ==
    ASSUME NEW q \in Seq(Blocks), NEW x \in Blocks
    PROVE  /\ q \o <<x>> \in Seq(Blocks)
           /\ Len(q \o <<x>>) = Len(q) + 1
           /\ \A i \in 1 .. Len(q) : (q \o <<x>>)[i] = q[i]
           /\ (q \o <<x>>)[Len(q) + 1] = x
           /\ Len(q) \in Nat
<1>1. /\ <<x>> \in Seq(Blocks) /\ Len(<<x>>) = 1 /\ <<x>>[1] = x
      /\ Len(q) \in Nat
  OBVIOUS
<1> QED BY <1>1, ConcatProperties

\* What a block appended to the main queue must be for the order to stay.
Fits(c, x, before, after) ==
    \/ ~ About(x, c) /\ after = before
    \/ Begins(x, c) /\ before = "none" /\ after \in {"outgoing", "incoming", "failed"}
    \/ x.event \in {"ringing", "progress"} /\ x.of = c /\ after = before
       /\ before = "outgoing"
    \/ Establishes(x, c) /\ before \in {"outgoing", "answered"} /\ after = "up"
    \/ Closes(x, c) /\ before \in {"outgoing", "incoming", "answered", "up"} /\ after = "gone"

LEMMA FitsKeepsOrder ==
    ASSUME NEW c, NEW q \in Seq(Blocks), NEW x \in Blocks, NEW before, NEW after, NEW t,
           Fits(c, x, before, after), Ordered(c, q, before, t)
    PROVE  Ordered(c, q \o <<x>>, after, t)
<1> DEFINE r == q \o <<x>>
<1> DEFINE n == Len(q)
<1>1. /\ n \in Nat /\ Len(r) = n + 1
      /\ \A i \in 1 .. n : r[i] = q[i]
      /\ r[n + 1] = x
  BY AddBlock
<1>2. \A b : /\ Begins(b, c) \/ Establishes(b, c) \/ Closes(b, c) => About(b, c)
             /\ ~ (Begins(b, c) /\ Establishes(b, c))
             /\ ~ (Begins(b, c) /\ Closes(b, c))
             /\ ~ (Establishes(b, c) /\ Closes(b, c))
  BY Kinds
<1>3. /\ before = "none" => after \in {"none", "outgoing", "incoming", "failed"}
      /\ before # "none" => after # "none"
      /\ before \in {"up", "gone"} => after \in {"up", "gone"}
      /\ before = "gone" => after = "gone"
      /\ after = "none" => ~ About(x, c)
      /\ before = "none" /\ after # "none" => Begins(x, c)
      /\ Begins(x, c) => before = "none"
      /\ Establishes(x, c) => before \notin {"none", "up", "gone"} /\ after = "up"
      /\ Closes(x, c) => before \notin {"none", "gone"} /\ after = "gone"
  BY <1>2 DEF Fits, Begins, Establishes, Closes
<1> HIDE DEF r, n
<1>4. BeginsFirst(c, r, after, t)
  BY <1>1, <1>2, <1>3 DEF Ordered, BeginsFirst, n
<1>7. \A i \in 1 .. Len(r) :
          \/ i \in 1 .. n /\ r[i] = q[i] /\ \A j \in 1 .. i - 1 : r[j] = q[j]
          \/ i = n + 1 /\ r[i] = x /\ \A j \in 1 .. i - 1 : j \in 1 .. n /\ r[j] = q[j]
  BY <1>1
<1>5. EstablishedOnce(c, r, after, t)
  <2>1. t = RU => after \in {"up", "gone"}
    BY <1>3 DEF Ordered, EstablishedOnce
  <2>2. ASSUME NEW i \in 1 .. Len(r), Establishes(r[i], c)
        PROVE  /\ after \in {"up", "gone"} /\ t \in {<<>>, R}
               /\ \A j \in 1 .. i - 1 : ~ Establishes(r[j], c) /\ ~ Closes(r[j], c)
    <3>1. CASE i \in 1 .. n /\ r[i] = q[i] /\ \A j \in 1 .. i - 1 : r[j] = q[j]
      <4>1. /\ before \in {"up", "gone"} /\ t \in {<<>>, R}
            /\ \A j \in 1 .. i - 1 : ~ Establishes(q[j], c) /\ ~ Closes(q[j], c)
        BY <2>2, <3>1 DEF Ordered, EstablishedOnce, n
      <4> QED BY <1>3, <3>1, <4>1
    <3>2. CASE i = n + 1 /\ r[i] = x /\ \A j \in 1 .. i - 1 : j \in 1 .. n /\ r[j] = q[j]
      <4>1. Establishes(x, c) /\ before \notin {"none", "up", "gone"} /\ after = "up"
        BY <1>3, <2>2, <3>2
      <4>2. t \in {<<>>, R}
        BY <4>1 DEF Ordered, EstablishedOnce, ClosedOnce
      <4>3. \A j \in 1 .. n : ~ Establishes(q[j], c)
        BY <4>1 DEF Ordered, EstablishedOnce, n
      <4>4. \A j \in 1 .. n : ~ Closes(q[j], c)
        BY <4>1 DEF Ordered, ClosedOnce, n
      <4> QED BY <3>2, <4>1, <4>2, <4>3, <4>4
    <3> QED BY <1>7, <3>1, <3>2
  <2> QED BY <2>1, <2>2 DEF EstablishedOnce
<1>6. ClosedOnce(c, r, after, t)
  <2>1. t \in {RH, RUH} => after = "gone"
    BY <1>3 DEF Ordered, ClosedOnce
  <2>2. ASSUME NEW i \in 1 .. Len(r), Closes(r[i], c)
        PROVE  /\ after = "gone" /\ t \in {<<>>, R, RU}
               /\ \A j \in 1 .. i - 1 : ~ Closes(r[j], c)
    <3>1. CASE i \in 1 .. n /\ r[i] = q[i] /\ \A j \in 1 .. i - 1 : r[j] = q[j]
      <4>1. /\ before = "gone" /\ t \in {<<>>, R, RU}
            /\ \A j \in 1 .. i - 1 : ~ Closes(q[j], c)
        BY <2>2, <3>1 DEF Ordered, ClosedOnce, n
      <4> QED BY <1>3, <3>1, <4>1
    <3>2. CASE i = n + 1 /\ r[i] = x /\ \A j \in 1 .. i - 1 : j \in 1 .. n /\ r[j] = q[j]
      <4>1. before \notin {"none", "gone"} /\ after = "gone"
        BY <1>3, <2>2, <3>2
      <4>2. t \in {<<>>, R, RU}
        BY <4>1 DEF Ordered, ClosedOnce
      <4>3. \A j \in 1 .. n : ~ Closes(q[j], c)
        BY <4>1 DEF Ordered, ClosedOnce, n
      <4> QED BY <3>2, <4>1, <4>2, <4>3
    <3> QED BY <1>7, <3>1, <3>2
  <2> QED BY <2>1, <2>2 DEF ClosedOnce
<1> QED BY <1>4, <1>5, <1>6 DEF Ordered, r

LEMMA FitsKeepsCurrent ==
    ASSUME NEW c, NEW q \in Seq(Blocks), NEW x \in Blocks, NEW before, NEW after,
           NEW current, NEW next, next = current \/ (next = c => after \notin {"gone", "none"}),
           Fits(c, x, before, after), CurrentInOrder(c, q, before, current)
    PROVE  CurrentInOrder(c, q \o <<x>>, after, next)
<1> DEFINE r == q \o <<x>>
<1> DEFINE n == Len(q)
<1>1. /\ n \in Nat /\ Len(r) = n + 1
      /\ \A i \in 1 .. n : r[i] = q[i]
      /\ r[n + 1] = x
  BY AddBlock
<1>5. next = c => after # "none"
  BY DEF Fits, CurrentInOrder
<1>2. after = "gone" => Closes(x, c) \/ (before = "gone" /\ ~ About(x, c))
  BY DEF Fits
<1> HIDE DEF r, n
<1>3. CASE Closes(x, c)
  BY <1>1, <1>3, <1>5 DEF CurrentInOrder, r
<1>4. CASE before = "gone" /\ ~ About(x, c)
  BY <1>1, <1>4, <1>5 DEF CurrentInOrder, r, n
<1> QED BY <1>2, <1>3, <1>4, <1>5 DEF CurrentInOrder

LEMMA TakeBlock ==
    ASSUME NEW q \in Seq(Blocks), q # <<>>
    PROVE  /\ Head(q) \in Blocks /\ q[1] = Head(q) /\ Len(q) \in Nat /\ Len(q) >= 1
           /\ Len(Tail(q)) = Len(q) - 1
           /\ \A i \in 1 .. Len(q) - 1 : Tail(q)[i] = q[i + 1]
BY HeadTailProperties

LEMMA TailKeepsOrder ==
    ASSUME NEW c, NEW q \in Seq(Blocks), q # <<>>, NEW p, NEW t, NEW u,
           Ordered(c, q, p, t),
           \/ ~ Begins(Head(q), c) /\ ~ Establishes(Head(q), c) /\ ~ Closes(Head(q), c)
              /\ u = t
           \/ Begins(Head(q), c) /\ u = t \o <<"Ring">>
           \/ Establishes(Head(q), c) /\ u = t \o <<"Up">>
           \/ Closes(Head(q), c) /\ u = t \o <<"Hangup">>
    PROVE  /\ Ordered(c, Tail(q), p, u)
           /\ About(Head(q), c) => p # "none"
           /\ Begins(Head(q), c) => t = <<>>
           /\ Establishes(Head(q), c) => t = R
           /\ Closes(Head(q), c) => t \in {R, RU}
<1> DEFINE h == Head(q)
<1> DEFINE r == Tail(q)
<1> DEFINE n == Len(q)
<1>1. /\ h = q[1] /\ n \in Nat /\ n >= 1 /\ Len(r) = n - 1
      /\ \A i \in 1 .. n - 1 : r[i] = q[i + 1]
  BY TakeBlock
<1>2. \A b : /\ Begins(b, c) \/ Establishes(b, c) \/ Closes(b, c) => About(b, c)
             /\ ~ (Begins(b, c) /\ Establishes(b, c))
             /\ ~ (Begins(b, c) /\ Closes(b, c))
             /\ ~ (Establishes(b, c) /\ Closes(b, c))
  BY Kinds
<1> HIDE DEF h, r, n
<1>3. About(h, c) /\ ~ Begins(h, c) /\ p # "none" => t # <<>>
  BY <1>1, <1>2 DEF Ordered, BeginsFirst, n
<1>4. About(h, c) => p # "none"
  BY <1>1 DEF Ordered, BeginsFirst, n
<1>5. Begins(h, c) => t = <<>>
  BY <1>1 DEF Ordered, BeginsFirst, n
<1>6. Establishes(h, c) => t = R /\ p \in {"up", "gone"}
  BY <1>1, <1>2, <1>3, <1>4 DEF Ordered, EstablishedOnce, n
<1>7. Closes(h, c) => t \in {R, RU} /\ p = "gone"
  BY <1>1, <1>2, <1>3, <1>4 DEF Ordered, ClosedOnce, n
<1>8. \/ ~ Begins(h, c) /\ ~ Establishes(h, c) /\ ~ Closes(h, c) /\ u = t
      \/ Begins(h, c) /\ t = <<>> /\ u = R
      \/ Establishes(h, c) /\ t = R /\ u = RU
      \/ Closes(h, c) /\ t = R /\ u = RH
      \/ Closes(h, c) /\ t = RU /\ u = RUH
  BY <1>5, <1>6, <1>7, Histories DEF h
<1>9. \A i \in 1 .. n - 1 :
          r[i] = q[i + 1] /\ i + 1 \in 1 .. n /\ 1 \in 1 .. (i + 1) - 1
  BY <1>1
<1>10. \A i \in 1 .. n - 1 : Begins(r[i], c) => ~ About(h, c) /\ t = <<>>
  BY <1>1, <1>9 DEF Ordered, BeginsFirst, n
<1>11. \A i \in 1 .. n - 1 : Establishes(r[i], c) =>
           ~ Establishes(h, c) /\ ~ Closes(h, c) /\ p \in {"up", "gone"} /\ t \in {<<>>, R}
  BY <1>1, <1>9 DEF Ordered, EstablishedOnce, n
<1>12. \A i \in 1 .. n - 1 : Closes(r[i], c) => ~ Closes(h, c) /\ p = "gone" /\ t \in {<<>>, R, RU}
  BY <1>1, <1>9 DEF Ordered, ClosedOnce, n
<1>13. \A i \in 1 .. n - 1 : \A j \in 1 .. i - 1 :
           r[j] = q[j + 1] /\ j + 1 \in 1 .. (i + 1) - 1
  BY <1>1, <1>9
<1>14. BeginsFirst(c, r, p, u)
  <2>1. p = "none" => u = <<>> /\ \A i \in 1 .. Len(r) : ~ About(r[i], c)
    BY <1>1, <1>2, <1>4, <1>8, <1>9 DEF Ordered, BeginsFirst, n
  <2>2. p # "none" /\ u = <<>> => \E i \in 1 .. Len(r) : Begins(r[i], c)
    <3>1. SUFFICES ASSUME p # "none", u = <<>> PROVE \E i \in 1 .. Len(r) : Begins(r[i], c)
      OBVIOUS
    <3>2. t = <<>> /\ ~ Begins(h, c)
      BY <1>8, <3>1, Histories
    <3>3. PICK i \in 1 .. n : Begins(q[i], c)
      BY <3>1, <3>2 DEF Ordered, BeginsFirst, n
    <3>4. i # 1 /\ i - 1 \in 1 .. Len(r) /\ r[i - 1] = q[i]
      BY <1>1, <3>2, <3>3
    <3> QED BY <3>3, <3>4
  <2>3. \A i \in 1 .. Len(r) : Begins(r[i], c) =>
            u = <<>> /\ \A j \in 1 .. i - 1 : ~ About(r[j], c)
    <3>1. SUFFICES ASSUME NEW i \in 1 .. n - 1, Begins(r[i], c)
                   PROVE  u = <<>> /\ \A j \in 1 .. i - 1 : ~ About(r[j], c)
      BY <1>1
    <3>2. ~ About(h, c) /\ t = <<>>
      BY <1>10, <3>1
    <3>3. u = <<>>
      BY <1>2, <1>8, <3>2
    <3>4. \A j \in 1 .. (i + 1) - 1 : ~ About(q[j], c)
      BY <1>9, <3>1 DEF Ordered, BeginsFirst, n
    <3> QED BY <1>13, <3>3, <3>4
  <2> QED BY <2>1, <2>2, <2>3 DEF BeginsFirst
<1>15. EstablishedOnce(c, r, p, u)
  <2>1. u = RU => p \in {"up", "gone"}
    BY <1>6, <1>8, Histories DEF Ordered, EstablishedOnce
  <2>2. ASSUME NEW i \in 1 .. n - 1, Establishes(r[i], c)
        PROVE  /\ p \in {"up", "gone"} /\ u \in {<<>>, R}
               /\ \A j \in 1 .. i - 1 : ~ Establishes(r[j], c) /\ ~ Closes(r[j], c)
    <3>1. p \in {"up", "gone"} /\ u \in {<<>>, R}
      BY <1>8, <1>11, <2>2
    <3>2. \A j \in 1 .. (i + 1) - 1 : ~ Establishes(q[j], c) /\ ~ Closes(q[j], c)
      BY <1>9, <2>2 DEF Ordered, EstablishedOnce, n
    <3> QED BY <1>13, <3>1, <3>2
  <2> QED BY <1>1, <2>1, <2>2 DEF EstablishedOnce
<1>16. ClosedOnce(c, r, p, u)
  <2>1. u \in {RH, RUH} => p = "gone"
    BY <1>7, <1>8, Histories DEF Ordered, ClosedOnce
  <2>2. ASSUME NEW i \in 1 .. n - 1, Closes(r[i], c)
        PROVE  /\ p = "gone" /\ u \in {<<>>, R, RU}
               /\ \A j \in 1 .. i - 1 : ~ Closes(r[j], c)
    <3>1. p = "gone" /\ u \in {<<>>, R, RU}
      BY <1>8, <1>12, <2>2
    <3>2. \A j \in 1 .. (i + 1) - 1 : ~ Closes(q[j], c)
      BY <1>9, <2>2 DEF Ordered, ClosedOnce, n
    <3> QED BY <1>13, <3>1, <3>2
  <2> QED BY <1>1, <2>1, <2>2 DEF ClosedOnce
<1>17. u \in {<<>>, R, RU, RH, RUH}
  BY <1>8 DEF Ordered
<1> QED BY <1>4, <1>5, <1>6, <1>7, <1>14, <1>15, <1>16, <1>17 DEF Ordered, h, r

\* What may become of the current call when the block h is handled.
Follows(c, h, current, next) ==
    /\ Closes(h, c) => next # c
    /\ ~ About(h, c) => next = current \/ next # c

LEMMA TailKeepsCurrent ==
    ASSUME NEW c, NEW q \in Seq(Blocks), q # <<>>, NEW p, NEW current, NEW next,
           Follows(c, Head(q), current, next), CurrentInOrder(c, q, p, current),
           About(Head(q), c) => p # "none"
    PROVE  CurrentInOrder(c, Tail(q), p, next)
<1> DEFINE h == Head(q)
<1> DEFINE r == Tail(q)
<1> DEFINE n == Len(q)
<1>1. /\ h = q[1] /\ n \in Nat /\ n >= 1 /\ Len(r) = n - 1
      /\ \A i \in 1 .. n - 1 : r[i] = q[i + 1]
  BY TakeBlock
<1>2. Follows(c, h, current, next)
  OBVIOUS
<1>7. next = c => p # "none"
  BY DEF Follows, CurrentInOrder
<1> HIDE DEF h, r, n
<1>3. SUFFICES ASSUME p = "gone"
               PROVE  /\ next = c => \E i \in 1 .. Len(r) : Closes(r[i], c)
                      /\ \A i \in 1 .. Len(r) : About(r[i], c) =>
                            \E j \in i .. Len(r) : Closes(r[j], c)
  BY <1>7 DEF CurrentInOrder, r
<1>4. /\ current = c => \E i \in 1 .. n : Closes(q[i], c)
      /\ \A i \in 1 .. n : About(q[i], c) => \E j \in i .. n : Closes(q[j], c)
  BY <1>3 DEF CurrentInOrder, n
<1>5. ASSUME next = c PROVE \E i \in 1 .. Len(r) : Closes(r[i], c)
  <2>1. ~ Closes(h, c) /\ (About(h, c) \/ current = c)
    BY <1>2, <1>5 DEF Follows
  <2>2. PICK i \in 1 .. n : Closes(q[i], c)
    BY <1>1, <1>4, <2>1
  <2>3. i # 1 /\ i - 1 \in 1 .. Len(r) /\ r[i - 1] = q[i]
    BY <1>1, <2>1, <2>2
  <2> QED BY <2>2, <2>3
<1>6. ASSUME NEW i \in 1 .. Len(r), About(r[i], c)
      PROVE  \E j \in i .. Len(r) : Closes(r[j], c)
  <2>1. i + 1 \in 1 .. n /\ About(q[i + 1], c)
    BY <1>1, <1>6
  <2>2. PICK j \in i + 1 .. n : Closes(q[j], c)
    BY <1>4, <2>1
  <2>3. j - 1 \in i .. Len(r) /\ r[j - 1] = q[j]
    BY <1>1, <2>1, <2>2
  <2> QED BY <2>2, <2>3
<1> QED BY <1>5, <1>6

-----------------------------------------------------------------------------
(* Every step keeps the order.                                             *)

LEMMA AppendTwo ==
    ASSUME NEW q \in Seq(Blocks), NEW a \in Blocks, NEW b \in Blocks
    PROVE  q \o <<a, b>> = (q \o <<a>>) \o <<b>> /\ q \o <<a>> \in Seq(Blocks)
<1>1. /\ <<a>> \in Seq(Blocks) /\ <<b>> \in Seq(Blocks) /\ <<a, b>> \in Seq(Blocks)
      /\ Len(<<a>>) = 1 /\ Len(<<b>>) = 1 /\ Len(<<a, b>>) = 2 /\ Len(q) \in Nat
      /\ <<a>>[1] = a /\ <<b>>[1] = b /\ <<a, b>>[1] = a /\ <<a, b>>[2] = b
  OBVIOUS
<1> DEFINE n == Len(q)
<1> DEFINE l == q \o <<a, b>>
<1> DEFINE m == q \o <<a>>
<1> DEFINE r == m \o <<b>>
<1>2. /\ l \in Seq(Blocks) /\ Len(l) = n + 2
      /\ \A i \in 1 .. n + 2 : l[i] = IF i <= n THEN q[i] ELSE <<a, b>>[i - n]
  BY <1>1, ConcatProperties
<1>3. /\ m \in Seq(Blocks) /\ Len(m) = n + 1
      /\ \A i \in 1 .. n + 1 : m[i] = IF i <= n THEN q[i] ELSE <<a>>[i - n]
  BY <1>1, ConcatProperties
<1> HIDE DEF m
<1>4. /\ r \in Seq(Blocks) /\ Len(r) = n + 2
      /\ \A i \in 1 .. n + 2 : r[i] = IF i <= n + 1 THEN m[i] ELSE <<b>>[i - (n + 1)]
  BY <1>1, <1>3, ConcatProperties
<1> HIDE DEF l, r, n
<1>5. n \in Nat
  BY <1>1 DEF n
<1>6. ASSUME NEW i \in 1 .. n + 2 PROVE l[i] = r[i]
  <2>1. CASE i <= n
    <3>1. i \in 1 .. n + 1 /\ i <= n + 1
      BY <1>5, <2>1
    <3>2. l[i] = q[i]
      BY <1>2, <2>1
    <3>3. m[i] = q[i]
      BY <1>3, <2>1, <3>1
    <3>4. r[i] = m[i]
      BY <1>4, <3>1
    <3> QED BY <3>2, <3>3, <3>4
  <2>2. CASE i = n + 1
    <3>1. i \in 1 .. n + 1 /\ i <= n + 1 /\ ~ (i <= n) /\ i - n = 1
      BY <1>5, <2>2
    <3>2. l[i] = a
      BY <1>1, <1>2, <3>1
    <3>3. m[i] = a
      BY <1>1, <1>3, <3>1
    <3>4. r[i] = m[i]
      BY <1>4, <3>1
    <3> QED BY <3>2, <3>3, <3>4
  <2>3. CASE i = n + 2
    BY <1>1, <1>2, <1>3, <1>4, <1>5, <2>3
  <2> QED BY <1>5, <2>1, <2>2, <2>3
<1>7. l = r
  BY <1>2, <1>4, <1>6, SeqEqual
<1> QED BY <1>3, <1>7 DEF l, r, m

LEMMA AccountBlockFits ==
    ASSUME NEW c, NEW x \in Blocks, x.event \in AccountEvents, NEW p
    PROVE  Fits(c, x, p, p)
<1>1. ~ About(x, c)
  BY BlockTypes DEF About
<1> QED BY <1>1 DEF Fits

LEMMA OrderUnchanged ==
    ASSUME EventsInOrder, UNCHANGED <<queue, phase, told>>, currentCall' \in {currentCall, NoHandle}
    PROVE  EventsInOrder'
<1> SUFFICES ASSUME NEW c \in CallIds
             PROVE  /\ Ordered(c, queue', phase'[c], told'[c])
                    /\ CurrentInOrder(c, queue', phase'[c], currentCall')
  BY DEF EventsInOrder
<1>1. NoHandle # c
  BY NamesAssumption
<1> QED BY <1>1 DEF EventsInOrder, CurrentInOrder

LEMMA AccountBlockKeepsOrder ==
    ASSUME TypeOK, EventsInOrder, NEW x \in Blocks, x.event \in AccountEvents,
           queue' = queue \o <<x>>, UNCHANGED <<phase, told, currentCall>>
    PROVE  EventsInOrder'
<1> SUFFICES ASSUME NEW c \in CallIds
             PROVE  /\ Ordered(c, queue', phase'[c], told'[c])
                    /\ CurrentInOrder(c, queue', phase'[c], currentCall')
  BY DEF EventsInOrder
<1>1. queue \in Seq(Blocks)
  BY DEF TypeOK
<1>2. Fits(c, x, phase[c], phase[c])
  BY AccountBlockFits
<1>3. Ordered(c, queue, phase[c], told[c]) /\ CurrentInOrder(c, queue, phase[c], currentCall)
  BY DEF EventsInOrder
<1> QED BY <1>1, <1>2, <1>3, FitsKeepsOrder, FitsKeepsCurrent

LEMMA AccountBlocksKeepOrder ==
    ASSUME TypeOK, EventsInOrder, NEW x \in Blocks, x.event \in AccountEvents,
           NEW y \in Blocks, y.event \in AccountEvents,
           queue' = queue \o <<x, y>>, UNCHANGED <<phase, told, currentCall>>
    PROVE  EventsInOrder'
<1> SUFFICES ASSUME NEW c \in CallIds
             PROVE  /\ Ordered(c, queue', phase'[c], told'[c])
                    /\ CurrentInOrder(c, queue', phase'[c], currentCall')
  BY DEF EventsInOrder
<1> DEFINE q == queue \o <<x>>
<1>1. queue \in Seq(Blocks) /\ q \in Seq(Blocks) /\ queue' = q \o <<y>>
  BY AppendTwo DEF TypeOK
<1>2. Fits(c, x, phase[c], phase[c]) /\ Fits(c, y, phase[c], phase[c])
  BY AccountBlockFits
<1>3. Ordered(c, queue, phase[c], told[c]) /\ CurrentInOrder(c, queue, phase[c], currentCall)
  BY DEF EventsInOrder
<1>4. Ordered(c, q, phase[c], told[c]) /\ CurrentInOrder(c, q, phase[c], currentCall)
  BY <1>1, <1>2, <1>3, FitsKeepsOrder, FitsKeepsCurrent
<1> HIDE DEF q
<1>5. Ordered(c, q \o <<y>>, phase[c], told[c])
  BY <1>1, <1>2, <1>4, FitsKeepsOrder
<1>6. CurrentInOrder(c, q \o <<y>>, phase[c], currentCall)
  BY <1>1, <1>2, <1>4, FitsKeepsCurrent
<1> QED BY <1>1, <1>5, <1>6

LEMMA CallBlockKeepsOrder ==
    ASSUME TypeOK, EventsInOrder, NEW c \in CallIds, NEW e \in CallEvents, NEW after \in Phases,
           Raise(<<Block(e, c)>>), phase' = [phase EXCEPT ![c] = after], UNCHANGED told,
           \/ currentCall' \in {currentCall, NoHandle}
           \/ currentCall' = c /\ after \notin {"gone", "none"},
           Fits(c, Block(e, c), phase[c], after)
    PROVE  EventsInOrder'
<1> SUFFICES ASSUME NEW d \in CallIds
             PROVE  /\ Ordered(d, queue', phase'[d], told'[d])
                    /\ CurrentInOrder(d, queue', phase'[d], currentCall')
  BY DEF EventsInOrder
<1> DEFINE x == Block(e, c)
<1>1. x \in Blocks /\ queue \in Seq(Blocks) /\ queue' = queue \o <<x>>
  BY BlockTypes DEF TypeOK, Raise
<1>2. Ordered(d, queue, phase[d], told[d]) /\ CurrentInOrder(d, queue, phase[d], currentCall)
  BY DEF EventsInOrder
<1>3. Fits(d, x, phase[d], phase'[d])
  <2>1. CASE d = c
    BY <2>1 DEF TypeOK
  <2>2. CASE d # c
    <3>1. ~ About(x, d) /\ phase'[d] = phase[d]
      BY <2>2 DEF About, Block, TypeOK
    <3> QED BY <3>1 DEF Fits
  <2> QED BY <2>1, <2>2
<1>4. currentCall' = currentCall \/ (currentCall' = d => phase'[d] \notin {"gone", "none"})
  <2>1. NoHandle # d
    BY NamesAssumption
  <2>2. CASE currentCall' = c /\ after \notin {"gone", "none"}
    BY <2>2 DEF TypeOK
  <2>3. CASE currentCall' \in {currentCall, NoHandle}
    BY <2>1, <2>3
  <2> QED BY <2>2, <2>3
<1> HIDE DEF x
<1>5. Ordered(d, queue \o <<x>>, phase'[d], told[d])
  BY <1>1, <1>2, <1>3, FitsKeepsOrder
<1>6. CurrentInOrder(d, queue \o <<x>>, phase'[d], currentCall')
  BY <1>1, <1>2, <1>3, <1>4, FitsKeepsCurrent
<1> QED BY <1>1, <1>5, <1>6

LEMMA UnregisterKeepsOrder ==
    ASSUME TypeOK, EventsInOrder, Unregister, UNCHANGED <<phase, told, currentCall>>
    PROVE  EventsInOrder'
<1>1. CASE ua = NoUa
  BY <1>1, OrderUnchanged DEF Unregister
<1>2. CASE ua # NoUa
  <2>1. ua \in Uas
    BY <1>2 DEF TypeOK
  <2>2. Block("unregistering", ua) \in Blocks
    BY <2>1, BlockTypes DEF AccountEvents
  <2>3. Block("unregistering", ua).event \in AccountEvents
    BY DEF AccountEvents, Block
  <2>4. queue' = queue \o <<Block("unregistering", ua)>>
    BY <1>2 DEF Unregister, Raise
  <2> QED BY <2>2, <2>3, <2>4, AccountBlockKeepsOrder
<1> QED BY <1>1, <1>2

LEMMA RegistryKeepsOrder ==
    ASSUME TypeOK, EventsInOrder, Registry
    PROVE  EventsInOrder'
<1>1. UNCHANGED <<phase, told, currentCall>>
  BY Zenon DEF Registry
<1>2. CASE UNCHANGED queue
  BY <1>1, <1>2, OrderUnchanged
<1>3. ASSUME NEW u \in Uas,
             \/ Raise(<<Block("registering", u)>>)
             \/ Raise(<<Block("registering", u), Block("failed", u)>>)
      PROVE  EventsInOrder'
  <2>1. Block("registering", u) \in Blocks /\ Block("failed", u) \in Blocks
    BY BlockTypes DEF AccountEvents
  <2>2. /\ Block("registering", u).event \in AccountEvents
        /\ Block("failed", u).event \in AccountEvents
    BY DEF AccountEvents, Block
  <2>3. CASE queue' = queue \o <<Block("registering", u)>>
    BY <1>1, <2>1, <2>2, <2>3, AccountBlockKeepsOrder
  <2>4. CASE queue' = queue \o <<Block("registering", u), Block("failed", u)>>
    BY <1>1, <2>1, <2>2, <2>4, AccountBlocksKeepOrder
  <2> QED BY <1>3, <2>3, <2>4 DEF Raise
<1>4. UNCHANGED <<ua, queue, registrar>> => UNCHANGED queue
  OBVIOUS
<1> QED BY <1>2, <1>3, <1>4, Zenon DEF Registry

LEMMA CallKeepsOrder ==
    ASSUME TypeOK, EventsInOrder, Call
    PROVE  EventsInOrder'
<1>1. UNCHANGED told
  BY Zenon DEF Call
<1>2. CASE currentCall' = NoHandle /\ UNCHANGED <<queue, phase>>
  BY <1>1, <1>2, OrderUnchanged
<1>3. ASSUME NEW c \in CallIds, CanBegin(c), Raise(<<Block("outgoing", c)>>),
             \/ phase' = [phase EXCEPT ![c] = "outgoing"] /\ currentCall' = c
             \/ phase' = [phase EXCEPT ![c] = "failed"] /\ currentCall' = NoHandle
      PROVE  EventsInOrder'
  <2>1. Fits(c, Block("outgoing", c), phase[c], "outgoing")
        /\ Fits(c, Block("outgoing", c), phase[c], "failed")
    BY <1>3 DEF Fits, Begins, Block, CanBegin
  <2>2. "outgoing" \in CallEvents /\ "outgoing" \in Phases /\ "failed" \in Phases
    BY DEF CallEvents, Phases
  <2>3. CASE phase' = [phase EXCEPT ![c] = "outgoing"] /\ currentCall' = c
    BY <1>1, <1>3, <2>1, <2>2, <2>3, CallBlockKeepsOrder
  <2>4. CASE phase' = [phase EXCEPT ![c] = "failed"] /\ currentCall' = NoHandle
    BY <1>1, <1>3, <2>1, <2>2, <2>4, CallBlockKeepsOrder
  <2> QED BY <1>3, <2>3, <2>4
<1> QED BY <1>2, <1>3, Zenon DEF Call

LEMMA AnswerKeepsOrder ==
    ASSUME TypeOK, EventsInOrder, NEW c \in CallIds, Answer(c)
    PROVE  EventsInOrder'
<1>1. /\ UNCHANGED <<told, queue, currentCall>>
      /\ phase' = [phase EXCEPT ![c] = IF @ = "incoming" THEN "answered" ELSE @]
  BY DEF Answer, manager
<1> SUFFICES ASSUME NEW d \in CallIds
             PROVE  /\ Ordered(d, queue', phase'[d], told'[d])
                    /\ CurrentInOrder(d, queue', phase'[d], currentCall')
  BY DEF EventsInOrder
<1>2. phase'[d] = phase[d] \/ (phase[d] = "incoming" /\ phase'[d] = "answered")
  <2>1. phase'[d] = IF d = c THEN (IF phase[c] = "incoming" THEN "answered" ELSE phase[c])
                    ELSE phase[d]
    BY <1>1 DEF TypeOK
  <2>2. CASE d = c
    BY <2>1, <2>2
  <2>3. CASE d # c
    BY <2>1, <2>3
  <2> QED BY <2>2, <2>3
<1>3. Ordered(d, queue, phase[d], told[d]) /\ CurrentInOrder(d, queue, phase[d], currentCall)
  BY DEF EventsInOrder
<1>4. CASE phase[d] = "incoming" /\ phase'[d] = "answered"
  <2>1. CurrentInOrder(d, queue, phase'[d], currentCall)
    BY <1>4 DEF CurrentInOrder
  <2>2. Ordered(d, queue, phase'[d], told[d])
    BY <1>3, <1>4 DEF Ordered, BeginsFirst, EstablishedOnce, ClosedOnce
  <2> QED BY <1>1, <2>1, <2>2
<1> QED BY <1>1, <1>2, <1>3, <1>4

LEMMA HangupKeepsOrder ==
    ASSUME TypeOK, EventsInOrder, NEW c \in CallIds, Hangup(c)
    PROVE  EventsInOrder'
<1>1. UNCHANGED <<told, currentCall>>
  BY DEF Hangup, manager
<1>2. CASE Over(c)
  BY <1>1, <1>2, OrderUnchanged DEF Hangup
<1>4. phase[c] # "none"
  BY DEF Hangup, Meant, Live, EventsInOrder, CurrentInOrder
<1>3. CASE ~ Over(c) /\ phase[c] # "none"
  <2>1. Fits(c, Block("closed", c), phase[c], "gone")
    BY <1>3 DEF Fits, Closes, Block, Over, TypeOK, Phases
  <2>2. "closed" \in CallEvents /\ "gone" \in Phases
    BY DEF CallEvents, Phases
  <2>3. Raise(<<Block("closed", c)>>) /\ phase' = [phase EXCEPT ![c] = "gone"]
    BY <1>3 DEF Hangup
  <2> QED BY <1>1, <2>1, <2>2, <2>3, CallBlockKeepsOrder
<1> QED BY <1>2, <1>3, <1>4

LEMMA PeerKeepsOrder ==
    ASSUME TypeOK, EventsInOrder, NEW c \in CallIds, NEW before, NEW after \in Phases,
           NEW e \in CallEvents, Peer(c, before, after, e),
           \A p \in before : Fits(c, Block(e, c), p, after)
    PROVE  EventsInOrder'
<1>1. /\ phase[c] \in before /\ phase' = [phase EXCEPT ![c] = after]
      /\ Raise(<<Block(e, c)>>) /\ UNCHANGED <<told, currentCall>>
  BY DEF Peer, manager
<1> QED BY <1>1, CallBlockKeepsOrder

LEMMA PeersKeepOrder ==
    ASSUME TypeOK, EventsInOrder, NEW c \in CallIds,
           Incoming(c) \/ Progress(c) \/ Established(c) \/ Close(c)
    PROVE  EventsInOrder'
<1>1. /\ {"incoming", "ringing", "progress", "established", "closed"} \subseteq CallEvents
      /\ {"incoming", "outgoing", "up", "gone"} \subseteq Phases
  BY DEF CallEvents, Phases
<1>2. Fits(c, Block("incoming", c), "none", "incoming")
  BY DEF Fits, Begins, Block
<1>3. ASSUME NEW e \in {"ringing", "progress"}
      PROVE  Fits(c, Block(e, c), "outgoing", "outgoing")
  BY DEF Fits, Block
<1>4. ASSUME NEW p \in {"outgoing", "answered"}
      PROVE  Fits(c, Block("established", c), p, "up")
  BY DEF Fits, Establishes, Block
<1>5. ASSUME NEW p \in {"outgoing", "incoming", "answered", "up"}
      PROVE  Fits(c, Block("closed", c), p, "gone")
  BY DEF Fits, Closes, Block
<1>6. CASE Incoming(c)
  <2>1. Peer(c, {"none"}, "incoming", "incoming")
    BY <1>6 DEF Incoming
  <2> QED BY <1>1, <1>2, <2>1, PeerKeepsOrder
<1>7. CASE Progress(c)
  <2>1. PICK e \in {"ringing", "progress"} : Peer(c, {"outgoing"}, "outgoing", e)
    BY <1>7, Zenon DEF Progress
  <2> QED BY <1>1, <1>3, <2>1, PeerKeepsOrder
<1>8. CASE Established(c)
  <2>1. Peer(c, {"outgoing", "answered"}, "up", "established")
    BY <1>8 DEF Established
  <2> QED BY <1>1, <1>4, <2>1, PeerKeepsOrder
<1>9. CASE Close(c)
  <2>1. Peer(c, {"outgoing", "incoming", "answered", "up"}, "gone", "closed")
    BY <1>9 DEF Close
  <2> QED BY <1>1, <1>5, <2>1, PeerKeepsOrder
<1> QED BY <1>6, <1>7, <1>8, <1>9

LEMMA TransactionKeepsOrder ==
    ASSUME TypeOK, EventsInOrder, NEW tr \in Transactions, AnswerTransaction(tr)
    PROVE  EventsInOrder'
<1>1. UNCHANGED <<phase, told, currentCall>>
  BY DEF AnswerTransaction, manager
<1>2. PICK ok \in BOOLEAN : Raise(<<Block(IF ok THEN "registered" ELSE "failed", tr.ua)>>)
  BY Zenon DEF AnswerTransaction
<1> DEFINE x == Block(IF ok THEN "registered" ELSE "failed", tr.ua)
<1>3. tr.ua \in Uas
  BY DEF Transactions
<1>4. x \in Blocks
  BY <1>3, BlockTypes DEF AccountEvents
<1>5. x.event \in AccountEvents
  BY DEF AccountEvents, Block
<1>6. queue' = queue \o <<x>>
  BY <1>2 DEF Raise
<1> HIDE DEF x
<1> QED BY <1>1, <1>4, <1>5, <1>6, AccountBlockKeepsOrder

\* What a handled block tells of a call.
LEMMA BlockTells ==
    ASSUME TypeOK, HandleBlock, NEW d \in CallIds
    PROVE  /\ \/ /\ ~ Begins(Head(queue), d) /\ ~ Establishes(Head(queue), d)
                 /\ ~ Closes(Head(queue), d) /\ told'[d] = told[d]
              \/ Begins(Head(queue), d) /\ told'[d] = told[d] \o <<"Ring">>
              \/ Establishes(Head(queue), d) /\ told'[d] = told[d] \o <<"Up">>
              \/ Closes(Head(queue), d) /\ told'[d] = told[d] \o <<"Hangup">>
           /\ Follows(d, Head(queue), currentCall, currentCall')
<1> DEFINE b == Head(queue)
<1>1. b \in Blocks
  BY TailType DEF HandleBlock, TypeOK
<1>2. told[d] \in HistoryTypes /\ told \in [CallIds -> HistoryTypes] /\ d # NoCall
  BY NamesAssumption DEF TypeOK, HistoryTypes
<1>3. OnAccount(b) \/ OnCall(b)
  BY DEF HandleBlock
<1> HIDE DEF b
<1>4. CASE OnAccount(b)
  <2>1. b.event \notin CallEvents
    BY <1>1, <1>4, BlockTypes DEF OnAccount
  <2>2. ~ About(b, d)
    BY <2>1 DEF About
  <2> QED BY <1>4, <2>2, Kinds DEF OnAccount, Follows, b
<1>5. CASE OnCall(b)
  <2>1. b.event \in CallEvents /\ b.of \in CallIds
    BY <1>1, <1>5, BlockTypes DEF OnCall
  <2>2. told' = [told EXCEPT ![b.of] = @ \o Told(b)] /\ currentCall' = CurrentAfter(b)
    BY <1>5 DEF OnCall
  <2>3. Follows(d, b, currentCall, currentCall')
    BY <1>2, <2>1, <2>2 DEF Follows, CurrentAfter, Closes, About
  <2>4. CASE b.of # d
    <3>1. told'[d] = told[d]
      BY <1>2, <2>1, <2>2, <2>4
    <3>2. ~ About(b, d)
      BY <2>4 DEF About
    <3> QED BY <2>3, <3>1, <3>2, Kinds DEF b
  <2>5. CASE b.of = d
    <3>1. told'[d] = told[d] \o Told(b)
      BY <1>2, <2>2, <2>5
    <3>2. CASE b.event \in {"outgoing", "incoming"}
      <4>1. Begins(b, d) /\ Told(b) = <<"Ring">>
        BY <2>5, <3>2 DEF Begins, Told
      <4> QED BY <2>3, <3>1, <4>1 DEF b
    <3>3. CASE b.event = "established"
      <4>1. Establishes(b, d) /\ Told(b) = <<"Up">>
        BY <2>5, <3>3 DEF Establishes, Told
      <4> QED BY <2>3, <3>1, <4>1 DEF b
    <3>4. CASE b.event = "closed"
      <4>1. Closes(b, d) /\ Told(b) = <<"Hangup">>
        BY <2>5, <3>4 DEF Closes, Told
      <4> QED BY <2>3, <3>1, <4>1 DEF b
    <3>5. CASE b.event \in {"ringing", "progress"}
      <4>1. /\ ~ Begins(b, d) /\ ~ Establishes(b, d) /\ ~ Closes(b, d)
            /\ Told(b) = <<>>
        BY <3>5 DEF Begins, Establishes, Closes, Told
      <4>2. told'[d] = told[d]
        BY <1>2, <3>1, <4>1, ConcatEmptySeq DEF HistoryTypes
      <4> QED BY <2>3, <4>1, <4>2 DEF b
    <3> QED BY <2>1, <3>2, <3>3, <3>4, <3>5 DEF CallEvents
  <2> QED BY <2>4, <2>5
<1> QED BY <1>3, <1>4, <1>5

LEMMA BlockKeepsOrder ==
    ASSUME TypeOK, EventsInOrder, HandleBlock
    PROVE  EventsInOrder'
<1> SUFFICES ASSUME NEW d \in CallIds
             PROVE  /\ Ordered(d, queue', phase'[d], told'[d])
                    /\ CurrentInOrder(d, queue', phase'[d], currentCall')
  BY DEF EventsInOrder
<1>1. queue \in Seq(Blocks) /\ queue # <<>> /\ queue' = Tail(queue) /\ phase' = phase
  BY DEF HandleBlock, TypeOK
<1>2. Ordered(d, queue, phase[d], told[d]) /\ CurrentInOrder(d, queue, phase[d], currentCall)
  BY DEF EventsInOrder
<1>3. /\ Ordered(d, Tail(queue), phase[d], told'[d])
      /\ About(Head(queue), d) => phase[d] # "none"
  BY <1>1, <1>2, BlockTells, TailKeepsOrder
<1>4. CurrentInOrder(d, Tail(queue), phase[d], currentCall')
  BY <1>1, <1>2, <1>3, BlockTells, TailKeepsCurrent
<1> QED BY <1>1, <1>3, <1>4

LEMMA NextKeepsOrder == TypeOK /\ EventsInOrder /\ [Next]_vars => EventsInOrder'
<1> SUFFICES ASSUME TypeOK, EventsInOrder, [Next]_vars PROVE EventsInOrder'
  OBVIOUS
<1>1. CASE InitSipModule
  <2>1. UNCHANGED <<phase, told, currentCall>>
    BY <1>1 DEF InitSipModule, manager
  <2>2. CASE Unregister
    BY <2>1, <2>2, UnregisterKeepsOrder
  <2>3. CASE UNCHANGED queue
    BY <2>1, <2>3, OrderUnchanged
  <2> QED BY <1>1, <2>2, <2>3 DEF InitSipModule
<1>2. CASE RefreshSipAccount
  BY <1>2, OrderUnchanged DEF RefreshSipAccount, manager
<1>3. CASE UnregisterSipAccount
  <2>1. UNCHANGED <<phase, told, currentCall>> /\ Unregister
    BY <1>3 DEF UnregisterSipAccount, manager
  <2> QED BY <2>1, UnregisterKeepsOrder
<1>4. CASE Registry
  BY <1>4, RegistryKeepsOrder
<1>5. CASE Call
  BY <1>5, CallKeepsOrder
<1>6. CASE HandleBlock
  BY <1>6, BlockKeepsOrder
<1>7. ASSUME NEW c \in CallIds, Answer(c) PROVE EventsInOrder'
  BY <1>7, AnswerKeepsOrder
<1>8. ASSUME NEW c \in CallIds, Hangup(c) PROVE EventsInOrder'
  BY <1>8, HangupKeepsOrder
<1>9. ASSUME NEW c \in CallIds, Hold("pause", c) \/ Hold("resume", c) PROVE EventsInOrder'
  <2>1. UNCHANGED <<queue, phase, told, currentCall>>
    BY <1>9 DEF Hold, manager
  <2> QED BY <2>1, OrderUnchanged
<1>10. ASSUME NEW c \in CallIds, Incoming(c) \/ Progress(c) \/ Established(c) \/ Close(c)
       PROVE  EventsInOrder'
  BY <1>10, PeersKeepOrder
<1>11. ASSUME NEW tr \in Transactions, AnswerTransaction(tr) PROVE EventsInOrder'
  BY <1>11, TransactionKeepsOrder
<1>12. ASSUME NEW u \in Uas, PeriodicRefresh(u) PROVE EventsInOrder'
  BY <1>12, OrderUnchanged DEF PeriodicRefresh, manager
<1>13. CASE UNCHANGED vars
  BY <1>13, OrderUnchanged DEF vars, manager
<1> QED BY <1>1, <1>2, <1>3, <1>4, <1>5, <1>6, <1>7, <1>8, <1>9, <1>10, <1>11, <1>12, <1>13,
           Zenon DEF Next

LEMMA InitOrder == Init => EventsInOrder
<1> SUFFICES ASSUME Init, NEW c \in CallIds
             PROVE  /\ Ordered(c, queue, phase[c], told[c])
                    /\ CurrentInOrder(c, queue, phase[c], currentCall)
  BY DEF EventsInOrder
<1>1. queue = <<>> /\ phase[c] = "none" /\ told[c] = <<>> /\ currentCall # c
  BY NamesAssumption DEF Init
<1>2. \A i \in 1 .. Len(queue) : FALSE
  BY <1>1
<1>3. CurrentInOrder(c, queue, phase[c], currentCall)
  BY <1>1 DEF CurrentInOrder
<1>4. Ordered(c, queue, phase[c], told[c])
  BY <1>1, <1>2, Histories DEF Ordered, BeginsFirst, EstablishedOnce, ClosedOnce
<1> QED BY <1>3, <1>4

-----------------------------------------------------------------------------
LEMMA AlwaysInOrder == Spec => []IInv
<1>1. Init => IInv
  BY InitTypes, InitOrder DEF IInv
<1>2. IInv /\ [Next]_vars => IInv'
  BY NextTypes, NextKeepsOrder DEF IInv
<1> QED BY <1>1, <1>2, PTL DEF Spec

(* When no block waits, the current call is live or one whose INVITE could *)
(* not be sent, for any number of calls that overlap in any way: no block  *)
(* makes a call that was closed the current one for good (onCallClosed,    *)
(* onCall...).                                                             *)
THEOREM NoBlockRevivesAClosedCall == Spec => []CurrentIsLiveOrFailed
<1>1. IInv => CurrentIsLiveOrFailed
  <2> SUFFICES ASSUME IInv, queue = <<>>, NEW c \in CallIds, currentCall = c
               PROVE  Live(c) \/ phase[c] = "failed"
    BY DEF CurrentIsLiveOrFailed, Quiet
  <2>1. CurrentInOrder(c, queue, phase[c], currentCall)
    BY DEF IInv, EventsInOrder
  <2>2. \A i \in 1 .. Len(queue) : FALSE
    OBVIOUS
  <2>3. phase[c] \in Phases \ {"none", "gone"}
    BY <2>1, <2>2 DEF CurrentInOrder, IInv, TypeOK
  <2> QED BY <2>3 DEF Phases, Live
<1> QED BY <1>1, AlwaysInOrder, PTL

\* Only a block tells Dart of a call, and it tells what CallStatus allows.
LEMMA BlockAsPromised ==
    ASSUME IInv, HandleBlock
    PROVE  [Promise!Next]_told
<1> DEFINE b == Head(queue)
<1>1. b \in Blocks /\ queue \in Seq(Blocks) /\ queue # <<>>
  BY TailType DEF HandleBlock, TypeOK, IInv
<1>2. CASE OnAccount(b)
  BY <1>2 DEF OnAccount
<1>3. CASE OnCall(b)
  <2> DEFINE c == b.of
  <2>1. c \in CallIds /\ told' = [told EXCEPT ![c] = @ \o Told(b)] /\ b.event \in CallEvents
    BY <1>1, <1>3, BlockTypes DEF OnCall
  <2>2. told \in [CallIds -> HistoryTypes]
    BY DEF IInv, TypeOK, HistoryTypes
  <2>3. Ordered(c, queue, phase[c], told[c])
    BY <2>1 DEF IInv, EventsInOrder
  <2>4. /\ Begins(b, c) => told[c] = <<>>
        /\ Establishes(b, c) => told[c] = R
        /\ Closes(b, c) => told[c] \in {R, RU}
    BY <1>1, <2>1, <2>3, BlockTells, TailKeepsOrder DEF IInv
  <2>5. CASE b.event \in {"outgoing", "incoming"}
    <3>1. Begins(b, c) /\ Told(b) = <<"Ring">>
      BY <2>5 DEF Begins, Told
    <3>2. told[c] \in Promise!Before("Ring")
      BY <2>4, <3>1 DEF Promise!Before
    <3>3. told[c] \o <<"Ring">> = Append(told[c], "Ring")
      BY <2>4, <3>1, Histories
    <3>4. Promise!Tell(c, "Ring")
      BY <2>1, <3>1, <3>2, <3>3 DEF Promise!Tell
    <3> QED BY <2>1, <3>4 DEF Promise!Next
  <2>6. CASE b.event = "established"
    <3>1. Establishes(b, c) /\ Told(b) = <<"Up">>
      BY <2>6 DEF Establishes, Told
    <3>2. told[c] \in Promise!Before("Up")
      BY <2>4, <3>1 DEF Promise!Before, R
    <3>3. told[c] \o <<"Up">> = Append(told[c], "Up")
      BY <2>4, <3>1, Histories
    <3>4. Promise!Tell(c, "Up")
      BY <2>1, <3>1, <3>2, <3>3 DEF Promise!Tell
    <3> QED BY <2>1, <3>4 DEF Promise!Next
  <2>7. CASE b.event = "closed"
    <3>1. Closes(b, c) /\ Told(b) = <<"Hangup">>
      BY <2>7 DEF Closes, Told
    <3>2. told[c] \in Promise!Before("Hangup")
      BY <2>4, <3>1 DEF Promise!Before, R, RU
    <3>3. told[c] \o <<"Hangup">> = Append(told[c], "Hangup")
      BY <2>4, <3>1, Histories
    <3>4. Promise!Tell(c, "Hangup")
      BY <2>1, <3>1, <3>2, <3>3 DEF Promise!Tell
    <3> QED BY <2>1, <3>4 DEF Promise!Next
  <2>8. CASE b.event \in {"ringing", "progress"}
    <3>1. Told(b) = <<>>
      BY <2>8 DEF Told
    <3>2. told[c] \o <<>> = told[c]
      BY <2>1, <2>2, ConcatEmptySeq DEF HistoryTypes
    <3>3. told' = told
      BY <2>1, <2>2, <3>1, <3>2
    <3> QED BY <3>3
  <2> QED BY <2>1, <2>5, <2>6, <2>7, <2>8 DEF CallEvents
<1> QED BY <1>2, <1>3 DEF HandleBlock

LEMMA OthersTellNothing ==
    ASSUME [Next]_vars, ~ HandleBlock
    PROVE  UNCHANGED told
<1>1. ASSUME NEW c \in CallIds,
             \/ Answer(c) \/ Hangup(c) \/ Hold("pause", c) \/ Hold("resume", c)
             \/ Incoming(c) \/ Progress(c) \/ Established(c) \/ Close(c)
      PROVE  UNCHANGED told
  BY <1>1 DEF Answer, Hangup, Hold, Incoming, Progress, Established, Close, Peer
<1>2. ASSUME InitSipModule \/ RefreshSipAccount \/ UnregisterSipAccount \/ Registry \/ Call
      PROVE  UNCHANGED told
  BY <1>2, Zenon DEF InitSipModule, RefreshSipAccount, UnregisterSipAccount, Registry, Call
<1>3. ASSUME NEW tr \in Transactions, AnswerTransaction(tr) PROVE UNCHANGED told
  BY <1>3 DEF AnswerTransaction
<1>4. ASSUME NEW u \in Uas, PeriodicRefresh(u) PROVE UNCHANGED told
  BY <1>4 DEF PeriodicRefresh
<1>5. UNCHANGED vars => UNCHANGED told
  BY DEF vars
<1> QED BY <1>1, <1>2, <1>3, <1>4, <1>5, Zenon DEF Next

(* The events of every call come in the order that CallStatus promises: it *)
(* rings, may be established, and ends once, whoever ends it and whatever  *)
(* other calls there are (ua_event_handler, the onCall... methods).        *)
THEOREM EventsAsPromised == Spec => CallsAsPromised
<1>1. Init => Promise!Init
  BY DEF Init, Promise!Init
<1>2. IInv /\ [Next]_vars => [Promise!Next]_told
  BY BlockAsPromised, OthersTellNothing
<1> QED BY <1>1, <1>2, AlwaysInOrder, PTL DEF Spec, CallsAsPromised, Promise!Spec

-----------------------------------------------------------------------------
(* Calls in turn.  What waits on the main queue leads the current call to  *)
(* the live one: either nothing is told of another call any more, or an    *)
(* event of the live call still comes, and after it nothing of another.    *)

OnlyAbout(q, c, i) == \A j \in i .. Len(q) : q[j].event \in CallEvents => About(q[j], c)

Heading(q, c, current) ==
    \/ OnlyAbout(q, c, 1) /\ current \in {c, NoHandle}
    \/ \E i \in 1 .. Len(q) : About(q[i], c) /\ OnlyAbout(q, c, i)

Alone(c) == \A d \in CallIds : d # c => phase[d] = "none" \/ Over(d)

InTurn ==
    mode = "in turn" =>
        \A c \in CallIds : Live(c) => Alone(c) /\ Heading(queue, c, currentCall)

LEMMA AddKeepsHeading ==
    ASSUME NEW c, NEW q \in Seq(Blocks), NEW x \in Blocks, x.event \in CallEvents => About(x, c),
           NEW current, NEW next \in {current, NoHandle}, Heading(q, c, current)
    PROVE  Heading(q \o <<x>>, c, next)
<1> DEFINE r == q \o <<x>>
<1> DEFINE n == Len(q)
<1>1. /\ n \in Nat /\ Len(r) = n + 1
      /\ \A i \in 1 .. n : r[i] = q[i]
      /\ r[n + 1] = x
  BY AddBlock
<1> HIDE DEF r, n
<1>2. ASSUME NEW i \in Nat, i >= 1, OnlyAbout(q, c, i) PROVE OnlyAbout(r, c, i)
  <2> SUFFICES ASSUME NEW j \in i .. n + 1, r[j].event \in CallEvents PROVE About(r[j], c)
    BY <1>1 DEF OnlyAbout
  <2>1. CASE j = n + 1
    BY <1>1, <2>1
  <2>2. CASE j # n + 1
    <3>1. j \in i .. n /\ j \in 1 .. n
      BY <1>1, <1>2, <2>2
    <3> QED BY <1>1, <1>2, <3>1 DEF OnlyAbout, n
  <2> QED BY <2>1, <2>2
<1>3. CASE OnlyAbout(q, c, 1) /\ current \in {c, NoHandle}
  BY <1>2, <1>3 DEF Heading, r
<1>4. ASSUME NEW i \in 1 .. n, About(q[i], c), OnlyAbout(q, c, i)
      PROVE  Heading(r, c, next)
  <2>1. i \in Nat /\ i >= 1 /\ i \in 1 .. Len(r) /\ r[i] = q[i]
    BY <1>1
  <2> QED BY <1>2, <1>4, <2>1 DEF Heading
<1> QED BY <1>3, <1>4 DEF Heading, r, n

LEMMA BeginsHeading ==
    ASSUME NEW c, NEW q \in Seq(Blocks), NEW x \in Blocks, About(x, c), NEW next
    PROVE  Heading(q \o <<x>>, c, next)
<1> DEFINE r == q \o <<x>>
<1> DEFINE n == Len(q)
<1>1. n \in Nat /\ Len(r) = n + 1 /\ r[n + 1] = x
  BY AddBlock
<1> HIDE DEF r, n
<1>2. OnlyAbout(r, c, n + 1)
  BY <1>1 DEF OnlyAbout
<1>3. n + 1 \in 1 .. Len(r)
  BY <1>1
<1> QED BY <1>1, <1>2, <1>3 DEF Heading, r

LEMMA TailKeepsHeading ==
    ASSUME NEW c, NEW q \in Seq(Blocks), q # <<>>, NEW current, NEW next,
           Head(q).event \notin CallEvents => next = current,
           About(Head(q), c) => next = c,
           Heading(q, c, current)
    PROVE  Heading(Tail(q), c, next)
<1> DEFINE h == Head(q)
<1> DEFINE r == Tail(q)
<1> DEFINE n == Len(q)
<1>1. /\ h = q[1] /\ n \in Nat /\ n >= 1 /\ Len(r) = n - 1
      /\ \A i \in 1 .. n - 1 : r[i] = q[i + 1]
  BY TakeBlock
<1>2. /\ h.event \notin CallEvents => next = current
      /\ About(h, c) => next = c
  OBVIOUS
<1> HIDE DEF h, r, n
<1>3. ASSUME NEW i \in Nat, i >= 1, OnlyAbout(q, c, i + 1) PROVE OnlyAbout(r, c, i)
  <2> SUFFICES ASSUME NEW j \in i .. n - 1, r[j].event \in CallEvents PROVE About(r[j], c)
    BY <1>1 DEF OnlyAbout
  <2>1. j \in 1 .. n - 1 /\ j + 1 \in i + 1 .. n
    BY <1>1, <1>3
  <2> QED BY <1>1, <1>3, <2>1 DEF OnlyAbout, n
<1>4. ASSUME NEW i \in Nat, OnlyAbout(q, c, i) PROVE OnlyAbout(q, c, i + 1)
  <2>1. \A j \in i + 1 .. n : j \in i .. n
    BY <1>1
  <2> QED BY <1>4, <2>1 DEF OnlyAbout, n
<1>5. CASE OnlyAbout(q, c, 1) /\ current \in {c, NoHandle}
  <2>1. h.event \in CallEvents => About(h, c)
    <3>1. 1 \in 1 .. n
      BY <1>1
    <3> QED BY <1>1, <1>5, <3>1 DEF OnlyAbout, n
  <2>2. next \in {c, NoHandle}
    BY <1>2, <1>5, <2>1
  <2>3. OnlyAbout(r, c, 1)
    BY <1>3, <1>4, <1>5
  <2> QED BY <2>2, <2>3 DEF Heading, r
<1>6. ASSUME NEW i \in 1 .. n, About(q[i], c), OnlyAbout(q, c, i)
      PROVE  Heading(r, c, next)
  <2>1. CASE i = 1
    <3>1. next = c
      BY <1>1, <1>2, <1>6, <2>1
    <3>2. OnlyAbout(r, c, 1)
      BY <1>3, <1>4, <1>6, <2>1
    <3> QED BY <3>1, <3>2 DEF Heading
  <2>2. CASE i # 1
    <3> DEFINE k == i - 1
    <3>1. k \in Nat /\ k >= 1 /\ k + 1 = i /\ k \in 1 .. Len(r) /\ r[k] = q[i]
      BY <1>1, <2>2
    <3> HIDE DEF k
    <3>2. OnlyAbout(r, c, k)
      BY <1>3, <1>6, <3>1
    <3> QED BY <1>6, <3>1, <3>2 DEF Heading
  <2> QED BY <2>1, <2>2
<1> QED BY <1>5, <1>6 DEF Heading, r, n

\* A call goes on: its phase may change, and a block about it be raised.
LEMMA GoingOnKeepsInTurn ==
    ASSUME TypeOK, InTurn, NEW c \in CallIds, Live(c), NEW after \in Phases \ {"none"},
           phase' = [phase EXCEPT ![c] = after], UNCHANGED <<mode, currentCall>>,
           UNCHANGED queue \/ \E e \in CallEvents : Raise(<<Block(e, c)>>)
    PROVE  InTurn'
<1> SUFFICES ASSUME mode = "in turn", NEW d \in CallIds, Live(d)'
             PROVE  Alone(d)' /\ Heading(queue', d, currentCall')
  BY DEF InTurn
<1>1. Alone(c) /\ Heading(queue, c, currentCall)
  BY DEF InTurn
<1>2. \A e \in CallIds : phase'[e] = IF e = c THEN after ELSE phase[e]
  BY DEF TypeOK
<1>3. d = c
  BY <1>1, <1>2 DEF Alone, Live, Over
<1>4. Alone(c)'
  BY <1>1, <1>2 DEF Alone, Over
<1>5. CASE UNCHANGED queue
  BY <1>1, <1>3, <1>4, <1>5
<1>6. ASSUME NEW e \in CallEvents, Raise(<<Block(e, c)>>)
      PROVE  Heading(queue', c, currentCall')
  <2>1. Block(e, c) \in Blocks /\ About(Block(e, c), c)
    BY BlockTypes DEF About, Block
  <2>2. queue \in Seq(Blocks) /\ queue' = queue \o <<Block(e, c)>>
    BY <1>6 DEF TypeOK, Raise
  <2> QED BY <1>1, <2>1, <2>2, AddKeepsHeading
<1> QED BY <1>3, <1>4, <1>5, <1>6

\* A call begins, when those before it are over.
LEMMA BeginningKeepsInTurn ==
    ASSUME TypeOK, InTurn, NEW c \in CallIds, CanBegin(c), NEW after \in Phases \ {"none"},
           phase' = [phase EXCEPT ![c] = after], UNCHANGED mode,
           NEW e \in CallEvents, Raise(<<Block(e, c)>>)
    PROVE  InTurn'
<1> SUFFICES ASSUME mode = "in turn", NEW d \in CallIds, Live(d)'
             PROVE  Alone(d)' /\ Heading(queue', d, currentCall')
  BY DEF InTurn
<1>1. \A x \in CallIds : phase[x] = "none" \/ Over(x)
  BY DEF CanBegin
<1>2. \A x \in CallIds : phase'[x] = IF x = c THEN after ELSE phase[x]
  BY DEF TypeOK
<1>3. d = c
  BY <1>1, <1>2 DEF Live, Over
<1>4. Alone(c)'
  BY <1>1, <1>2 DEF Alone, Over
<1>5. Block(e, c) \in Blocks /\ About(Block(e, c), c)
  BY BlockTypes DEF About, Block
<1>6. queue \in Seq(Blocks) /\ queue' = queue \o <<Block(e, c)>>
  BY DEF TypeOK, Raise
<1>7. Heading(queue', c, currentCall')
  BY <1>5, <1>6, BeginsHeading
<1> QED BY <1>3, <1>4, <1>7

LEMMA AccountBlockKeepsInTurn ==
    ASSUME TypeOK, InTurn, NEW x \in Blocks, x.event \in AccountEvents,
           queue' = queue \o <<x>>, UNCHANGED <<mode, phase, currentCall>>
    PROVE  InTurn'
<1> SUFFICES ASSUME mode = "in turn", NEW d \in CallIds, Live(d)
             PROVE  Alone(d)' /\ Heading(queue', d, currentCall')
  BY DEF InTurn, Live
<1>1. Alone(d) /\ Heading(queue, d, currentCall)
  BY DEF InTurn
<1>2. x.event \notin CallEvents /\ queue \in Seq(Blocks)
  BY BlockTypes DEF TypeOK
<1>3. Heading(queue', d, currentCall')
  BY <1>1, <1>2, AddKeepsHeading
<1> QED BY <1>1, <1>3 DEF Alone, Over

LEMMA InTurnUnchanged ==
    ASSUME TypeOK, InTurn, UNCHANGED <<mode, phase, queue>>,
           currentCall' \in {currentCall, NoHandle}
    PROVE  InTurn'
<1> SUFFICES ASSUME mode = "in turn", NEW d \in CallIds, Live(d)
             PROVE  Alone(d)' /\ Heading(queue', d, currentCall')
  BY DEF InTurn, Live
<1>1. Alone(d) /\ Heading(queue, d, currentCall)
  BY DEF InTurn
<1> QED BY <1>1 DEF Alone, Over, Heading

\* A block that is handled: the end of a live call is not among those that wait.
LEMMA BlockKeepsInTurn ==
    ASSUME IInv, InTurn, HandleBlock
    PROVE  InTurn'
<1>1. /\ queue \in Seq(Blocks) /\ queue # <<>> /\ queue' = Tail(queue)
      /\ phase' = phase /\ mode' = mode
  BY DEF HandleBlock, IInv, TypeOK
<1>10. 1 \in 1 .. Len(queue)
  BY <1>1, TakeBlock
<1> SUFFICES ASSUME mode = "in turn", NEW d \in CallIds, Live(d)
             PROVE  Alone(d)' /\ Heading(queue', d, currentCall')
  BY <1>1 DEF InTurn, Live
<1>2. Alone(d) /\ Heading(queue, d, currentCall)
  BY DEF InTurn
<1> DEFINE b == Head(queue)
<1>3. ~ Closes(b, d)
  <2>1. ClosedOnce(d, queue, phase[d], told[d])
    BY DEF IInv, EventsInOrder, Ordered
  <2>2. b = queue[1]
    BY <1>1, TakeBlock
  <2> QED BY <1>10, <2>1, <2>2 DEF ClosedOnce, Live
<1>4. OnAccount(b) \/ OnCall(b)
  BY DEF HandleBlock
<1>5. b \in Blocks
  BY <1>1, TakeBlock
<1> HIDE DEF b
<1>6. b.event \notin CallEvents => currentCall' = currentCall
  BY <1>4 DEF OnAccount, OnCall
<1>7. About(b, d) => currentCall' = d
  BY <1>3, <1>4, <1>5, BlockTypes DEF About, OnAccount, OnCall, CurrentAfter, Closes
<1>8. Heading(queue', d, currentCall')
  BY <1>1, <1>2, <1>6, <1>7, TailKeepsHeading DEF b
<1> QED BY <1>1, <1>2, <1>8 DEF Alone, Over

LEMMA CallKeepsInTurn ==
    ASSUME TypeOK, InTurn, Call
    PROVE  InTurn'
<1>1. UNCHANGED mode
  BY Zenon DEF Call
<1>2. CASE currentCall' = NoHandle /\ UNCHANGED <<queue, phase>>
  BY <1>1, <1>2, InTurnUnchanged
<1>3. ASSUME NEW c \in CallIds, CanBegin(c), Raise(<<Block("outgoing", c)>>),
             \/ phase' = [phase EXCEPT ![c] = "outgoing"] /\ currentCall' = c
             \/ phase' = [phase EXCEPT ![c] = "failed"] /\ currentCall' = NoHandle
      PROVE  InTurn'
  <2>1. /\ "outgoing" \in CallEvents
        /\ "outgoing" \in Phases \ {"none"} /\ "failed" \in Phases \ {"none"}
    BY DEF CallEvents, Phases
  <2>2. CASE phase' = [phase EXCEPT ![c] = "outgoing"]
    BY <1>1, <1>3, <2>1, <2>2, BeginningKeepsInTurn
  <2>3. CASE phase' = [phase EXCEPT ![c] = "failed"]
    BY <1>1, <1>3, <2>1, <2>3, BeginningKeepsInTurn
  <2> QED BY <1>3, <2>2, <2>3
<1> QED BY <1>2, <1>3, Zenon DEF Call

LEMMA AnswerKeepsInTurn ==
    ASSUME TypeOK, InTurn, NEW c \in CallIds, Answer(c)
    PROVE  InTurn'
<1>1. /\ UNCHANGED <<mode, queue, currentCall>>
      /\ phase' = [phase EXCEPT ![c] = IF @ = "incoming" THEN "answered" ELSE @]
  BY DEF Answer, manager
<1>2. CASE phase[c] = "incoming"
  <2>1. Live(c) /\ phase' = [phase EXCEPT ![c] = "answered"] /\ "answered" \in Phases \ {"none"}
    BY <1>1, <1>2 DEF Live, Phases
  <2> QED BY <1>1, <2>1, GoingOnKeepsInTurn
<1>3. CASE phase[c] # "incoming"
  <2>1. phase' = phase
    BY <1>1, <1>3 DEF TypeOK
  <2> QED BY <1>1, <2>1, InTurnUnchanged
<1> QED BY <1>2, <1>3

LEMMA HangupKeepsInTurn ==
    ASSUME IInv, InTurn, NEW c \in CallIds, Hangup(c)
    PROVE  InTurn'
<1>1. UNCHANGED <<mode, currentCall>> /\ TypeOK
  BY DEF Hangup, manager, IInv
<1>2. CASE Over(c)
  BY <1>1, <1>2, InTurnUnchanged DEF Hangup
<1>3. CASE ~ Over(c)
  <2>1. phase[c] # "none"
    BY DEF Hangup, Meant, Live, IInv, EventsInOrder, CurrentInOrder
  <2>2. Live(c)
    BY <1>1, <1>3, <2>1 DEF Live, Over, TypeOK, Phases
  <2>3. "closed" \in CallEvents /\ "gone" \in Phases \ {"none"}
    BY DEF CallEvents, Phases
  <2>4. Raise(<<Block("closed", c)>>) /\ phase' = [phase EXCEPT ![c] = "gone"]
    BY <1>3 DEF Hangup
  <2> QED BY <1>1, <2>2, <2>3, <2>4, GoingOnKeepsInTurn
<1> QED BY <1>2, <1>3

LEMMA PeersKeepInTurn ==
    ASSUME TypeOK, InTurn, NEW c \in CallIds,
           Incoming(c) \/ Progress(c) \/ Established(c) \/ Close(c)
    PROVE  InTurn'
<1>1. /\ {"incoming", "ringing", "progress", "established", "closed"} \subseteq CallEvents
      /\ {"incoming", "outgoing", "up", "gone"} \subseteq Phases \ {"none"}
  BY DEF CallEvents, Phases
<1>2. ASSUME NEW before, NEW after, NEW e, Peer(c, before, after, e)
      PROVE  /\ phase[c] \in before /\ phase' = [phase EXCEPT ![c] = after]
             /\ Raise(<<Block(e, c)>>) /\ UNCHANGED <<mode, currentCall>>
  BY <1>2 DEF Peer, manager
<1>3. CASE Incoming(c)
  <2>1. CanBegin(c) /\ Peer(c, {"none"}, "incoming", "incoming")
    BY <1>3 DEF Incoming
  <2> QED BY <1>1, <1>2, <2>1, BeginningKeepsInTurn
<1>4. CASE Progress(c)
  <2>1. PICK e \in {"ringing", "progress"} : Peer(c, {"outgoing"}, "outgoing", e)
    BY <1>4, Zenon DEF Progress
  <2>2. Live(c)
    BY <1>2, <2>1 DEF Live
  <2> QED BY <1>1, <1>2, <2>1, <2>2, GoingOnKeepsInTurn
<1>5. CASE Established(c)
  <2>1. Peer(c, {"outgoing", "answered"}, "up", "established")
    BY <1>5 DEF Established
  <2>2. Live(c)
    BY <1>2, <2>1 DEF Live
  <2> QED BY <1>1, <1>2, <2>1, <2>2, GoingOnKeepsInTurn
<1>6. CASE Close(c)
  <2>1. Peer(c, {"outgoing", "incoming", "answered", "up"}, "gone", "closed")
    BY <1>6 DEF Close
  <2>2. Live(c)
    BY <1>2, <2>1 DEF Live
  <2> QED BY <1>1, <1>2, <2>1, <2>2, GoingOnKeepsInTurn
<1> QED BY <1>3, <1>4, <1>5, <1>6

LEMMA UnregisterKeepsInTurn ==
    ASSUME TypeOK, InTurn, Unregister, UNCHANGED <<mode, phase, currentCall>>
    PROVE  InTurn'
<1>1. CASE ua = NoUa
  BY <1>1, InTurnUnchanged DEF Unregister
<1>2. CASE ua # NoUa
  <2>1. Block("unregistering", ua) \in Blocks
    BY <1>2, BlockTypes DEF AccountEvents, TypeOK
  <2>2. Block("unregistering", ua).event \in AccountEvents
    BY DEF AccountEvents, Block
  <2>3. queue' = queue \o <<Block("unregistering", ua)>>
    BY <1>2 DEF Unregister, Raise
  <2> QED BY <2>1, <2>2, <2>3, AccountBlockKeepsInTurn
<1> QED BY <1>1, <1>2

LEMMA RegistryKeepsInTurn ==
    ASSUME TypeOK, InTurn, Registry
    PROVE  InTurn'
<1>1. UNCHANGED <<mode, phase, currentCall>> /\ queue \in Seq(Blocks)
  BY Zenon DEF Registry, TypeOK
<1>2. CASE UNCHANGED queue
  BY <1>1, <1>2, InTurnUnchanged
<1>3. ASSUME NEW u \in Uas,
             \/ Raise(<<Block("registering", u)>>)
             \/ Raise(<<Block("registering", u), Block("failed", u)>>)
      PROVE  InTurn'
  <2> DEFINE x == Block("registering", u)
  <2> DEFINE y == Block("failed", u)
  <2>1. x \in Blocks /\ y \in Blocks
    BY BlockTypes DEF AccountEvents
  <2>2. x.event \in AccountEvents /\ y.event \in AccountEvents
    BY DEF AccountEvents, Block
  <2>3. x.event \notin CallEvents /\ y.event \notin CallEvents
    BY <2>1, <2>2, BlockTypes
  <2> HIDE DEF x, y
  <2>4. CASE queue' = queue \o <<x>>
    BY <1>1, <2>1, <2>2, <2>4, AccountBlockKeepsInTurn
  <2>5. CASE queue' = queue \o <<x, y>>
    <3> DEFINE q == queue \o <<x>>
    <3>1. q \in Seq(Blocks) /\ queue' = q \o <<y>>
      BY <1>1, <2>1, <2>5, AppendTwo
    <3> SUFFICES ASSUME mode = "in turn", NEW d \in CallIds, Live(d)
                 PROVE  Alone(d)' /\ Heading(queue', d, currentCall')
      BY <1>1 DEF InTurn, Live
    <3>2. Alone(d) /\ Heading(queue, d, currentCall)
      BY DEF InTurn
    <3>3. Heading(q, d, currentCall)
      BY <1>1, <2>1, <2>3, <3>2, AddKeepsHeading
    <3> HIDE DEF q
    <3>4. Heading(queue', d, currentCall')
      BY <1>1, <2>1, <2>3, <3>1, <3>3, AddKeepsHeading
    <3> QED BY <1>1, <3>2, <3>4 DEF Alone, Over
  <2> QED BY <1>3, <2>4, <2>5 DEF Raise, x, y
<1>4. UNCHANGED <<ua, queue, registrar>> => UNCHANGED queue
  OBVIOUS
<1> QED BY <1>2, <1>3, <1>4, Zenon DEF Registry

LEMMA NextKeepsInTurn == IInv /\ InTurn /\ [Next]_vars => InTurn'
<1> SUFFICES ASSUME IInv, InTurn, [Next]_vars PROVE InTurn'
  OBVIOUS
<1> TypeOK
  BY DEF IInv
<1>1. CASE InitSipModule
  <2>1. UNCHANGED <<mode, phase, currentCall>>
    BY <1>1 DEF InitSipModule, manager
  <2>2. CASE Unregister
    BY <2>1, <2>2, UnregisterKeepsInTurn
  <2>3. CASE UNCHANGED queue
    BY <2>1, <2>3, InTurnUnchanged
  <2> QED BY <1>1, <2>2, <2>3 DEF InitSipModule
<1>2. CASE RefreshSipAccount
  BY <1>2, InTurnUnchanged DEF RefreshSipAccount, manager
<1>3. CASE UnregisterSipAccount
  <2>1. UNCHANGED <<mode, phase, currentCall>> /\ Unregister
    BY <1>3 DEF UnregisterSipAccount, manager
  <2> QED BY <2>1, UnregisterKeepsInTurn
<1>4. CASE Registry
  BY <1>4, RegistryKeepsInTurn
<1>5. CASE Call
  BY <1>5, CallKeepsInTurn
<1>6. CASE HandleBlock
  BY <1>6, BlockKeepsInTurn
<1>7. ASSUME NEW c \in CallIds, Answer(c) PROVE InTurn'
  BY <1>7, AnswerKeepsInTurn
<1>8. ASSUME NEW c \in CallIds, Hangup(c) PROVE InTurn'
  BY <1>8, HangupKeepsInTurn
<1>9. ASSUME NEW c \in CallIds, Hold("pause", c) \/ Hold("resume", c) PROVE InTurn'
  <2>1. UNCHANGED <<mode, queue, phase, currentCall>>
    BY <1>9 DEF Hold, manager
  <2> QED BY <2>1, InTurnUnchanged
<1>10. ASSUME NEW c \in CallIds, Incoming(c) \/ Progress(c) \/ Established(c) \/ Close(c)
       PROVE  InTurn'
  BY <1>10, PeersKeepInTurn
<1>11. ASSUME NEW tr \in Transactions, AnswerTransaction(tr) PROVE InTurn'
  <2>1. UNCHANGED <<mode, phase, currentCall>>
    BY <1>11 DEF AnswerTransaction, manager
  <2>2. PICK ok \in BOOLEAN : Raise(<<Block(IF ok THEN "registered" ELSE "failed", tr.ua)>>)
    BY <1>11, Zenon DEF AnswerTransaction
  <2> DEFINE x == Block(IF ok THEN "registered" ELSE "failed", tr.ua)
  <2>3. tr.ua \in Uas
    BY DEF Transactions
  <2>4. x \in Blocks
    BY <2>3, BlockTypes DEF AccountEvents
  <2>5. x.event \in AccountEvents
    BY DEF AccountEvents, Block
  <2>6. queue' = queue \o <<x>>
    BY <2>2 DEF Raise
  <2> HIDE DEF x
  <2> QED BY <2>1, <2>4, <2>5, <2>6, AccountBlockKeepsInTurn
<1>12. ASSUME NEW u \in Uas, PeriodicRefresh(u) PROVE InTurn'
  BY <1>12, InTurnUnchanged DEF PeriodicRefresh, manager
<1>13. CASE UNCHANGED vars
  BY <1>13, InTurnUnchanged DEF vars, manager
<1> QED BY <1>1, <1>2, <1>3, <1>4, <1>5, <1>6, <1>7, <1>8, <1>9, <1>10, <1>11, <1>12, <1>13,
           Zenon DEF Next

(* When calls come in turn and no block waits, the methods reach the live  *)
(* call, however many calls came before it and whoever ended them: what    *)
(* the end of a call forgets is never the next one (onCallClosed sets      *)
(* currentCall to nil, whichever call that was).                           *)
THEOREM LiveCallIsReachable == Spec => []LiveIsReachable
<1>1. Init => InTurn
  BY DEF Init, InTurn, Live
<1>2. IInv /\ InTurn /\ [Next]_vars => InTurn'
  BY NextKeepsInTurn
<1>3. InTurn => LiveIsReachable
  <2>1. ASSUME queue = <<>> PROVE \A i \in 1 .. Len(queue) : FALSE
    BY <2>1
  <2> SUFFICES ASSUME InTurn, queue = <<>>, mode = "in turn", NEW c \in CallIds, Live(c)
               PROVE  currentCall \in {c, NoHandle}
    BY DEF LiveIsReachable, Quiet
  <2>2. Heading(queue, c, currentCall)
    BY DEF InTurn
  <2> QED BY <2>1, <2>2 DEF Heading
<1> QED BY <1>1, <1>2, <1>3, AlwaysInOrder, PTL DEF Spec
=============================================================================
