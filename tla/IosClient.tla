----------------------------- MODULE IosClient -----------------------------
(***************************************************************************)
(* Calls and accounts of the iOS plugin: the methods of SipManager.swift,  *)
(* the delegate it is of SipClient, and the event handler of SipClient.mm, *)
(* over the calls and UAs that baresip keeps.                              *)
(*                                                                         *)
(* The fields of SipManager belong to the main thread: methods run there,  *)
(* and ua_event_handler, which baresip calls on the thread that caused the *)
(* event, only dispatches a block to the main queue.  So a method sees     *)
(* what the blocks told it, not what baresip has done since.  Unlike on    *)
(* Android the lock of baresip is kept during its upcalls: what a method   *)
(* calls under the lock is one step, together with the events it causes.   *)
(*                                                                         *)
(* The behaviour starts when start() has succeeded and Dart listens.  The  *)
(* set SipManager.calls is written but never read and is left out, and so  *)
(* is the UA of a SipCall: it is set whenever there is a call.  What is    *)
(* done with a call that baresip has destroyed is undefined: the model     *)
(* notes it and stops.                                                     *)
(*                                                                         *)
(* Definitions named Faulty... are plausible mistakes in the definition    *)
(* after them; nothing uses them (see the README).                         *)
(***************************************************************************)
EXTENDS Naturals, Scripts, SequencesExt

CONSTANTS
    CallIds,    \* the calls of a behaviour, never the same handle twice
    Uas,        \* the UAs that ua_alloc may return
    NoCall,     \* currentCall == nil
    NoHandle,   \* a SipCall whose handle was never set
    NoUa,       \* SipClient.ua == nil
    Methods,    \* the methods that the application calls
    Faults,     \* the local failures that may happen
    QueueBound, \* bound: nothing new begins while more blocks wait
    Modes       \* see mode

ASSUME NamesAssumption ==
    /\ NoCall \notin CallIds /\ NoHandle \notin CallIds /\ NoCall # NoHandle
    /\ NoUa \notin Uas
ASSUME MethodsAssumption ==
    Methods \subseteq {"init", "refresh", "unregister", "call", "answer",
                       "hangup", "pause", "resume"}
ASSUME FaultsAssumption == Faults \subseteq {"alloc", "register", "connect"}
ASSUME BoundAssumption == QueueBound \in Nat
ASSUME ModesAssumption == Modes \subseteq {"accounts", "together", "in turn"}

\* RegisterSipState
States == {"None", "Progress", "Ok", "Cleared", "Failed", "Refreshing"}

AccountEvents == {"registering", "registered", "failed", "unregistering"}
CallEvents == {"outgoing", "incoming", "ringing", "progress", "established", "closed"}

Blocks == [event : AccountEvents, of : Uas] \union [event : CallEvents, of : CallIds]

Transactions == [ua : Uas, kind : {"register", "unregister"}]

VARIABLES
    mode,               \* "accounts": the account methods and no call; "together",
                        \* "in turn": calls over one account, which in turn begin
                        \* when the others are over
    ua,                 \* SipClient.ua
    cacheStateAccount,  \* SipManager.cacheStateAccount
    currentCall,        \* SipManager.currentCall, by its handle
    queue,              \* the blocks dispatched to the main queue
    phase,              \* per call, how far it is in baresip
    pending,            \* transactions whose answer is still to come
    wanted,             \* per UA, the last transaction sent for it
    outcome,            \* per UA, how that transaction was answered
    misused,            \* a destroyed call was used
    told                \* per call, the events Ring, Up and Hangup sent to Dart

manager == <<ua, cacheStateAccount, currentCall>>
registrar == <<pending, wanted, outcome>>
vars == <<mode, manager, queue, phase, registrar, misused, told, todo>>

Phases == {"none", "outgoing", "incoming", "answered", "up", "failed", "gone"}

TypeOK ==
    /\ mode \in Modes
    /\ ua \in Uas \union {NoUa}
    /\ cacheStateAccount \in States
    /\ currentCall \in CallIds \union {NoCall, NoHandle}
    /\ queue \in Seq(Blocks)
    /\ phase \in [CallIds -> Phases]
    /\ pending \subseteq Transactions
    /\ wanted \in [Uas -> {"none", "register", "unregister"}]
    /\ outcome \in [Uas -> {"none", "ok", "failed"}]
    /\ misused \in BOOLEAN
    /\ told \in [CallIds -> Seq({"Ring", "Up", "Hangup"})]
    /\ todo \in [{"main"} -> Seq([op : {"registry"}])]

Init ==
    /\ mode \in Modes
    /\ IF mode = "accounts" THEN ua = NoUa ELSE ua \in Uas
    /\ cacheStateAccount = "None"
    /\ currentCall = NoCall
    /\ queue = <<>>
    /\ phase = [c \in CallIds |-> "none"]
    /\ pending = {}
    /\ wanted = [u \in Uas |-> "none"]
    /\ outcome = [u \in Uas |-> "none"]
    /\ misused = FALSE
    /\ told = [c \in CallIds |-> <<>>]
    /\ todo = [t \in {"main"} |-> <<>>]

-----------------------------------------------------------------------------
Block(event, x) == [event |-> event, of |-> x]

\* ua_event_handler: each event becomes a block, in the order of the events.
Raise(blocks) == queue' = queue \o blocks

NotFlooded == Len(queue) <= QueueBound

Method(m) == m \in Methods /\ Idle("main") /\ NotFlooded

AccountMethod(m) == Method(m) /\ mode = "accounts"

Fresh(u) == wanted[u] = "none" /\ u # ua

Over(c) == phase[c] \in {"failed", "gone"}

Live(c) == phase[c] \in {"outgoing", "incoming", "answered", "up"}

CanBegin(c) ==
    /\ phase[c] = "none" /\ ua # NoUa /\ mode # "accounts"
    /\ mode = "in turn" => \A d \in CallIds : phase[d] = "none" \/ Over(d)

-----------------------------------------------------------------------------
(* Account methods.                                                        *)

(* ua_unregister: nothing to remove, nothing sent, for a UA that never     *)
(* registered.  ua keeps the UA.                                           *)
Unregister ==
    IF ua = NoUa THEN UNCHANGED <<queue, registrar>>
    ELSE /\ Raise(<<Block("unregistering", ua)>>)
         /\ IF wanted[ua] = "none" THEN UNCHANGED registrar
            ELSE /\ pending' = pending \union {[ua |-> ua, kind |-> "unregister"]}
                 /\ wanted' = [wanted EXCEPT ![ua] = "unregister"]
                 /\ outcome' = [outcome EXCEPT ![ua] = "none"]

UnregisterSipAccount ==
    /\ AccountMethod("unregister")
    /\ Unregister
    /\ UNCHANGED <<mode, manager, phase, misused, told, todo>>

(* initSipModule unregisters a UA only once that has registered.           *)
InitSipModule ==
    /\ AccountMethod("init")
    /\ \E u \in Uas : Fresh(u)
    /\ IF ua # NoUa /\ outcome[ua] = "ok" THEN Unregister
                                          ELSE UNCHANGED <<queue, registrar>>
    /\ Start("main", <<[op |-> "registry"]>>)
    /\ UNCHANGED <<mode, manager, phase, misused, told>>

RefreshSipAccount ==
    /\ AccountMethod("refresh")
    /\ \E u \in Uas : Fresh(u)
    /\ Start("main", <<[op |-> "registry"]>>)
    /\ UNCHANGED <<mode, manager, queue, phase, registrar, misused, told>>

(* registry() takes a new UA each time; the one before lives on.           *)
Registry ==
    /\ At("main", "registry")
    /\ \/ \E u \in Uas :
             /\ Fresh(u)
             /\ ua' = u
             /\ wanted' = [wanted EXCEPT ![u] = "register"]
             /\ \/ /\ Raise(<<Block("registering", u)>>)
                   /\ pending' = pending \union {[ua |-> u, kind |-> "register"]}
                   /\ UNCHANGED outcome
                \/ /\ "register" \in Faults
                   /\ Raise(<<Block("registering", u), Block("failed", u)>>)
                   /\ outcome' = [outcome EXCEPT ![u] = "failed"]
                   /\ UNCHANGED pending
       \/ "alloc" \in Faults /\ UNCHANGED <<ua, queue, registrar>>
    /\ Continue("main", <<>>)
    /\ UNCHANGED <<mode, cacheStateAccount, currentCall, phase, misused, told>>

-----------------------------------------------------------------------------
(* Call methods.                                                           *)

(* call() reports success and keeps the SipCall whatever becomes of it:    *)
(* without a UA, when baresip cannot make a call of the address, and when  *)
(* it cannot send the INVITE, after it has raised "call outgoing" and      *)
(* before it destroys the call.                                            *)
Call ==
    /\ Method("call")
    /\ \/ \E c \in CallIds :
             /\ CanBegin(c)
             /\ Raise(<<Block("outgoing", c)>>)
             /\ \/ /\ phase' = [phase EXCEPT ![c] = "outgoing"]
                   /\ currentCall' = c
                \/ /\ "connect" \in Faults
                   /\ phase' = [phase EXCEPT ![c] = "failed"]
                   /\ currentCall' = NoHandle
       \/ /\ ua = NoUa \/ "connect" \in Faults
          /\ currentCall' = NoHandle
          /\ UNCHANGED <<queue, phase>>
    /\ UNCHANGED <<mode, ua, cacheStateAccount, registrar, misused, told, todo>>

(* The calls that a method may act on: that of currentCall or, where it    *)
(* has no handle, any that baresip takes for the current one of the UA.    *)
Meant == IF currentCall \in CallIds THEN {currentCall}
         ELSE {c \in CallIds : currentCall = NoHandle /\ Live(c)}

Answer(c) ==
    /\ Method("answer") /\ c \in Meant
    /\ misused' = Over(c)
    /\ phase' = [phase EXCEPT ![c] = IF @ = "incoming" THEN "answered" ELSE @]
    /\ UNCHANGED <<mode, manager, queue, registrar, told, todo>>

(* hangup and reject: baresip raises "call closed" and destroys the call.  *)
Hangup(c) ==
    /\ Method("hangup") /\ c \in Meant
    /\ IF Over(c)
          THEN misused' = TRUE /\ UNCHANGED <<queue, phase>>
          ELSE /\ Raise(<<Block("closed", c)>>)
               /\ phase' = [phase EXCEPT ![c] = "gone"]
               /\ UNCHANGED misused
    /\ UNCHANGED <<mode, manager, registrar, told, todo>>

(* pause and resume: no event, and nothing but the peer hears of it.       *)
Hold(m, c) ==
    /\ Method(m) /\ currentCall = c
    /\ misused' = Over(c)
    /\ UNCHANGED <<mode, manager, queue, phase, registrar, told, todo>>

-----------------------------------------------------------------------------
(* What the peer and the registrar do, reported on the baresip thread.     *)

Peer(c, before, after, event) ==
    /\ phase[c] \in before
    /\ phase' = [phase EXCEPT ![c] = after]
    /\ Raise(<<Block(event, c)>>)
    /\ UNCHANGED <<mode, manager, registrar, misused, told, todo>>

Incoming(c) ==
    /\ CanBegin(c) /\ NotFlooded
    /\ Peer(c, {"none"}, "incoming", "incoming")

Progress(c) ==
    /\ NotFlooded
    /\ \E event \in {"ringing", "progress"} :
          Peer(c, {"outgoing"}, "outgoing", event)

Established(c) == Peer(c, {"outgoing", "answered"}, "up", "established")

Close(c) == Peer(c, {"outgoing", "incoming", "answered", "up"}, "gone", "closed")

(* The registrar answers, or the transaction times out.  The answer to a   *)
(* REGISTER that an un-REGISTER has overtaken still raises its event.      *)
AnswerTransaction(tr) ==
    /\ tr \in pending
    /\ pending' = pending \ {tr}
    /\ \E ok \in BOOLEAN :
          /\ Raise(<<Block(IF ok THEN "registered" ELSE "failed", tr.ua)>>)
          /\ outcome' = [outcome EXCEPT ![tr.ua] =
                            CASE tr.kind # wanted[tr.ua] -> @
                              [] ok -> "ok"
                              [] OTHER -> "failed"]
    /\ UNCHANGED <<mode, manager, phase, wanted, misused, told, todo>>

\* baresip registers again before the expiry, or after a failure.
PeriodicRefresh(u) ==
    /\ NotFlooded
    /\ wanted[u] = "register" /\ outcome[u] # "none"
    /\ pending' = pending \union {[ua |-> u, kind |-> "register"]}
    /\ UNCHANGED <<mode, manager, queue, phase, wanted, outcome, misused, told, todo>>

-----------------------------------------------------------------------------
(* The blocks on the main queue: the delegate methods of SipManager.       *)

(* The names of baresip's events go out as they are.                       *)
FaultyState(event) ==
    CASE event = "registering" -> "Progress"
      [] event = "registered" -> "Ok"
      [] OTHER -> event

(* A delegate method that SipClient does not find: nothing is told.        *)
FaultyUnheardState(event) ==
    CASE event = "registering" -> "Progress"
      [] event = "registered" -> "Ok"
      [] event = "failed" -> cacheStateAccount
      [] event = "unregistering" -> "None"

State(event) ==
    CASE event = "registering" -> "Progress"
      [] event = "registered" -> "Ok"
      [] event = "failed" -> "Failed"
      [] event = "unregistering" -> "None"

(* The end of a call is told but the call stays the current one.           *)
FaultyCurrentAfter(b) == b.of

(* An incoming call is put into calls, where nothing finds it.             *)
FaultyListedAfter(b) ==
    CASE b.event = "closed" -> NoCall
      [] b.event = "incoming" -> currentCall
      [] OTHER -> b.of

(* Every event of a call makes it the current one, but its end leaves no   *)
(* current call, whichever that was.                                       *)
CurrentAfter(b) == IF b.event = "closed" THEN NoCall ELSE b.of

(* The end is told only of the current call.                               *)
FaultyTold(b) ==
    CASE b.event \in {"outgoing", "incoming"} -> <<"Ring">>
      [] b.event = "established" -> <<"Up">>
      [] b.event = "closed" -> IF currentCall = b.of THEN <<"Hangup">> ELSE <<>>
      [] OTHER -> <<>>

Told(b) ==
    CASE b.event \in {"outgoing", "incoming"} -> <<"Ring">>
      [] b.event = "established" -> <<"Up">>
      [] b.event = "closed" -> <<"Hangup">>
      [] OTHER -> <<>>

OnAccount(b) ==
    /\ b.event \in AccountEvents
    /\ cacheStateAccount' = State(b.event)
    /\ UNCHANGED <<currentCall, told>>

OnCall(b) ==
    /\ b.event \in CallEvents
    /\ currentCall' = CurrentAfter(b)
    /\ told' = [told EXCEPT ![b.of] = @ \o Told(b)]
    /\ UNCHANGED cacheStateAccount

(* The blocks go to a concurrent queue.                                    *)
FaultyHandleBlock ==
    /\ Idle("main")
    /\ \E i \in 1 .. Len(queue) :
          /\ OnAccount(queue[i]) \/ OnCall(queue[i])
          /\ queue' = RemoveAt(queue, i)
    /\ UNCHANGED <<mode, ua, phase, registrar, misused, todo>>

HandleBlock ==
    /\ Idle("main") /\ queue # <<>>
    /\ OnAccount(Head(queue)) \/ OnCall(Head(queue))
    /\ queue' = Tail(queue)
    /\ UNCHANGED <<mode, ua, phase, registrar, misused, todo>>

-----------------------------------------------------------------------------
Next ==
    /\ ~ misused
    /\ \/ InitSipModule \/ RefreshSipAccount \/ UnregisterSipAccount \/ Registry
       \/ Call \/ HandleBlock
       \/ \E c \in CallIds :
             \/ Answer(c) \/ Hangup(c) \/ Hold("pause", c) \/ Hold("resume", c)
             \/ Incoming(c) \/ Progress(c) \/ Established(c) \/ Close(c)
       \/ \E tr \in Transactions : AnswerTransaction(tr)
       \/ \E u \in Uas : PeriodicRefresh(u)

Spec == Init /\ [][Next]_vars

(* The main queue is served, methods or not; a method goes on; every       *)
(* transaction is answered or times out.                                   *)
Fairness ==
    /\ SF_vars(~ misused /\ HandleBlock)
    /\ WF_vars(~ misused /\ Registry)
    /\ \A tr \in Transactions : WF_vars(~ misused /\ AnswerTransaction(tr))

FairSpec == Spec /\ Fairness

-----------------------------------------------------------------------------
(* Properties.                                                             *)

Quiet == ~ misused /\ queue = <<>> /\ Idle("main")

WasTold(c, event) == \E i \in 1 .. Len(told[c]) : told[c][i] = event

(* The events of a call reach Dart as CallStatus promises, even when both  *)
(* sides end it at once and while calls overlap (ua_event_handler, the     *)
(* onCall... methods, makeCall).                                           *)
Promise == INSTANCE CallStatus
CallsAsPromised == Promise!Spec

(* When no block waits, the current call is live or one whose INVITE could *)
(* not be sent: the events of a call that was closed never outlive the     *)
(* block that forgets it, while a call that failed to connect, which       *)
(* baresip destroys without "call closed", is made current by its          *)
(* "call outgoing" (onCallOutgoing) and stays it.                          *)
CurrentIsLiveOrFailed ==
    Quiet /\ currentCall \in CallIds =>
        Live(currentCall) \/ phase[currentCall] = "failed"

(* When no block waits and calls come in turn, no other call than the live *)
(* one is current (onCallClosed forgets whatever call is current).  After  *)
(* makeCall it may be a call without a handle, with which hangup ends the  *)
(* call of the account, while pause, resume and mute do nothing.           *)
LiveIsReachable ==
    Quiet /\ mode = "in turn" =>
        \A c \in CallIds : Live(c) => currentCall \in {c, NoHandle}

(* A call that rang and was closed is told to have ended.  Nothing says so *)
(* of a call whose INVITE could not be sent: it is told Ring by its block  *)
(* and then destroyed without an event (makeCall).                         *)
EndComesThrough ==
    \A c \in CallIds :
        (WasTold(c, "Ring") /\ phase[c] = "gone") ~> (WasTold(c, "Hangup") \/ misused)

(* A Progress that Dart was told does not stay, with every UA that was     *)
(* replaced still reporting (registry, onWillRegister, onFailedRegister).  *)
ProgressResolves == (cacheStateAccount = "Progress") ~> (cacheStateAccount # "Progress" \/ misused)
=============================================================================
