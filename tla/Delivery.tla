------------------------------ MODULE Delivery ------------------------------
(***************************************************************************)
(* How an event of SipManager comes to the Dart application.  sendEvent    *)
(* posts it to the main looper of Android; there it goes to the sink of    *)
(* the Flutter engine that listens, if one does, and on to CallModule,     *)
(* which hands it to those who listen to its kind.  CallModule listens to  *)
(* the engine from the first initSipModule on.  Engines come and go, and   *)
(* SipManager stays, with its accounts and calls.                          *)
(*                                                                         *)
(* External: the looper and the event channel keep the order of what goes  *)
(* through them, the first subscription to a channel's broadcast stream    *)
(* tells Android to listen, and an event of a broadcast stream without     *)
(* subscribers is dropped.                                                 *)
(***************************************************************************)
EXTENDS Naturals, Sequences, FiniteSets

CONSTANTS
    Engines,   \* the Flutter engines of a process
    Together,  \* whether an engine may attach while another one is there
    MaxEvents, \* the events that SipManager sends, at most
    MaxInits   \* the calls of initSipModule in an engine, at most

ASSUME BoundsAssumption == MaxEvents \in Nat /\ MaxInits \in Nat
ASSUME TogetherAssumption == Together \in BOOLEAN

\* An event is about a call or about the account: Dart has a stream for each.
Streams == {"call", "account"}

NoSink == "no sink"

ASSUME NoSinkAssumption == NoSink \notin Engines

Events == [number : 1..MaxEvents, stream : Streams]

VARIABLES
    attached,      \* the engines that are attached
    detached,      \* those that were
    eventSink,     \* SipFlutterPlugin.eventSink, by its engine
    initialised,   \* whether initSipModule came to SipManager
    sent,          \* the number of events so far
    looper,        \* what waits for the main thread of Android
    channel,       \* the events on their way to the Dart code of an engine
    inits,         \* the calls of initSipModule there
    unheard,       \* how many of them found nobody listening to calls
    subscriptions, \* how often _listener listens to broadcastStream
    listening,     \* the streams of CallModule that the application listens to
    heard,         \* the numbers of the events it heard, by stream
    due            \* those sent while it listened, since it last began to

android == <<attached, detached, eventSink, initialised>>
dart == <<inits, unheard, subscriptions, listening>>

vars == <<android, sent, looper, channel, dart, heard, due>>

ListenMessage(e) == [what |-> "listen", engine |-> e]
InitMessage(e) == [what |-> "initSipModule", engine |-> e]
EventMessage(event) == [what |-> "event", event |-> event]

Messages ==
    [what : {"listen", "initSipModule"}, engine : Engines]
        \union [what : {"event"}, event : Events]

Init ==
    /\ attached = {} /\ detached = {} /\ eventSink = NoSink /\ initialised = FALSE
    /\ sent = 0 /\ looper = <<>>
    /\ channel = [e \in Engines |-> <<>>]
    /\ inits = [e \in Engines |-> 0]
    /\ unheard = [e \in Engines |-> 0]
    /\ subscriptions = [e \in Engines |-> 0]
    /\ listening = [e \in Engines |-> {}]
    /\ heard = [e \in Engines |-> [s \in Streams |-> <<>>]]
    /\ due = [e \in Engines |-> [s \in Streams |-> {}]]
-----------------------------------------------------------------------------
(* Engines.                                                                *)

OnAttachedToEngine(e) ==
    /\ e \notin attached \union detached
    /\ Together \/ attached = {}
    /\ attached' = attached \union {e}
    /\ UNCHANGED <<detached, eventSink, initialised, sent, looper, channel, dart, heard, due>>

\* Its Dart code is gone with it, and what was on its way there.
DartEnds(e) ==
    /\ channel' = [channel EXCEPT ![e] = <<>>]
    /\ inits' = [inits EXCEPT ![e] = 0]
    /\ unheard' = [unheard EXCEPT ![e] = 0]
    /\ subscriptions' = [subscriptions EXCEPT ![e] = 0]
    /\ listening' = [listening EXCEPT ![e] = {}]
    /\ heard' = [heard EXCEPT ![e] = [s \in Streams |-> <<>>]]
    /\ due' = [due EXCEPT ![e] = [s \in Streams |-> {}]]

FaultyOnDetachedFromEngine(e) ==
    /\ e \in attached
    /\ attached' = attached \ {e} /\ detached' = detached \union {e}
    /\ DartEnds(e)
    /\ UNCHANGED <<eventSink, initialised, sent, looper>>

\* Whatever sink there is is forgotten, this engine's or not.
OnDetachedFromEngine(e) ==
    /\ e \in attached
    /\ attached' = attached \ {e} /\ detached' = detached \union {e}
    /\ eventSink' = NoSink
    /\ DartEnds(e)
    /\ UNCHANGED <<initialised, sent, looper>>
-----------------------------------------------------------------------------
(* The application in Dart.                                                *)

FaultyInitSipModule(e) ==
    /\ inits[e] < MaxInits
    /\ inits' = [inits EXCEPT ![e] = @ + 1]
    /\ unheard' = [unheard EXCEPT ![e] = IF "call" \in listening[e] THEN @ ELSE @ + 1]
    /\ subscriptions' = [subscriptions EXCEPT ![e] = @ + 1]
    /\ looper' = looper \o (IF subscriptions[e] = 0 THEN <<ListenMessage(e)>> ELSE <<>>)
                        \o <<InitMessage(e)>>
    /\ UNCHANGED <<listening, channel, heard, due>>

\* CallModule listens unless the application listens to calls already.
InitSipModule(e) ==
    LET hasListener == "call" \in listening[e]
        listens == ~hasListener /\ subscriptions[e] = 0
    IN  /\ inits[e] < MaxInits
        /\ inits' = [inits EXCEPT ![e] = @ + 1]
        /\ unheard' = [unheard EXCEPT ![e] = IF hasListener THEN @ ELSE @ + 1]
        /\ subscriptions' = [subscriptions EXCEPT ![e] = IF hasListener THEN @ ELSE @ + 1]
        /\ looper' = looper \o (IF listens THEN <<ListenMessage(e)>> ELSE <<>>)
                            \o <<InitMessage(e)>>
        /\ UNCHANGED <<listening, channel, heard, due>>

ListenTo(e, s) ==
    /\ s \notin listening[e]
    /\ listening' = [listening EXCEPT ![e] = @ \union {s}]
    /\ UNCHANGED <<inits, unheard, subscriptions, looper, channel, heard, due>>

CancelListening(e, s) ==
    /\ s \in listening[e]
    /\ listening' = [listening EXCEPT ![e] = @ \ {s}]
    /\ due' = [due EXCEPT ![e][s] = {}]
    /\ UNCHANGED <<inits, unheard, subscriptions, looper, channel, heard>>

Times(n, x) == [i \in 1..n |-> x]

\* Every subscription adds the event to its stream, which drops it if nobody
\* listens.
Listener(e) ==
    /\ channel[e] # <<>>
    /\ LET event == Head(channel[e])
           reaches == event.stream \in listening[e]
       IN  heard' = IF reaches
                    THEN [heard EXCEPT ![e][event.stream] =
                             @ \o Times(subscriptions[e], event.number)]
                    ELSE heard
    /\ channel' = [channel EXCEPT ![e] = Tail(@)]
    /\ UNCHANGED <<dart, looper, due>>

App(e) ==
    /\ e \in attached
    /\ \/ InitSipModule(e)
       \/ \E s \in Streams : ListenTo(e, s) \/ CancelListening(e, s)
       \/ Listener(e)
    /\ UNCHANGED <<android, sent>>
-----------------------------------------------------------------------------
(* Android: SipManager, on any thread, and the main looper.                *)

\* An application that listens expects the event, if one of its calls of
\* initSipModule came before it listened to calls.
Expecting(e, s) == e \in attached /\ unheard[e] > 0 /\ s \in listening[e]

FaultySendEvent(s) ==
    /\ initialised /\ sent < MaxEvents
    /\ sent' = sent + 1
    /\ looper' = IF eventSink = NoSink THEN looper
                 ELSE Append(looper, EventMessage([number |-> sent + 1, stream |-> s]))
    /\ due' = [e \in Engines |->
                  IF Expecting(e, s) THEN [due[e] EXCEPT ![s] = @ \union {sent + 1}] ELSE due[e]]
    /\ UNCHANGED <<android, channel, dart, heard>>

SendEvent(s) ==
    /\ initialised /\ sent < MaxEvents
    /\ sent' = sent + 1
    /\ looper' = Append(looper, EventMessage([number |-> sent + 1, stream |-> s]))
    /\ due' = [e \in Engines |->
                  IF Expecting(e, s) THEN [due[e] EXCEPT ![s] = @ \union {sent + 1}] ELSE due[e]]
    /\ UNCHANGED <<android, channel, dart, heard>>

\* The channel cancels the sink before when an engine listens once more.
OnListen(e) ==
    /\ eventSink' = e
    /\ UNCHANGED <<initialised, channel>>

OnInitSipModule ==
    /\ initialised' = TRUE
    /\ UNCHANGED <<eventSink, channel>>

Success(event) ==
    /\ channel' = IF eventSink = NoSink THEN channel
                  ELSE [channel EXCEPT ![eventSink] = Append(@, event)]
    /\ UNCHANGED <<eventSink, initialised>>

\* Messages of an engine that is gone are not handled.
MainLooper ==
    /\ looper # <<>>
    /\ LET message == Head(looper) IN
         \/ message.what = "event" /\ Success(message.event)
         \/ /\ message.what = "listen" /\ message.engine \in attached
            /\ OnListen(message.engine)
         \/ /\ message.what = "initSipModule" /\ message.engine \in attached
            /\ OnInitSipModule
         \/ /\ message.what # "event" /\ message.engine \notin attached
            /\ UNCHANGED <<eventSink, initialised, channel>>
    /\ looper' = Tail(looper)
    /\ UNCHANGED <<attached, detached, sent, dart, heard, due>>
-----------------------------------------------------------------------------
Next ==
    \/ \E e \in Engines : OnAttachedToEngine(e) \/ OnDetachedFromEngine(e) \/ App(e)
    \/ \E s \in Streams : SendEvent(s)
    \/ MainLooper

\* The main thread and the Dart code of an engine take what waits for them.
Fairness ==
    /\ WF_vars(MainLooper)
    /\ \A e \in Engines : WF_vars(e \in attached /\ Listener(e) /\ UNCHANGED <<android, sent>>)

Spec == Init /\ [][Next]_vars /\ Fairness
-----------------------------------------------------------------------------
(* What Flutter keeps for an engine is well formed, and the static         *)
(* eventSink never outlives its engine (onDetachedFromEngine resets it),   *)
(* so that no event goes into the channel of an engine that is gone.       *)
TypeOK ==
    /\ attached \subseteq Engines /\ detached \subseteq Engines \ attached
    /\ eventSink \in attached \union {NoSink}
    /\ initialised \in BOOLEAN
    /\ sent \in 0..MaxEvents
    /\ looper \in Seq(Messages)
    /\ channel \in [Engines -> Seq(Events)]
    /\ inits \in [Engines -> 0..MaxInits]
    /\ unheard \in [Engines -> 0..MaxInits]
    /\ subscriptions \in [Engines -> 0..MaxInits]
    /\ listening \in [Engines -> SUBSET Streams]
    /\ heard \in [Engines -> [Streams -> Seq(1..MaxEvents)]]
    /\ due \in [Engines -> [Streams -> SUBSET (1..MaxEvents)]]

(* The application hears the events in the order in which they were sent,  *)
(* and each once, whenever it calls initSipModule, unless nobody listened  *)
(* to calls at two of these calls: call_module.dart:33 listens to the      *)
(* channel whenever nobody listens to calls, once more the second time.    *)
HeardOnceInOrder ==
    \A e \in Engines, s \in Streams : \A i, j \in DOMAIN heard[e][s] :
        i < j => \/ heard[e][s][i] < heard[e][s][j]
                 \/ unheard[e] > 1 /\ heard[e][s][i] = heard[e][s][j]

(* An application that called initSipModule when it did not listen to      *)
(* calls, and listens now, hears every event sent from then on, in every   *)
(* engine, unless it stops listening or its engine goes.  "listen" must    *)
(* not be overtaken by an event, and the sink is read when the event is    *)
(* handled, not when it is sent.                                           *)
Heard(e, s) == {heard[e][s][i] : i \in DOMAIN heard[e][s]}

DueArrives ==
    \A e \in Engines, s \in Streams, n \in 1..MaxEvents :
        n \in due[e][s] ~> (n \in Heard(e, s) \/ n \notin due[e][s] \/ e \notin attached)
=============================================================================
