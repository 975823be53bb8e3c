------------------------------- MODULE Calls -------------------------------
(***************************************************************************)
(* Calls of the Android plugin: the call methods of SipManager and the     *)
(* call branch of uaEvent, over the calls that baresip keeps, with the     *)
(* sounds of module Media.                                                 *)
(*                                                                         *)
(* Two threads run this code and nothing excludes them from one another:   *)
(* the platform thread "main" (method calls, and the upcalls that baresip  *)
(* makes while it carries them out) and the baresip thread "re" (what the  *)
(* peer does).  baresip's lock is released during an upcall, so a call may *)
(* be hung up on one thread while the other is still reporting an event of *)
(* it.  A step of a thread is one access to the fields of SipManager, one  *)
(* call into Media or one call into baresip; a method of SipCall reads the *)
(* handle of the call first and then calls baresip with it.                *)
(*                                                                         *)
(* The behaviour starts when initSipModule has set up an account.  Of the  *)
(* account only its presence matters here.  Posted events reach Dart in    *)
(* the order of their posting, so posting one is telling it.  What a       *)
(* thread does with a call that baresip has destroyed is undefined: the    *)
(* model notes it and stops.                                               *)
(*                                                                         *)
(* Definitions named Faulty... are variants of the definition after them,  *)
(* each with a plausible mistake; nothing uses them (see the README).      *)
(***************************************************************************)
EXTENDS Media

CONSTANTS
    CallIds,  \* the calls of a behaviour, never the same handle twice
    NoCall,   \* SipManager.currentCall == null
    Methods,  \* the methods that the application calls
    Peer,     \* what the peers do
    Faults,   \* the local failures that may happen
    Overlap   \* may a call begin before the others have ended?

ASSUME NoCallAssumption == NoCall \notin [callp : CallIds, ua : BOOLEAN]
ASSUME MethodsAssumption ==
    Methods \subseteq {"init", "unregister", "call", "answer", "hangup",
                       "pause", "resume", "detach"}
ASSUME PeerAssumption ==
    Peer \subseteq {"incoming", "close", "update", "inactive", "recvonly"}
ASSUME FaultsAssumption == Faults \subseteq {"connect"}
ASSUME OverlapAssumption == Overlap \in BOOLEAN

Threads == {"main", "re"}

\* SipCall, without dir; ua tells whether its UA is a handle or 0.
SipCalls == [callp : CallIds, ua : BOOLEAN]

(* The call events that uaEvent is called with; "other" stands for those   *)
(* that match no branch ("call answered", "call secure", "call transfer"). *)
Events == {"incoming", "outgoing", "ringing", "progress", "early media",
           "update 0", "update 1", "update 2", "update 3", "established",
           "closed", "closed busy", "other"}

Ops == [op : {"uaEvent", "sipCall"}, call : CallIds, event : Events]
       \union [op : {"tell"}, call : CallIds,
               event : {"Ring", "Up", "Paused", "Resuming", "Hangup"}]
       \union [op : {"delist", "destroy", "sendInvite", "sendAnswer",
                     "setCurrent"}, call : CallIds]
       \union [op : {"closeCurrent"}, busy : BOOLEAN]
       \union [op : {"withCurrent"},
               do : {"answer", "hangup", "pause", "resume"}]
       \union [op : {"answer", "hangup", "pause", "resume"}, call : CallIds]
       \union [op : {"startRinging", "stopRinging", "stopRingtone", "playRingBack",
                     "playBusy", "startPlayer", "stopMediaPlayer", "release", "noPlayer",
                     "setCallVolume", "resetIfCurrent", "resetIfNone",
                     "noCurrent", "noUa", "setUa"}]
       \union [op : {"newTimer", "schedule", "ifTimer", "cancel", "noTimer"}, timer : Timers]
       \union [op : {"newPlayer"}, tone : Tones]

VARIABLES
    ua,           \* SipManager.ua # null
    isRunning,    \* SipManager.isRunning
    calls,        \* SipManager.calls, by handle
    currentCall,  \* SipManager.currentCall
    phase,        \* per call, how far it is in baresip
    held,         \* per call, put on hold by the application
    peerHolds,    \* per call, put on hold by the peer
    told,         \* per call, the events Ring, Up and Hangup sent to Dart
    holdTold,     \* per call, the last of Paused and Resuming sent to Dart
    late,         \* call() made a call the current one that was over by then
    misused       \* a destroyed call was used

kotlin == <<ua, isRunning, calls, currentCall>>
baresip == <<phase, held, peerHolds, misused>>
dart == <<told, holdTold, late>>
vars == <<kotlin, baresip, dart, media, todo>>

(* "idle" is allocated; "failed" could not be connected; "cancelled" (by    *)
(* the peer, before he acknowledged an answer) and "closing" are over, but *)
(* not yet destroyed.                                                      *)
Phases == {"none", "idle", "outgoing", "failed", "incoming", "answered", "up",
           "cancelled", "closing", "gone"}

TypeOK ==
    /\ ua \in BOOLEAN /\ isRunning \in BOOLEAN
    /\ calls \subseteq CallIds
    /\ currentCall \in SipCalls \union {NoCall}
    /\ phase \in [CallIds -> Phases]
    /\ held \in [CallIds -> BOOLEAN]
    /\ peerHolds \in [CallIds -> BOOLEAN]
    /\ told \in [CallIds -> Seq({"Ring", "Up", "Hangup"})]
    /\ holdTold \in [CallIds -> {"none", "Paused", "Resuming"}]
    /\ late \in BOOLEAN
    /\ misused \in BOOLEAN
    /\ todo \in [Threads -> Seq(Ops)]
    /\ MediaTypeOK

Init ==
    /\ ua = TRUE /\ isRunning = TRUE
    /\ calls = {}
    /\ currentCall = NoCall
    /\ phase = [c \in CallIds |-> "none"]
    /\ held = [c \in CallIds |-> FALSE]
    /\ peerHolds = [c \in CallIds |-> FALSE]
    /\ told = [c \in CallIds |-> <<>>]
    /\ holdTold = [c \in CallIds |-> "none"]
    /\ late = FALSE
    /\ misused = FALSE
    /\ todo = [t \in Threads |-> <<>>]
    /\ MediaInit

-----------------------------------------------------------------------------
UaEvent(c, event) == [op |-> "uaEvent", call |-> c, event |-> event]

Tell(c, event) == [op |-> "tell", call |-> c, event |-> event]

OnCall(op, c) == [op |-> op, call |-> c]

Live(c) == phase[c] \in {"outgoing", "incoming", "answered", "up"}

CanBegin(c) ==
    /\ phase[c] = "none"
    /\ Overlap \/ \A d \in CallIds : phase[d] \in {"none", "failed", "gone"}

-----------------------------------------------------------------------------
(* Handlers on the platform thread.                                        *)

(* The INVITE is sent before the application hears of the call.            *)
FaultyCall(c) ==
    /\ "call" \in Methods /\ isRunning /\ ua /\ CanBegin(c)
    /\ Start("main", <<OnCall("sendInvite", c), UaEvent(c, "outgoing")>>)
    /\ phase' = [phase EXCEPT ![c] = "idle"]
    /\ calls' = calls \union {c}
    /\ UNCHANGED <<ua, isRunning, currentCall, held, peerHolds, misused, dart, media>>

(* call(): without an account nothing happens.  call_connect raises        *)
(* "call outgoing" before it sends the INVITE.                             *)
Call(c) ==
    /\ "call" \in Methods /\ isRunning /\ ua /\ CanBegin(c)
    /\ Start("main", <<UaEvent(c, "outgoing"), OnCall("sendInvite", c)>>)
    /\ phase' = [phase EXCEPT ![c] = "idle"]
    /\ calls' = calls \union {c}
    /\ UNCHANGED <<ua, isRunning, currentCall, held, peerHolds, misused, dart, media>>

\* What a method does once it has found that there is a current call.
Body(method) ==
    IF method = "answer"
       THEN <<Do("stopRinging"), Do("stopMediaPlayer"), Do("setCallVolume"),
              [op |-> "withCurrent", do |-> "answer"]>>
       ELSE <<[op |-> "withCurrent", do |-> method]>>

(* answer; hangup and reject, which differ in the code they send; pause,   *)
(* resume.                                                                 *)
CallMethod(method) ==
    /\ method \in Methods /\ isRunning
    /\ currentCall # NoCall
    /\ Start("main", Body(method))
    /\ UNCHANGED <<kotlin, baresip, dart, media>>

(* unregisterSipAccount.  The account events it causes concern no call.    *)
UnregisterSipAccount ==
    /\ "unregister" \in Methods /\ isRunning /\ ua
    /\ Start("main", <<Do("noUa")>>)
    /\ UNCHANGED <<kotlin, baresip, dart, media>>

(* initSipModule gives the account in use up before it allocates another.  *)
(* Where the allocation fails, what is left is as after unregister.        *)
InitSipModule ==
    /\ "init" \in Methods /\ isRunning
    /\ Start("main", IF ua THEN <<Do("noUa"), Do("setUa")>> ELSE <<Do("setUa")>>)
    /\ UNCHANGED <<kotlin, baresip, dart, media>>

(* onDetachedFromEngine calls stopped().                                   *)
Detach ==
    /\ "detach" \in Methods /\ isRunning
    /\ Start("main", <<Do("stopRinging"), Do("stopMediaPlayer")>>)
    /\ isRunning' = FALSE
    /\ UNCHANGED <<ua, calls, currentCall, baresip, dart, media>>

(* The busy tone has been played to its end.  It lasts longer than the     *)
(* rest of the upcall that started it.                                     *)
BusyToneEnds ==
    /\ Idle("re")
    /\ \/ /\ player = [tone |-> "busy", is |-> "plays"]
          /\ player' = [player EXCEPT !.is = "stopped"]
          /\ UNCHANGED lost
       \/ /\ "busy" \in lost
          /\ lost' = lost \ {"busy"}
          /\ UNCHANGED player
    /\ Start("main", <<Do("stopMediaPlayer"), Do("resetIfNone")>>)
    /\ UNCHANGED <<kotlin, baresip, dart, ringing, timer, thrown, volume, saved>>

-----------------------------------------------------------------------------
(* What the peer does, reported on the baresip thread.                     *)

Report(c, event) == Start("re", <<UaEvent(c, event)>>)

Incoming(c) ==
    /\ "incoming" \in Peer /\ CanBegin(c)
    /\ Report(c, "incoming")
    /\ phase' = [phase EXCEPT ![c] = "incoming"]
    /\ UNCHANGED <<kotlin, held, peerHolds, misused, dart, media>>

Progress(c) ==
    /\ phase[c] = "outgoing"
    /\ \E event \in {"ringing", "progress", "early media"} : Report(c, event)
    /\ UNCHANGED <<kotlin, baresip, dart, media>>

\* The peer accepts our call, or acknowledges that we accepted his.
Established(c) ==
    /\ phase[c] \in {"outgoing", "answered"}
    /\ Report(c, "established")
    /\ phase' = [phase EXCEPT ![c] = "up"]
    /\ UNCHANGED <<kotlin, held, peerHolds, misused, dart, media>>

(* A re-INVITE of the peer with the direction that he asks for: "update 3" *)
(* is sendrecv, "update 2" recvonly, "update 1" sendonly and "update 0"    *)
(* inactive, both a hold.                                                  *)
PeerUpdate(c) ==
    /\ "update" \in Peer /\ phase[c] = "up"
    /\ \E event \in {"update 0", "update 1", "update 2", "update 3"} :
          /\ event = "update 0" => "inactive" \in Peer
          /\ event = "update 2" => "recvonly" \in Peer
          /\ Report(c, event)
          /\ peerHolds' = [peerHolds EXCEPT ![c] = event \in {"update 0", "update 1"}]
    /\ UNCHANGED <<kotlin, phase, held, misused, dart, media>>

OtherEvent(c) ==
    /\ "update" \in Peer /\ phase[c] = "up"
    /\ Report(c, "other")
    /\ UNCHANGED <<kotlin, baresip, dart, media>>

(* The peer rejects, cancels or ends the call, or a timer of baresip does. *)
(* baresip destroys the call when the event has been handled.              *)
Close(c) ==
    /\ "close" \in Peer /\ Live(c)
    /\ \E event \in {"closed", "closed busy"} :
          /\ event = "closed busy" => phase[c] = "outgoing"
          /\ Start("re", <<UaEvent(c, event), OnCall("destroy", c)>>)
    /\ phase' = [phase EXCEPT ![c] = IF @ \in {"incoming", "answered"}
                                        THEN "cancelled" ELSE "closing"]
    /\ UNCHANGED <<kotlin, held, peerHolds, misused, dart, media>>

-----------------------------------------------------------------------------
(* Steps of uaEvent.                                                       *)

(* Dart is told the direction as baresip names it.                         *)
FaultyUpdateTold(c, event) == <<Tell(c, event)>>

UpdateTold(c, event) ==
    CASE event = "update 1" -> <<Tell(c, "Paused")>>
      [] event = "update 3" -> <<Tell(c, "Resuming")>>
      [] event \in {"update 0", "update 2"} -> <<>>

(* Only a call that ends without a tone is told to have ended.             *)
FaultyEnding(c, busy) ==
    (IF busy THEN <<>> ELSE <<Tell(c, "Hangup")>>)
    \o <<OnCall("delist", c), [op |-> "closeCurrent", busy |-> busy]>>

Ending(c, busy) ==
    <<Tell(c, "Hangup"), OnCall("delist", c), [op |-> "closeCurrent", busy |-> busy]>>

Reaction(c, event) ==
    CASE event = "incoming" -> <<Do("startRinging"), Tell(c, "Ring")>>
      [] event = "outgoing" -> <<Tell(c, "Ring")>>
      [] event \in {"ringing", "progress"} -> <<Do("playRingBack")>>
      [] event = "early media" -> <<Do("stopMediaPlayer")>>
      [] event \in {"update 0", "update 1", "update 2", "update 3"} -> UpdateTold(c, event)
      [] event = "established" -> <<Tell(c, "Up")>>
      [] event \in {"closed", "closed busy"} -> Ending(c, event = "closed busy")
      [] event = "other" -> <<>>

HandleUaEvent(t) ==
    /\ At(t, "uaEvent")
    /\ LET e == Head(todo[t]) IN
       Continue(t, IF isRunning /\ ua
                      THEN <<[op |-> "sipCall", call |-> e.call, event |-> e.event]>>
                      ELSE <<>>)
    /\ UNCHANGED <<kotlin, baresip, dart, media>>

(* getSipCall: the listed call with this handle, or a new one, which is    *)
(* not listed (calls.plus makes a new set that nobody keeps).              *)
GetSipCall(c) == [callp |-> c, ua |-> c \in calls \/ ua]

(* Only a listed call becomes the current one.                             *)
FaultySipCall(t) ==
    /\ At(t, "sipCall")
    /\ LET e == Head(todo[t]) IN
       /\ currentCall' = IF e.call \in calls THEN GetSipCall(e.call) ELSE currentCall
       /\ Continue(t, Reaction(e.call, e.event))
    /\ UNCHANGED <<ua, isRunning, calls, baresip, dart, media>>

SipCall(t) ==
    /\ At(t, "sipCall")
    /\ LET e == Head(todo[t]) IN
       /\ currentCall' = GetSipCall(e.call)
       /\ Continue(t, Reaction(e.call, e.event))
    /\ UNCHANGED <<ua, isRunning, calls, baresip, dart, media>>

TellDart(t) ==
    /\ At(t, "tell")
    /\ LET c == Head(todo[t]).call
           event == Head(todo[t]).event
       IN  IF event \in {"Paused", "Resuming"}
              THEN /\ holdTold' = [holdTold EXCEPT ![c] = event]
                   /\ UNCHANGED told
              ELSE /\ told' = [told EXCEPT ![c] = Append(@, event)]
                   /\ UNCHANGED holdTold
    /\ Continue(t, <<>>)
    /\ UNCHANGED <<kotlin, baresip, late, media>>

Delist(t) ==
    /\ At(t, "delist")
    /\ calls' = calls \ {Head(todo[t]).call}
    /\ Continue(t, <<>>)
    /\ UNCHANGED <<ua, isRunning, currentCall, baresip, dart, media>>

CloseCurrent(t) ==
    /\ At(t, "closeCurrent")
    /\ Continue(t, IF currentCall # NoCall
                      THEN <<Do("stopRinging"), Do("stopMediaPlayer"),
                             IF Head(todo[t]).busy THEN Do("playBusy")
                                                   ELSE Do("resetIfCurrent"),
                             Do("noCurrent")>>
                      ELSE <<>>)
    /\ UNCHANGED <<kotlin, baresip, dart, media>>

NoCurrent(t) ==
    /\ At(t, "noCurrent")
    /\ currentCall' = NoCall
    /\ Continue(t, <<>>)
    /\ UNCHANGED <<ua, isRunning, calls, baresip, dart, media>>

-----------------------------------------------------------------------------
(* Steps of the methods.                                                   *)

(* A call that fails to connect is dropped, but nobody destroys it.        *)
SendInvite(t) ==
    /\ At(t, "sendInvite")
    /\ LET c == Head(todo[t]).call IN
       \/ /\ phase' = [phase EXCEPT ![c] = "outgoing"]
          /\ Continue(t, <<OnCall("setCurrent", c)>>)
       \/ /\ "connect" \in Faults
          /\ phase' = [phase EXCEPT ![c] = "failed"]
          /\ Continue(t, <<OnCall("delist", c)>>)
    /\ UNCHANGED <<kotlin, held, peerHolds, misused, dart, media>>

SetCurrent(t) ==
    /\ At(t, "setCurrent")
    /\ LET c == Head(todo[t]).call IN
       /\ currentCall' = [callp |-> c, ua |-> TRUE]
       /\ late' = (late \/ ~ Live(c))
    /\ Continue(t, <<>>)
    /\ UNCHANGED <<ua, isRunning, calls, baresip, told, holdTold, media>>

(* currentCall?.answer() and the like: the handle is read, then used.      *)
(* ua_answer and ua_hangup do nothing for a null UA.                       *)
WithCurrent(t) ==
    /\ At(t, "withCurrent")
    /\ LET do == Head(todo[t]).do IN
       Continue(t, IF currentCall = NoCall THEN <<>>
                   ELSE IF do \in {"answer", "hangup"} /\ ~ currentCall.ua THEN <<>>
                   ELSE <<OnCall(do, currentCall.callp)>>)
    /\ UNCHANGED <<kotlin, baresip, dart, media>>

\* Baresip is called with a handle: of a call, or of what was one.
Use(c) == misused' = (misused \/ phase[c] = "gone")

(* ua_answer raises "call answered" before it sends its 200.  To baresip a  *)
(* call is incoming until its answer is acknowledged.                      *)
Answer(t) ==
    /\ At(t, "answer")
    /\ LET c == Head(todo[t]).call IN
       /\ Use(c)
       /\ Continue(t, IF phase[c] \in {"incoming", "answered", "cancelled"}
                         THEN <<UaEvent(c, "other"), OnCall("sendAnswer", c)>>
                         ELSE <<>>)
    /\ UNCHANGED <<kotlin, phase, held, peerHolds, dart, media>>

SendAnswer(t) ==
    /\ At(t, "sendAnswer")
    /\ LET c == Head(todo[t]).call IN
       /\ Use(c)
       /\ phase' = [phase EXCEPT ![c] = IF @ = "incoming" THEN "answered" ELSE @]
    /\ Continue(t, <<>>)
    /\ UNCHANGED <<kotlin, held, peerHolds, dart, media>>

(* ua_hangup raises "call closed", without a tone, on its caller and then  *)
(* destroys the call.                                                      *)
Hangup(t) ==
    /\ At(t, "hangup")
    /\ LET c == Head(todo[t]).call IN
       /\ Use(c)
       /\ phase' = [phase EXCEPT ![c] = IF @ = "gone" THEN @ ELSE "closing"]
       /\ Continue(t, <<UaEvent(c, "closed"), OnCall("destroy", c)>>)
    /\ UNCHANGED <<kotlin, held, peerHolds, dart, media>>

Destroy(t) ==
    /\ At(t, "destroy")
    /\ LET c == Head(todo[t]).call IN
       /\ Use(c)
       /\ phase' = [phase EXCEPT ![c] = "gone"]
    /\ Continue(t, <<>>)
    /\ UNCHANGED <<kotlin, held, peerHolds, dart, media>>

(* call_hold: the peer's answer to it raises no event.                     *)
Hold(t) ==
    /\ At(t, "pause") \/ At(t, "resume")
    /\ LET c == Head(todo[t]).call IN
       /\ Use(c)
       /\ held' = [held EXCEPT ![c] = IF Live(c) THEN Head(todo[t]).op = "pause" ELSE @]
    /\ Continue(t, <<>>)
    /\ UNCHANGED <<kotlin, phase, peerHolds, dart, media>>

SetUa(t) ==
    /\ At(t, "noUa") \/ At(t, "setUa")
    /\ ua' = (Head(todo[t]).op = "setUa")
    /\ Continue(t, <<>>)
    /\ UNCHANGED <<isRunning, calls, currentCall, baresip, dart, media>>

(* The accesses of Media to its fields.  The volume is only restored with  *)
(* or without a current call.                                              *)
Reset(t) ==
    /\ \/ At(t, "resetIfCurrent") /\ currentCall # NoCall /\ ResetCallVolume
       \/ At(t, "resetIfCurrent") /\ currentCall = NoCall /\ UNCHANGED media
       \/ At(t, "resetIfNone") /\ currentCall = NoCall /\ ResetCallVolume
       \/ At(t, "resetIfNone") /\ currentCall # NoCall /\ UNCHANGED media
    /\ Continue(t, <<>>)

MediaStep(t) ==
    /\ MediaSteps(t) \/ Reset(t)
    /\ UNCHANGED <<kotlin, baresip, dart>>

-----------------------------------------------------------------------------
Step(t) ==
    \/ HandleUaEvent(t) \/ SipCall(t) \/ TellDart(t) \/ Delist(t)
    \/ CloseCurrent(t) \/ NoCurrent(t)
    \/ SendInvite(t) \/ SetCurrent(t) \/ WithCurrent(t)
    \/ Answer(t) \/ SendAnswer(t) \/ Hangup(t) \/ Destroy(t) \/ Hold(t)
    \/ SetUa(t) \/ MediaStep(t)

CallSteps(c) ==
    \/ Call(c) \/ Incoming(c) \/ Progress(c) \/ Established(c)
    \/ PeerUpdate(c) \/ OtherEvent(c) \/ Close(c)

Next ==
    /\ ~ misused /\ ~ thrown
    /\ \/ \E c \in CallIds : CallSteps(c)
       \/ \E m \in {"answer", "hangup", "pause", "resume"} : CallMethod(m)
       \/ UnregisterSipAccount \/ InitSipModule \/ Detach
       \/ BusyToneEnds
       \/ \E t \in Threads : Step(t)

Spec == Init /\ [][Next]_vars

-----------------------------------------------------------------------------
(* Properties.                                                             *)

Quiet == isRunning /\ ~ misused /\ ~ thrown /\ \A t \in Threads : Idle(t)

WasTold(c, event) == \E i \in 1 .. Len(told[c]) : told[c][i] = event

NoLiveCall == \A c \in CallIds : ~ Live(c)

(* A call of which Dart was told that it rings is, when it is over, told   *)
(* to have ended (uaEvent "call closed", on whichever thread it arrives).  *)
EndIsTold ==
    Quiet => \A c \in CallIds :
        phase[c] \in {"failed", "gone"} /\ WasTold(c, "Ring") => WasTold(c, "Hangup")

(* The events of a call come in order, each at most once: it rings, it may *)
(* be established, it ends (uaEvent on both threads).                      *)
Status == INSTANCE CallStatus
EventsInOrder == Status!Spec

(* A call is not told to be established unless it was told to ring before  *)
(* (call_connect and uaEvent: "outgoing" and "incoming" come first).       *)
UpAfterRing ==
    \A c \in CallIds : \A i \in 1 .. Len(told[c]) :
        told[c][i] = "Up" => \E j \in 1 .. i - 1 : told[c][j] = "Ring"

(* When nothing is under way, the live call is the current one, so that    *)
(* the application can answer it, hang it up, pause it.  call() sets       *)
(* currentCall after the INVITE was sent (SipManager.kt:336): where that   *)
(* call has ended by then, a dead call stays the current one, and nothing  *)
(* is said from then on (late).                                            *)
LiveIsReachable ==
    Quiet /\ ~ late => \A c \in CallIds :
        Live(c) => currentCall # NoCall /\ currentCall.callp = c

(* When nothing is under way and no call is live, nothing that SipManager  *)
(* still holds rings, vibrates or plays a ring-back tone (startRinging,    *)
(* stopRinging, playRingBack, on both threads).  What one thread lost by   *)
(* writing a field that the other had filled is not among it.              *)
SilentWhenOver == Quiet /\ NoLiveCall => Silent

(* A call that the peer holds is told to be paused, and one that he has    *)
(* taken back is told to be resumed (uaEvent "call update"), where he      *)
(* holds it with the direction sendonly and takes it back with sendrecv:   *)
(* uaEvent has no case for the others.                                     *)
PeerHoldIsTold ==
    Quiet => \A c \in CallIds :
        phase[c] = "up" => (peerHolds[c] <=> holdTold[c] = "Paused")
=============================================================================
