---------------------------- MODULE Registration ----------------------------
(***************************************************************************)
(* Account registration of the Android plugin: SipManager.initSipModule,   *)
(* refreshSipAccount, unregisterSipAccount and the account branch of       *)
(* uaEvent, over the user agents ("UAs") that baresip keeps.               *)
(*                                                                         *)
(* Three kinds of threads run this code and nothing excludes them from one *)
(* another: the platform thread "main" (method calls, the posted events,   *)
(* the hot-spot receiver), the baresip thread "re" (answers of the         *)
(* registrar) and the threads of the network callbacks and hot-spot        *)
(* timers.  baresip's lock is released around every upcall                 *)
(* (ua_event_handler leaves the re thread), so an upcall interleaves with  *)
(* anything, and it runs on the thread that caused the event: ua_register  *)
(* calls uaEvent("registering") on its caller before it sends.             *)
(*                                                                         *)
(* One step of a thread is one access to what the threads share (Scripts). *)
(***************************************************************************)
EXTENDS Naturals, Scripts

CONSTANTS
    Uas,         \* the UAs that ua_alloc may return
    NoUa,        \* SipManager.ua == null
    NetThreads,  \* threads of network callbacks and hot-spot timers
    Methods,     \* the account methods the application calls
    Faults,      \* the local failures that may happen
    QueueBound   \* bound: no new call, callback or refresh while more events wait

ASSUME NoUaAssumption == NoUa \notin Uas
ASSUME NetThreadsAssumption == "main" \notin NetThreads /\ "re" \notin NetThreads
ASSUME MethodsAssumption == Methods \subseteq {"init", "refresh", "unregister"}
ASSUME FaultsAssumption == Faults \subseteq {"alloc", "codecs", "register", "unregister"}
ASSUME QueueBoundAssumption == QueueBound \in Nat

Threads == {"main", "re"} \union NetThreads

\* RegisterSipState
States == {"None", "Progress", "Ok", "Cleared", "Failed", "Refreshing"}

\* ua_event_reg_str
Events == {"registering", "unregistering", "registered", "registering failed"}

(* A transaction with the registrar: a REGISTER or an un-REGISTER of a UA. *)
Transactions == [ua : Uas, kind : {"register", "unregister"}]

(* What a thread may have to do.  An account event carries its UA, which   *)
(* uaEvent does not look at, so the model leaves it out.                   *)
Ops == [op : {"uaEvent"}, event : Events]
       \union [op : {"cacheState", "postEvent"}, state : States]
       \union [op : {"sendRegister", "sendUnregister", "setUa"}, ua : Uas]
       \union [op : {"resetTransp"}, next : Nat]
       \union [op : {"clearUa", "ua_alloc", "setAudioCodecs",
                     "updateNetwork", "registry"}]

VARIABLES
    ua,                 \* SipManager.ua
    cacheStateAccount,  \* SipManager.cacheStateAccount
    isRunning,          \* SipManager.isRunning; eventSink lives as long
    uag,                \* baresip's list of UAs, oldest first
    pending,            \* transactions whose answer is still to come
    wanted,             \* per UA, the last transaction sent for it
    outcome,            \* per UA, how that transaction was answered
    looper,             \* states in the events posted to the main looper
    shown               \* state in the last event that reached Dart

kotlin == <<ua, cacheStateAccount, isRunning>>
registrar == <<uag, pending, wanted, outcome>>
app == <<looper, shown>>
vars == <<kotlin, todo, registrar, app>>

TypeOK ==
    /\ ua \in Uas \union {NoUa}
    /\ cacheStateAccount \in States
    /\ isRunning \in BOOLEAN
    /\ todo \in [Threads -> Seq(Ops)]
    /\ uag \in Seq(Uas)
    /\ pending \subseteq Transactions
    /\ wanted \in [Uas -> {"none", "register", "unregister"}]
    /\ outcome \in [Uas -> {"none", "ok", "failed"}]
    /\ looper \in Seq(States)
    /\ shown \in States

Init ==
    /\ ua = NoUa
    /\ cacheStateAccount = "None"
    /\ isRunning = TRUE
    /\ todo = [t \in Threads |-> <<>>]
    /\ uag = <<>>
    /\ pending = {}
    /\ wanted = [u \in Uas |-> "none"]
    /\ outcome = [u \in Uas |-> "none"]
    /\ looper = <<>>
    /\ shown = "None"

-----------------------------------------------------------------------------
\* The UA can still be allocated; Uas bounds the accounts of a behaviour.
Fresh(u) == \A i \in 1 .. Len(uag) : uag[i] # u

NotFlooded == Len(looper) <= QueueBound

(* Variants named Faulty... are plausible mistakes in the operator that     *)
(* follows them; nothing uses them.  Put in its place one at a time, each  *)
(* makes TLC refute the properties the README lists with it.               *)

(* The upcall comes after the sending: an answer may be reported first.    *)
FaultyUaRegister(u) == <<[op |-> "sendRegister", ua |-> u],
                         [op |-> "uaEvent", event |-> "registering"]>>

(* ua_register: the event is raised, and uaEvent run, before the sending.  *)
UaRegister(u) == <<[op |-> "uaEvent", event |-> "registering"],
                   [op |-> "sendRegister", ua |-> u]>>

UaUnregister(u) == <<[op |-> "uaEvent", event |-> "unregistering"],
                     [op |-> "sendUnregister", ua |-> u]>>

(* SipManager.unregister(): ua is cleared once ua_unregister has returned. *)
Unregister(u) == UaUnregister(u) \o <<[op |-> "clearUa"]>>

(* A failure is posted but not written to the cache.                       *)
FaultyUncachedEvent(s) ==
    IF s = "Failed" THEN <<[op |-> "postEvent", state |-> s]>>
                    ELSE <<[op |-> "cacheState", state |-> s],
                           [op |-> "postEvent", state |-> s]>>

(* A failure is written to the cache but not posted.                       *)
FaultyUnpostedEvent(s) ==
    IF s = "Failed" THEN <<[op |-> "cacheState", state |-> s]>>
                    ELSE <<[op |-> "cacheState", state |-> s],
                           [op |-> "postEvent", state |-> s]>>

(* sendAccountEvent: the cache is written, then the event is posted.       *)
SendAccountEvent(s) == <<[op |-> "cacheState", state |-> s],
                         [op |-> "postEvent", state |-> s]>>

-----------------------------------------------------------------------------
(* Handlers: what an idle thread may be called to do.                      *)

InitSipModule ==
    /\ "init" \in Methods /\ isRunning /\ NotFlooded
    /\ \E u \in Uas : Fresh(u)
    /\ IF ua # NoUa
          THEN Start("main", Unregister(ua) \o <<[op |-> "ua_alloc"]>>)
          ELSE Start("main", <<[op |-> "ua_alloc"]>>)
    /\ UNCHANGED <<kotlin, registrar, app>>

RefreshSipAccount ==
    /\ "refresh" \in Methods /\ isRunning /\ NotFlooded
    /\ ua # NoUa /\ cacheStateAccount # "Ok"
    /\ Start("main", <<[op |-> "registry"]>>)
    /\ UNCHANGED <<kotlin, registrar, app>>

UnregisterSipAccount ==
    /\ "unregister" \in Methods /\ isRunning /\ NotFlooded
    /\ ua # NoUa
    /\ Start("main", Unregister(ua))
    /\ UNCHANGED <<kotlin, registrar, app>>

(* onAvailable, onLost, onCapabilitiesChanged, onLinkPropertiesChanged.    *)
NetworkCallback(t) ==
    /\ isRunning /\ NotFlooded
    /\ Start(t, <<[op |-> "updateNetwork"]>>)
    /\ UNCHANGED <<kotlin, registrar, app>>

(* The timer that a new hot spot starts: it does not look at isRunning.    *)
HotSpotTimer(t) ==
    /\ NotFlooded
    /\ Start(t, <<[op |-> "updateNetwork"]>>)
    /\ UNCHANGED <<kotlin, registrar, app>>

(* The broadcast that the hot spot is gone, received on the main thread.   *)
HotSpotDisabled ==
    /\ isRunning /\ NotFlooded
    /\ Start("main", <<[op |-> "updateNetwork"]>>)
    /\ UNCHANGED <<kotlin, registrar, app>>

(* The registrar answers a transaction, or it times out: the response      *)
(* handler of baresip raises the event on the re thread.  The answer to a  *)
(* REGISTER that an un-REGISTER has overtaken still raises its event.      *)
Answer(tr) ==
    /\ tr \in pending
    /\ pending' = pending \ {tr}
    /\ \E ok \in BOOLEAN :
          /\ outcome' = [outcome EXCEPT ![tr.ua] =
                            CASE tr.kind # wanted[tr.ua] -> @
                              [] ok -> "ok"
                              [] OTHER -> "failed"]
          /\ Start("re", <<[op |-> "uaEvent",
                            event |-> IF ok THEN "registered"
                                            ELSE "registering failed"]>>)
    /\ UNCHANGED <<kotlin, uag, wanted, app>>

(* baresip registers again before the expiry, or after a failure, and      *)
(* raises no event before the answer.                                      *)
PeriodicRefresh(u) ==
    /\ Idle("re") /\ NotFlooded
    /\ wanted[u] = "register" /\ outcome[u] # "none"
    /\ pending' = pending \union {[ua |-> u, kind |-> "register"]}
    /\ UNCHANGED <<kotlin, todo, uag, wanted, outcome, app>>

(* onDetachedFromEngine and stopped(): no event reaches Dart any more.     *)
Detach ==
    /\ isRunning /\ Idle("main")
    /\ isRunning' = FALSE
    /\ UNCHANGED <<ua, cacheStateAccount, todo, registrar, app>>

(* The main looper runs a posted event.                                    *)
Deliver ==
    /\ Idle("main") /\ looper # <<>>
    /\ looper' = Tail(looper)
    /\ shown' = IF isRunning THEN Head(looper) ELSE shown
    /\ UNCHANGED <<kotlin, todo, registrar>>

-----------------------------------------------------------------------------
(* Steps of the handlers.                                                  *)

(* The names of baresip's events go out as they are.                       *)
FaultyReportedState(event) ==
    IF event \in {"registering", "unregistering"} THEN "Progress" ELSE event

(* The account branch of uaEvent.                                          *)
ReportedState(event) ==
    CASE event \in {"registering", "unregistering"} -> "Progress"
      [] event = "registered" -> IF ua # NoUa THEN "Ok" ELSE "None"
      [] event = "registering failed" -> "Failed"

UaEvent(t) ==
    /\ At(t, "uaEvent")
    /\ Continue(t, IF isRunning
                      THEN SendAccountEvent(ReportedState(Head(todo[t]).event))
                      ELSE <<>>)
    /\ UNCHANGED <<kotlin, registrar, app>>

CacheState(t) ==
    /\ At(t, "cacheState")
    /\ cacheStateAccount' = Head(todo[t]).state
    /\ Continue(t, <<>>)
    /\ UNCHANGED <<ua, isRunning, registrar, app>>

PostEvent(t) ==
    /\ At(t, "postEvent")
    /\ looper' = Append(looper, Head(todo[t]).state)
    /\ Continue(t, <<>>)
    /\ UNCHANGED <<kotlin, registrar, shown>>

(* The second half of ua_register: it discards the transactions the UA has *)
(* under way and sends a REGISTER.  If that fails here and now, the caller *)
(* gets the event "registering failed".                                    *)
SendRegister(t) ==
    /\ At(t, "sendRegister")
    /\ LET u == Head(todo[t]).ua
           others == {tr \in pending : tr.ua # u}
       IN  /\ \/ /\ pending' = others \union {[ua |-> u, kind |-> "register"]}
                 /\ outcome' = [outcome EXCEPT ![u] = "none"]
                 /\ Continue(t, <<>>)
              \/ /\ "register" \in Faults
                 /\ pending' = others
                 /\ outcome' = [outcome EXCEPT ![u] = "failed"]
                 /\ Continue(t, <<[op |-> "uaEvent",
                                   event |-> "registering failed"]>>)
           /\ wanted' = [wanted EXCEPT ![u] = "register"]
    /\ UNCHANGED <<kotlin, uag, app>>

(* The second half of ua_unregister.  A UA that never registered has       *)
(* nothing to remove and sends nothing; a failure to send is not reported; *)
(* a REGISTER under way is not discarded.                                  *)
SendUnregister(t) ==
    /\ At(t, "sendUnregister")
    /\ LET u == Head(todo[t]).ua IN
       \/ /\ wanted[u] # "none"
          /\ pending' = pending \union {[ua |-> u, kind |-> "unregister"]}
          /\ wanted' = [wanted EXCEPT ![u] = "unregister"]
          /\ outcome' = [outcome EXCEPT ![u] = "none"]
       \/ /\ wanted[u] = "none" \/ "unregister" \in Faults
          /\ UNCHANGED <<pending, wanted, outcome>>
    /\ Continue(t, <<>>)
    /\ UNCHANGED <<kotlin, uag, app>>

(* The cache is reset with the account, and no event says so.              *)
FaultyClearUa(t) ==
    /\ At(t, "clearUa")
    /\ ua' = NoUa
    /\ cacheStateAccount' = "None"
    /\ Continue(t, <<>>)
    /\ UNCHANGED <<isRunning, registrar, app>>

ClearUa(t) ==
    /\ At(t, "clearUa")
    /\ ua' = NoUa
    /\ Continue(t, <<>>)
    /\ UNCHANGED <<cacheStateAccount, isRunning, registrar, app>>

(* ua_alloc puts a new UA at the end of baresip's list.  What follows is   *)
(* pushed call by call, so the early returns of initSipAccount push        *)
(* nothing.  When ua_alloc fails its wrapper returns an uninitialised      *)
(* variable: 0 ends initSipAccount; any other value faults in ua_account   *)
(* and ends the process, after which there is no state to speak of.        *)
UaAlloc(t) ==
    /\ At(t, "ua_alloc")
    /\ \/ \E u \in Uas :
             /\ Fresh(u)
             /\ uag' = Append(uag, u)
             /\ Continue(t, <<[op |-> "setUa", ua |-> u]>>)
       \/ /\ "alloc" \in Faults
          /\ Continue(t, <<>>)
          /\ UNCHANGED uag
    /\ UNCHANGED <<kotlin, pending, wanted, outcome, app>>

SetUa(t) ==
    /\ At(t, "setUa")
    /\ ua' = Head(todo[t]).ua
    /\ Continue(t, <<[op |-> "setAudioCodecs"]>>)
    /\ UNCHANGED <<cacheStateAccount, isRunning, registrar, app>>

SetAudioCodecs(t) ==
    /\ At(t, "setAudioCodecs")
    /\ \/ Continue(t, <<[op |-> "updateNetwork"], [op |-> "registry"]>>)
       \/ "codecs" \in Faults /\ Continue(t, <<>>)
    /\ UNCHANGED <<kotlin, registrar, app>>

(* What of updateNetwork concerns registration: when the addresses or the  *)
(* active network changed it calls uag_reset_transp.                       *)
UpdateNetwork(t) ==
    /\ At(t, "updateNetwork")
    /\ \/ Continue(t, <<>>)
       \/ Continue(t, <<[op |-> "resetTransp", next |-> 1]>>)
    /\ UNCHANGED <<kotlin, registrar, app>>

(* uag_reset_transp registers every UA of the list again, those that the   *)
(* plugin has given up included.  The lock is free during the upcalls, so  *)
(* the list it walks is the live one.                                      *)
ResetTransp(t) ==
    /\ At(t, "resetTransp")
    /\ LET i == Head(todo[t]).next IN
       Continue(t, IF i \in 1 .. Len(uag)
                      THEN UaRegister(uag[i])
                           \o <<[op |-> "resetTransp", next |-> i + 1]>>
                      ELSE <<>>)
    /\ UNCHANGED <<kotlin, registrar, app>>

Registry(t) ==
    /\ At(t, "registry")
    /\ Continue(t, IF ua # NoUa THEN UaRegister(ua) ELSE <<>>)
    /\ UNCHANGED <<kotlin, registrar, app>>

-----------------------------------------------------------------------------
Step(t) ==
    \/ UaEvent(t) \/ CacheState(t) \/ PostEvent(t)
    \/ SendRegister(t) \/ SendUnregister(t) \/ ClearUa(t)
    \/ UaAlloc(t) \/ SetUa(t) \/ SetAudioCodecs(t)
    \/ UpdateNetwork(t) \/ ResetTransp(t) \/ Registry(t)

Next ==
    \/ InitSipModule \/ RefreshSipAccount \/ UnregisterSipAccount
    \/ HotSpotDisabled \/ Detach \/ Deliver
    \/ \E t \in NetThreads : NetworkCallback(t) \/ HotSpotTimer(t)
    \/ \E tr \in Transactions : Answer(tr)
    \/ \E u \in Uas : PeriodicRefresh(u)
    \/ \E t \in Threads : Step(t)

Spec == Init /\ [][Next]_vars

(* Every thread goes on with the handler it is in, the looper runs what is *)
(* posted to it (fairly against method calls, it is one queue), and every  *)
(* transaction is answered or times out.                                   *)
Fairness ==
    /\ \A t \in Threads : WF_vars(Step(t))
    /\ \A tr \in Transactions : SF_vars(Answer(tr))
    /\ SF_vars(Deliver)

FairSpec == Spec /\ Fairness

-----------------------------------------------------------------------------
(* Properties.                                                             *)

(* Nothing is under way: every handler has returned, every transaction is  *)
(* answered.                                                               *)
Quiet == pending = {} /\ \A t \in Threads : Idle(t)

(* The state that Dart was told last, or is about to be told last.         *)
Reported == IF looper = <<>> THEN shown ELSE looper[Len(looper)]

(* When nothing is under way the account is not in state Progress: each    *)
(* "registering" and "unregistering" that uaEvent turned into Progress is  *)
(* followed by an answer that replaces it, whatever the threads interleave *)
(* (SipManager.uaEvent, sendAccountEvent, ua_register, ua_unregister).     *)
NoStuckProgress == Quiet /\ isRunning => cacheStateAccount # "Progress"

(* When nothing is under way, what Dart was told by events is what         *)
(* getSipRegistrationState answers: sendAccountEvent writes the cache and  *)
(* posts the event in two steps, on several threads.                       *)
AppAgreesWithCache == Quiet /\ isRunning => Reported = cacheStateAccount

Registered(u) == u # NoUa /\ wanted[u] = "register" /\ outcome[u] = "ok"

(* When nothing is under way, Ok means that the account now in use was     *)
(* registered by its last REGISTER.  That does not hold with a second      *)
(* account: uaEvent does not look at the UA of an answer.                  *)
OkIsHonest == Quiet /\ isRunning /\ cacheStateAccount = "Ok" => Registered(ua)

(* The same as long as the account in use is the only one there ever was:  *)
(* no event of the network threads or of baresip's own timers makes it Ok  *)
(* once its last REGISTER has failed, or before it has been answered.      *)
OnlyOkIsHonest ==
    Quiet /\ isRunning /\ cacheStateAccount = "Ok" /\ uag = <<ua>> => Registered(ua)

(* When nothing is under way, None ("No account") means that the registrar *)
(* holds no registration that the plugin made.  That does not hold either: *)
(* uag_reset_transp registers again an account that unregister gave up.    *)
NoneIsHonest ==
    Quiet /\ isRunning /\ Reported = "None" =>
        \A u \in Uas : ~ Registered(u)

(* A Progress that Dart was shown does not stay: the end of the            *)
(* registration reaches Dart too, unless the plugin stops.                 *)
ProgressResolves == (shown = "Progress") ~> (shown # "Progress" \/ ~isRunning)

=============================================================================
