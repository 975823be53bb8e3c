------------------------------- MODULE Bridge -------------------------------
(***************************************************************************)
(* The JNI bridge of baresip.c and the lock of baresip's event loop.  A    *)
(* function of the bridge takes the lock with re_thread_enter, calls       *)
(* baresip and releases it with re_thread_leave; the event loop holds it   *)
(* while it handles what came from the network or from a timer.  What      *)
(* baresip does may raise events.  Their handlers call into Kotlin, and    *)
(* release the lock for that time.  The event loop runs (its start and its *)
(* end are the subject of Lifecycle).                                      *)
(***************************************************************************)
EXTENDS Scripts, EventTexts

CONSTANTS
    Callers,     \* the threads that call the bridge
    Wrappers,    \* the shapes of functions they call: "locked", "checked", "bare"
    Raised,      \* the events that baresip raises
    GetEnvFails, \* whether the environment of a thread may not be found
    UpcallBound  \* the upcalls of one call of baresip, at most

ASSUME UpcallBoundAssumption == UpcallBound \in Nat
ASSUME WrappersAssumption == Wrappers \subseteq {"locked", "checked", "bare"}
ASSUME CallersAssumption == "re" \notin Callers
ASSUME RaisedAssumption == \A e \in Raised : e.prm \in Seq(STRING)

Threads == Callers \union {"re"}

Nobody == "nobody"

ASSUME NobodyAssumption == Nobody \notin Threads

VARIABLES
    holder,  \* the thread that has the lock, or Nobody
    upcalls  \* per thread, the upcalls of the call it is in

vars == <<todo, holder, upcalls>>

EnterOp == [op |-> "enter"]  \* re_thread_enter
ApiOp == [op |-> "api"]      \* inside baresip
LeaveOp == [op |-> "leave"]  \* re_thread_leave
KotlinOp(e, text) == [op |-> "kotlin", event |-> e, text |-> text]

Told == {e \in Raised : TextOf(e) # NoText}

Ops == {EnterOp, ApiOp, LeaveOp} \union {KotlinOp(e, TextOf(e)) : e \in Told}

Init ==
    /\ todo = [t \in Threads |-> <<>>]
    /\ holder = Nobody
    /\ upcalls = [t \in Threads |-> 0]
-----------------------------------------------------------------------------
FaultyLocked == <<EnterOp, ApiOp>>

(* A function of the bridge, such as ua_register or call_hold.             *)
Locked == <<EnterOp, ApiOp, LeaveOp>>

(* The functions on accounts and the reads of calls take no lock.          *)
Bare == <<ApiOp>>

(* net_add_address_ifname and net_rm_address only call baresip with an     *)
(* address they can read, the others always do.                            *)
Script(shape) ==
    CASE shape = "locked" -> {Locked}
      [] shape = "checked" -> {Locked, <<>>}
      [] shape = "bare" -> {Bare}

\* A thread calls a function of the bridge.
CallWrapper(t) ==
    \E shape \in Wrappers : \E script \in Script(shape) :
        /\ Start(t, script)
        /\ upcalls' = [upcalls EXCEPT ![t] = 0]
        /\ UNCHANGED holder

\* The event loop wakes up and handles what there is.
MainLoop ==
    /\ Start("re", Locked)
    /\ upcalls' = [upcalls EXCEPT !["re"] = 0]
    /\ UNCHANGED holder
-----------------------------------------------------------------------------
Enter(t) ==
    /\ At(t, "enter")
    /\ holder = Nobody
    /\ holder' = t
    /\ Continue(t, <<>>)
    /\ UNCHANGED upcalls

\* Releases the lock, if the thread has it (else the result is undefined,
\* and it is left as it is).
Leave(t) ==
    /\ At(t, "leave")
    /\ holder' = IF holder = t THEN Nobody ELSE holder
    /\ Continue(t, <<>>)
    /\ UNCHANGED upcalls

FaultyUpcall(e) ==
    IF TextOf(e) = NoText
    THEN {<<ApiOp>>}
    ELSE {<<LeaveOp, KotlinOp(e, TextOf(e)), ApiOp>>}

FaultyLockedUpcall(e) ==
    IF TextOf(e) = NoText
    THEN {<<ApiOp>>}
    ELSE {<<KotlinOp(e, TextOf(e)), ApiOp>>}

FaultyUnboundedUpcall(e) ==
    IF Format(e) = NoText
    THEN {<<ApiOp>>}
    ELSE {<<LeaveOp, KotlinOp(e, Format(e)), EnterOp, ApiOp>>}

(* What the handlers of events and messages do before baresip goes on: the *)
(* lock is released for Kotlin's time.  An event without a text goes       *)
(* nowhere.  When the environment is not found, the handler returns at     *)
(* once, without the lock.                                                 *)
Upcall(e) ==
    IF TextOf(e) = NoText
    THEN {<<ApiOp>>}
    ELSE {<<LeaveOp, KotlinOp(e, TextOf(e)), EnterOp, ApiOp>>}
           \union {s \in {<<LeaveOp, ApiOp>>} : GetEnvFails}

\* baresip raises an event.
Raise(t) ==
    /\ At(t, "api")
    /\ upcalls[t] < UpcallBound
    /\ upcalls' = [upcalls EXCEPT ![t] = @ + 1]
    /\ \E e \in Raised : \E script \in Upcall(e) : Continue(t, script)
    /\ UNCHANGED holder

\* baresip is done.
ApiReturns(t) ==
    /\ At(t, "api")
    /\ Continue(t, <<>>)
    /\ UNCHANGED <<holder, upcalls>>

\* Kotlin is done: what it does is in Registration and Calls.
KotlinReturns(t) ==
    /\ At(t, "kotlin")
    /\ Continue(t, <<>>)
    /\ UNCHANGED <<holder, upcalls>>

Step(t) == Leave(t) \/ Raise(t) \/ ApiReturns(t) \/ KotlinReturns(t)

Next ==
    \/ \E t \in Callers : CallWrapper(t)
    \/ MainLoop
    \/ \E t \in Threads : Enter(t) \/ Step(t)

(* A thread that may go on does, and one that waits for the lock gets it   *)
(* in the end.                                                             *)
Fairness == \A t \in Threads : WF_vars(Step(t)) /\ SF_vars(Enter(t))

Spec == Init /\ [][Next]_vars

FairSpec == Spec /\ Fairness
-----------------------------------------------------------------------------
TypeOK ==
    /\ todo \in [Threads -> Seq(Ops)]
    /\ holder \in Threads \union {Nobody}
    /\ upcalls \in [Threads -> 0 .. UpcallBound]

Inside == {t \in Threads : At(t, "api") \/ At(t, "leave")}

(* The lock does what it is for, across upcalls that release and take it   *)
(* again in the middle of a call of baresip: one thread at a time is       *)
(* inside, and no other one enters before it has left.                     *)
M == INSTANCE Mutex WITH inside <- Inside

OneAtATime == M!Spec

(* Kotlin never runs with the lock: it may wait for a thread that needs    *)
(* the lock, and it takes its time (ua_event_handler leaves first).        *)
KotlinIsUnlocked == \A t \in Threads : At(t, "kotlin") => holder # t

(* What an event means to the application.                                 *)
Meant(e) ==
    CASE e.kind = "CALL_INCOMING" -> <<"ring in", e.prm[1]>>
      [] e.kind = "CALL_OUTGOING" -> <<"ring out">>
      [] e.kind = "CALL_RINGING" -> <<"ring back">>
      [] e.kind = "CALL_PROGRESS" -> IF e.dir \in {1, 3} THEN <<"silence">> ELSE <<"ring back">>
      [] e.kind = "CALL_REMOTE_SDP" /\ e.dir = 1 -> <<"paused">>
      [] e.kind = "CALL_REMOTE_SDP" /\ e.dir = 3 -> <<"resuming">>
      [] e.kind = "CALL_ESTABLISHED" -> <<"up">>
      [] e.kind = "CALL_CLOSED" -> IF e.code \in {486, 603} THEN <<"hangup", "busy">> ELSE <<"hangup">>
      [] e.kind \in {"REGISTERING", "UNREGISTERING"} -> <<"progress">>
      [] e.kind \in {"REGISTER_OK", "FALLBACK_OK"} -> <<"ok or none">>
      [] e.kind \in {"REGISTER_FAIL", "FALLBACK_FAIL"} -> <<"failed">>
      [] OTHER -> <<"ignore">>

(* Kotlin takes out of a text what baresip said, as long as the parameter  *)
(* has no comma of its own.                                                *)
HeardAsMeant ==
    \A t \in Threads :
        At(t, "kotlin") =>
            LET k == Head(todo[t])
            IN  Len(k.event.prm) = 1 => Reaction(k.event, k.text) = Meant(k.event)

(* Every call of the bridge returns, though threads wait for the lock in   *)
(* the middle of upcalls.                                                  *)
CallsReturn == \A t \in Callers : ~ Idle(t) ~> Idle(t)
=============================================================================
