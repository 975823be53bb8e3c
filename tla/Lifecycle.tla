----------------------------- MODULE Lifecycle -----------------------------
(***************************************************************************)
(* The life of the plugin on Android: an engine attaches and detaches,     *)
(* SipManager is made once per process, writes the configuration file and  *)
(* starts the thread of baresip, which opens baresip part by part, runs    *)
(* its loop and closes everything again.  A process dies when it is killed *)
(* or when an exception is not caught; the file is all that is left.       *)
(***************************************************************************)
EXTENDS Scripts, ConfigFile

CONSTANTS
    Files,        \* what the file may be when the application is installed
    Processes,    \* the processes of a behaviour, at most
    Attachments,  \* the engines that attach in a process, at most
    Faults,       \* the parts that may fail to open, "loop" for the loop itself,
                  \* "write" for the writing of the file
    Signals       \* whether the process is told to terminate

ASSUME BoundsAssumption == Processes \in Nat \ {0} /\ Attachments \in Nat
ASSUME FilesAssumption == Files \subseteq Texts

Threads == {"main", "re"}

(* What baresipStart opens, in this order.  The message that goes with the *)
(* failure of a part is start_error; some parts have none.                 *)
Parts == <<"libre", "thread", "conf_configure", "baresip_init", "ua_init",
           "uag_event_register", "message_listen", "conf_modules", "mqueue_alloc">>

Nameless == {"libre", "thread"}

PartNames == {Parts[i] : i \in DOMAIN Parts}

ASSUME FaultsAssumption == Faults \subseteq PartNames \union {"loop", "write"}

VARIABLES
    given,      \* the file of the installation (it does not change)
    file,       \* the configuration file
    torn,       \* whether a save was cut short or failed
    started,    \* the processes so far
    alive,      \* whether a process runs
    attached,   \* the engines that attached in it
    engine,     \* whether one is attached now
    manager,    \* whether SipManager's INSTANCE is there
    receiver,   \* whether its broadcast receiver is registered
    isRunning,  \* SipManager.isRunning
    opened,     \* the parts of baresip that are open
    failed,     \* the first thing that failed, "" if none has
    stops,      \* the stops in baresip's queue
    stopping,   \* whether all UAs were told to stop
    term,       \* whether a signal came
    told        \* what the last stopped() from baresip said

disk == <<given, file, torn, started>>
kotlin == <<attached, engine, manager, receiver, isRunning, told>>
native == <<opened, failed, stops, stopping, term>>

vars == <<todo, alive, disk, kotlin, native>>

Op(name) == [op |-> name]
OpenOp(part) == [op |-> "open", part |-> part]
CloseOp(part) == [op |-> "close", part |-> part]
WriteOp(text) == [op |-> "write", text |-> text]
StoppedOp(error) == [op |-> "stopped", error |-> error]

NotBegun == "not begun"

\* What a new process finds.
Volatile ==
    /\ todo' = [t \in Threads |-> <<>>]
    /\ attached' = 0 /\ engine' = FALSE
    /\ manager' = FALSE /\ receiver' = FALSE /\ isRunning' = FALSE /\ told' = NotBegun
    /\ opened' = {} /\ failed' = "" /\ stops' = 0 /\ stopping' = FALSE /\ term' = FALSE

Init ==
    /\ given \in Files /\ file = given /\ torn = FALSE /\ started = 1 /\ alive = TRUE
    /\ todo = [t \in Threads |-> <<>>]
    /\ attached = 0 /\ engine = FALSE
    /\ manager = FALSE /\ receiver = FALSE /\ isRunning = FALSE /\ told = NotBegun
    /\ opened = {} /\ failed = "" /\ stops = 0 /\ stopping = FALSE /\ term = FALSE

\* The process ends.
Die == alive' = FALSE /\ Volatile /\ UNCHANGED disk
-----------------------------------------------------------------------------
(* Scripts.                                                                *)

\* SipManager's constructor, to the end of start().
Construct ==
    <<Op("register"), Op("initialize"), Op("spawn"), Op("running")>>

BaresipStart ==
    [i \in DOMAIN Parts |-> OpenOp(Parts[i])] \o <<Op("started"), Op("loop")>>

\* stopped(): sounds and the WiFi lock are in Media and Network.
Stopped ==
    <<Op("baresipStop"), Op("not_running"), Op("unregister")>>

FaultyClosing(error) ==
    [i \in 1 .. 6 |->
        CloseOp(<<"mqueue_alloc", "ua_init", "conf_configure", "baresip_init",
                  "conf_modules", "libre">>[i])]
      \o <<StoppedOp(error)>>

(* What follows the label out of baresipStart.  mod_close is for what      *)
(* conf_modules loaded, and baresip_close for what listens to messages.    *)
Closing(error) ==
    [i \in 1 .. 8 |->
        CloseOp(<<"mqueue_alloc", "ua_init", "conf_configure", "baresip_init",
                  "uag_event_register", "conf_modules", "thread", "libre">>[i])]
      \o <<StoppedOp(error)>>

\* The rest of a thread's script is dropped for another one.
Goto(t, ops) == todo' = [todo EXCEPT ![t] = ops]
-----------------------------------------------------------------------------
(* The plugin.                                                             *)

FaultyAttach ==
    /\ Idle("main") /\ ~ engine /\ attached < Attachments
    /\ engine' = TRUE
    /\ attached' = attached + 1
    /\ manager' = TRUE
    /\ Start("main", Construct)
    /\ UNCHANGED <<alive, disk, receiver, isRunning, told, native>>

\* onAttachedToEngine: getInstance makes SipManager, the first time.
Attach ==
    /\ Idle("main") /\ ~ engine /\ attached < Attachments
    /\ engine' = TRUE
    /\ attached' = attached + 1
    /\ manager' = TRUE
    /\ IF manager THEN UNCHANGED todo ELSE Start("main", Construct)
    /\ UNCHANGED <<alive, disk, receiver, isRunning, told, native>>

\* onDetachedFromEngine
Detach ==
    /\ engine
    /\ Start("main", Stopped)
    /\ engine' = FALSE
    /\ UNCHANGED <<alive, disk, attached, manager, receiver, isRunning, told, native>>

Register ==
    /\ At("main", "register")
    /\ Continue("main", <<>>)
    /\ receiver' = TRUE
    /\ UNCHANGED <<alive, disk, attached, engine, manager, isRunning, told, native>>

FaultyInitialize ==
    /\ At("main", "initialize")
    /\ Continue("main", <<WriteOp(Rewrite(<<>>))>>)
    /\ file' = <<>>
    /\ UNCHANGED <<alive, given, torn, started, kotlin, native>>

(* Config.initialize reads the file and makes the new text.  Writing it    *)
(* empties the file first; a file that cannot be opened for it stays as it *)
(* was, and initialize does not look at what putFileContents returned.     *)
Initialize ==
    /\ At("main", "initialize")
    /\ \/ /\ Continue("main", <<WriteOp(Rewrite(file))>>)
          /\ file' = <<>>
          /\ UNCHANGED torn
       \/ /\ "write" \in Faults
          /\ Continue("main", <<>>)
          /\ torn' = (torn \/ file = NoFile)
          /\ UNCHANGED file
    /\ UNCHANGED <<alive, given, started, kotlin, native>>

\* A write that fails leaves the file as the opening made it.
Write ==
    /\ At("main", "write")
    /\ Continue("main", <<>>)
    /\ \/ file' = Head(todo["main"]).text /\ UNCHANGED torn
       \/ "write" \in Faults /\ torn' = TRUE /\ UNCHANGED file
    /\ UNCHANGED <<alive, given, started, kotlin, native>>

\* start() starts the thread, and then says that SipManager runs.
Spawn ==
    /\ At("main", "spawn")
    /\ todo' = [todo EXCEPT !["main"] = Tail(@), !["re"] = BaresipStart]
    /\ UNCHANGED <<alive, disk, kotlin, native>>

Running ==
    /\ At("main", "running")
    /\ Continue("main", <<>>)
    /\ isRunning' = TRUE
    /\ UNCHANGED <<alive, disk, attached, engine, manager, receiver, told, native>>

FaultyBaresipStop(t) ==
    /\ At(t, "baresipStop")
    /\ Continue(t, <<>>)
    /\ stops' = stops + 1
    /\ UNCHANGED <<alive, disk, kotlin, opened, failed, stopping, term>>

\* baresipStop: without a queue the push fails, and nobody looks.
BaresipStop(t) ==
    /\ At(t, "baresipStop")
    /\ Continue(t, <<>>)
    /\ stops' = IF "mqueue_alloc" \in opened THEN stops + 1 ELSE stops
    /\ UNCHANGED <<alive, disk, kotlin, opened, failed, stopping, term>>

NotRunning(t) ==
    /\ At(t, "not_running")
    /\ Continue(t, <<>>)
    /\ isRunning' = FALSE
    /\ UNCHANGED <<alive, disk, attached, engine, manager, receiver, told, native>>

(* To unregister a receiver that is not registered throws an exception,    *)
(* which nobody catches.                                                   *)
Unregister(t) ==
    /\ At(t, "unregister")
    /\ \/ /\ receiver
          /\ receiver' = FALSE
          /\ Continue(t, <<>>)
          /\ UNCHANGED <<alive, disk, attached, engine, manager, isRunning, told, native>>
       \/ ~ receiver /\ Die
-----------------------------------------------------------------------------
(* The thread of baresip.                                                  *)

OpenPart ==
    /\ At("re", "open")
    /\ LET part == Head(todo["re"]).part
       IN  \/ /\ opened' = opened \union {part}
              /\ Continue("re", <<>>)
              /\ UNCHANGED <<failed>>
           \/ /\ part \in Faults
              /\ failed' = part
              /\ Goto("re", Closing(IF part \in Nameless THEN "" ELSE part))
              /\ UNCHANGED opened
    /\ UNCHANGED <<alive, disk, kotlin, stops, stopping, term>>

\* The upcall started(): it only has the network's state logged.
Started ==
    /\ At("re", "started")
    /\ Continue("re", <<>>)
    /\ UNCHANGED <<alive, disk, kotlin, native>>

FaultyMqueueHandler ==
    /\ At("re", "loop")
    /\ stops > 0
    /\ stops' = stops - 1
    /\ UNCHANGED <<todo, alive, disk, kotlin, opened, failed, stopping, term>>

\* mqueue_handler has all UAs stopped.
MqueueHandler ==
    /\ At("re", "loop")
    /\ stops > 0
    /\ stops' = stops - 1
    /\ stopping' = TRUE
    /\ UNCHANGED <<todo, alive, disk, kotlin, opened, failed, term>>

\* When the UAs are stopped, ua_exit_handler ends the loop.
UasExit ==
    /\ At("re", "loop")
    /\ stopping
    /\ Goto("re", Closing(""))
    /\ UNCHANGED <<alive, disk, kotlin, native>>

(* A first signal has the UAs stopped too.  A second one that comes before *)
(* the loop has ended ends the process.                                    *)
SignalHandler ==
    /\ At("re", "loop") /\ Signals
    /\ \/ /\ ~ term
          /\ term' = TRUE /\ stopping' = TRUE
          /\ UNCHANGED <<todo, alive, disk, kotlin, opened, failed, stops>>
       \/ term /\ Die

\* re_main fails: the UAs are stopped by force, with no name for the error.
LoopFails ==
    /\ At("re", "loop") /\ "loop" \in Faults
    /\ failed' = "loop"
    /\ Goto("re", Closing(""))
    /\ UNCHANGED <<alive, disk, kotlin, opened, stops, stopping, term>>

(* Closing a part that was not opened does nothing.  With the queue its    *)
(* stops are gone, with the modules the UAs that listen.                   *)
ClosePart ==
    /\ At("re", "close")
    /\ Continue("re", <<>>)
    /\ LET part == Head(todo["re"]).part
       IN  /\ opened' = opened \ (IF part = "baresip_init" THEN {part, "message_listen"} ELSE {part})
           /\ stops' = IF part = "mqueue_alloc" THEN 0 ELSE stops
    /\ UNCHANGED <<alive, disk, kotlin, failed, stopping, term>>

\* The upcall stopped(start_error).
StoppedUpcall ==
    /\ At("re", "stopped")
    /\ Continue("re", Stopped)
    /\ told' = Head(todo["re"]).error
    /\ UNCHANGED <<alive, disk, attached, engine, manager, receiver, isRunning, native>>
-----------------------------------------------------------------------------
(* The system kills the process, and starts another one.                   *)

Kill ==
    /\ alive
    /\ alive' = FALSE /\ Volatile
    /\ torn' = (torn \/ At("main", "write"))
    /\ UNCHANGED <<given, file, started>>

NewProcess ==
    /\ ~ alive /\ started < Processes
    /\ alive' = TRUE
    /\ started' = started + 1
    /\ UNCHANGED <<todo, given, file, torn, kotlin, native>>

MainStep ==
    Register \/ Initialize \/ Write \/ Spawn \/ Running
      \/ BaresipStop("main") \/ NotRunning("main") \/ Unregister("main")

ReStep ==
    \/ OpenPart \/ Started \/ MqueueHandler \/ UasExit \/ ClosePart \/ StoppedUpcall
    \/ BaresipStop("re") \/ NotRunning("re") \/ Unregister("re")

Next ==
    \/ alive /\ (Attach \/ Detach \/ MainStep \/ ReStep \/ SignalHandler \/ LoopFails)
    \/ Kill \/ NewProcess

\* Threads that have something to do do it.
Fairness == WF_vars(alive /\ MainStep) /\ WF_vars(alive /\ ReStep)

Spec == Init /\ [][Next]_vars

FairSpec == Spec /\ Fairness
-----------------------------------------------------------------------------
TypeOK ==
    /\ given \in Files /\ torn \in BOOLEAN /\ started \in 1 .. Processes
    /\ DOMAIN todo = Threads
    /\ alive \in BOOLEAN /\ attached \in 0 .. Attachments /\ engine \in BOOLEAN
    /\ manager \in BOOLEAN /\ receiver \in BOOLEAN /\ isRunning \in BOOLEAN
    /\ stopping \in BOOLEAN /\ term \in BOOLEAN
    /\ opened \subseteq PartNames
    /\ failed \in PartNames \union {"loop", ""}
    /\ stops \in 0 .. Attachments
    /\ told \in PartNames \union {"", NotBegun}

(* Wherever a start fails, and however the loop ends, what was opened is   *)
(* closed again when the thread is done (the label out of baresipStart).   *)
NothingLeftOpen == At("re", "stopped") \/ Idle("re") => opened = {}

(* However engines come and go, and whatever becomes of baresip, a process *)
(* starts it once (getInstance): never again on top of what is open.       *)
StartsOnce == At("main", "spawn") => Idle("re") /\ opened = {} /\ told = NotBegun

(* A stop that reaches baresip's queue is heard, also when the loop does   *)
(* not run yet: baresip is closed, or the process is gone.                 *)
StopIsHeard == stops > 0 ~> opened = {}

(* What the user's file says, or the defaults for a first start, is what   *)
(* baresip is started with, in each process, as long as no save is cut     *)
(* short and none fails half way: a file that cannot be opened for writing *)
(* is still the user's.                                                    *)
SettingsStay ==
    At("main", "spawn") /\ ~ torn =>
        Settings(file) = IF given = NoFile THEN Settings(FirstLines) ELSE Settings(given)
=============================================================================
