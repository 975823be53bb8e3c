------------------------------- MODULE Media -------------------------------
(***************************************************************************)
(* The sounds of the Android plugin: the ringtone with its timers, the     *)
(* player of the ring-back and busy tones, the call volume.  The functions *)
(* of SipManager's media section run on the platform thread and on the     *)
(* baresip thread, at the same time if it so happens: each access to a     *)
(* field is a step, and each reads the field anew.  What no field holds    *)
(* any more cannot be reached: a timer, or a looping tone, goes on.        *)
(*                                                                         *)
(* A ringtone that does not loop (where rtTimer plays it again) ends by    *)
(* itself, so that its timer stands for it.  The audio mode is left out:   *)
(* the plugin only ever sets it to normal.  abandonAudioFocus does nothing *)
(* more, for audioFocusRequest is never set.                               *)
(***************************************************************************)
EXTENDS Scripts, Naturals

CONSTANTS
    Timers,       \* timers that ringing starts on this device
    Tones,        \* tone resources that the application provides
    RaisesVolume  \* callVolume # 0

(* "rt" plays the ringtone again (rtTimer, before Android 9), "vb" vibrates *)
(* (vbTimer, if shouldVibrate).                                            *)
ASSUME TimersAssumption == Timers \subseteq {"rt", "vb"}
ASSUME TonesAssumption == Tones \subseteq {"ringback", "busy"}
ASSUME RaisesVolumeAssumption == RaisesVolume \in BOOLEAN

VARIABLES
    ringing,  \* the ringtone rt plays, and loops
    timer,    \* per timer, the one that rtTimer or vbTimer holds
    player,   \* the tone that mediaPlayer holds, and how far that one is
    lost,     \* the timers and tones that go on and that no field holds
    thrown,   \* a timer or a player was used when it could not be
    volume,   \* "user" as the user set it, or raised for a call
    saved     \* origVolume: the volume that resetCallVolume restores

media == <<ringing, timer, player, lost, thrown, volume, saved>>

TimerStates == {"null", "new", "runs", "cancelled"}

Players == [tone : {"ringback", "busy"}, is : {"ready", "plays", "stopped", "released"}]

NoPlayer == [tone |-> "none", is |-> "null"]

MediaTypeOK ==
    /\ ringing \in BOOLEAN
    /\ timer \in [Timers -> TimerStates]
    /\ player \in Players \union {NoPlayer}
    /\ lost \subseteq {"rt", "vb", "ringback", "busy"}
    /\ thrown \in BOOLEAN
    /\ volume \in {"user", "call"}
    /\ saved \in {"nothing", "user", "call"}

MediaInit ==
    /\ ringing = FALSE
    /\ timer = [k \in Timers |-> "null"]
    /\ player = NoPlayer
    /\ lost = {}
    /\ thrown = FALSE
    /\ volume = "user"
    /\ saved = "nothing"

Do(op) == [op |-> op]

OfTimer(op, k) == [op |-> op, timer |-> k]

\* A script for the timer k, on a device that has it.
WithTimer(k, ops) == IF k \in Timers THEN ops ELSE <<>>
-----------------------------------------------------------------------------
(* startRinging.  It plays the ringtone, then makes each timer and, by its *)
(* field, schedules it.                                                    *)
Starting(k) == WithTimer(k, <<OfTimer("newTimer", k), OfTimer("schedule", k)>>)

StartRinging(t) ==
    /\ At(t, "startRinging")
    /\ Continue(t, Starting("rt") \o Starting("vb"))
    /\ ringing' = ("rt" \notin Timers)
    /\ UNCHANGED <<timer, player, lost, thrown, volume, saved>>

\* The timer k of which the field is overwritten, or set to null.
Loses(k) == IF timer[k] = "runs" THEN lost \union {k} ELSE lost

NewTimer(t) ==
    /\ At(t, "newTimer")
    /\ Continue(t, <<>>)
    /\ LET k == Head(todo[t]).timer IN
       /\ timer' = [timer EXCEPT ![k] = "new"]
       /\ lost' = Loses(k)
    /\ UNCHANGED <<ringing, player, thrown, volume, saved>>

\* Neither null nor a cancelled timer can be scheduled.
Schedule(t) ==
    /\ At(t, "schedule")
    /\ Continue(t, <<>>)
    /\ LET k == Head(todo[t]).timer IN
       IF timer[k] \in {"null", "cancelled"}
       THEN thrown' = TRUE /\ UNCHANGED timer
       ELSE timer' = [timer EXCEPT ![k] = "runs"] /\ UNCHANGED thrown
    /\ UNCHANGED <<ringing, player, lost, volume, saved>>

(* stopRinging.  A timer that is there is cancelled, and then forgotten.   *)
Stopping(k) == WithTimer(k, <<OfTimer("ifTimer", k)>>)

FaultyStopRinging(t) ==
    /\ At(t, "stopRinging")
    /\ Continue(t, Stopping("rt") \o <<Do("stopRingtone")>>)
    /\ UNCHANGED media

StopRinging(t) ==
    /\ At(t, "stopRinging")
    /\ Continue(t, Stopping("rt") \o <<Do("stopRingtone")>> \o Stopping("vb"))
    /\ UNCHANGED media

IfTimer(t) ==
    /\ At(t, "ifTimer")
    /\ LET k == Head(todo[t]).timer IN
       Continue(t, IF timer[k] = "null" THEN <<>>
                   ELSE <<OfTimer("cancel", k), OfTimer("noTimer", k)>>)
    /\ UNCHANGED media

Cancel(t) ==
    /\ At(t, "cancel")
    /\ Continue(t, <<>>)
    /\ LET k == Head(todo[t]).timer IN
       IF timer[k] = "null"
       THEN thrown' = TRUE /\ UNCHANGED timer
       ELSE timer' = [timer EXCEPT ![k] = "cancelled"] /\ UNCHANGED thrown
    /\ UNCHANGED <<ringing, player, lost, volume, saved>>

NoTimer(t) ==
    /\ At(t, "noTimer")
    /\ Continue(t, <<>>)
    /\ LET k == Head(todo[t]).timer IN
       /\ timer' = [timer EXCEPT ![k] = "null"]
       /\ lost' = Loses(k)
    /\ UNCHANGED <<ringing, player, thrown, volume, saved>>

StopRingtone(t) ==
    /\ At(t, "stopRingtone")
    /\ Continue(t, <<>>)
    /\ ringing' = FALSE
    /\ UNCHANGED <<timer, player, lost, thrown, volume, saved>>
-----------------------------------------------------------------------------
(* playRingBack and playBusy, unless there is a player.                    *)
PlayTone(t, tone) ==
    /\ Continue(t, IF player = NoPlayer /\ tone \in Tones
                   THEN <<[op |-> "newPlayer", tone |-> tone], Do("startPlayer")>> ELSE <<>>)
    /\ UNCHANGED media

PlayRingBack(t) == At(t, "playRingBack") /\ PlayTone(t, "ringback")

PlayBusy(t) == At(t, "playBusy") /\ PlayTone(t, "busy")

\* The tone that plays on when mediaPlayer gets another value.
Drops == IF player.is = "plays" THEN lost \union {player.tone} ELSE lost

NewPlayer(t) ==
    /\ At(t, "newPlayer")
    /\ Continue(t, <<>>)
    /\ player' = [tone |-> Head(todo[t]).tone, is |-> "ready"]
    /\ lost' = Drops
    /\ UNCHANGED <<ringing, timer, thrown, volume, saved>>

(* What is done with the player that mediaPlayer holds at that moment, if  *)
(* it holds one.  One that was released, or is stopped and to be started,  *)
(* throws.                                                                 *)
UsePlayer(t, op, able, next) ==
    /\ At(t, op)
    /\ IF player.is \in able \union {"null"}
       THEN /\ player' = IF player = NoPlayer THEN player ELSE [player EXCEPT !.is = next]
            /\ UNCHANGED thrown
       ELSE thrown' = TRUE /\ UNCHANGED player
    /\ UNCHANGED <<ringing, timer, lost, volume, saved>>

StartPlayer(t) ==
    /\ UsePlayer(t, "startPlayer", {"ready", "plays"}, "plays")
    /\ Continue(t, <<>>)

StopMediaPlayer(t) ==
    /\ UsePlayer(t, "stopMediaPlayer", {"ready", "plays", "stopped"}, "stopped")
    /\ Continue(t, <<Do("release"), Do("noPlayer")>>)

Release(t) ==
    /\ UsePlayer(t, "release", {"ready", "plays", "stopped", "released"}, "released")
    /\ Continue(t, <<>>)

ForgetPlayer(t) ==
    /\ At(t, "noPlayer")
    /\ Continue(t, <<>>)
    /\ player' = NoPlayer
    /\ lost' = Drops
    /\ UNCHANGED <<ringing, timer, thrown, volume, saved>>
-----------------------------------------------------------------------------
(* The current volume is saved each time, a raised one included.           *)
SetCallVolume(t) ==
    /\ At(t, "setCallVolume")
    /\ Continue(t, <<>>)
    /\ saved' = IF RaisesVolume THEN volume ELSE saved
    /\ volume' = IF RaisesVolume THEN "call" ELSE volume
    /\ UNCHANGED <<ringing, timer, player, lost, thrown>>

(* origVolume keeps its entries and may be empty.                          *)
ResetCallVolume ==
    /\ volume' = IF saved # "nothing" THEN saved ELSE volume
    /\ UNCHANGED <<ringing, timer, player, lost, thrown, saved>>

MediaSteps(t) ==
    \/ StartRinging(t) \/ NewTimer(t) \/ Schedule(t)
    \/ StopRinging(t) \/ IfTimer(t) \/ Cancel(t) \/ NoTimer(t) \/ StopRingtone(t)
    \/ PlayRingBack(t) \/ PlayBusy(t) \/ NewPlayer(t) \/ StartPlayer(t)
    \/ StopMediaPlayer(t) \/ Release(t) \/ ForgetPlayer(t)
    \/ SetCallVolume(t)
-----------------------------------------------------------------------------
(* Of what SipManager still holds nothing rings, vibrates or plays a       *)
(* ring-back tone.                                                         *)
Silent ==
    /\ ~ ringing
    /\ \A k \in Timers : timer[k] # "runs"
    /\ player # [tone |-> "ringback", is |-> "plays"]
=============================================================================
