----------------------------- MODULE CallStatus -----------------------------
(***************************************************************************)
(* What the application is promised about each call by the events of       *)
(* README.md ("Listen for call event"): a call rings, then it may be       *)
(* established, and it ends once.                                          *)
(***************************************************************************)
EXTENDS Sequences

CONSTANT CallIds

VARIABLE told  \* per call, the events Ring, Up and Hangup sent about it

Init == told = [c \in CallIds |-> <<>>]

\* The histories of a call in which the event may come next.
Before(event) ==
    CASE event = "Ring" -> {<<>>}
      [] event = "Up" -> {<<"Ring">>}
      [] event = "Hangup" -> {<<"Ring">>, <<"Ring", "Up">>}

Tell(c, event) ==
    /\ told[c] \in Before(event)
    /\ told' = [told EXCEPT ![c] = Append(@, event)]

Next == \E c \in CallIds, event \in {"Ring", "Up", "Hangup"} : Tell(c, event)

Spec == Init /\ [][Next]_told
=============================================================================
