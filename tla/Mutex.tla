-------------------------------- MODULE Mutex --------------------------------
(***************************************************************************)
(* What the lock of baresip's event loop is for: one thread at a time is   *)
(* inside baresip, and it comes in and goes out before another one does.   *)
(***************************************************************************)
CONSTANT Threads

VARIABLE inside  \* the threads that are inside baresip

Init == inside = {}

Enter(t) == inside = {} /\ inside' = {t}

Leave(t) == inside = {t} /\ inside' = {}

Next == \E t \in Threads : Enter(t) \/ Leave(t)

Spec == Init /\ [][Next]_inside
=============================================================================
