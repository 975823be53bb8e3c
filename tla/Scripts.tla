------------------------------ MODULE Scripts ------------------------------
(***************************************************************************)
(* Threads that run handlers to completion.  todo[t] is what thread t has  *)
(* still to do of the handler it is in: its call stack, written as the     *)
(* sequence of its remaining accesses to what the threads share.  One step *)
(* of a thread is the first of them, and what a call does is put in front  *)
(* of what its caller does next.  An operation is a record whose field op  *)
(* names it.                                                               *)
(***************************************************************************)
EXTENDS Sequences

VARIABLE todo  \* per thread, the rest of the handler it is in

Idle(t) == todo[t] = <<>>

At(t, op) == todo[t] # <<>> /\ Head(todo[t]).op = op

\* An idle thread enters a handler.
Start(t, ops) == Idle(t) /\ todo' = [todo EXCEPT ![t] = ops]

\* Thread t has done its first operation, which called for ops.
Continue(t, ops) == todo' = [todo EXCEPT ![t] = ops \o Tail(todo[t])]
=============================================================================
