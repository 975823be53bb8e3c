------------------------------ MODULE MCCalls ------------------------------
(* Small instances of Calls for TLC: one or two calls.                     *)
EXTENDS Calls

AllMethods == {"init", "unregister", "call", "answer", "hangup",
               "pause", "resume", "detach"}
CallAndHold == {"call", "answer", "pause", "resume"}
CallAndDetach == {"call", "answer", "hangup", "detach"}

IncomingAndClose == {"incoming", "close"}
AnyPeer == {"incoming", "close", "update"}
AnyUpdate == {"incoming", "close", "update", "inactive", "recvonly"}

AnyTimer == {"rt", "vb"}
AnyTone == {"ringback", "busy"}
=============================================================================
