------------------------------ MODULE MCBridge ------------------------------
(* A small instance of Bridge for TLC: two threads and the event loop.     *)
EXTENDS Bridge

LockedWrappers == {"locked", "checked"}

\* An event of each kind, with the other fields at rest.
Event(kind) == [kind |-> kind, prm |-> <<"p">>, code |-> 0, dir |-> 0, fits |-> TRUE]

PlainKinds ==
    {"CREATE", "REGISTERING", "UNREGISTERING", "REGISTER_OK", "REGISTER_FAIL",
     "FALLBACK_OK", "FALLBACK_FAIL", "CALL_INCOMING", "CALL_OUTGOING", "CALL_ANSWERED",
     "CALL_RINGING", "CALL_ESTABLISHED", "CALL_TRANSFER", "CALL_TRANSFER_FAILED",
     "CALL_CLOSED", "MWI_NOTIFY", "MESSAGE", "VU_RX"}

AllEvents ==
    {Event(k) : k \in PlainKinds}
      \union {[Event("CALL_CLOSED") EXCEPT !.code = c] : c \in {404, 480, 486, 603}}
      \union {[Event("CALL_PROGRESS") EXCEPT !.dir = d] : d \in Directions}
      \union {[Event("CALL_REMOTE_SDP") EXCEPT !.prm = <<"offer">>, !.dir = d] : d \in Directions}
      \union {[Event("CALL_LOCAL_SDP") EXCEPT !.prm = <<p>>] : p \in {"offer", "answer"}}
      \union {[Event("CALL_REMOTE_SDP") EXCEPT !.prm = <<"answer">>],
              [Event("CALL_CLOSED") EXCEPT !.prm = <<"a", "b">>, !.code = 486],
              [Event("CALL_REDIRECT") EXCEPT !.prm = <<"302", "p">>],
              [Event("CALL_MENC") EXCEPT !.prm = <<"0">>],
              [Event("CALL_MENC") EXCEPT !.prm = <<"1", "p">>],
              [Event("CALL_MENC") EXCEPT !.prm = <<"2", "p">>],
              [Event("MODULE") EXCEPT !.prm = <<"m", "dump", "p">>],
              [Event("MODULE") EXCEPT !.prm = <<"m", "other", "p">>],
              [Event("CALL_INCOMING") EXCEPT !.fits = FALSE],
              [Event("RESPONSE") EXCEPT !.code = 200],
              Event("RESPONSE")}
=============================================================================
