--------------------------- MODULE MCRegistration ---------------------------
(* Small instances of Registration for TLC: one or two accounts, the       *)
(* platform thread, the baresip thread and at most one network thread.     *)
EXTENDS Registration, TLC

NoNetThread == {}
OneNetThread == {"net"}

AllMethods == {"init", "refresh", "unregister"}
JustInit == {"init"}

\* Nothing but the order of their allocation tells the accounts apart.
UaSymmetry == Permutations(Uas)
=============================================================================
