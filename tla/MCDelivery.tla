----------------------------- MODULE MCDelivery -----------------------------
(* An application with two engines, one after the other, for TLC.          *)
EXTENDS Delivery
=============================================================================
