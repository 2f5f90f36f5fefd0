------------------------------ MODULE MCDelivery ------------------------------
(* Instances of Delivery for TLC. *)
EXTENDS Delivery, TLC

CONSTANTS w1, w2, m1, m2, m3

BothQueues   == {"default", "default.DQ"}
DefaultQueue == {"default"}
DelayedOnly  == {TRUE}
AnyDelay     == BOOLEAN
===============================================================================
