----------------------------- MODULE MCLeaseClock -----------------------------
(* An instance of LeaseClock for TLC. *)
EXTENDS LeaseClock, TLC

CONSTANTS w1, w2, w3

Processes == Permutations(Mortal)
===============================================================================
