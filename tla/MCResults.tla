------------------------------ MODULE MCResults ------------------------------
(* Instances of Results for TLC. *)
EXTENDS Results, TLC

CONSTANTS k1, k2, g1, g2, c1, c2
==============================================================================
