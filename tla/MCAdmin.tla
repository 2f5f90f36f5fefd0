------------------------------- MODULE MCAdmin -------------------------------
(* Instances of Admin for TLC. *)
EXTENDS Admin, TLC

CONSTANTS w1, w2, m1, m2, r1, r2

BothQueues   == {"default", "default.DQ"}
DefaultQueue == {"default"}
DelayedOnly  == {TRUE}

Alike == Permutations(Messages) \cup Permutations(Workers) \cup Permutations(Requests)
==============================================================================
