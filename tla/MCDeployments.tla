---------------------------- MODULE MCDeployments ----------------------------
(* An instance of Deployments for TLC: three deployments, of which two have one
   schema and two have one lock. *)
EXTENDS Deployments, TLC

CONSTANTS p1, p2, p3, p4, dramatiq, jobs, none, app, k1, k2

Initialisers == Permutations(Processes \ Apps)

LockKeyOfName ==
  [d \in {dramatiq, jobs} \X {none, app} |-> IF d = <<dramatiq, none>> THEN k1 ELSE k2]

OptionsGiven ==
  {[schema |-> NotSet, prefix |-> none, results |-> TRUE],
   [schema |-> NotSet, prefix |-> app, results |-> TRUE],
   [schema |-> jobs, prefix |-> none, results |-> FALSE]}
==============================================================================
