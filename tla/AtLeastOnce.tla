------------------------------ MODULE AtLeastOnce ------------------------------
(***************************************************************************)
(* What the broker promises of the messages it accepts, whatever the       *)
(* number of workers and the faults of their processes: a message it       *)
(* accepted stays pending until somebody decided what becomes of it, and   *)
(* once it is gone it is not delivered again.  A decision may be made more *)
(* than once (the process that executed the message dies before the ack),  *)
(* which is why the promise is at least once and not exactly once.         *)
(***************************************************************************)
CONSTANT Messages

VARIABLES accepted,  \* messages a client enqueued
          pending,   \* messages that will be delivered, again or for the first time
          decided    \* messages executed, given up, or flushed by an operator

vars == <<accepted, pending, decided>>

Init == accepted = {} /\ pending = {} /\ decided = {}

(* The broker takes a new message. *)
Accept(m) ==
  /\ m \notin accepted
  /\ accepted' = accepted \cup {m}
  /\ pending' = pending \cup {m}
  /\ UNCHANGED decided

(* An execution of a pending message ends: it succeeded or it was given up. *)
Decide(m) ==
  /\ m \in pending
  /\ decided' = decided \cup {m}
  /\ UNCHANGED <<accepted, pending>>

(* A message that has been decided on leaves the queue. *)
Settle(m) ==
  /\ m \in pending /\ m \in decided
  /\ pending' = pending \ {m}
  /\ UNCHANGED <<accepted, decided>>

Next == \E m \in Messages : Accept(m) \/ Decide(m) \/ Settle(m)

Spec == Init /\ [][Next]_vars
================================================================================
