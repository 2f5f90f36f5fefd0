------------------------------ MODULE MCNotifier ------------------------------
(* An instance of Notifier for TLC. *)
EXTENDS Notifier, TLC

CONSTANTS q1, q2
===============================================================================
