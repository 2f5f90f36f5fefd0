------------------------------ MODULE QueueTable ------------------------------
(***************************************************************************)
(* The `queue` table of schema.sql and the SQL statements of broker.py and *)
(* cli.py over it, one operator per statement.  A statement is a function  *)
(* from the table it finds to the table it leaves, so every module that    *)
(* runs one (worker, maintenance, CLI, admin) runs the same definition.    *)
(*                                                                         *)
(* Data kept of a row: its state, the queue it is in, whether available_at *)
(* has passed (`due`), its owner, and the `retries` option of the payload. *)
(* The numbered `claim` is a history value: which claim of the message the *)
(* row stands for, 0 while nobody owns it.  mtime is compared only with    *)
(* one age per state, so the statements that read it take the set of rows  *)
(* that are old enough; position, consumed_at and the payload's arguments  *)
(* are not compared by any property and are left out.                      *)
(***************************************************************************)
EXTENDS Naturals, FiniteSets

CONSTANTS Messages,   \* message ids
          Workers,    \* worker ids: one per broker instance, never reused
          NoWorker    \* SQL NULL in queue.worker_id

ASSUME NoWorkerAssumption == NoWorker \notin Workers

(* A base queue and dramatiq's delay queue for it, dq_name(queue_name). *)
QueueNames == {"default", "default.DQ"}

RowStates == {"absent", "queued", "consumed", "rejected"}

Row == [state   : RowStates,
        queue   : QueueNames,
        due     : BOOLEAN,
        worker  : Workers \cup {NoWorker},
        claim   : Nat,
        retries : Nat]

(* No row has this message id. *)
AbsentRow == [state |-> "absent", queue |-> "default", due |-> FALSE,
              worker |-> NoWorker, claim |-> 0, retries |-> 0]

EmptyTable == [m \in Messages |-> AbsentRow]

InState(t, s) == {m \in Messages : t[m].state = s}

-----------------------------------------------------------------------------
(* Back to 'queued', owner cleared: the SET list REQUEUE, REAP and RECOVER share. *)
Requeued(row) == [row EXCEPT !.state = "queued", !.worker = NoWorker, !.claim = 0]

(* QUERIES.ENQUEUE: insert, or take over the row that holds the id, whatever
   its state and owner. *)
Enqueue(t, m, q, due, r) ==
  [t EXCEPT ![m] = [state |-> "queued", queue |-> q, due |-> due,
                    worker |-> NoWorker, claim |-> 0, retries |-> r]]

(* QUERIES.CLAIM, its WHERE clause.  Faults: available_at forgotten; rows that
   somebody owns not excluded. *)
ClaimableUndue(t, q) == {m \in InState(t, "queued") : t[m].queue = q}
ClaimableConsumed(t, q) ==
  {m \in InState(t, "queued") \cup InState(t, "consumed") : t[m].queue = q /\ t[m].due}

Claimable(t, q) == {m \in InState(t, "queued") : t[m].queue = q /\ t[m].due}

(* QUERIES.CLAIM, its UPDATE: worker w now owns the rows S; n counts claims. *)
ClaimRows(t, S, w, n) ==
  [m \in Messages |->
     IF m \in S THEN [t[m] EXCEPT !.state = "consumed", !.worker = w, !.claim = n[m] + 1]
                ELSE t[m]]

(* QUERIES.ACK: delete the row if it is still consumed in that queue.  Faults: the
   queue is not compared; nothing is deleted. *)
AckAnyQueue(t, m, q) == IF t[m].state = "consumed" THEN [t EXCEPT ![m] = AbsentRow] ELSE t
AckNothing(t, m, q) == t

Ack(t, m, q) ==
  IF t[m].state = "consumed" /\ t[m].queue = q THEN [t EXCEPT ![m] = AbsentRow] ELSE t

(* QUERIES.NACK: keep the row as rejected, unless it already is.  Fault: a state
   the enum does not have. *)
Rejected(row, r) ==
  [row EXCEPT !.state = "rejected", !.worker = NoWorker, !.claim = 0, !.retries = r]

NackAsDone(t, m, q, r) == IF t[m].queue = q THEN [t EXCEPT ![m].state = "done"] ELSE t

Nack(t, m, q, r) ==
  IF t[m].state \notin {"absent", "rejected"} /\ t[m].queue = q
  THEN [t EXCEPT ![m] = Rejected(t[m], r)]
  ELSE t

(* QUERIES.REQUEUE: give back the messages S, those of them still consumed. *)
Requeue(t, S) ==
  [m \in Messages |->
     IF m \in S /\ t[m].state = "consumed" THEN Requeued(t[m]) ELSE t[m]]

(* QUERIES.REAP: requeue what no worker with a fresh heartbeat owns (an owner
   that is NULL is never among the alive).  Fault: live owners lose theirs too. *)
ReapAll(t, alive) == Requeue(t, Messages)

Reap(t, alive) == Requeue(t, {m \in Messages : t[m].worker \notin alive})

(* QUERIES.PURGE: delete rejected rows, `old` being those past purge_maxage. *)
Purge(t, old) ==
  [m \in Messages |-> IF m \in old /\ t[m].state = "rejected" THEN AbsentRow ELSE t[m]]

(* cli.QUERIES.RECOVER: requeue consumed rows, `old` being those past minage,
   whoever owns them. *)
Recover(t, old) == Requeue(t, old)

(* cli.QUERIES.FLUSH: delete what is pending or in flight. *)
Flush(t) ==
  [m \in Messages |-> IF t[m].state \in {"queued", "consumed"} THEN AbsentRow ELSE t[m]]
=============================================================================
