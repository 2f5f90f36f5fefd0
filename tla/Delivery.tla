------------------------------- MODULE Delivery -------------------------------
(***************************************************************************)
(* How a message travels: enqueued by a client, claimed by a consumer      *)
(* thread of a worker process, executed by a worker thread, acknowledged,  *)
(* rejected or enqueued again, and given back to the queue when the        *)
(* process that owned it dies.  The actors are the client, the consumer    *)
(* threads (PostgresConsumer.__next__, one per queue and process, with the *)
(* heartbeat and the maintenance it runs), the worker threads              *)
(* (PostgresConsumer.ack / nack and Retries' call of broker.enqueue), the  *)
(* operating system (crash, shutdown), the CLI and the clock.  They share  *)
(* the queue table and the worker table.  One action is one transaction or *)
(* one step of a thread between two transactions.                          *)
(*                                                                         *)
(* Time: a heartbeat row is compared with two ages only (heartbeat_ttl and *)
(* five times that), so it is fresh, stale or expired and Lapse ages it.   *)
(* A consumer that finds nothing waits at most poll_interval; that wait is *)
(* the step Idle, and what cuts it short is in module Notifier's scope.    *)
(***************************************************************************)
EXTENDS QueueTable

CONSTANTS Consumed,       \* the queues the workers consume
          Mortal,         \* the worker processes that may be stopped or killed
          Prefetch,       \* consumer prefetch
          ClaimBatchMax,  \* CLAIM_BATCH_MAX
          Threads,        \* worker threads of a process
          MaxRetries,     \* max_retries of the actor
          RetryDelays,    \* is the delay of a retry nonzero? subset of BOOLEAN
          MaxClaims,      \* bound: claims of one message
          Env             \* what else may happen, subset of EnvEvents

EnvEvents == {"crash", "stop", "conn_error", "stall", "slow_ack", "recover", "flush", "purge"}

ASSUME DeliveryAssumption ==
  /\ Consumed \subseteq QueueNames
  /\ Mortal \subseteq Workers
  /\ Prefetch \in Nat \ {0} /\ ClaimBatchMax \in Nat \ {0} /\ Threads \in Nat \ {0}
  /\ MaxRetries \in Nat /\ MaxClaims \in Nat
  /\ RetryDelays \subseteq BOOLEAN
  /\ Env \subseteq EnvEvents

(* Where a claimed message is in the memory of the process that claimed it.  *)
Stages == {"buffer",    \* consumer.buffer
           "work",      \* handed out, in the work queue
           "delay",     \* handed out, in the delay queue until its eta
           "run",       \* an actor is executing it
           "done",      \* executed; ack pending
           "failed",    \* retries exhausted; nack pending
           "retrying",  \* enqueue committed but its reply was lost
           "requeued"}  \* enqueued again; ack of this delivery pending

(* How a message may end. *)
Outcomes == {"executed", "exhausted", "flushed", "purged"}

(* Stages in which this process is the one that has to deal with the message. *)
OwnedStages == {"buffer", "work", "delay", "run", "done", "failed"}

(* One delivery of a message. *)
Copy == [worker : Workers, msg : Messages, queue : QueueNames,
         claim : Nat, retries : Nat, stage : Stages]

VARIABLES
  rows,           \* the queue table
  heartbeat,      \* the worker table: age class of each worker's row
  marked,         \* the workers whose broker._heartbeat_at is set
  life,           \* life cycle of each worker process
  pc,             \* where each consumer thread is in __next__
  copies,         \* every delivery some process holds in memory
  in_processing,  \* consumer.in_processing
  sent,           \* history: messages the client enqueued
  resend,         \* client enqueues committed without the client learning it
  claims,         \* history: number of claims of each message
  outcome         \* history: how each message ended, as far as anyone decided

vars == <<rows, heartbeat, marked, life, pc, copies, in_processing,
          sent, resend, claims, outcome>>

process == <<marked, life, pc>>
history == <<sent, resend, claims, outcome>>

TypeOK ==
  /\ rows \in [Messages -> Row]
  /\ heartbeat \in [Workers -> {"none", "fresh", "stale", "expired"}]
  /\ marked \subseteq Workers
  /\ life \in [Workers -> {"new", "up", "stopping", "drained", "down"}]
  /\ pc \in [Workers -> [QueueNames -> {"off", "next", "heartbeat", "upkeep", "claim"}]]
  /\ copies \subseteq Copy
  /\ in_processing \in [Workers -> [QueueNames -> SUBSET Messages]]
  /\ sent \subseteq Messages
  /\ resend \subseteq Messages \X BOOLEAN
  /\ claims \in [Messages -> Nat]
  /\ outcome \in [Messages -> SUBSET Outcomes]

Init ==
  /\ rows = EmptyTable
  /\ heartbeat = [w \in Workers |-> "none"]
  /\ marked = {}
  /\ life = [w \in Workers |-> "new"]
  /\ pc = [w \in Workers |-> [q \in QueueNames |-> "off"]]
  /\ copies = {}
  /\ in_processing = [w \in Workers |-> [q \in QueueNames |-> {}]]
  /\ sent = {}
  /\ resend = {}
  /\ claims = [m \in Messages |-> 0]
  /\ outcome = [m \in Messages |-> {}]

-----------------------------------------------------------------------------
(* Vocabulary of the actions. *)

Live(w) == life[w] \in {"up", "stopping", "drained"}

(* Does the caller learn that its transaction committed? *)
Replies == IF "conn_error" \in Env THEN BOOLEAN ELSE {TRUE}

CopiesAt(w, q, stages) ==
  {c \in copies : c.worker = w /\ c.queue = q /\ c.stage \in stages}

MsgsOf(C) == {c.msg : c \in C}

MoveTo(c, s) == copies' = (copies \ {c}) \cup {[c EXCEPT !.stage = s]}

Goto(w, q, label) == pc' = [pc EXCEPT ![w][q] = label]

NoteAll(S, what) ==
  outcome' = [m \in Messages |-> IF m \in S THEN outcome[m] \cup {what} ELSE outcome[m]]

Note(m, what) == NoteAll({m}, what)

(* Deliveries a worker thread of w is busy with. *)
ThreadsBusy(w) ==
  CopiesAt(w, "default", {"run", "done", "failed", "retrying", "requeued"})

(* The consumer thread is between two calls of __next__.  The one of the delay
   queue settles released messages itself, before it calls __next__ again. *)
Ready(w, q) ==
  /\ pc[w][q] = "next"
  /\ q = "default.DQ" => CopiesAt(w, q, {"retrying", "requeued"}) = {}

(* broker.enqueue: with a delay the message goes to the delay queue. *)
EnqueueMessage(m, delayed, r) ==
  rows' = IF delayed THEN Enqueue(rows, m, "default.DQ", FALSE, r)
                     ELSE Enqueue(rows, m, "default", TRUE, r)

-----------------------------------------------------------------------------
(* The client. *)

(* actor.send(): broker.enqueue of a new message id. *)
Send(m) ==
  /\ m \notin sent
  /\ \E delayed \in {d \in BOOLEAN : d => "default.DQ" \in Consumed}, reply \in Replies :
       /\ EnqueueMessage(m, delayed, 0)
       /\ resend' = IF reply THEN resend ELSE resend \cup {<<m, delayed>>}
  /\ sent' = sent \cup {m}
  /\ UNCHANGED <<heartbeat, process, copies, in_processing, claims, outcome>>

(* retry_pg runs broker.enqueue again after a connection error, although the
   first run committed. *)
SendAgain(m) ==
  /\ \E delayed \in BOOLEAN :
       /\ <<m, delayed>> \in resend
       /\ EnqueueMessage(m, delayed, 0)
       /\ resend' = resend \ {<<m, delayed>>}
  /\ UNCHANGED <<heartbeat, process, copies, in_processing, sent, claims, outcome>>

-----------------------------------------------------------------------------
(* A consumer thread: PostgresConsumer.__next__ and what its caller does with
   the message. *)

(* The worker process starts: a new broker, a consumer per queue. *)
Start(w) ==
  /\ life[w] = "new"
  /\ life' = [life EXCEPT ![w] = "up"]
  /\ pc' = [pc EXCEPT ![w] = [q \in QueueNames |-> IF q \in Consumed THEN "next" ELSE "off"]]
  /\ UNCHANGED <<rows, heartbeat, marked, copies, in_processing, history>>

(* maybe_heartbeat, first half: the interval has elapsed, so note under the lock
   that this thread sends the heartbeat.  Fault: none is sent. *)
HeartbeatUnmarked(w, q) ==
  /\ Ready(w, q)
  /\ Goto(w, q, "upkeep")
  /\ UNCHANGED <<rows, heartbeat, marked, life, copies, in_processing, history>>

HeartbeatDue(w, q) ==
  /\ Ready(w, q)
  /\ marked' = marked \cup {w}
  /\ Goto(w, q, "heartbeat")
  /\ UNCHANGED <<rows, heartbeat, life, copies, in_processing, history>>

(* maybe_heartbeat, early return: some thread of the process noted a heartbeat
   less than heartbeat_interval ago. *)
HeartbeatRecent(w, q) ==
  /\ Ready(w, q)
  /\ w \in marked
  /\ Goto(w, q, "upkeep")
  /\ UNCHANGED <<rows, heartbeat, marked, life, copies, in_processing, history>>

(* maybe_heartbeat, second half: QUERIES.HEARTBEAT commits. *)
HeartbeatCommit(w, q) ==
  /\ pc[w][q] = "heartbeat"
  /\ heartbeat' = [heartbeat EXCEPT ![w] = "fresh"]
  /\ Goto(w, q, "upkeep")
  /\ UNCHANGED <<rows, marked, life, copies, in_processing, history>>

(* maybe_maintenance, early returns: not due, or the advisory lock is taken. *)
MaintenanceSkip(w, q) ==
  /\ pc[w][q] = "upkeep"
  /\ Goto(w, q, "claim")
  /\ UNCHANGED <<rows, heartbeat, marked, life, copies, in_processing, history>>

(* QUERIES.CLEAN_WORKERS deletes the rows older than five ttl. *)
CleanWorkers == [w \in Workers |-> IF heartbeat[w] = "expired" THEN "none" ELSE heartbeat[w]]

(* Workers REAP finds alive: heartbeat_at > NOW() - heartbeat_ttl. *)
AliveWorkers == {w \in Workers : heartbeat[w] = "fresh"}

(* maybe_maintenance, the transaction: REAP, CLEAN_WORKERS and PURGE.  Fault: the
   workers are cleaned but their messages are not reaped. *)
MaintainCleanOnly(w, q) ==
  /\ pc[w][q] = "upkeep"
  /\ heartbeat' = CleanWorkers
  /\ Goto(w, q, "claim")
  /\ UNCHANGED <<rows, marked, life, copies, in_processing, history>>

Maintain(w, q) ==
  /\ pc[w][q] = "upkeep"
  /\ \E old \in SUBSET InState(rows, "rejected") :
       rows' = Purge(Reap(rows, AliveWorkers), old) /\ NoteAll(old, "purged")
  /\ heartbeat' = CleanWorkers
  /\ Goto(w, q, "claim")
  /\ UNCHANGED <<marked, life, copies, in_processing, sent, resend, claims>>

(* prefetch minus what this consumer handed out and has not settled.  Fault: one
   message too many is counted. *)
CapacityOffByOne(w, q) == Prefetch - 1 - Cardinality(in_processing[w][q])
Capacity(w, q) == Prefetch - Cardinality(in_processing[w][q])

(* The batches one CLAIM may take: due rows, at most `limit` of them.  Rows that
   another transaction has locked are skipped. *)
Batches(w, q) ==
  {S \in SUBSET {m \in Claimable(rows, q) : claims[m] < MaxClaims} :
     /\ S # {}
     /\ Cardinality(S) <= Capacity(w, q)
     /\ Cardinality(S) <= ClaimBatchMax}

(* The UPDATE of QUERIES.CLAIM for the batch S. *)
ClaimBatch(w, S) ==
  /\ rows' = ClaimRows(rows, S, w, claims)
  /\ claims' = [m \in Messages |-> IF m \in S THEN claims[m] + 1 ELSE claims[m]]

(* What the consumer decodes of a claimed row.  Fault: the retries option is lost. *)
CopyWithoutRetries(w, q, m) ==
  [worker |-> w, msg |-> m, queue |-> q, claim |-> claims[m] + 1,
   retries |-> 0, stage |-> "buffer"]

CopyOf(w, q, m) ==
  [worker |-> w, msg |-> m, queue |-> q, claim |-> claims[m] + 1,
   retries |-> rows[m].retries, stage |-> "buffer"]

(* The buffer is empty: the thread may run CLAIM.  A thread that returned early from
   maybe_heartbeat comes here whether or not the heartbeat it trusts has committed. *)
MayClaim(w, q) ==
  /\ pc[w][q] = "claim"
  /\ CopiesAt(w, q, {"buffer"}) = {}

(* claim(): the batch is this worker's and goes to the buffer.  RETURNING gives
   no order, so the buffer is a set. *)
Claim(w, q) ==
  /\ MayClaim(w, q)
  /\ \E S \in Batches(w, q) :
       /\ ClaimBatch(w, S)
       /\ copies' = copies \cup {CopyOf(w, q, m) : m \in S}
  /\ UNCHANGED <<heartbeat, process, in_processing, sent, resend, outcome>>

(* The deliveries only the consumer's thread knows of.  That of the delay queue
   enqueues what it releases itself. *)
ThreadsOwn(w, q) ==
  CopiesAt(w, q, {"buffer", "delay"} \cup IF q = "default.DQ" THEN {"retrying"} ELSE {})

(* What the consumer's thread loses when it fails: dramatiq closes the consumer
   and builds another one with an empty buffer.  Fault: the set of messages in
   processing outlives its consumer. *)
NewConsumerSameCount(w, q) ==
  /\ copies' = copies \ ThreadsOwn(w, q)
  /\ UNCHANGED in_processing
  /\ Goto(w, q, "next")

NewConsumer(w, q) ==
  /\ copies' = copies \ ThreadsOwn(w, q)
  /\ in_processing' = [in_processing EXCEPT ![w][q] = {}]
  /\ Goto(w, q, "next")

(* The CLAIM commits but its reply is lost. *)
ClaimLost(w, q) ==
  /\ "conn_error" \in Env
  /\ MayClaim(w, q)
  /\ \E S \in Batches(w, q) : ClaimBatch(w, S)
  /\ NewConsumer(w, q)
  /\ UNCHANGED <<heartbeat, marked, life, sent, resend, outcome>>

(* Any statement of __next__ fails on a broken connection, or retry_pg gives up the
   enqueue of a released message. *)
ConsumerError(w, q) ==
  /\ "conn_error" \in Env
  /\ pc[w][q] # "off" /\ (q = "default.DQ" => CopiesAt(w, q, {"requeued"}) = {})
  /\ NewConsumer(w, q)
  /\ UNCHANGED <<rows, heartbeat, marked, life, history>>

(* __next__ pops a message; its caller puts it on the work queue, or on the
   delay queue if it has an eta. *)
Deliver(w, q) ==
  /\ pc[w][q] = "claim"
  /\ \E c \in CopiesAt(w, q, {"buffer"}) :
       /\ in_processing' = [in_processing EXCEPT ![w][q] = @ \cup {c.msg}]
       /\ MoveTo(c, IF q = "default.DQ" THEN "delay" ELSE "work")
  /\ Goto(w, q, "next")
  /\ UNCHANGED <<rows, heartbeat, marked, life, history>>

(* Nothing claimable or no capacity: wait, at most the poll interval. *)
Idle(w, q) ==
  /\ pc[w][q] = "claim"
  /\ CopiesAt(w, q, {"buffer"}) = {}
  /\ Batches(w, q) = {}
  /\ Goto(w, q, "next")
  /\ UNCHANGED <<rows, heartbeat, marked, life, copies, in_processing, history>>

(* The eta of a message of the delay queue has passed: the consumer thread
   enqueues it in the queue it was meant for. *)
Release(w) ==
  /\ pc[w]["default.DQ"] = "next"
  /\ \E c \in CopiesAt(w, "default.DQ", {"delay", "retrying"}), reply \in Replies :
       /\ c.stage = "delay" => Ready(w, "default.DQ")
       /\ EnqueueMessage(c.msg, FALSE, c.retries)
       /\ MoveTo(c, IF reply THEN "requeued" ELSE "retrying")
  /\ UNCHANGED <<heartbeat, process, in_processing, history>>

-----------------------------------------------------------------------------
(* The worker threads. *)

(* A worker thread takes a message from the work queue. *)
Begin(w) ==
  /\ life[w] = "up"
  /\ Cardinality(ThreadsBusy(w)) < Threads
  /\ \E c \in CopiesAt(w, "default", {"work"}) : MoveTo(c, "run")
  /\ UNCHANGED <<rows, heartbeat, process, in_processing, history>>

(* The actor returns. *)
Succeed(w) ==
  /\ \E c \in CopiesAt(w, "default", {"run"}) :
       /\ MoveTo(c, "done")
       /\ Note(c.msg, "executed")
  /\ UNCHANGED <<rows, heartbeat, process, in_processing, sent, resend, claims>>

(* The actor raises for the last time, or an exception it declares in throws. *)
Exhaust(w) ==
  /\ \E c \in CopiesAt(w, "default", {"run"}) :
       /\ MoveTo(c, "failed")
       /\ Note(c.msg, "exhausted")
  /\ UNCHANGED <<rows, heartbeat, process, in_processing, sent, resend, claims>>

(* The actor raises: the Retries middleware enqueues the message again, under
   its own id, before dramatiq acks this delivery. *)
Retry(w) ==
  /\ \E c \in CopiesAt(w, "default", {"run", "retrying"}), delayed \in RetryDelays,
        reply \in Replies :
       /\ c.retries < MaxRetries
       /\ EnqueueMessage(c.msg, delayed, c.retries + 1)
       /\ MoveTo(c, IF reply THEN "requeued" ELSE "retrying")
  /\ UNCHANGED <<heartbeat, process, in_processing, history>>

(* retry_pg gives up that enqueue: dramatiq logs it and acks the delivery all the
   same. *)
RetryLost(w) ==
  /\ "conn_error" \in Env
  /\ \E c \in CopiesAt(w, "default", {"run", "retrying"}) :
       c.retries < MaxRetries /\ MoveTo(c, "requeued")
  /\ UNCHANGED <<rows, heartbeat, process, in_processing, history>>

(* After the transaction of ack or nack: the consumer forgets the delivery, or,
   when the reply was lost, dramatiq will settle it once more. *)
Settled(c, reply) ==
  IF reply
  THEN /\ copies' = copies \ {c}
       /\ in_processing' = [in_processing EXCEPT ![c.worker][c.queue] = @ \ {c.msg}]
  ELSE UNCHANGED <<copies, in_processing>>

(* Consumer.ack: dramatiq acks every delivery that did not fail for good, the
   requeued ones too. *)
AckDelivery(w) ==
  /\ Live(w)
  /\ \E c \in copies, reply \in Replies :
       /\ c.worker = w /\ c.stage \in {"done", "requeued"}
       /\ rows' = Ack(rows, c.msg, c.queue)
       /\ Settled(c, reply)
  /\ UNCHANGED <<heartbeat, process, history>>

(* Consumer.nack. *)
NackDelivery(w) ==
  /\ Live(w)
  /\ \E c \in copies, reply \in Replies :
       /\ c.worker = w /\ c.stage = "failed"
       /\ rows' = Nack(rows, c.msg, c.queue, c.retries)
       /\ Settled(c, reply)
  /\ UNCHANGED <<heartbeat, process, history>>

-----------------------------------------------------------------------------
(* The end of a worker process. *)

(* A signal: worker threads finish what they execute and stop; the consumer
   threads go on meanwhile. *)
Stop(w) ==
  /\ "stop" \in Env /\ w \in Mortal
  /\ life[w] = "up"
  /\ life' = [life EXCEPT ![w] = "stopping"]
  /\ UNCHANGED <<rows, heartbeat, marked, pc, copies, in_processing, history>>

(* The worker threads are gone: a consumer thread ends at its next turn. *)
QuitConsumer(w, q) ==
  /\ life[w] = "stopping"
  /\ ThreadsBusy(w) = {}
  /\ Ready(w, q)
  /\ Goto(w, q, "off")
  /\ UNCHANGED <<rows, heartbeat, marked, life, copies, in_processing, history>>

(* The consumer threads are gone too: Consumer.requeue gives back the work queue. *)
Drain(w) ==
  /\ life[w] = "stopping"
  /\ \A q \in Consumed : pc[w][q] = "off"
  /\ rows' = Requeue(rows, MsgsOf(CopiesAt(w, "default", {"work"})))
  /\ copies' = copies \ CopiesAt(w, "default", {"work"})
  /\ life' = [life EXCEPT ![w] = "drained"]
  /\ UNCHANGED <<heartbeat, marked, pc, in_processing, history>>

(* All of the process' memory is gone. *)
Die(w) ==
  /\ life' = [life EXCEPT ![w] = "down"]
  /\ marked' = marked \ {w}
  /\ pc' = [pc EXCEPT ![w] = [q \in QueueNames |-> "off"]]
  /\ copies' = {c \in copies : c.worker # w}
  /\ in_processing' = [in_processing EXCEPT ![w] = [q \in QueueNames |-> {}]]

(* The consumers are closed: the delay queue is given back, the buffer is not. *)
Exit(w) ==
  /\ life[w] = "drained"
  /\ rows' = Requeue(rows, MsgsOf(CopiesAt(w, "default.DQ", {"delay"})))
  /\ Die(w)
  /\ UNCHANGED <<heartbeat, history>>

Crash(w) ==
  /\ "crash" \in Env /\ w \in Mortal
  /\ Live(w)
  /\ Die(w)
  /\ UNCHANGED <<rows, heartbeat, history>>

-----------------------------------------------------------------------------
(* The clock. *)

(* available_at of a delayed message passes.  Unless "slow_ack" is in Env, a
   worker that enqueued a message with a delay has acked its own delivery of it
   before that delay is over. *)
Due(m) ==
  /\ rows[m].state = "queued" /\ ~rows[m].due
  /\ "slow_ack" \in Env \/ \A c \in copies : c.msg = m => c.stage \notin {"retrying", "requeued"}
  /\ rows' = [rows EXCEPT ![m].due = TRUE]
  /\ UNCHANGED <<heartbeat, process, copies, in_processing, history>>

(* A heartbeat row ages.  Unless "stall" is in Env, a live process sends the
   next heartbeat within heartbeat_ttl. *)
Lapse(w) ==
  /\ heartbeat[w] \in {"fresh", "stale"}
  /\ life[w] = "down" \/ "stall" \in Env
  /\ heartbeat' = [heartbeat EXCEPT ![w] = IF @ = "fresh" THEN "stale" ELSE "expired"]
  /\ UNCHANGED <<rows, process, copies, in_processing, history>>

-----------------------------------------------------------------------------
(* The CLI. *)

(* dramatiq-postgres recover --minage *)
CliRecover ==
  /\ "recover" \in Env
  /\ \E old \in SUBSET InState(rows, "consumed") : old # {} /\ rows' = Recover(rows, old)
  /\ UNCHANGED <<heartbeat, process, copies, in_processing, history>>

(* dramatiq-postgres flush *)
CliFlush ==
  /\ "flush" \in Env
  /\ rows' = Flush(rows)
  /\ NoteAll(InState(rows, "queued") \cup InState(rows, "consumed"), "flushed")
  /\ UNCHANGED <<heartbeat, process, copies, in_processing, sent, resend, claims>>

(* dramatiq-postgres purge --maxage *)
CliPurge ==
  /\ "purge" \in Env
  /\ \E old \in SUBSET InState(rows, "rejected") :
       rows' = Purge(rows, old) /\ NoteAll(old, "purged")
  /\ UNCHANGED <<heartbeat, process, copies, in_processing, sent, resend, claims>>

-----------------------------------------------------------------------------
ConsumerStep(w, q) ==
  \/ HeartbeatDue(w, q) \/ HeartbeatRecent(w, q) \/ HeartbeatCommit(w, q)
  \/ MaintenanceSkip(w, q) \/ Maintain(w, q)
  \/ Claim(w, q) \/ Deliver(w, q) \/ Idle(w, q)

ThreadStep(w) ==
  \/ Begin(w) \/ Succeed(w) \/ Exhaust(w) \/ Retry(w) \/ AckDelivery(w) \/ NackDelivery(w)

Next ==
  \/ \E m \in Messages : Send(m) \/ SendAgain(m) \/ Due(m)
  \/ \E w \in Workers, q \in Consumed :
       ConsumerStep(w, q) \/ ClaimLost(w, q) \/ ConsumerError(w, q) \/ QuitConsumer(w, q)
  \/ \E w \in Workers :
       \/ Start(w) \/ Release(w) \/ ThreadStep(w) \/ RetryLost(w)
       \/ Stop(w) \/ Drain(w) \/ Exit(w) \/ Crash(w) \/ Lapse(w)
  \/ CliRecover \/ CliFlush \/ CliPurge

Spec == Init /\ [][Next]_vars

(* A process has noted its first heartbeat, and no heartbeat of it has committed. *)
Unlisted(w) == w \in marked /\ heartbeat[w] = "none"

OwnersListed == \A m \in InState(rows, "consumed") : ~ Unlisted(rows[m].worker)

(* An assumption on timing that nothing in the code enforces: when REAP runs, the first
   heartbeat of a process whose other thread has claimed already has committed.  What
   leases promise is promised of PunctualSpec; Spec is the code without it. *)
Punctual == (\E w \in Workers, q \in Consumed : Maintain(w, q)) => OwnersListed

PunctualNext == Next /\ Punctual

PunctualSpec == Init /\ [][PunctualNext]_vars

(* Threads that can run do; a process told to stop stops; clocks advance.  The
   maintenance timer of some worker and the eta of a delayed message expire, and the
   consumer threads look at both in every turn of their loops, hence strong fairness.
   Maintenance is that which PunctualNext allows. *)
Fairness ==
  /\ \A w \in Workers, q \in Consumed : WF_vars(ConsumerStep(w, q))
  /\ SF_vars(OwnersListed /\ \E w \in Workers, q \in Consumed : Maintain(w, q))
  /\ \A w \in Mortal : SF_vars(\E q \in Consumed : QuitConsumer(w, q))
  /\ \A w \in Workers :
       /\ WF_vars(ThreadStep(w)) /\ SF_vars(Release(w))
       /\ WF_vars(Start(w) \/ Drain(w) \/ Exit(w)) /\ WF_vars(Lapse(w))
  /\ \A m \in Messages : WF_vars(Due(m))

FairSpec == PunctualSpec /\ Fairness

-----------------------------------------------------------------------------
(* Properties.  Which of them hold under which Env is the point: README.md
   has the table, the runs check it. *)

(* A row is marked consumed by a worker process that is alive only while that
   process has the very claim in its memory, so some thread of it will settle
   it.  REAP gives back nothing of a worker that is alive: what CLAIM marked and
   no thread remembers would stay consumed until the process ends. *)
HeldWhileConsumed ==
  \A m \in InState(rows, "consumed") :
    Live(rows[m].worker) =>
      \E c \in copies : /\ c.worker = rows[m].worker /\ c.msg = m
                        /\ c.claim = rows[m].claim /\ c.queue = rows[m].queue

(* HeldWhileConsumed is not inductive: it needs that a claim determines the queue
   it was made in, that claims are numbered upwards, and that a process which has
   not started owns nothing. *)
NewProcessIdle ==
  /\ \A m \in InState(rows, "consumed") :
       rows[m].worker \in Workers /\ life[rows[m].worker] # "new"
  /\ \A w \in Workers, q \in QueueNames : life[w] = "new" => pc[w][q] = "off"

ClaimsNumbered == \A c \in copies : c.claim <= claims[c.msg]

ClaimHasQueue ==
  \A c \in copies : rows[c.msg].state = "consumed" /\ rows[c.msg].claim = c.claim
                     => rows[c.msg].queue = c.queue

HeldInv == TypeOK /\ NewProcessIdle /\ ClaimsNumbered /\ ClaimHasQueue /\ HeldWhileConsumed

(* What the comment above maybe_heartbeat says: the reaper never sees a message whose
   owner is alive and has no row in the worker table.  It does: a run shows how. *)
OwnerKnown ==
  \A m \in InState(rows, "consumed") : Live(rows[m].worker) => heartbeat[rows[m].worker] # "none"

(* What is true instead while LeasesLast: the heartbeat that lists a living owner is on
   its way, in the hands of another thread of the process. *)
OwnerKnownSoon ==
  \A m \in InState(rows, "consumed") :
    Live(rows[m].worker) /\ heartbeat[rows[m].worker] = "none"
      => \E q \in Consumed : pc[rows[m].worker][q] = "heartbeat"

(* Whoever still has to execute or settle a delivery owns its row: nobody
   requeued, re-enqueued or claimed the message behind its back. *)
LeaseValid ==
  \A c \in copies : c.stage \in OwnedStages =>
    /\ rows[c.msg].state = "consumed" /\ rows[c.msg].queue = c.queue
    /\ rows[c.msg].worker = c.worker /\ rows[c.msg].claim = c.claim

(* No two worker threads execute the same message at a time. *)
NoDoubleExecution ==
  \A c, d \in copies : c.stage = "run" /\ d.stage = "run" /\ c.msg = d.msg => c = d

(* A message leaves the table only after an execution of it succeeded, or it was
   flushed, or purged as a rejected one: that its retries are exhausted is no reason.
   The ack that follows a retry must not delete the message that was enqueued again. *)
Lost(m) ==
  m \in sent /\ rows[m].state = "absent" /\ outcome[m] \cap {"executed", "flushed", "purged"} = {}

NoLoss == \A m \in Messages : ~ Lost(m)

(* Environments, from what leases need to what the promise needs.  Leases last while
   connections hold and heartbeats are in time; processes may crash or be stopped,
   operators may purge and flush, acks may be late and retries immediate. *)
LeasesLast == Env \subseteq {"crash", "stop", "purge", "flush", "slow_ack"}

(* Acks are in time when a retry is not due before the delivery it follows is acked. *)
AcksInTime == LeasesLast /\ "slow_ack" \notin Env /\ RetryDelays \subseteq {TRUE}

(* And nobody flushes what others work on. *)
Timely == AcksInTime /\ "flush" \notin Env

(* While LeasesLast, OwnerKnownSoon rests on this, and NoDoubleExecution on what follows.

   A thread claims only after some thread of its process noted the first heartbeat; that
   one commits it or dies, and from then on the heartbeat of a live process stays fresh. *)
HeartbeatFirst ==
  /\ \A w \in Workers, q \in QueueNames :
       /\ pc[w][q] # "off" => Live(w) /\ q \in Consumed
       /\ pc[w][q] \in {"heartbeat", "upkeep", "claim"} => w \in marked
  /\ \A w \in Workers :
       /\ w \in marked => Live(w)
       /\ Live(w) => heartbeat[w] \in {"none", "fresh"}
       /\ life[w] = "new" => heartbeat[w] = "none"
       /\ w \in marked /\ heartbeat[w] = "none" => \E q \in Consumed : pc[w][q] = "heartbeat"

(* Who owns a row or holds a delivery has noted its first heartbeat, or is dead. *)
OwnersMarked ==
  \A m \in InState(rows, "consumed") :
    rows[m].worker \in Workers /\ (rows[m].worker \in marked \/ life[rows[m].worker] = "down")

ListedInv == TypeOK /\ HeartbeatFirst /\ OwnersMarked

HoldersAlive == \A c \in copies : c.worker \in marked

(* Each claim is one delivery, and there are none of a message not sent yet. *)
DeliveriesDistinct ==
  /\ \A c, d \in copies : c.msg = d.msg /\ c.claim = d.claim => c = d
  /\ \A m \in Messages \ sent : rows[m].state = "absent" /\ \A c \in copies : c.msg # m
  /\ resend = {}

(* Only the base queue is executed, only the delay queue is delayed. *)
StagesFit ==
  \A c \in copies : /\ c.stage \in {"work", "run", "done", "failed"} => c.queue = "default"
                    /\ c.stage = "delay" => c.queue = "default.DQ"
                    /\ c.stage # "retrying"

(* Nobody requeued, re-enqueued or claimed the message of c since c was claimed. *)
Owns(c) ==
  /\ rows[c.msg].state = "consumed" /\ rows[c.msg].queue = c.queue
  /\ rows[c.msg].worker = c.worker /\ rows[c.msg].claim = c.claim
  /\ rows[c.msg].retries = c.retries

(* One delivery at a time has to deal with a message.  Its row is its own or gone: a
   flush, or the late ack of an earlier delivery, deletes whatever it finds. *)
OneHolder ==
  /\ \A c, d \in copies :
       c.stage \in OwnedStages /\ d.stage \in OwnedStages /\ c.msg = d.msg => c = d
  /\ \A c \in copies : c.stage \in OwnedStages => Owns(c) \/ rows[c.msg].state = "absent"

ExclusiveInv ==
  /\ ListedInv /\ HoldersAlive /\ ClaimsNumbered /\ DeliveriesDistinct
  /\ StagesFit /\ OneHolder

(* When AcksInTime, NoLoss and PrefetchRespected need two facts more.

   While a delivery that was enqueued again waits for its ack, the message is not
   where that ack would delete it (an operator may have deleted it meanwhile), and
   after a retry nobody else has it yet; after a release nobody is releasing it again. *)
RequeuedElsewhere ==
  \A c \in copies : c.stage = "requeued" =>
    /\ rows[c.msg].queue = "default.DQ" => rows[c.msg].state = "queued" /\ ~ rows[c.msg].due
    /\ c.queue = "default" => rows[c.msg].queue = "default.DQ" \/ rows[c.msg].state = "absent"
    /\ \A d \in copies : d.msg = c.msg /\ d # c =>
         /\ d.queue # c.queue
         /\ d.stage \in OwnedStages => d.queue = "default"

(* What is about to be settled, or is kept as rejected, has been decided on. *)
DecidedFirst ==
  /\ \A c \in copies : /\ c.stage = "done" => "executed" \in outcome[c.msg]
                       /\ c.stage = "failed" => outcome[c.msg] # {}
  /\ \A m \in InState(rows, "rejected") : outcome[m] # {}

SafeInv == ExclusiveInv /\ RequeuedElsewhere /\ DecidedFirst /\ NoLoss

(* When Timely, no row is deleted before its holder settles it. *)
LeaseInv == SafeInv /\ LeaseValid

(* A consumer never has more deliveries than its prefetch: those in its buffer, which
   capacity does not count, those that were enqueued again and wait for their ack, and,
   if it has two of one message, both, though in_processing has one id for them and
   the first ack takes it out. *)
PrefetchRespected ==
  \A w \in Workers, q \in Consumed : Cardinality(CopiesAt(w, q, Stages)) <= Prefetch

(* Capacity is never lost for good: every id a consumer counts against its
   prefetch is that of a message its process still has to settle, and settling it
   takes the id back, whatever happened to the connection or the row meanwhile. *)
CapacityComesBack ==
  \A w \in Workers, q \in Consumed :
    life[w] \in {"up", "stopping"} =>
      in_processing[w][q] \subseteq MsgsOf(CopiesAt(w, q, Stages \ {"buffer"}))

(* The retry counter of a message that is in the table never goes back, so
   max_retries bounds its executions. *)
RetriesNeverReset ==
  [][\A m \in Messages :
       rows[m].state # "absent" /\ rows'[m].state # "absent" => rows'[m].retries >= rows[m].retries]_vars

(* "Kill -9 a worker and its messages are back in the queue": a message consumed
   by a dead process does not stay so. *)
CrashRecovery ==
  \A m \in Messages, w \in Mortal :
    (rows[m].state = "consumed" /\ rows[m].worker = w /\ life[w] = "down")
      ~> ~(rows[m].state = "consumed" /\ rows[m].worker = w)

(* Every message is executed to an end: acked, or rejected after its retries. *)
EventuallySettled ==
  \A m \in Messages : m \in sent ~> rows[m].state \in {"absent", "rejected"}

-----------------------------------------------------------------------------
(* The promise this system keeps: pending is what the table has to deliver. *)
Promise == INSTANCE AtLeastOnce WITH
  accepted <- sent,
  pending  <- InState(rows, "queued") \cup InState(rows, "consumed"),
  decided  <- {m \in Messages : outcome[m] # {}}

(* Seen from outside, workers, crashes and retries included, the system is the
   abstract queue of AtLeastOnce. *)
ImplementsAtLeastOnce == Promise!Spec
=============================================================================
