---------------------------- MODULE Delivery_proofs ----------------------------
(***************************************************************************)
(* Theorems about Delivery for any number of messages, workers, threads,   *)
(* retries and claims.  First the statements of QueueTable preserve the    *)
(* shape of the table, then the type invariant, then HeldWhileConsumed.    *)
(***************************************************************************)
EXTENDS Delivery, TLAPS

-----------------------------------------------------------------------------
(* The statements of QueueTable map tables to tables. *)

LEMMA EnqueueType ==
  ASSUME NEW t \in [Messages -> Row], NEW m \in Messages, NEW q \in QueueNames,
         NEW due \in BOOLEAN, NEW r \in Nat
  PROVE  Enqueue(t, m, q, due, r) \in [Messages -> Row]
BY DEF Enqueue, Row, RowStates

LEMMA AbsentType == AbsentRow \in Row
BY DEF AbsentRow, Row, RowStates, QueueNames

LEMMA RequeueType ==
  ASSUME NEW t \in [Messages -> Row], NEW S
  PROVE  Requeue(t, S) \in [Messages -> Row]
BY DEF Requeue, Requeued, Row, RowStates

LEMMA ReapType ==
  ASSUME NEW t \in [Messages -> Row], NEW alive
  PROVE  Reap(t, alive) \in [Messages -> Row]
BY RequeueType DEF Reap

LEMMA PurgeType ==
  ASSUME NEW t \in [Messages -> Row], NEW old
  PROVE  Purge(t, old) \in [Messages -> Row]
BY AbsentType DEF Purge

LEMMA FlushType ==
  ASSUME NEW t \in [Messages -> Row]
  PROVE  Flush(t) \in [Messages -> Row]
BY AbsentType DEF Flush

LEMMA AckType ==
  ASSUME NEW t \in [Messages -> Row], NEW m \in Messages, NEW q \in QueueNames
  PROVE  Ack(t, m, q) \in [Messages -> Row]
<1>1. [t EXCEPT ![m] = AbsentRow] \in [Messages -> Row]
  BY AbsentType
<1> QED BY <1>1 DEF Ack

LEMMA NackType ==
  ASSUME NEW t \in [Messages -> Row], NEW m \in Messages, NEW q \in QueueNames,
         NEW r \in Nat
  PROVE  Nack(t, m, q, r) \in [Messages -> Row]
<1>1. Rejected(t[m], r) \in Row
  BY DEF Rejected, Row, RowStates
<1> QED BY <1>1 DEF Nack

LEMMA ClaimRowsType ==
  ASSUME NEW t \in [Messages -> Row], NEW S, NEW w \in Workers, NEW n \in [Messages -> Nat]
  PROVE  ClaimRows(t, S, w, n) \in [Messages -> Row]
<1>1. ASSUME NEW m \in Messages
      PROVE  [t[m] EXCEPT !.state = "consumed", !.worker = w, !.claim = n[m] + 1] \in Row
  <2>1. t[m] \in Row /\ n[m] + 1 \in Nat
    OBVIOUS
  <2> QED BY <2>1 DEF Row, RowStates
<1> QED BY <1>1 DEF ClaimRows

-----------------------------------------------------------------------------
(* Type correctness. *)

LEMMA InitType == Init => TypeOK
<1> SUFFICES ASSUME Init PROVE TypeOK
  OBVIOUS
<1>1. rows \in [Messages -> Row]
  BY AbsentType DEF Init, EmptyTable
<1> QED BY <1>1 DEF Init, TypeOK

(* The helpers an action hands its table or its copies to. *)
LEMMA EnqueueMessageType ==
  ASSUME TypeOK, NEW m \in Messages, NEW delayed \in BOOLEAN, NEW r \in Nat,
         EnqueueMessage(m, delayed, r)
  PROVE  rows' \in [Messages -> Row]
<1>1. rows \in [Messages -> Row]
  BY DEF TypeOK
<1> QED BY <1>1, EnqueueType DEF EnqueueMessage, QueueNames

LEMMA MoveToType ==
  ASSUME TypeOK, NEW c \in copies, NEW s \in Stages, MoveTo(c, s)
  PROVE  copies' \subseteq Copy
<1>1. c \in Copy
  BY DEF TypeOK
<1>2. [c EXCEPT !.stage = s] \in Copy
  BY <1>1 DEF Copy
<1> QED BY <1>2 DEF MoveTo, TypeOK

LEMMA GotoType ==
  ASSUME TypeOK, NEW w \in Workers, NEW q \in QueueNames,
         NEW label \in {"off", "next", "heartbeat", "upkeep", "claim"}, Goto(w, q, label)
  PROVE  pc' \in [Workers -> [QueueNames -> {"off", "next", "heartbeat", "upkeep", "claim"}]]
BY DEF TypeOK, Goto

LEMMA SettledType ==
  ASSUME TypeOK, NEW c \in copies, NEW reply, Settled(c, reply)
  PROVE  /\ copies' \subseteq Copy
         /\ in_processing' \in [Workers -> [QueueNames -> SUBSET Messages]]
<1>1. c.worker \in Workers /\ c.queue \in QueueNames
  BY DEF TypeOK, Copy
<1>2. in_processing \in [Workers -> [QueueNames -> SUBSET Messages]] /\ copies \subseteq Copy
  BY DEF TypeOK
<1>3. [in_processing EXCEPT ![c.worker][c.queue] = @ \ {c.msg}]
        \in [Workers -> [QueueNames -> SUBSET Messages]]
  BY <1>1, <1>2
<1> QED BY <1>2, <1>3 DEF Settled

LEMMA NewConsumerType ==
  ASSUME TypeOK, NEW w \in Workers, NEW q \in QueueNames, NewConsumer(w, q)
  PROVE  /\ copies' \subseteq Copy
         /\ in_processing' \in [Workers -> [QueueNames -> SUBSET Messages]]
         /\ pc' \in [Workers -> [QueueNames -> {"off", "next", "heartbeat", "upkeep", "claim"}]]
BY GotoType DEF TypeOK, NewConsumer

LEMMA ClaimBatchType ==
  ASSUME TypeOK, NEW w \in Workers, NEW S, ClaimBatch(w, S)
  PROVE  /\ rows' \in [Messages -> Row]
         /\ claims' \in [Messages -> Nat]
<1>1. rows \in [Messages -> Row] /\ claims \in [Messages -> Nat]
  BY DEF TypeOK
<1>2. rows' \in [Messages -> Row]
  BY <1>1, ClaimRowsType DEF ClaimBatch
<1> QED BY <1>1, <1>2 DEF ClaimBatch

LEMMA DieType ==
  ASSUME TypeOK, NEW w \in Workers, Die(w)
  PROVE  /\ marked' \subseteq Workers
         /\ life' \in [Workers -> {"new", "up", "stopping", "drained", "down"}]
         /\ pc' \in [Workers -> [QueueNames -> {"off", "next", "heartbeat", "upkeep", "claim"}]]
         /\ copies' \subseteq Copy
         /\ in_processing' \in [Workers -> [QueueNames -> SUBSET Messages]]
BY DEF TypeOK, Die

LEMMA NoteAllType ==
  ASSUME TypeOK, NEW S, NEW what \in Outcomes, NoteAll(S, what)
  PROVE  outcome' \in [Messages -> SUBSET Outcomes]
<1>1. \A m \in Messages : outcome[m] \in SUBSET Outcomes
  BY DEF TypeOK
<1> QED BY <1>1 DEF NoteAll

LEMMA NoteType ==
  ASSUME TypeOK, NEW m, NEW what \in Outcomes, Note(m, what)
  PROVE  outcome' \in [Messages -> SUBSET Outcomes]
BY NoteAllType DEF Note

LEMMA NextType == TypeOK /\ [Next]_vars => TypeOK'
<1> SUFFICES ASSUME TypeOK, [Next]_vars PROVE TypeOK'
  OBVIOUS
<1> USE DEF QueueNames
<1>a. Consumed \subseteq QueueNames /\ Mortal \subseteq Workers /\ RetryDelays \subseteq BOOLEAN
  BY DeliveryAssumption
<1>b. Replies \subseteq BOOLEAN
  BY DEF Replies
<1>c. rows \in [Messages -> Row] /\ copies \subseteq Copy
  BY DEF TypeOK
<1>d. \A c \in copies : /\ c.msg \in Messages /\ c.queue \in QueueNames
                        /\ c.retries \in Nat /\ c.stage \in Stages
  BY <1>c DEF Copy
<1>1. ASSUME NEW m \in Messages, Send(m) PROVE TypeOK'
  <2>1. PICK delayed \in BOOLEAN, reply \in Replies :
          /\ EnqueueMessage(m, delayed, 0)
          /\ resend' = IF reply THEN resend ELSE resend \cup {<<m, delayed>>}
    BY <1>1 DEF Send
  <2>2. rows' \in [Messages -> Row]
    BY <2>1, EnqueueMessageType
  <2>3. resend' \subseteq Messages \X BOOLEAN
    BY <2>1 DEF TypeOK
  <2> QED BY <1>1, <2>2, <2>3 DEF Send, TypeOK, process
<1>2. ASSUME NEW m \in Messages, SendAgain(m) PROVE TypeOK'
  <2>1. rows' \in [Messages -> Row]
    BY <1>2, EnqueueMessageType DEF SendAgain
  <2>2. resend' \subseteq Messages \X BOOLEAN
    BY <1>2 DEF SendAgain, TypeOK
  <2> QED BY <1>2, <2>1, <2>2 DEF SendAgain, TypeOK, process
<1>3. ASSUME NEW m \in Messages, Due(m) PROVE TypeOK'
  <2>1. rows' \in [Messages -> Row]
    BY <1>3, <1>c DEF Due, Row
  <2> QED BY <1>3, <2>1 DEF Due, TypeOK, process, history
<1>4. ASSUME NEW w \in Workers, NEW q \in Consumed, ConsumerStep(w, q) PROVE TypeOK'
  <2>1. CASE HeartbeatDue(w, q)
    BY <2>1, <1>a, GotoType DEF HeartbeatDue, TypeOK, history
  <2>2. CASE HeartbeatRecent(w, q)
    BY <2>2, <1>a, GotoType DEF HeartbeatRecent, TypeOK, history
  <2>3. CASE HeartbeatCommit(w, q)
    <3>1. heartbeat' \in [Workers -> {"none", "fresh", "stale", "expired"}]
      BY <2>3 DEF HeartbeatCommit, TypeOK
    <3>2. Goto(w, q, "upkeep")
      BY <2>3 DEF HeartbeatCommit
    <3>3. pc' \in [Workers -> [QueueNames -> {"off", "next", "heartbeat", "upkeep", "claim"}]]
      BY <3>2, <1>a, GotoType
    <3> QED BY <2>3, <3>1, <3>3 DEF HeartbeatCommit, TypeOK, history
  <2>4. CASE MaintenanceSkip(w, q)
    BY <2>4, <1>a, GotoType DEF MaintenanceSkip, TypeOK, history
  <2>5. CASE Maintain(w, q)
    <3>1. rows' \in [Messages -> Row]
      BY <2>5, <1>c, ReapType, PurgeType DEF Maintain
    <3>2. heartbeat' \in [Workers -> {"none", "fresh", "stale", "expired"}]
      BY <2>5 DEF Maintain, CleanWorkers, TypeOK
    <3> QED BY <2>5, <3>1, <3>2, <1>a, GotoType, NoteAllType DEF Maintain, TypeOK, Outcomes
  <2>6. CASE Claim(w, q)
    <3>1. PICK S \in Batches(w, q) :
            /\ ClaimBatch(w, S)
            /\ copies' = copies \cup {CopyOf(w, q, m) : m \in S}
      BY <2>6 DEF Claim
    <3>2. S \subseteq Messages
      BY DEF Batches, Claimable, InState
    <3>3. ASSUME NEW m \in S PROVE CopyOf(w, q, m) \in Copy
      <4>1. claims[m] + 1 \in Nat /\ rows[m].retries \in Nat
        BY <3>2 DEF TypeOK, Row
      <4> QED BY <4>1, <3>2, <1>a DEF CopyOf, Copy, Stages
    <3>4. copies' \subseteq Copy
      BY <3>1, <3>3, <1>c
    <3> QED BY <2>6, <3>1, <3>4, ClaimBatchType DEF Claim, TypeOK, process
  <2>7. CASE Deliver(w, q)
    <3>1. PICK c \in CopiesAt(w, q, {"buffer"}) :
            /\ in_processing' = [in_processing EXCEPT ![w][q] = @ \cup {c.msg}]
            /\ MoveTo(c, IF q = "default.DQ" THEN "delay" ELSE "work")
      BY <2>7 DEF Deliver
    <3>2. c \in copies
      BY DEF CopiesAt
    <3>3. copies' \subseteq Copy
      BY <3>1, <3>2, MoveToType DEF Stages
    <3>4. in_processing' \in [Workers -> [QueueNames -> SUBSET Messages]]
      BY <3>1, <3>2, <1>a, <1>d DEF TypeOK
    <3> QED BY <2>7, <3>3, <3>4, <1>a, GotoType DEF Deliver, TypeOK, history
  <2>8. CASE Idle(w, q)
    BY <2>8, <1>a, GotoType DEF Idle, TypeOK, history
  <2> QED BY <1>4, <2>1, <2>2, <2>3, <2>4, <2>5, <2>6, <2>7, <2>8 DEF ConsumerStep
<1>5. ASSUME NEW w \in Workers, NEW q \in Consumed, ClaimLost(w, q) PROVE TypeOK'
  <2>1. PICK S \in Batches(w, q) : ClaimBatch(w, S)
    BY <1>5 DEF ClaimLost
  <2> QED BY <1>5, <2>1, <1>a, ClaimBatchType, NewConsumerType DEF ClaimLost, TypeOK
<1>6. ASSUME NEW w \in Workers, NEW q \in Consumed, ConsumerError(w, q) PROVE TypeOK'
  BY <1>6, <1>a, NewConsumerType DEF ConsumerError, TypeOK, history
<1>7. ASSUME NEW w \in Workers, NEW q \in Consumed, QuitConsumer(w, q) PROVE TypeOK'
  BY <1>7, <1>a, GotoType DEF QuitConsumer, TypeOK, history
<1>8. ASSUME NEW w \in Workers, Start(w) PROVE TypeOK'
  BY <1>8 DEF Start, TypeOK, history
<1>9. ASSUME NEW w \in Workers, Release(w) PROVE TypeOK'
  <2>1. PICK c \in CopiesAt(w, "default.DQ", {"delay", "retrying"}), reply \in Replies :
          /\ EnqueueMessage(c.msg, FALSE, c.retries)
          /\ MoveTo(c, IF reply THEN "requeued" ELSE "retrying")
    BY <1>9 DEF Release
  <2>2. c \in copies
    BY DEF CopiesAt
  <2>3. copies' \subseteq Copy
    BY <2>1, <2>2, MoveToType DEF Stages
  <2>4. rows' \in [Messages -> Row]
    BY <2>1, <2>2, <1>d, EnqueueMessageType
  <2> QED BY <1>9, <2>3, <2>4 DEF Release, TypeOK, process, history
<1>10. ASSUME NEW w \in Workers, ThreadStep(w) PROVE TypeOK'
  <2>1. CASE Begin(w)
    <3>1. PICK c \in copies : MoveTo(c, "run")
      BY <2>1 DEF Begin, CopiesAt
    <3>2. copies' \subseteq Copy
      BY <3>1, MoveToType DEF Stages
    <3> QED BY <2>1, <3>2 DEF Begin, TypeOK, process, history
  <2>2. CASE Succeed(w)
    <3>1. PICK c \in copies : MoveTo(c, "done") /\ Note(c.msg, "executed")
      BY <2>2 DEF Succeed, CopiesAt
    <3>2. copies' \subseteq Copy
      BY <3>1, MoveToType DEF Stages
    <3> QED BY <2>2, <3>1, <3>2, NoteType DEF Succeed, TypeOK, Outcomes, process
  <2>3. CASE Exhaust(w)
    <3>1. PICK c \in copies : MoveTo(c, "failed") /\ Note(c.msg, "exhausted")
      BY <2>3 DEF Exhaust, CopiesAt
    <3>2. copies' \subseteq Copy
      BY <3>1, MoveToType DEF Stages
    <3> QED BY <2>3, <3>1, <3>2, NoteType DEF Exhaust, TypeOK, Outcomes, process
  <2>4. CASE Retry(w)
    <3>1. PICK c \in copies, delayed \in RetryDelays, reply \in Replies :
            /\ EnqueueMessage(c.msg, delayed, c.retries + 1)
            /\ MoveTo(c, IF reply THEN "requeued" ELSE "retrying")
      BY <2>4 DEF Retry, CopiesAt
    <3>2. copies' \subseteq Copy
      BY <3>1, MoveToType DEF Stages
    <3>3. c.retries + 1 \in Nat
      BY <1>d
    <3>4. rows' \in [Messages -> Row]
      BY <3>1, <3>3, <1>a, <1>d, EnqueueMessageType
    <3> QED BY <2>4, <3>2, <3>4 DEF Retry, TypeOK, process, history
  <2>5. CASE AckDelivery(w)
    <3>1. PICK c \in copies, reply \in Replies :
            rows' = Ack(rows, c.msg, c.queue) /\ Settled(c, reply)
      BY <2>5 DEF AckDelivery
    <3>2. rows' \in [Messages -> Row]
      BY <3>1, <1>c, <1>d, AckType
    <3> QED BY <2>5, <3>1, <3>2, SettledType DEF AckDelivery, TypeOK, process, history
  <2>6. CASE NackDelivery(w)
    <3>1. PICK c \in copies, reply \in Replies :
            rows' = Nack(rows, c.msg, c.queue, c.retries) /\ Settled(c, reply)
      BY <2>6 DEF NackDelivery
    <3>2. rows' \in [Messages -> Row]
      BY <3>1, <1>c, <1>d, NackType
    <3> QED BY <2>6, <3>1, <3>2, SettledType DEF NackDelivery, TypeOK, process, history
  <2> QED BY <1>10, <2>1, <2>2, <2>3, <2>4, <2>5, <2>6 DEF ThreadStep
<1>11. ASSUME NEW w \in Workers, Stop(w) PROVE TypeOK'
  BY <1>11 DEF Stop, TypeOK, history
<1>12. ASSUME NEW w \in Workers, Drain(w) PROVE TypeOK'
  BY <1>12, <1>c, RequeueType DEF Drain, TypeOK, history
<1>13. ASSUME NEW w \in Workers, Exit(w) PROVE TypeOK'
  BY <1>13, <1>c, RequeueType, DieType DEF Exit, TypeOK, history
<1>14. ASSUME NEW w \in Workers, Crash(w) PROVE TypeOK'
  BY <1>14, DieType DEF Crash, TypeOK, history
<1>15. ASSUME NEW w \in Workers, Lapse(w) PROVE TypeOK'
  BY <1>15 DEF Lapse, TypeOK, process, history
<1>16. CASE CliRecover
  BY <1>16, <1>c, RequeueType DEF CliRecover, Recover, TypeOK, process, history
<1>17. CASE CliFlush
  <2>1. rows' \in [Messages -> Row]
    BY <1>17, <1>c, FlushType DEF CliFlush
  <2> QED BY <1>17, <2>1, NoteAllType DEF CliFlush, TypeOK, Outcomes, process
<1>18. CASE CliPurge
  BY <1>18, <1>c, PurgeType, NoteAllType DEF CliPurge, TypeOK, Outcomes, process
<1>19. CASE UNCHANGED vars
  BY <1>19 DEF vars, TypeOK
<1>20. ASSUME NEW w \in Workers, RetryLost(w) PROVE TypeOK'
  <2>1. PICK c \in copies : MoveTo(c, "requeued")
    BY <1>20 DEF RetryLost, CopiesAt
  <2>2. copies' \subseteq Copy
    BY <2>1, MoveToType DEF Stages
  <2> QED BY <1>20, <2>2 DEF RetryLost, TypeOK, process, history
<1> QED
  BY <1>1, <1>2, <1>3, <1>4, <1>5, <1>6, <1>7, <1>8, <1>9, <1>10, <1>11, <1>12, <1>13,
     <1>14, <1>15, <1>16, <1>17, <1>18, <1>19, <1>20 DEF Next

(* Every variable keeps its type: whatever crashes, stalls, is lost or is typed
   at the command line, the table only ever holds rows schema.sql allows. *)
THEOREM TypeCorrect == Spec => []TypeOK
BY InitType, NextType, PTL DEF Spec

-----------------------------------------------------------------------------
(* HeldWhileConsumed.  Only CLAIM makes a row consumed: whatever the other
   statements leave consumed is as it was. *)

KeepsConsumed(t, u) == \A k \in Messages : u[k].state = "consumed" => u[k] = t[k]

LEMMA EnqueueKeeps ==
  ASSUME NEW t \in [Messages -> Row], NEW m \in Messages, NEW q, NEW due, NEW r
  PROVE  KeepsConsumed(t, Enqueue(t, m, q, due, r))
BY DEF KeepsConsumed, Enqueue

LEMMA RequeueKeeps ==
  ASSUME NEW t \in [Messages -> Row], NEW S
  PROVE  KeepsConsumed(t, Requeue(t, S))
BY DEF KeepsConsumed, Requeue, Requeued, Row

LEMMA PurgeKeeps ==
  ASSUME NEW t \in [Messages -> Row], NEW old
  PROVE  KeepsConsumed(t, Purge(t, old))
BY DEF KeepsConsumed, Purge, AbsentRow

LEMMA FlushKeeps ==
  ASSUME NEW t \in [Messages -> Row]
  PROVE  KeepsConsumed(t, Flush(t))
BY DEF KeepsConsumed, Flush, AbsentRow

LEMMA MaintainKeeps ==
  ASSUME NEW t \in [Messages -> Row], NEW alive, NEW old
  PROVE  KeepsConsumed(t, Purge(Reap(t, alive), old))
<1>1. Reap(t, alive) \in [Messages -> Row]
  BY ReapType
<1>2. KeepsConsumed(t, Reap(t, alive)) /\ KeepsConsumed(Reap(t, alive), Purge(Reap(t, alive), old))
  BY <1>1, RequeueKeeps, PurgeKeeps DEF Reap
<1> QED BY <1>2 DEF KeepsConsumed

LEMMA AckKeeps ==
  ASSUME NEW t \in [Messages -> Row], NEW m \in Messages, NEW q \in QueueNames
  PROVE  /\ KeepsConsumed(t, Ack(t, m, q))
         /\ Ack(t, m, q)[m].state = "consumed" => t[m].queue # q
BY DEF KeepsConsumed, Ack, AbsentRow, Row

LEMMA NackKeeps ==
  ASSUME NEW t \in [Messages -> Row], NEW m \in Messages, NEW q \in QueueNames, NEW r
  PROVE  /\ KeepsConsumed(t, Nack(t, m, q, r))
         /\ Nack(t, m, q, r)[m].state = "consumed" => t[m].queue # q
BY DEF KeepsConsumed, Nack, Rejected, Row

LEMMA EnqueueMessageKeeps ==
  ASSUME rows \in [Messages -> Row], NEW m \in Messages, NEW delayed, NEW r,
         EnqueueMessage(m, delayed, r)
  PROVE  KeepsConsumed(rows, rows')
BY EnqueueKeeps DEF EnqueueMessage

(* c and d are the same delivery, in whatever stage. *)
Same(c, d) == c.worker = d.worker /\ c.msg = d.msg /\ c.queue = d.queue /\ c.claim = d.claim

(* The step of HeldInv for every action but Claim: no new claim, no new delivery,
   and a delivery that disappears leaves no row consumed under its claim, unless
   its process is gone. *)
LEMMA NoNewClaim ==
  ASSUME HeldInv, TypeOK', claims' = claims,
         KeepsConsumed(rows, rows'),
         \A w \in Workers : Live(w)' => Live(w) \/ life[w] = "new",
         \A w \in Workers : life'[w] = "new" => life[w] = "new",
         \A w \in Workers, q \in QueueNames : life'[w] = "new" => pc'[w][q] = "off",
         \A d \in copies' : \E c \in copies : Same(c, d),
         \A c \in copies :
           \/ \E d \in copies' : Same(c, d)
           \/ ~ Live(c.worker)'
           \/ rows'[c.msg].state = "consumed" => rows[c.msg].queue # c.queue
  PROVE  HeldInv'
<1> USE DEF HeldInv
<1>1. rows \in [Messages -> Row] /\ rows' \in [Messages -> Row] /\ copies \subseteq Copy
      /\ copies' \subseteq Copy /\ life \in [Workers -> {"new", "up", "stopping", "drained", "down"}]
  BY DEF TypeOK
<1>2. \A m \in InState(rows, "consumed")' :
        m \in InState(rows, "consumed") /\ rows'[m] = rows[m]
  BY DEF InState, KeepsConsumed
<1>3. NewProcessIdle'
  BY <1>2 DEF NewProcessIdle
<1>4. ClaimsNumbered'
  BY DEF ClaimsNumbered, Same
<1>5. ClaimHasQueue'
  <2> SUFFICES ASSUME NEW d \in copies', rows'[d.msg].state = "consumed",
                      rows'[d.msg].claim = d.claim
               PROVE  rows'[d.msg].queue = d.queue
    BY DEF ClaimHasQueue
  <2>1. PICK c \in copies : Same(c, d)
    OBVIOUS
  <2>2. d.msg \in Messages
    BY <1>1 DEF Copy
  <2>3. rows'[d.msg] = rows[d.msg]
    BY <2>2 DEF KeepsConsumed
  <2> QED BY <2>1, <2>3 DEF ClaimHasQueue, Same
<1>6. HeldWhileConsumed'
  <2> SUFFICES ASSUME NEW m \in InState(rows, "consumed")',
                      life'[rows'[m].worker] \in {"up", "stopping", "drained"}
               PROVE  \E d \in copies' : /\ d.worker = rows'[m].worker /\ d.msg = m
                                         /\ d.claim = rows'[m].claim /\ d.queue = rows'[m].queue
    BY DEF HeldWhileConsumed, Live
  <2>1. m \in InState(rows, "consumed") /\ rows'[m] = rows[m]
    BY <1>2
  <2>2. rows[m].worker \in Workers /\ life[rows[m].worker] # "new"
    BY <2>1 DEF NewProcessIdle
  <2>3. Live(rows[m].worker)
    BY <2>1, <2>2 DEF Live
  <2>4. PICK c \in copies : /\ c.worker = rows[m].worker /\ c.msg = m
                            /\ c.claim = rows[m].claim /\ c.queue = rows[m].queue
    BY <2>1, <2>3 DEF HeldWhileConsumed
  <2>5. rows'[m].state = "consumed"
    BY DEF InState
  <2>6. \E d \in copies' : Same(c, d)
    BY <2>1, <2>4, <2>5 DEF Live
  <2> QED BY <2>1, <2>4, <2>6 DEF Same
<1> QED BY <1>3, <1>4, <1>5, <1>6

(* A step that only changes stages keeps every delivery. *)
KeepsCopies == /\ \A d \in copies' : \E c \in copies : Same(c, d)
               /\ \A c \in copies : \E d \in copies' : Same(c, d)

LEMMA MoveToKeeps ==
  ASSUME TypeOK, NEW c \in copies, NEW s, MoveTo(c, s)
  PROVE  KeepsCopies
<1>1. c \in Copy
  BY DEF TypeOK
<1>2. Same(c, [c EXCEPT !.stage = s])
  BY <1>1 DEF Same, Copy
<1> QED BY <1>2 DEF MoveTo, KeepsCopies, Same

LEMMA UnchangedKeeps == UNCHANGED copies => KeepsCopies
BY DEF KeepsCopies, Same

LEMMA GotoNew ==
  ASSUME HeldInv, NEW w \in Workers, NEW q \in QueueNames, NEW label, Goto(w, q, label),
         life[w] # "new"
  PROVE  \A v \in Workers, p \in QueueNames : life[v] = "new" => pc'[v][p] = "off"
BY DEF HeldInv, NewProcessIdle, TypeOK, Goto

(* A step that leaves the processes running as they are. *)
LEMMA QuietStep ==
  ASSUME HeldInv, TypeOK', UNCHANGED <<life, claims>>,
         \A w \in Workers, q \in QueueNames : life[w] = "new" => pc'[w][q] = "off",
         KeepsConsumed(rows, rows'), KeepsCopies
  PROVE  HeldInv'
BY NoNewClaim DEF Live, KeepsCopies

LEMMA SettledStep ==
  ASSUME HeldInv, TypeOK', UNCHANGED <<life, claims, pc>>, "conn_error" \notin Env,
         NEW c \in copies, NEW reply \in Replies, Settled(c, reply),
         KeepsConsumed(rows, rows'),
         rows'[c.msg].state = "consumed" => rows[c.msg].queue # c.queue
  PROVE  HeldInv'
<1>1. reply = TRUE
  BY DEF Replies
<1>2. copies' = copies \ {c}
  BY <1>1 DEF Settled
<1>3. \A v \in Workers, p \in QueueNames : life[v] = "new" => pc'[v][p] = "off"
  BY DEF HeldInv, NewProcessIdle
<1>4. \A d \in copies' : \E e \in copies : Same(e, d)
  BY <1>2 DEF Same
<1>5. ASSUME NEW e \in copies
      PROVE  \/ \E d \in copies' : Same(e, d)
             \/ rows'[e.msg].state = "consumed" => rows[e.msg].queue # e.queue
  BY <1>2 DEF Same
<1> QED BY <1>3, <1>4, <1>5, NoNewClaim DEF Live

LEMMA RequeueStep ==
  ASSUME HeldInv, TypeOK', UNCHANGED claims, NEW S \in SUBSET copies,
         \A w \in Workers : Live(w)' => Live(w),
         \A w \in Workers : life'[w] = "new" => life[w] = "new",
         \A w \in Workers, q \in QueueNames : life'[w] = "new" => pc'[w][q] = "off",
         rows' = Requeue(rows, MsgsOf(S)),
         copies' \subseteq copies,
         \A c \in copies \ copies' : c \in S \/ ~ Live(c.worker)'
  PROVE  HeldInv'
<1>1. rows \in [Messages -> Row] /\ copies \subseteq Copy
  BY DEF HeldInv, TypeOK
<1>2. KeepsConsumed(rows, rows')
  BY <1>1, RequeueKeeps
<1>3. \A d \in copies' : \E e \in copies : Same(e, d)
  BY DEF Same
<1>4. ASSUME NEW c \in copies, c \in S PROVE rows'[c.msg].state # "consumed"
  <2>1. c.msg \in Messages /\ c.msg \in MsgsOf(S) /\ rows[c.msg] \in Row
    BY <1>1, <1>4 DEF MsgsOf, Copy
  <2> QED BY <2>1 DEF Requeue, Requeued, Row
<1>5. ASSUME NEW c \in copies
      PROVE  \/ \E d \in copies' : Same(c, d)
             \/ ~ Live(c.worker)'
             \/ rows'[c.msg].state = "consumed" => rows[c.msg].queue # c.queue
  BY <1>4 DEF Same
<1> QED BY <1>2, <1>3, <1>5, NoNewClaim

LEMMA ClaimStep ==
  ASSUME HeldInv, TypeOK', NEW w \in Workers, NEW q \in Consumed, Claim(w, q)
  PROVE  HeldInv'
<1>1. PICK S \in Batches(w, q) :
        /\ ClaimBatch(w, S)
        /\ copies' = copies \cup {CopyOf(w, q, m) : m \in S}
  BY DEF Claim
<1>2. S \subseteq Messages /\ \A m \in S : rows[m].queue = q
  BY DEF Batches, Claimable, InState
<1>3. /\ rows \in [Messages -> Row] /\ claims \in [Messages -> Nat]
      /\ copies \subseteq Copy /\ q \in QueueNames
  BY DeliveryAssumption DEF HeldInv, TypeOK
<1>4. UNCHANGED <<life, pc>> /\ pc[w][q] = "claim" /\ life[w] # "new"
  BY <1>3 DEF Claim, MayClaim, process, HeldInv, NewProcessIdle
<1>5. \A m \in S : /\ rows'[m].state = "consumed" /\ rows'[m].worker = w
                   /\ rows'[m].claim = claims[m] + 1 /\ rows'[m].queue = q
                   /\ claims'[m] = claims[m] + 1
  BY <1>1, <1>2, <1>3 DEF ClaimBatch, ClaimRows, Row
<1>6. \A m \in Messages \ S : rows'[m] = rows[m] /\ claims'[m] = claims[m]
  BY <1>1 DEF ClaimBatch, ClaimRows
<1>7. \A m \in S : LET d == CopyOf(w, q, m)
                   IN  d.worker = w /\ d.msg = m /\ d.queue = q /\ d.claim = claims[m] + 1
  BY DEF CopyOf
<1>8. NewProcessIdle'
  <2>1. \A m \in InState(rows, "consumed")' :
          rows'[m].worker \in Workers /\ life'[rows'[m].worker] # "new"
    BY <1>4, <1>5, <1>6 DEF InState, HeldInv, NewProcessIdle
  <2> QED BY <2>1, <1>4 DEF HeldInv, NewProcessIdle
<1>9. ClaimsNumbered'
  <2>1. \A c \in copies : c.claim <= claims'[c.msg]
    <3> SUFFICES ASSUME NEW c \in copies PROVE c.claim <= claims'[c.msg]
      OBVIOUS
    <3>1. c.claim <= claims[c.msg] /\ c.msg \in Messages /\ c.claim \in Nat
      BY <1>3 DEF HeldInv, ClaimsNumbered, Copy
    <3> QED BY <3>1, <1>3, <1>5, <1>6
  <2>2. \A m \in S : CopyOf(w, q, m).claim <= claims'[CopyOf(w, q, m).msg]
    BY <1>2, <1>3, <1>5, <1>7
  <2> QED BY <2>1, <2>2, <1>1 DEF ClaimsNumbered
<1>10. ClaimHasQueue'
  <2> SUFFICES ASSUME NEW c \in copies', rows'[c.msg].state = "consumed",
                      rows'[c.msg].claim = c.claim
               PROVE  rows'[c.msg].queue = c.queue
    BY DEF ClaimHasQueue
  <2>1. CASE c \in copies /\ c.msg \notin S
    <3>1. rows'[c.msg] = rows[c.msg]
      BY <2>1, <1>3, <1>6 DEF Copy
    <3> QED BY <2>1, <3>1 DEF HeldInv, ClaimHasQueue
  <2>2. CASE c \in copies /\ c.msg \in S
    <3>1. c.claim <= claims[c.msg] /\ c.claim \in Nat /\ claims[c.msg] \in Nat
      BY <2>2, <1>3 DEF HeldInv, ClaimsNumbered, Copy
    <3>2. rows'[c.msg].claim = claims[c.msg] + 1
      BY <2>2, <1>5
    <3> QED BY <3>1, <3>2
  <2>3. CASE c \notin copies
    BY <2>3, <1>1, <1>5, <1>7
  <2> QED BY <2>1, <2>2, <2>3
<1>11. HeldWhileConsumed'
  <2> SUFFICES ASSUME NEW m \in InState(rows, "consumed")', Live(rows[m].worker) \/ m \in S
               PROVE  \E c \in copies' : /\ c.worker = rows'[m].worker /\ c.msg = m
                                         /\ c.claim = rows'[m].claim /\ c.queue = rows'[m].queue
    BY <1>4, <1>6 DEF HeldWhileConsumed, Live, InState
  <2>1. CASE m \in S
    BY <2>1, <1>1, <1>5, <1>7
  <2>2. CASE m \notin S
    <3>1. rows'[m] = rows[m] /\ m \in InState(rows, "consumed")
      BY <2>2, <1>6 DEF InState
    <3>2. \E c \in copies : /\ c.worker = rows[m].worker /\ c.msg = m
                            /\ c.claim = rows[m].claim /\ c.queue = rows[m].queue
      BY <2>2, <3>1 DEF HeldInv, HeldWhileConsumed
    <3> QED BY <3>1, <3>2, <1>1
  <2> QED BY <2>1, <2>2
<1> QED BY <1>8, <1>9, <1>10, <1>11 DEF HeldInv

LEMMA InitHeld == Init => HeldInv
<1> SUFFICES ASSUME Init PROVE HeldInv
  OBVIOUS
<1>1. InState(rows, "consumed") = {}
  BY DEF Init, EmptyTable, InState, AbsentRow
<1>2. copies = {}
  BY DEF Init
<1> QED BY <1>1, <1>2, InitType
        DEF Init, HeldInv, NewProcessIdle, ClaimsNumbered, ClaimHasQueue, HeldWhileConsumed

LEMMA NextHeld ==
  ASSUME HeldInv, [Next]_vars, "conn_error" \notin Env
  PROVE  HeldInv'
<1> USE DEF QueueNames
<1>t. TypeOK /\ TypeOK'
  BY NextType DEF HeldInv
<1>r. rows \in [Messages -> Row] /\ copies \subseteq Copy
  BY <1>t DEF TypeOK
<1>c. \A c \in copies : c.msg \in Messages /\ c.queue \in QueueNames
  BY <1>r DEF Copy
<1>q. Consumed \subseteq QueueNames
  BY DeliveryAssumption
<1>p. \A w \in Workers, q \in QueueNames : life[w] = "new" => pc[w][q] = "off"
  BY DEF HeldInv, NewProcessIdle
<1>u. UNCHANGED rows => KeepsConsumed(rows, rows')
  BY DEF KeepsConsumed
<1>1. ASSUME NEW m \in Messages, Send(m) PROVE HeldInv'
  <2>1. KeepsConsumed(rows, rows')
    BY <1>1, <1>r, EnqueueMessageKeeps DEF Send
  <2> QED BY <1>1, <2>1, <1>t, <1>p, QuietStep, UnchangedKeeps DEF Send, process
<1>2. ASSUME NEW m \in Messages, SendAgain(m) PROVE HeldInv'
  <2>1. KeepsConsumed(rows, rows')
    BY <1>2, <1>r, EnqueueMessageKeeps DEF SendAgain
  <2> QED BY <1>2, <2>1, <1>t, <1>p, QuietStep, UnchangedKeeps DEF SendAgain, process
<1>3. ASSUME NEW m \in Messages, Due(m) PROVE HeldInv'
  <2>1. KeepsConsumed(rows, rows')
    BY <1>3, <1>r DEF Due, KeepsConsumed, Row
  <2> QED BY <1>3, <2>1, <1>t, <1>p, QuietStep, UnchangedKeeps DEF Due, process, history
<1>4. ASSUME NEW w \in Workers, NEW q \in Consumed, ConsumerStep(w, q) PROVE HeldInv'
  <2> USE <1>t, <1>q, <1>p, <1>u, GotoNew, QuietStep, UnchangedKeeps DEF history
  <2>1. CASE HeartbeatDue(w, q)
    BY <2>1 DEF HeartbeatDue, Ready
  <2>2. CASE HeartbeatRecent(w, q)
    BY <2>2 DEF HeartbeatRecent, Ready
  <2>3. CASE HeartbeatCommit(w, q)
    BY <2>3 DEF HeartbeatCommit
  <2>4. CASE MaintenanceSkip(w, q)
    BY <2>4 DEF MaintenanceSkip
  <2>5. CASE Maintain(w, q)
    <3>1. KeepsConsumed(rows, rows')
      BY <2>5, <1>r, MaintainKeeps DEF Maintain
    <3> QED BY <2>5, <3>1 DEF Maintain
  <2>6. CASE Claim(w, q)
    BY <2>6, ClaimStep
  <2>7. CASE Deliver(w, q)
    <3>1. KeepsCopies
      BY <2>7, MoveToKeeps DEF Deliver, CopiesAt
    <3> QED BY <2>7, <3>1 DEF Deliver
  <2>8. CASE Idle(w, q)
    BY <2>8 DEF Idle
  <2> QED BY <1>4, <2>1, <2>2, <2>3, <2>4, <2>5, <2>6, <2>7, <2>8 DEF ConsumerStep
<1>5. ASSUME NEW w \in Workers, NEW q \in Consumed, ClaimLost(w, q) \/ ConsumerError(w, q)
      PROVE  HeldInv'
  BY <1>5 DEF ClaimLost, ConsumerError
<1>6. ASSUME NEW w \in Workers, NEW q \in Consumed, QuitConsumer(w, q) PROVE HeldInv'
  BY <1>6, <1>t, <1>q, <1>u, GotoNew, QuietStep, UnchangedKeeps DEF QuitConsumer, Ready, history
<1>7. ASSUME NEW w \in Workers, Start(w) PROVE HeldInv'
  <2>1. \A v \in Workers : Live(v)' => Live(v) \/ life[v] = "new"
    BY <1>7, <1>t DEF Start, Live, TypeOK
  <2>2. \A v \in Workers : life'[v] = "new" => life[v] = "new" /\ v # w
    BY <1>7, <1>t DEF Start, TypeOK
  <2>3. \A v \in Workers, p \in QueueNames : life'[v] = "new" => pc'[v][p] = "off"
    BY <1>7, <2>2, <1>t, <1>p DEF Start, TypeOK
  <2> QED BY <1>7, <2>1, <2>2, <2>3, <1>t, <1>u, NoNewClaim DEF Start, history, Same
<1>8. ASSUME NEW w \in Workers, Release(w) PROVE HeldInv'
  <2>1. PICK c \in copies, reply \in Replies :
          /\ EnqueueMessage(c.msg, FALSE, c.retries)
          /\ MoveTo(c, IF reply THEN "requeued" ELSE "retrying")
    BY <1>8 DEF Release, CopiesAt
  <2>2. KeepsConsumed(rows, rows')
    BY <2>1, <1>r, <1>c, EnqueueMessageKeeps
  <2>3. KeepsCopies
    BY <2>1, <1>t, MoveToKeeps
  <2> QED BY <1>8, <2>2, <2>3, <1>t, <1>p, QuietStep DEF Release, process, history
<1>9. ASSUME NEW w \in Workers, ThreadStep(w) PROVE HeldInv'
  <2>1. CASE Begin(w) \/ Succeed(w) \/ Exhaust(w)
    <3>1. KeepsCopies
      BY <2>1, <1>t, MoveToKeeps DEF Begin, Succeed, Exhaust, CopiesAt
    <3> QED BY <2>1, <3>1, <1>t, <1>p, <1>u, QuietStep
            DEF Begin, Succeed, Exhaust, process, history
  <2>2. CASE Retry(w)
    <3>1. PICK c \in copies, delayed \in RetryDelays, reply \in Replies :
            /\ EnqueueMessage(c.msg, delayed, c.retries + 1)
            /\ MoveTo(c, IF reply THEN "requeued" ELSE "retrying")
      BY <2>2 DEF Retry, CopiesAt
    <3>2. KeepsConsumed(rows, rows')
      BY <3>1, <1>r, <1>c, EnqueueMessageKeeps
    <3>3. KeepsCopies
      BY <3>1, <1>t, MoveToKeeps
    <3> QED BY <2>2, <3>2, <3>3, <1>t, <1>p, QuietStep DEF Retry, process, history
  <2>3. CASE AckDelivery(w)
    <3>1. PICK c \in copies, reply \in Replies :
            rows' = Ack(rows, c.msg, c.queue) /\ Settled(c, reply)
      BY <2>3 DEF AckDelivery
    <3>2. /\ KeepsConsumed(rows, rows')
          /\ rows'[c.msg].state = "consumed" => rows[c.msg].queue # c.queue
      BY <3>1, <1>r, <1>c, AckKeeps
    <3> QED BY <2>3, <3>1, <3>2, <1>t, SettledStep DEF AckDelivery, process, history
  <2>4. CASE NackDelivery(w)
    <3>1. PICK c \in copies, reply \in Replies :
            rows' = Nack(rows, c.msg, c.queue, c.retries) /\ Settled(c, reply)
      BY <2>4 DEF NackDelivery
    <3>2. /\ KeepsConsumed(rows, rows')
          /\ rows'[c.msg].state = "consumed" => rows[c.msg].queue # c.queue
      BY <3>1, <1>r, <1>c, NackKeeps
    <3> QED BY <2>4, <3>1, <3>2, <1>t, SettledStep DEF NackDelivery, process, history
  <2> QED BY <1>9, <2>1, <2>2, <2>3, <2>4 DEF ThreadStep
<1>10. ASSUME NEW w \in Workers, Stop(w) PROVE HeldInv'
  <2>1. \A v \in Workers : /\ Live(v)' => Live(v)
                           /\ life'[v] = "new" => life[v] = "new"
    BY <1>10, <1>t DEF Stop, Live, TypeOK
  <2> QED BY <1>10, <2>1, <1>t, <1>p, <1>u, NoNewClaim DEF Stop, history, Same
<1>11. ASSUME NEW w \in Workers, Drain(w) PROVE HeldInv'
  <2>1. \A v \in Workers : /\ Live(v)' => Live(v)
                           /\ life'[v] = "new" => life[v] = "new"
    BY <1>11, <1>t DEF Drain, Live, TypeOK
  <2> DEFINE S == CopiesAt(w, "default", {"work"})
  <2>2. S \in SUBSET copies
    BY DEF CopiesAt
  <2>3. rows' = Requeue(rows, MsgsOf(S)) /\ copies' = copies \ S /\ UNCHANGED <<pc, claims>>
    BY <1>11 DEF Drain, history
  <2> HIDE DEF S
  <2> QED BY <2>1, <2>2, <2>3, <1>t, <1>p, RequeueStep
<1>12. ASSUME NEW w \in Workers, Exit(w) \/ Crash(w) PROVE HeldInv'
  <2>1. Die(w) /\ UNCHANGED claims /\ life[w] # "new"
    BY <1>12 DEF Exit, Crash, history, Live
  <2>2. \A v \in Workers : /\ Live(v)' => Live(v) /\ v # w
                           /\ life'[v] = "new" => life[v] = "new" /\ v # w
    BY <2>1, <1>t DEF Die, Live, TypeOK
  <2>3. \A v \in Workers, p \in QueueNames : life'[v] = "new" => pc'[v][p] = "off"
    BY <2>1, <2>2, <1>t, <1>p DEF Die, TypeOK
  <2>4. copies' \subseteq copies /\ \A c \in copies \ copies' : c.worker = w
    BY <2>1 DEF Die
  <2>5. ~ Live(w)'
    BY <2>1, <1>t DEF Die, Live, TypeOK
  <2>6. KeepsConsumed(rows, rows')
    BY <1>12, <1>r, <1>u, RequeueKeeps DEF Exit, Crash
  <2>7. \A d \in copies' : \E c \in copies : Same(c, d)
    BY <2>4 DEF Same
  <2>8. \A c \in copies : (\E d \in copies' : Same(c, d)) \/ ~ Live(c.worker)'
    <3> SUFFICES ASSUME NEW c \in copies, c \notin copies' PROVE ~ Live(c.worker)'
      BY DEF Same
    <3>1. c.worker = w
      BY <2>4
    <3> QED BY <3>1, <2>5
  <2> QED BY <2>1, <2>2, <2>3, <2>6, <2>7, <2>8, <1>t, NoNewClaim
<1>13. ASSUME NEW w \in Workers, Lapse(w) PROVE HeldInv'
  BY <1>13, <1>t, <1>p, <1>u, QuietStep, UnchangedKeeps DEF Lapse, process, history
<1>14. CASE CliRecover
  <2>1. KeepsConsumed(rows, rows')
    BY <1>14, <1>r, RequeueKeeps DEF CliRecover, Recover
  <2> QED BY <1>14, <2>1, <1>t, <1>p, QuietStep, UnchangedKeeps DEF CliRecover, process, history
<1>15. CASE CliFlush
  <2>1. KeepsConsumed(rows, rows')
    BY <1>15, <1>r, FlushKeeps DEF CliFlush
  <2> QED BY <1>15, <2>1, <1>t, <1>p, QuietStep, UnchangedKeeps DEF CliFlush, process
<1>16. CASE CliPurge
  <2>1. KeepsConsumed(rows, rows')
    BY <1>16, <1>r, PurgeKeeps DEF CliPurge
  <2> QED BY <1>16, <2>1, <1>t, <1>p, QuietStep, UnchangedKeeps DEF CliPurge, process, history
<1>18. ASSUME NEW w \in Workers, RetryLost(w) PROVE HeldInv'
  BY <1>18 DEF RetryLost
<1>17. CASE UNCHANGED vars
  BY <1>17, <1>t, <1>p, <1>u, QuietStep, UnchangedKeeps DEF vars
<1> QED BY <1>1, <1>2, <1>3, <1>4, <1>5, <1>6, <1>7, <1>8, <1>9, <1>10, <1>11, <1>12,
           <1>13, <1>14, <1>15, <1>16, <1>17, <1>18 DEF Next

(* The invariant HeldWhileConsumed rests on: claims are numbered upwards and each
   belongs to one queue, and a process that has not started owns nothing. *)
THEOREM HeldInvariant == ASSUME "conn_error" \notin Env PROVE Spec => []HeldInv
<1>1. HeldInv /\ [Next]_vars => HeldInv'
  BY NextHeld
<1> QED BY InitHeld, <1>1, PTL DEF Spec

(* As long as no connection breaks, a row consumed by a live process is in that
   process' memory under the same claim: crashes, shutdowns, stalls, late acks,
   late heartbeats and the CLI cannot orphan it. *)
THEOREM ConsumedIsHeld ==
  ASSUME "conn_error" \notin Env PROVE Spec => []HeldWhileConsumed
<1>1. HeldInv => HeldWhileConsumed
  BY DEF HeldInv
<1> QED BY <1>1, HeldInvariant, PTL

===============================================================================
