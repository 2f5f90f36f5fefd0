------------------------------ MODULE Admin_proofs ------------------------------
(***************************************************************************)
(* Theorems about the Django admin's actions beside the workers.  The      *)
(* three layers of Lease_proofs, each in its environment, hold beside any  *)
(* number of requests at a time, except that a request which ends between  *)
(* its delete and its enqueue loses a job.  They are promised of           *)
(* CarefulSpec: no job is in the hands of two requests, and nobody         *)
(* requeues from a page that lists queued jobs.                            *)
(***************************************************************************)
EXTENDS Admin, Lease_proofs

-----------------------------------------------------------------------------
(* Type correctness. *)

LEMMA AdminStepType ==
  ASSUME AdminTypeOK, AdminStep
  PROVE  AdminTypeOK'
<1>t. /\ TypeOK /\ rows \in [Messages -> Row] /\ AbsentRow \in Row
      /\ outcome \in [Messages -> SUBSET Outcomes]
      /\ jobs \in [Requests -> SUBSET Job] /\ removed \in [Requests -> SUBSET Job]
      /\ submitted \subseteq Requests /\ dropped \subseteq Messages
  BY AbsentType DEF AdminTypeOK, TypeOK
<1>1. ASSUME UNCHANGED <<heartbeat, process, copies, in_processing, sent, resend, claims>>,
             rows' \in [Messages -> Row], outcome' \in [Messages -> SUBSET Outcomes]
      PROVE  TypeOK'
  BY <1>t, <1>1 DEF TypeOK, process
<1>2. ASSUME UNCHANGED vars PROVE TypeOK'
  BY <1>t, <1>2, NextType
<1>3. PICK r \in Requests :
        \/ RequeueSelect(r) \/ RequeueSkip(r) \/ RequeueDelete(r) \/ RequeueEnqueue(r)
        \/ RequeueAbort(r) \/ Discard(r)
  BY DEF AdminStep
<1>4. CASE RequeueSelect(r)
  <2>1. PICK S \in SUBSET Messages :
          jobs' = [jobs EXCEPT ![r] = {[msg |-> m, row |-> rows[m]] : m \in S}]
    BY <1>4 DEF RequeueSelect, Selections
  <2>2. {[msg |-> m, row |-> rows[m]] : m \in S} \subseteq Job
    BY <1>t DEF Job
  <2>3. jobs' \in [Requests -> SUBSET Job]
    BY <2>1, <2>2, <1>t
  <2> QED BY <2>3, <1>2, <1>4, <1>t DEF RequeueSelect, Submit, AdminTypeOK
<1>5. CASE RequeueSkip(r)
  <2>1. jobs' \in [Requests -> SUBSET Job]
    BY <1>5, <1>t DEF RequeueSkip, NextJob
  <2> QED BY <2>1, <1>2, <1>5, <1>t DEF RequeueSkip, AdminTypeOK
<1>6. CASE RequeueDelete(r)
  <2>1. PICK job \in jobs[r] : /\ rows' = [rows EXCEPT ![job.msg] = AbsentRow]
                               /\ jobs' = [jobs EXCEPT ![r] = @ \ {job}]
                               /\ removed' = [removed EXCEPT ![r] = {job}]
    BY <1>6 DEF RequeueDelete, NextJob
  <2>2. job \in Job
    BY <2>1, <1>t
  <2>3. /\ rows' \in [Messages -> Row]
        /\ jobs' \in [Requests -> SUBSET Job] /\ removed' \in [Requests -> SUBSET Job]
    BY <2>1, <2>2, <1>t
  <2> QED BY <2>3, <1>1, <1>6, <1>t DEF RequeueDelete, AdminTypeOK, history
<1>7. CASE RequeueEnqueue(r)
  <2>1. PICK job \in removed[r] : /\ rows' = Enqueue(rows, job.msg, job.row.queue, TRUE, 0)
                                  /\ outcome' = [outcome EXCEPT ![job.msg] = {}]
                                  /\ removed' = [removed EXCEPT ![r] = {}]
    BY <1>7 DEF RequeueEnqueue
  <2>2. job.msg \in Messages /\ job.row.queue \in QueueNames
    BY <2>1, <1>t DEF Job, Row
  <2>3. rows' \in [Messages -> Row] /\ outcome' \in [Messages -> SUBSET Outcomes]
    BY <2>1, <2>2, <1>t, EnqueueType
  <2>4. removed' \in [Requests -> SUBSET Job]
    BY <2>1, <1>t
  <2> QED BY <2>3, <2>4, <1>1, <1>7, <1>t DEF RequeueEnqueue, AdminTypeOK
<1>8. CASE RequeueAbort(r)
  <2>1. /\ jobs' \in [Requests -> SUBSET Job] /\ removed' \in [Requests -> SUBSET Job]
        /\ MsgsOf(removed[r]) \subseteq Messages
    BY <1>8, <1>t DEF RequeueAbort, MsgsOf, Job
  <2> QED BY <2>1, <1>2, <1>8, <1>t DEF RequeueAbort, AdminTypeOK
<1>9. CASE Discard(r)
  <2>1. PICK S : /\ rows' = [m \in Messages |-> IF m \in Discardable(S) THEN AbsentRow ELSE rows[m]]
                 /\ NoteAll(Discardable(S), "flushed")
    BY <1>9 DEF Discard
  <2>2. rows' \in [Messages -> Row]
    BY <2>1, <1>t
  <2>3. outcome' \in [Messages -> SUBSET Outcomes]
    BY <2>1, <1>t, NoteAllType DEF Outcomes
  <2> QED BY <2>2, <2>3, <1>1, <1>9, <1>t DEF Discard, Submit, AdminTypeOK
<1> QED BY <1>3, <1>4, <1>5, <1>6, <1>7, <1>8, <1>9

LEMMA AdminNextType == AdminTypeOK /\ [AdminNext]_<<vars, admin>> => AdminTypeOK'
<1> SUFFICES ASSUME AdminTypeOK, [AdminNext]_<<vars, admin>> PROVE AdminTypeOK'
  OBVIOUS
<1>1. CASE AdminStep
  BY <1>1, AdminStepType
<1>2. CASE [Next]_vars /\ UNCHANGED admin
  BY <1>2, NextType DEF AdminTypeOK, admin
<1> QED BY <1>1, <1>2 DEF AdminNext

(* The admin's actions keep the shape of the tables, of the jobs they read and of the
   deliveries beside them, whatever the environment does. *)
THEOREM AdminTypeCorrect == AdminSpec => []AdminTypeOK
<1>1. AdminInit => AdminTypeOK
  BY InitType, AdminAssumption DEF AdminInit, AdminTypeOK
<1> QED BY <1>1, AdminNextType, PTL DEF AdminSpec

-----------------------------------------------------------------------------
(* What workers, clients and maintenance do with a message nobody has to deal with:
   its row is deleted or left alone, and nobody gets a delivery of it. *)
Spared ==
  /\ sent \subseteq sent'
  /\ \A m \in Messages : Unheld(m) =>
       /\ rows'[m] \in {rows[m], AbsentRow}
       /\ \A c \in copies' : c.msg = m => c \in copies
  /\ RejectedInDefault => RejectedInDefault'

LEMMA SparedStay ==
  ASSUME Spared, NEW m \in Messages
  PROVE  /\ Unheld(m) => Unheld(m)'
         /\ Finished(m) => Finished(m)'
<1>1. AbsentRow.state = "absent"
  BY DEF AbsentRow
<1>2. ASSUME Unheld(m) PROVE Unheld(m)'
  BY <1>1, <1>2 DEF Unheld, Spared
<1> QED BY <1>2 DEF Finished, Unheld, Spared

(* A step spares them if it rejects only what was executed, and neither touches nor
   delivers any of them, but to delete it. *)
LEMMA Spare ==
  ASSUME sent \subseteq sent',
         \A m \in Messages : rows'[m].state = "rejected" =>
           rows'[m] = rows[m] \/ rows'[m].queue = "default",
         \A m \in Messages : Unheld(m) => rows'[m] \in {rows[m], AbsentRow},
         \A c \in copies' : c \in copies \/ ~ Unheld(c.msg)
  PROVE  Spared
<1>1. RejectedInDefault => RejectedInDefault'
  BY DEF RejectedInDefault, InState
<1> QED BY <1>1 DEF Spared

(* A message with a delivery that somebody has to deal with is not Unheld. *)
LEMMA HeldNot ==
  ASSUME NEW c \in copies, c.stage \in OwnedStages
  PROVE  ~ Unheld(c.msg)
BY DEF Unheld

(* What REQUEUE, REAP and PURGE do with rows nobody owns. *)
LEMMA IdleRows ==
  ASSUME NEW t \in [Messages -> Row], NEW m \in Messages, t[m].state # "consumed"
  PROVE  /\ \A S : Requeue(t, S)[m] = t[m]
         /\ \A alive, old : Purge(Reap(t, alive), old)[m] \in {t[m], AbsentRow}
         /\ \A old : Purge(t, old)[m] \in {t[m], AbsentRow}
<1>1. \A S : Requeue(t, S)[m] = t[m]
  BY DEF Requeue
<1>2. \A alive : Reap(t, alive)[m] = t[m]
  BY <1>1 DEF Reap
<1> QED BY <1>1, <1>2 DEF Purge

LEMMA OwnedRows ==
  ASSUME NEW t \in [Messages -> Row], NEW m \in Messages, t[m].state = "consumed"
  PROVE  /\ \A S : Requeue(t, S)[m].state # "rejected"
         /\ \A alive, old : Purge(Reap(t, alive), old)[m].state # "rejected"
         /\ \A old : Purge(t, old)[m].state # "rejected"
<1>1. \A S : Requeue(t, S)[m].state # "rejected"
  BY DEF Requeue, Requeued, Row
<1>2. \A alive : Reap(t, alive)[m].state # "rejected"
  BY <1>1 DEF Reap
<1>3. AbsentRow.state = "absent"
  BY DEF AbsentRow
<1> QED BY <1>1, <1>2, <1>3 DEF Purge

LEMMA WorkersSpare ==
  ASSUME LeasesLast, ExclusiveInv, [Next]_vars
  PROVE  Spared
<1>t. /\ TypeOK /\ rows \in [Messages -> Row]
      /\ \A c \in copies : c.msg \in Messages
      /\ AbsentRow.state = "absent"
  BY Parts DEF ExclusiveInv, ListedInv, AbsentRow
<1>e. "conn_error" \notin Env /\ "recover" \notin Env
  BY LastingEnv
<1>f. \A m \in Messages : Unheld(m) => rows[m].state \in {"rejected", "absent"}
  BY DEF Unheld
<1>1. ASSUME UNCHANGED <<rows, copies, sent>> PROVE Spared
  BY <1>1, Spare
<1>2. ASSUME NEW c \in copies, NEW s, c.stage \in OwnedStages, MoveTo(c, s), UNCHANGED sent,
             \A m \in Messages : rows'[m].state = "rejected" => rows'[m] = rows[m],
             \A m \in Messages : Unheld(m) => rows'[m] = rows[m]
      PROVE  Spared
  <2>1. PICK n : copies' = (copies \ {c}) \cup {n} /\ n.msg = c.msg
    BY <1>2, <1>t, MoveToEffect
  <2>2. ~ Unheld(n.msg)
    BY <1>2, <2>1, HeldNot
  <2> QED BY <1>2, <2>1, <2>2, Spare
<1>3. ASSUME UNCHANGED sent, copies' \subseteq copies,
             \/ \E S : rows' = Requeue(rows, S)
             \/ \E old : rows' = Purge(rows, old)
             \/ \E alive, old : rows' = Purge(Reap(rows, alive), old)
      PROVE  Spared
  <2>1. \A m \in Messages : rows[m].state # "consumed" => rows'[m] \in {rows[m], AbsentRow}
    BY <1>3, <1>t, IdleRows
  <2>2. \A m \in Messages : rows[m].state = "consumed" => rows'[m].state # "rejected"
    BY <1>3, <1>t, OwnedRows
  <2>3. \A m \in Messages : rows'[m].state = "rejected" => rows'[m] = rows[m]
    BY <2>1, <2>2, <1>t
  <2>4. \A m \in Messages : Unheld(m) => rows'[m] \in {rows[m], AbsentRow}
    BY <2>1, <1>f
  <2> QED BY <1>3, <2>3, <2>4, Spare
<1>4. ASSUME NEW m \in Messages, Send(m) PROVE Spared
  <2>1. /\ m \notin sent /\ sent' = sent \cup {m} /\ UNCHANGED copies
        /\ rows'[m].state = "queued" /\ \A k \in Messages \ {m} : rows'[k] = rows[k]
    BY <1>4, <1>t, SendSteps
  <2>2. ~ Unheld(m)
    BY <2>1 DEF Unheld
  <2> QED BY <2>1, <2>2, Spare
<1>5. ASSUME NEW m \in Messages, Due(m) PROVE Spared
  <2>1. /\ rows[m].state = "queued" /\ rows'[m].state = "queued"
        /\ \A k \in Messages \ {m} : rows'[k] = rows[k]
        /\ UNCHANGED <<copies, sent>>
    BY <1>5, <1>t, DueSteps DEF Kept
  <2>2. ~ Unheld(m)
    BY <2>1 DEF Unheld
  <2> QED BY <2>1, <2>2, Spare
<1>6. ASSUME NEW w \in Workers, NEW q \in Consumed, Maintain(w, q) PROVE Spared
  BY <1>3, <1>6 DEF Maintain, history
<1>7. ASSUME NEW w \in Workers, NEW q \in Consumed, Claim(w, q) PROVE Spared
  <2>1. PICK S \in SUBSET Messages :
          /\ \A m \in S : rows[m].state = "queued" /\ rows'[m].state = "consumed"
          /\ \A m \in Messages \ S : rows'[m] = rows[m]
          /\ copies' = copies \cup {CopyOf(w, q, m) : m \in S}
    BY <1>7, <1>t, ClaimEffect
  <2>2. \A m \in S : ~ Unheld(m)
    BY <2>1 DEF Unheld
  <2>3. \A c \in copies' : c \in copies \/ c.msg \in S
    BY <2>1 DEF CopyOf
  <2> QED BY <2>1, <2>2, <2>3, <1>7, Spare DEF Claim
<1>8. ASSUME NEW w \in Workers,
             \/ \E q \in Consumed : Deliver(w, q)
             \/ Begin(w) \/ Succeed(w) \/ Exhaust(w)
      PROVE  Spared
  BY <1>2, <1>8, <1>t, MoveSteps
<1>9. ASSUME NEW w \in Workers, Retry(w) \/ Release(w) PROVE Spared
  <2>1. PICK c \in copies, delayed \in BOOLEAN, r \in Nat :
          /\ EnqueueMessage(c.msg, delayed, r) /\ MoveTo(c, "requeued")
          /\ c.stage \in OwnedStages
    BY <1>9, <1>t, RequeueSteps, Zenon
  <2>2. rows'[c.msg].state = "queued" /\ \A k \in Messages \ {c.msg} : rows'[k] = rows[k]
    BY <2>1, <1>t DEF EnqueueMessage, Enqueue
  <2>3. ~ Unheld(c.msg)
    BY <2>1, HeldNot
  <2>4. UNCHANGED sent
    BY <1>9, <1>t, RequeueSteps
  <2> QED BY <1>2, <2>1, <2>2, <2>3, <2>4
<1>10. ASSUME NEW w \in Workers, AckDelivery(w) \/ NackDelivery(w) PROVE Spared
  <2>1. PICK c \in copies :
          /\ copies' = copies \ {c}
          /\ \/ rows' = Ack(rows, c.msg, c.queue)
             \/ c.stage = "failed" /\ rows' = Nack(rows, c.msg, c.queue, c.retries)
    BY <1>10, <1>t, SettleSteps
  <2>2. UNCHANGED sent
    BY <1>10, <1>t, SettleSteps
  <2>3. CASE rows' = Ack(rows, c.msg, c.queue)
    <3>1. \A m \in Messages : rows'[m] \in {rows[m], AbsentRow}
      BY <2>3, <1>t DEF Ack
    <3> QED BY <2>1, <2>2, <3>1, <1>t, Spare
  <2>4. CASE c.stage = "failed" /\ rows' = Nack(rows, c.msg, c.queue, c.retries)
    <3>1. rows[c.msg].queue = "default" \/ rows[c.msg].state = "absent"
      BY <2>4 DEF ExclusiveInv, OneHolder, Owns, StagesFit, OwnedStages
    <3>2. ~ Unheld(c.msg)
      BY <2>4, HeldNot DEF OwnedStages
    <3>3. /\ rows'[c.msg].queue = "default" \/ rows'[c.msg] = rows[c.msg]
          /\ \A k \in Messages \ {c.msg} : rows'[k] = rows[k]
      BY <2>4, <3>1, <1>t DEF Nack, Rejected, Row
    <3> QED BY <2>1, <2>2, <3>2, <3>3, Spare
  <2> QED BY <2>1, <2>3, <2>4
<1>11. ASSUME NEW w \in Workers, Drain(w) \/ Exit(w) \/ Crash(w) PROVE Spared
  BY <1>3, <1>11, <1>t, EndSteps
<1>12. CASE CliRecover \/ CliPurge
  BY <1>3, <1>12, <1>e DEF CliRecover, CliPurge, history
<1>16. CASE CliFlush
  <2>1. /\ UNCHANGED <<copies, sent>>
        /\ \A m \in Messages : rows'[m] \in {rows[m], AbsentRow}
    BY <1>16 DEF CliFlush, Flush
  <2> QED BY <2>1, <1>t, Spare
<1>13. CASE \/ UNCHANGED vars
            \/ \E w \in Workers, q \in Consumed :
                 \/ HeartbeatDue(w, q) \/ HeartbeatRecent(w, q) \/ HeartbeatCommit(w, q)
                 \/ MaintenanceSkip(w, q) \/ Idle(w, q) \/ QuitConsumer(w, q)
            \/ \E w \in Workers : Start(w) \/ Stop(w) \/ Lapse(w)
  BY <1>1, <1>13, <1>t, QuietSteps DEF delivery
<1>14. ASSUME NEW m \in Messages, SendAgain(m) PROVE FALSE
  BY <1>14, <1>t DEF SendAgain, ExclusiveInv, DeliveriesDistinct
<1>15. ASSUME NEW w \in Workers,
              RetryLost(w) \/ \E q \in Consumed : ClaimLost(w, q) \/ ConsumerError(w, q)
       PROVE  FALSE
  BY <1>15, <1>e DEF RetryLost, ClaimLost, ConsumerError
<1> QED BY <1>4, <1>5, <1>6, <1>7, <1>8, <1>9, <1>10, <1>11, <1>12, <1>13, <1>14, <1>15, <1>16
        DEF Next, ConsumerStep, ThreadStep

-----------------------------------------------------------------------------
(* The admin's actions.  They delete rows nobody holds, and put back what nobody has
   to deal with. *)

quiet == <<heartbeat, process, copies, in_processing, sent, resend, claims>>

PutBack(m) == Unheld(m) /\ rows'[m].state = "queued"

LEMMA RowsExclusive ==
  ASSUME ExclusiveInv, TypeOK', UNCHANGED quiet,
         \A m \in Messages : \/ Kept(m)
                             \/ rows[m].state # "consumed" /\ rows'[m] = AbsentRow
                             \/ PutBack(m)
  PROVE  ExclusiveInv'
<1> USE DEF quiet, process
<1>1. AbsentRow.state = "absent"
  BY DEF AbsentRow
<1>2. HeartbeatFirst'
  BY DEF ExclusiveInv, ListedInv, HeartbeatFirst, Live
<1>3. \A m \in InState(rows, "consumed")' : m \in InState(rows, "consumed") /\ rows'[m] = rows[m]
  BY <1>1 DEF InState, Kept, PutBack
<1>4. OwnersMarked'
  BY <1>3 DEF ExclusiveInv, ListedInv, OwnersMarked
<1>5. \A m \in Messages \ sent : rows'[m].state = "absent"
  BY <1>1, Parts DEF Kept, PutBack, Unheld
<1>6. \A c \in copies' : c.stage \in OwnedStages => Kept(c.msg) \/ rows'[c.msg].state = "absent"
  BY <1>1, Parts, HeldNot DEF PutBack
<1>7. \A c \in copies' : c.worker \in marked'
  BY Parts
<1> QED BY <1>2, <1>4, <1>5, <1>6, <1>7, TableExclusive DEF ListedInv

LEMMA RowsSafe ==
  ASSUME AckInv, UNCHANGED quiet,
         \A m \in Messages :
           \/ Kept(m) /\ outcome'[m] = outcome[m]
           \/ rows'[m] = AbsentRow /\ outcome[m] \subseteq outcome'[m]
           \/ PutBack(m) /\ Finished(m) /\ rows'[m].queue = "default"
  PROVE  RequeuedElsewhere' /\ DecidedFirst'
<1> USE DEF quiet, process
<1>1. /\ sent \subseteq Messages /\ \A c \in copies : c.msg \in Messages
      /\ AbsentRow.state = "absent" /\ AbsentRow.queue = "default"
  BY Parts DEF AckInv, AbsentRow
<1>2. RequeuedElsewhere'
  <2> SUFFICES ASSUME NEW c \in copies, c.stage = "requeued"
               PROVE  /\ rows'[c.msg].queue = "default.DQ" =>
                           rows'[c.msg].state = "queued" /\ ~ rows'[c.msg].due
                      /\ c.queue = "default" =>
                           rows'[c.msg].queue = "default.DQ" \/ rows'[c.msg].state = "absent"
                      /\ \A d \in copies : d.msg = c.msg /\ d # c =>
                           /\ d.queue # c.queue
                           /\ d.stage \in OwnedStages => d.queue = "default"
    BY DEF RequeuedElsewhere
  <2>0. \A d \in copies : d.msg = c.msg /\ d # c =>
          d.queue # c.queue /\ (d.stage \in OwnedStages => d.queue = "default")
    BY DEF AckInv, RequeuedElsewhere
  <2>1. CASE Kept(c.msg)
    BY <2>0, <2>1 DEF Kept, AckInv, RequeuedElsewhere
  <2>2. CASE rows'[c.msg] = AbsentRow
    BY <2>0, <2>2, <1>1
  <2>3. CASE Finished(c.msg) /\ rows'[c.msg].queue = "default"
    BY <2>0, <2>3 DEF Finished
  <2> QED BY <2>1, <2>2, <2>3, <1>1
<1>3. DecidedFirst'
  <2>1. \A m \in InState(rows, "rejected")' : outcome'[m] # {}
    BY <1>1 DEF AckInv, DecidedFirst, InState, Kept, PutBack
  <2>2. ASSUME NEW c \in copies, c.stage \in {"done", "failed"}
        PROVE  outcome[c.msg] \subseteq outcome'[c.msg]
    <3>1. ~ Unheld(c.msg)
      BY <2>2, HeldNot DEF OwnedStages
    <3> QED BY <3>1, <1>1 DEF PutBack
  <2>3. \A c \in copies : /\ c.stage = "done" => "executed" \in outcome'[c.msg]
                          /\ c.stage = "failed" => outcome'[c.msg] # {}
    BY <2>2 DEF AckInv, DecidedFirst
  <2> QED BY <2>1, <2>3 DEF DecidedFirst
<1> QED BY <1>2, <1>3

LEMMA RowsLease ==
  ASSUME ExclusiveInv, LeaseValid, UNCHANGED copies,
         \A m \in Messages : rows[m].state = "consumed" => Kept(m)
  PROVE  LeaseValid'
<1>1. \A c \in copies : c.msg \in Messages
  BY Parts
<1> QED BY <1>1 DEF LeaseValid, Kept

(* What every step but the reading of the jobs does to the rows and the jobs. *)
Effect ==
  /\ UNCHANGED quiet
  /\ \A m \in Messages :
       \/ Kept(m) /\ outcome'[m] = outcome[m]
       \/ /\ rows[m].state # "consumed" /\ rows'[m] = AbsentRow
          /\ outcome[m] \subseteq outcome'[m]
          /\ \/ "flushed" \in outcome'[m]
             \/ \E r \in Requests : m \in MsgsOf(Handled(r)) /\ m \in MsgsOf(removed'[r])
       \/ \E r \in Requests : \E j \in removed[r] :
            j.msg = m /\ rows'[m].state = "queued" /\ rows'[m].queue = j.row.queue
  /\ submitted \subseteq submitted' /\ dropped \subseteq dropped'
  /\ \A r \in Requests :
       /\ Work(r)' \subseteq Work(r)
       /\ jobs'[r] \cap removed'[r] = {} /\ \A j, k \in removed'[r] : j = k
       /\ Handled(r)' \subseteq Handled(r)
       /\ \A j \in Handled(r)' : rows'[j.msg] \in {rows[j.msg], AbsentRow}
       /\ \A j \in removed[r] :
            j \in removed'[r] \/ j.msg \in dropped' \/ rows'[j.msg].state = "queued"

LEMMA HandledUnheld ==
  ASSUME AdminExclusive, NEW r \in Requests, NEW j \in Handled(r)
  PROVE  /\ j \in Work(r) /\ j.msg \in Messages /\ Unheld(j.msg)
         /\ rows[j.msg].state # "consumed"
BY DEF AdminExclusive, JobsUnheld, AdminTypeOK, Job, Handled, Work, Unheld

(* What a request handles changes with its own jobs only. *)
LEMMA OthersWork ==
  ASSUME NEW r \in Requests, jobs'[r] = jobs[r], removed'[r] = removed[r]
  PROVE  Work(r)' = Work(r) /\ Handled(r)' = Handled(r)
BY DEF Work, Handled, IdleJob

LEMMA DeleteEffect ==
  ASSUME AdminExclusive, NEW r \in Requests, RequeueDelete(r)
  PROVE  Effect
<1>t. /\ jobs \in [Requests -> SUBSET Job] /\ removed \in [Requests -> SUBSET Job]
      /\ rows \in [Messages -> Row]
  BY Parts DEF AdminExclusive, AdminTypeOK
<1>1. PICK job \in jobs[r] : /\ IdleJob(job) /\ rows' = [rows EXCEPT ![job.msg] = AbsentRow]
                             /\ jobs' = [jobs EXCEPT ![r] = @ \ {job}]
                             /\ removed' = [removed EXCEPT ![r] = {job}] /\ removed[r] = {}
  BY DEF RequeueDelete, NextJob
<1>2. job \in Handled(r)
  BY <1>1 DEF Handled
<1>3. job.msg \in Messages /\ rows[job.msg].state # "consumed"
  BY <1>2, HandledUnheld
<1>4. UNCHANGED quiet /\ UNCHANGED <<outcome, submitted, dropped>>
  BY DEF RequeueDelete, quiet, history
<1>5. rows'[job.msg] = AbsentRow /\ \A m \in Messages \ {job.msg} : rows'[m] = rows[m]
  BY <1>1, <1>3, <1>t
<1>6. /\ jobs'[r] = jobs[r] \ {job} /\ removed'[r] = {job}
      /\ \A s \in Requests \ {r} : jobs'[s] = jobs[s] /\ removed'[s] = removed[s]
  BY <1>1, <1>t
<1>7. /\ Work(r)' \subseteq Work(r) /\ jobs'[r] \cap removed'[r] = {}
      /\ Handled(r)' \subseteq Handled(r)
  BY <1>1, <1>6 DEF Work, Handled, IdleJob
<1>8. ASSUME NEW s \in Requests
      PROVE  /\ Work(s)' \subseteq Work(s) /\ jobs'[s] \cap removed'[s] = {}
             /\ Handled(s)' \subseteq Handled(s)
             /\ \A j \in removed[s] : j \in removed'[s]
             /\ \A j, k \in removed'[s] : j = k
  BY <1>1, <1>6, <1>7, OthersWork DEF AdminExclusive, JobsUnheld
<1>9. \A s \in Requests : \A j \in Handled(s)' : rows'[j.msg] \in {rows[j.msg], AbsentRow}
  BY <1>5, <1>8, HandledUnheld
<1>10. job.msg \in MsgsOf(Handled(r)) /\ job.msg \in MsgsOf(removed'[r])
  BY <1>2, <1>6 DEF MsgsOf
<1>11. \A m \in Messages :
         \/ Kept(m) /\ outcome'[m] = outcome[m]
         \/ /\ rows[m].state # "consumed" /\ rows'[m] = AbsentRow
            /\ outcome[m] \subseteq outcome'[m]
            /\ m \in MsgsOf(Handled(r)) /\ m \in MsgsOf(removed'[r])
  BY <1>3, <1>4, <1>5, <1>10 DEF Kept
<1> QED BY <1>4, <1>8, <1>9, <1>11 DEF Effect

LEMMA EnqueueEffect ==
  ASSUME AdminExclusive, NEW r \in Requests, RequeueEnqueue(r)
  PROVE  Effect
<1>t. /\ jobs \in [Requests -> SUBSET Job] /\ removed \in [Requests -> SUBSET Job]
      /\ rows \in [Messages -> Row] /\ outcome \in [Messages -> SUBSET Outcomes]
  BY Parts DEF AdminExclusive, AdminTypeOK, TypeOK
<1>1. PICK job \in removed[r] : /\ rows' = Enqueue(rows, job.msg, job.row.queue, TRUE, 0)
                                /\ outcome' = [outcome EXCEPT ![job.msg] = {}]
  BY DEF RequeueEnqueue
<1>2. jobs' = jobs /\ UNCHANGED quiet /\ UNCHANGED <<submitted, dropped>>
  BY DEF RequeueEnqueue, quiet
<1>3. removed'[r] = {} /\ \A s \in Requests \ {r} : removed'[s] = removed[s]
  BY <1>t DEF RequeueEnqueue
<1>4. job.msg \in Messages /\ job \in Work(r)
  BY <1>1, <1>t DEF Job, Work
<1>5. /\ rows'[job.msg].state = "queued" /\ rows'[job.msg].queue = job.row.queue
      /\ \A m \in Messages \ {job.msg} : rows'[m] = rows[m] /\ outcome'[m] = outcome[m]
  BY <1>1, <1>4, <1>t DEF Enqueue
<1>6. \A j \in removed[r] : j.msg = job.msg
  BY <1>1, <1>t DEF AdminExclusive, AdminTypeOK, JobsUnheld
<1>7. ASSUME NEW s \in Requests
      PROVE  /\ Work(s)' \subseteq Work(s) /\ jobs'[s] \cap removed'[s] = {}
             /\ Handled(s)' \subseteq Handled(s) /\ \A j, k \in removed'[s] : j = k
             /\ \A j \in removed[s] : j \in removed'[s] \/ rows'[j.msg].state = "queued"
  BY <1>2, <1>3, <1>5, <1>6 DEF Work, Handled, IdleJob, AdminExclusive, JobsUnheld
<1>8. ASSUME NEW s \in Requests, NEW j \in Handled(s)' PROVE rows'[j.msg] = rows[j.msg]
  <2>1. j \in Work(s) /\ j.msg \in Messages
    BY <1>7, HandledUnheld
  <2>2. j.msg # job.msg
    <3>1. CASE s = r
      BY <3>1, <1>1, <1>2, <1>3, <2>1 DEF Handled, Work, AdminExclusive, JobsUnheld
    <3>2. CASE s # r
      BY <3>2, <1>4, <2>1 DEF AdminExclusive, NoOverlap, MsgsOf
    <3> QED BY <3>1, <3>2
  <2> QED BY <1>5, <2>1, <2>2
<1>9. \A m \in Messages :
        \/ Kept(m) /\ outcome'[m] = outcome[m]
        \/ job.msg = m /\ rows'[m].state = "queued" /\ rows'[m].queue = job.row.queue
  BY <1>5 DEF Kept
<1> QED BY <1>1, <1>2, <1>7, <1>8, <1>9 DEF Effect

LEMMA DiscardEffect ==
  ASSUME AdminExclusive, NEW r \in Requests, Discard(r)
  PROVE  Effect
<1>t. outcome \in [Messages -> SUBSET Outcomes]
  BY DEF AdminExclusive, AdminTypeOK, TypeOK
<1>1. PICK S \in Selections(DiscardPage) :
        /\ rows' = [m \in Messages |-> IF m \in Discardable(S) THEN AbsentRow ELSE rows[m]]
        /\ NoteAll(Discardable(S), "flushed")
  BY DEF Discard
<1>2. UNCHANGED quiet /\ UNCHANGED <<jobs, removed, dropped>> /\ submitted \subseteq submitted'
  BY DEF Discard, Submit, quiet
<1>3. \A m \in Messages : \/ rows'[m] = rows[m] /\ outcome'[m] = outcome[m]
                          \/ /\ rows[m].state # "consumed" /\ rows'[m] = AbsentRow
                             /\ outcome[m] \subseteq outcome'[m] /\ "flushed" \in outcome'[m]
  BY <1>1, <1>t DEF Discardable, NoteAll
<1>4. ASSUME NEW s \in Requests
      PROVE  /\ Work(s)' = Work(s) /\ Handled(s)' = Handled(s)
             /\ jobs'[s] \cap removed'[s] = {} /\ removed'[s] = removed[s]
             /\ \A j, k \in removed'[s] : j = k
  BY <1>2, OthersWork DEF AdminExclusive, JobsUnheld
<1>5. \A s \in Requests : \A j \in Handled(s)' : rows'[j.msg] \in {rows[j.msg], AbsentRow}
  BY <1>3, <1>4, HandledUnheld
<1> QED BY <1>2, <1>3, <1>4, <1>5 DEF Effect, Kept

LEMMA SkipEffect ==
  ASSUME AdminExclusive, NEW r \in Requests, RequeueSkip(r) \/ RequeueAbort(r)
  PROVE  Effect
<1>t. jobs \in [Requests -> SUBSET Job] /\ removed \in [Requests -> SUBSET Job]
  BY DEF AdminExclusive, AdminTypeOK
<1>1. UNCHANGED vars /\ submitted' = submitted /\ dropped \subseteq dropped'
  BY DEF RequeueSkip, RequeueAbort
<1>2. /\ jobs'[r] \subseteq jobs[r] /\ removed'[r] \subseteq removed[r]
      /\ \A s \in Requests \ {r} : jobs'[s] = jobs[s] /\ removed'[s] = removed[s]
      /\ \A j \in removed[r] : j \in removed'[r] \/ j.msg \in dropped'
  BY <1>t DEF RequeueSkip, RequeueAbort, NextJob, MsgsOf
<1>3. Work(r)' \subseteq Work(r) /\ Handled(r)' \subseteq Handled(r)
  BY <1>2 DEF Work, Handled, IdleJob
<1>4. ASSUME NEW s \in Requests
      PROVE  /\ Work(s)' \subseteq Work(s) /\ Handled(s)' \subseteq Handled(s)
             /\ jobs'[s] \cap removed'[s] = {} /\ \A j, k \in removed'[s] : j = k
             /\ \A j \in removed[s] : j \in removed'[s] \/ j.msg \in dropped'
  BY <1>2, <1>3, OthersWork DEF AdminExclusive, JobsUnheld
<1>5. UNCHANGED quiet /\ UNCHANGED <<rows, outcome>>
  BY <1>1 DEF vars, quiet, process, history
<1> QED BY <1>1, <1>4, <1>5 DEF Effect, Kept

LEMMA StepEffect ==
  ASSUME AdminExclusive, AdminStep
  PROVE  (\E r \in Requests : RequeueSelect(r)) \/ Effect
BY SkipEffect, DeleteEffect, EnqueueEffect, DiscardEffect DEF AdminStep

(* While leases last. *)

LEMMA EffectExclusive ==
  ASSUME AdminExclusive, Effect, AdminTypeOK', NoOverlap'
  PROVE  AdminExclusive'
<1>1. AbsentRow.state = "absent"
  BY DEF AbsentRow
<1>2. \A r \in Requests : \A j \in removed[r] : PutBack(j.msg) \/ rows'[j.msg].state # "queued"
  BY HandledUnheld DEF Handled, PutBack
<1>3. \A m \in Messages : \/ Kept(m)
                          \/ rows[m].state # "consumed" /\ rows'[m] = AbsentRow
                          \/ PutBack(m)
  BY <1>2 DEF Effect
<1>4. ExclusiveInv'
  BY <1>3, RowsExclusive DEF Effect, AdminExclusive, AdminTypeOK
<1>5. ASSUME NEW r \in Requests, NEW j \in Handled(r)' PROVE Unheld(j.msg)'
  <2>1. j \in Handled(r) /\ rows'[j.msg] \in {rows[j.msg], AbsentRow}
    BY DEF Effect
  <2>2. Unheld(j.msg)
    BY <2>1, HandledUnheld
  <2> QED BY <1>1, <2>1, <2>2 DEF Unheld, Effect, quiet
<1>6. ASSUME NEW r \in Requests
      PROVE  /\ r \notin submitted' => Work(r)' = {}
             /\ \A j, k \in Work(r)' : j.msg = k.msg => j = k
  BY DEF Effect, AdminExclusive, JobsUnheld
<1>7. JobsUnheld'
  BY <1>5, <1>6 DEF JobsUnheld, Effect
<1> QED BY <1>4, <1>7 DEF AdminExclusive

LEMMA SelectUnheld ==
  ASSUME AdminExclusive, CautiousUser, NEW r \in Requests, RequeueSelect(r)
  PROVE  /\ JobsUnheld'
         /\ \A j \in Handled(r)' : rows[j.msg].state = "rejected" /\ j.row = rows[j.msg]
         /\ \A s \in Requests \ {r} : Handled(s)' = Handled(s)
<1>t. jobs \in [Requests -> SUBSET Job]
  BY DEF AdminExclusive, AdminTypeOK
<1>1. PICK S \in Selections(RequeuePage) :
        jobs' = [jobs EXCEPT ![r] = {[msg |-> m, row |-> rows[m]] : m \in S}]
  BY DEF RequeueSelect
<1>2. /\ removed' = removed /\ UNCHANGED vars /\ removed[r] = {}
      /\ submitted' = submitted \cup {r}
  BY DEF RequeueSelect, Submit, AdminExclusive, JobsUnheld, Work
<1>j. /\ jobs'[r] = {[msg |-> m, row |-> rows[m]] : m \in S}
      /\ \A s \in Requests \ {r} : jobs'[s] = jobs[s]
  BY <1>1, <1>t
<1>3. ASSUME NEW m \in S PROVE m \in Messages /\ rows[m].state \in {"consumed", "rejected"}
  <2>1. m \in Messages /\ rows[m].state \in RequeuePage
    BY <1>3 DEF Selections
  <2>2. RequeuePage \subseteq {"queued", "consumed", "rejected"}
    BY AdminAssumption DEF RowStates
  <2> QED BY <2>1, <2>2 DEF CautiousUser
<1>4. \A m \in S : rows[m].state = "rejected" => Unheld(m)
  BY <1>3, Parts, NoOwner DEF Unheld, AdminExclusive
<1>5. \A j \in jobs'[r] : \E m \in S : j = [msg |-> m, row |-> rows[m]]
  BY <1>j
<1>6. \A j \in Handled(r)' : j \in jobs'[r] /\ j.row.state # "consumed"
  BY <1>2 DEF Handled, IdleJob
<1>7. \A j \in Handled(r)' : /\ j.msg \in S /\ j.row = rows[j.msg]
                             /\ rows[j.msg].state = "rejected"
  BY <1>3, <1>5, <1>6
<1>8. \A m : Unheld(m)' = Unheld(m)
  BY <1>2 DEF Unheld, vars, process, history
<1>9. /\ jobs'[r] \cap removed'[r] = {} /\ \A j, k \in removed'[r] : j = k
      /\ \A j, k \in Work(r)' : j.msg = k.msg => j = k
      /\ \A j \in Handled(r)' : Unheld(j.msg)'
  BY <1>2, <1>4, <1>5, <1>7, <1>8 DEF Work
<1>10. ASSUME NEW s \in Requests \ {r}
       PROVE  /\ s \notin submitted' => Work(s)' = {}
              /\ jobs'[s] \cap removed'[s] = {} /\ \A j, k \in removed'[s] : j = k
              /\ \A j, k \in Work(s)' : j.msg = k.msg => j = k
              /\ Handled(s)' = Handled(s) /\ \A j \in Handled(s)' : Unheld(j.msg)'
  <2>1. Work(s)' = Work(s) /\ Handled(s)' = Handled(s)
    BY <1>2, <1>j, OthersWork
  <2> QED BY <2>1, <1>2, <1>j, <1>8 DEF AdminExclusive, JobsUnheld
<1> QED BY <1>2, <1>7, <1>9, <1>10 DEF JobsUnheld

LEMMA CarefulSteps ==
  ASSUME AdminExclusive, [CarefulNext]_<<vars, admin>>
  PROVE  /\ NoOverlap'
         /\ \/ \E r \in Requests : RequeueSelect(r)
            \/ Effect
            \/ [PunctualNext]_vars /\ UNCHANGED admin
<1>1. CASE UNCHANGED <<vars, admin>>
  BY <1>1 DEF AdminExclusive, NoOverlap, Work, MsgsOf, admin
<1>2. CASE CarefulNext
  BY <1>2, StepEffect DEF CarefulNext, AdminNext, PunctualNext
<1> QED BY <1>1, <1>2

LEMMA AdminNextExclusive ==
  ASSUME LeasesLast, CautiousUser, AdminExclusive, [CarefulNext]_<<vars, admin>>
  PROVE  AdminExclusive'
<1>1. AdminTypeOK' /\ NoOverlap'
  BY AdminNextType, CarefulSteps DEF AdminExclusive, CarefulNext
<1>2. ASSUME NEW r \in Requests, RequeueSelect(r) PROVE AdminExclusive'
  <2>1. ExclusiveInv'
    BY <1>2, NextExclusive DEF RequeueSelect, AdminExclusive
  <2> QED BY <1>1, <1>2, <2>1, SelectUnheld DEF AdminExclusive
<1>3. CASE Effect
  BY <1>1, <1>3, EffectExclusive
<1>4. CASE [PunctualNext]_vars /\ UNCHANGED admin
  <2>1. ExclusiveInv' /\ Spared
    BY <1>4, NextExclusive, WorkersSpare DEF AdminExclusive, PunctualNext
  <2>2. /\ UNCHANGED <<jobs, removed, submitted>>
        /\ \A r \in Requests : Work(r)' = Work(r) /\ Handled(r)' = Handled(r)
    BY <1>4, OthersWork DEF admin
  <2>3. \A r \in Requests : \A j \in Handled(r) : Unheld(j.msg)'
    BY <2>1, HandledUnheld, SparedStay
  <2>4. JobsUnheld'
    BY <2>2, <2>3 DEF AdminExclusive, JobsUnheld
  <2> QED BY <1>1, <2>1, <2>4 DEF AdminExclusive
<1> QED BY <1>2, <1>3, <1>4, CarefulSteps

LEMMA AdminInitInv == AdminInit => AdminInv
<1> SUFFICES ASSUME AdminInit PROVE AdminInv
  OBVIOUS
<1>1. LeaseInv /\ AdminTypeOK
  BY InitLease, InitType DEF AdminInit, AdminTypeOK
<1>2. RejectedInDefault
  BY DEF AdminInit, Init, RejectedInDefault, InState, EmptyTable, AbsentRow
<1>3. \A r \in Requests : jobs[r] = {} /\ removed[r] = {} /\ Work(r) = {} /\ Handled(r) = {}
  BY DEF AdminInit, Work, Handled
<1>4. JobsUnheld /\ JobsFinished
  BY <1>3 DEF JobsUnheld, JobsFinished
<1>5. NoOverlap
  BY <1>3 DEF NoOverlap, MsgsOf
<1> QED BY <1>1, <1>2, <1>4, <1>5
        DEF AdminInv, AdminSafe, AdminExclusive, LeaseInv, SafeInv, NoLoss, LostInBetween

(* While leases last, late acks and flushes included, nobody takes up the jobs a
   requeue has read until it enqueues them again, and one delivery at a time has to
   deal with a message, as long as no two requests have one job. *)
THEOREM AdminExcludes == ASSUME LeasesLast, CautiousUser PROVE CarefulSpec => []AdminExclusive
<1>1. AdminInit => AdminExclusive
  BY AdminInitInv DEF AdminInv, AdminSafe
<1> QED BY <1>1, AdminNextExclusive, PTL DEF CarefulSpec

(* Requeues of different jobs that were running or done with make no message run
   twice at a time. *)
THEOREM AdminExecutedOnce == ASSUME LeasesLast, CautiousUser PROVE CarefulSpec => []NoDoubleExecution
<1>1. AdminExclusive => NoDoubleExecution
  <2> SUFFICES ASSUME AdminExclusive, NEW c \in copies, NEW d \in copies,
                      c.stage = "run", d.stage = "run", c.msg = d.msg
               PROVE  c = d
    BY DEF NoDoubleExecution
  <2> QED BY OneOwner DEF OwnedStages, AdminExclusive
<1> QED BY <1>1, AdminExcludes, PTL

(* No action of the admin touches the row of a message that a worker holds, however
   long ago the page and the jobs were read and whatever requests run beside it on
   other jobs. *)
THEOREM OnlyIdleJobs == ASSUME LeasesLast, CautiousUser PROVE CarefulSpec => ActionsTouchIdle
<1>1. AdminExclusive
      => [AdminStep => \A m \in InState(rows, "consumed") : rows'[m] = rows[m]]_<<vars, admin>>
  <2> SUFFICES ASSUME AdminExclusive, AdminStep, NEW m \in InState(rows, "consumed")
               PROVE  rows'[m] = rows[m]
    OBVIOUS
  <2>1. m \in Messages /\ rows[m].state = "consumed"
    BY DEF InState
  <2>2. \A r \in Requests : \A j \in removed[r] : j.msg # m
    BY <2>1, HandledUnheld DEF Handled
  <2>3. Effect => Kept(m)
    BY <2>1, <2>2 DEF Effect
  <2>4. \A r \in Requests : RequeueSelect(r) => Kept(m)
    BY DEF RequeueSelect, vars, Kept
  <2> QED BY <2>3, <2>4, StepEffect DEF Kept
<1> QED BY <1>1, AdminExcludes, PTL DEF CarefulSpec, ActionsTouchIdle

-----------------------------------------------------------------------------
(* When acks are in time. *)

(* A requeue loses a message only when its request ends in between. *)
LEMMA EffectLost ==
  ASSUME AdminExclusive, Effect, UNCHANGED sent, LostInBetween
  PROVE  LostInBetween'
<1> SUFFICES ASSUME NEW m \in Messages, Lost(m)'
             PROVE  m \in dropped' \/ \E r \in Requests : m \in MsgsOf(removed'[r])
  BY DEF LostInBetween
<1>1. CASE Kept(m) /\ outcome'[m] = outcome[m]
  <2>1. Lost(m)
    BY <1>1 DEF Lost, Kept
  <2>2. CASE m \in dropped
    BY <2>2 DEF Effect
  <2>3. ASSUME NEW r \in Requests, NEW j \in removed[r], j.msg = m
        PROVE  m \in dropped' \/ m \in MsgsOf(removed'[r])
    BY <2>3 DEF Effect, Lost, MsgsOf
  <2> QED BY <2>1, <2>2, <2>3 DEF LostInBetween, MsgsOf
<1>2. ASSUME ~ (Kept(m) /\ outcome'[m] = outcome[m])
      PROVE  \E r \in Requests : m \in MsgsOf(removed'[r])
  BY <1>2 DEF Effect, Lost
<1> QED BY <1>1, <1>2

LEMMA EffectSafe ==
  ASSUME AdminSafe, Effect
  PROVE  RequeuedElsewhere' /\ DecidedFirst' /\ LostInBetween' /\ RejectedInDefault' /\ JobsFinished'
<1>t. AdminExclusive /\ AckInv /\ UNCHANGED quiet /\ AbsentRow.state = "absent"
  BY DEF AdminSafe, AdminExclusive, AckInv, Effect, AbsentRow
<1>1. \A r \in Requests : \A j \in Handled(r) : Finished(j.msg) /\ j.row.queue = "default"
  BY DEF AdminSafe, JobsFinished
<1>2. ASSUME NEW m \in Messages
      PROVE  \/ Kept(m) /\ outcome'[m] = outcome[m]
             \/ rows'[m] = AbsentRow /\ outcome[m] \subseteq outcome'[m]
             \/ PutBack(m) /\ Finished(m) /\ rows'[m].queue = "default"
  <2>1. ASSUME NEW r \in Requests, NEW j \in removed[r], j.msg = m,
               rows'[m].state = "queued", rows'[m].queue = j.row.queue
        PROVE  PutBack(m) /\ Finished(m) /\ rows'[m].queue = "default"
    BY <2>1, <1>1 DEF PutBack, Finished, Handled
  <2> QED BY <2>1 DEF Effect
<1>3. RequeuedElsewhere' /\ DecidedFirst'
  BY <1>t, <1>2, RowsSafe
<1>4. RejectedInDefault'
  BY <1>t, <1>2 DEF AdminSafe, RejectedInDefault, InState, Kept, PutBack
<1>5. ASSUME NEW r \in Requests, NEW j \in Handled(r)' PROVE Finished(j.msg)' /\ j.row.queue = "default"
  <2>1. j \in Handled(r) /\ rows'[j.msg] \in {rows[j.msg], AbsentRow}
    BY DEF Effect
  <2> QED BY <1>t, <1>1, <2>1 DEF Finished, Unheld, quiet
<1>6. LostInBetween'
  BY <1>t, EffectLost DEF AdminSafe, quiet
<1> QED BY <1>3, <1>4, <1>5, <1>6 DEF JobsFinished

LEMMA SelectFinished ==
  ASSUME AdminSafe, CautiousUser, NEW r \in Requests, RequeueSelect(r)
  PROVE  JobsFinished'
<1>t. AdminExclusive /\ AckInv /\ ExclusiveInv /\ UNCHANGED vars
  BY DEF AdminSafe, AdminExclusive, AckInv, RequeueSelect
<1>u. UNCHANGED <<rows, copies, sent>>
  BY <1>t DEF vars, history
<1>1. ASSUME NEW j \in Handled(r)' PROVE Finished(j.msg)' /\ j.row.queue = "default"
  <2>1. rows[j.msg].state = "rejected" /\ j.row = rows[j.msg] /\ Unheld(j.msg)'
    BY <1>t, SelectUnheld DEF JobsUnheld
  <2>2. j.msg \in Messages /\ Unheld(j.msg)
    BY <1>t, <1>u, <2>1, Parts DEF Unheld
  <2>3. rows[j.msg].queue = "default"
    BY <2>1, <2>2 DEF AdminSafe, RejectedInDefault, InState
  <2>4. ASSUME NEW c \in copies, c.msg = j.msg PROVE c.queue = "default.DQ"
    <3>1. c.stage \in Stages \ {"retrying"} /\ c.queue \in QueueNames
      BY <1>t DEF ExclusiveInv, ListedInv, StagesFit, TypeOK, Copy
    <3>2. c.stage = "requeued"
      BY <2>2, <2>4, <3>1 DEF Unheld, Stages, OwnedStages
    <3> QED BY <1>t, <2>1, <2>3, <2>4, <3>1, <3>2
            DEF AckInv, RequeuedElsewhere, QueueNames
  <2>5. Finished(j.msg)
    BY <2>2, <2>4 DEF Finished
  <2> QED BY <1>u, <2>1, <2>3, <2>5 DEF Finished, Unheld
<1>2. ASSUME NEW s \in Requests \ {r}, NEW j \in Handled(s)'
      PROVE  Finished(j.msg)' /\ j.row.queue = "default"
  <2>1. j \in Handled(s)
    BY <1>t, SelectUnheld
  <2> QED BY <1>u, <2>1 DEF AdminSafe, JobsFinished, Finished, Unheld
<1> QED BY <1>1, <1>2 DEF JobsFinished

LEMMA AdminNextSafe ==
  ASSUME AcksInTime, CautiousUser, AdminSafe, [CarefulNext]_<<vars, admin>>
  PROVE  AdminSafe'
<1>t. LeasesLast /\ AdminExclusive /\ AckInv /\ ExclusiveInv /\ AdminExclusive'
  BY AdminNextExclusive DEF AcksInTime, AdminSafe, AdminExclusive, AckInv
<1>2. ASSUME NEW r \in Requests, RequeueSelect(r) PROVE AdminSafe'
  <2>1. UNCHANGED <<rows, copies, sent, outcome, removed, dropped>> /\ JobsFinished'
    BY <1>2, SelectFinished DEF RequeueSelect, vars, history
  <2> QED BY <1>t, <2>1 DEF AdminSafe, RequeuedElsewhere, DecidedFirst, RejectedInDefault,
                           InState, LostInBetween, Lost
<1>3. CASE Effect
  BY <1>t, <1>3, EffectSafe DEF AdminSafe
<1>4. CASE [PunctualNext]_vars /\ UNCHANGED admin
  <2>1. StaysSafe /\ Spared
    BY <1>4, <1>t, NextAcks, WorkersSpare DEF PunctualNext
  <2>2. \A r \in Requests : Handled(r)' = Handled(r)
    BY <1>4, OthersWork DEF admin
  <2>3. \A r \in Requests : \A j \in Handled(r) : Finished(j.msg)'
    BY <1>t, <2>1, HandledUnheld, SparedStay DEF AdminSafe, JobsFinished
  <2>4. JobsFinished' /\ RejectedInDefault'
    BY <2>1, <2>2, <2>3 DEF AdminSafe, JobsFinished, Spared
  <2>5. LostInBetween'
    BY <1>4, <2>1 DEF StaysSafe, NoneLost, AdminSafe, LostInBetween, admin
  <2> QED BY <1>t, <2>1, <2>4, <2>5 DEF AdminSafe, StaysSafe
<1> QED BY <1>t, <1>2, <1>3, <1>4, CarefulSteps

LEMMA AdminSafety == ASSUME AcksInTime, CautiousUser PROVE CarefulSpec => []AdminSafe
<1>1. AdminInit => AdminSafe
  BY AdminInitInv DEF AdminInv
<1> QED BY <1>1, AdminNextSafe, PTL DEF CarefulSpec

(* A message leaves the table undecided in one case only: a request deleted it to put
   it back, and still has it or ended before it did.  A requeued job has to be executed,
   flushed or purged anew. *)
THEOREM LostOnlyInBetween ==
  ASSUME AcksInTime, CautiousUser PROVE CarefulSpec => []LostInBetween
<1>1. AdminSafe => LostInBetween
  BY DEF AdminSafe
<1> QED BY <1>1, AdminSafety, PTL

-----------------------------------------------------------------------------
(* In a timely environment. *)

LEMMA AdminNextInv ==
  ASSUME Timely, CautiousUser, AdminInv, [CarefulNext]_<<vars, admin>>
  PROVE  AdminInv'
<1>t. AdminExclusive /\ AckInv /\ LeaseValid
  BY DEF AdminInv, AdminSafe, AdminExclusive, AckInv
<1>1. AdminSafe' /\ ExclusiveInv'
  BY TimelyEnv, AdminNextSafe DEF AdminInv, AdminSafe, AdminExclusive
<1>2. ASSUME [Next]_vars PROVE LeaseValid'
  BY <1>1, <1>2, <1>t, StepLease
<1>3. CASE Effect
  <2>1. \A r \in Requests : \A j \in removed[r] : rows[j.msg].state # "consumed"
    BY <1>t, HandledUnheld DEF Handled
  <2>2. UNCHANGED copies /\ \A m \in Messages : rows[m].state = "consumed" => Kept(m)
    BY <1>3, <2>1 DEF Effect, quiet
  <2> QED BY <1>t, <1>1, <2>2, RowsLease DEF AdminInv, AckInv
<1> QED BY <1>t, <1>1, <1>2, <1>3, CarefulSteps DEF AdminInv, PunctualNext, RequeueSelect

(* In a timely environment the jobs a requeue has read stay as it read them until it
   handles them, and the invariant of the lease holds beside the admin's actions. *)
THEOREM AdminInvariant == ASSUME Timely, CautiousUser PROVE CarefulSpec => []AdminInv
BY AdminInitInv, AdminNextInv, PTL DEF CarefulSpec

(* Beside the admin's actions, too, whoever has to execute or settle a delivery owns
   its row. *)
THEOREM AdminLeaseHolds == ASSUME Timely, CautiousUser PROVE CarefulSpec => []LeaseValid
<1>1. AdminInv => LeaseValid
  BY DEF AdminInv
<1> QED BY <1>1, AdminInvariant, PTL

=================================================================================
