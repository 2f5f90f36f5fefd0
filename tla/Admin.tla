-------------------------------- MODULE Admin --------------------------------
(***************************************************************************)
(* The two actions of the Django admin on jobs, JobAdmin.action_retry and  *)
(* JobAdmin.action_discard of django/admin.py, beside the workers, clients *)
(* and operators of Delivery.  action_retry evaluates its queryset once,   *)
(* then handles one job after the other from what it read: a delete and an *)
(* enqueue, each in a transaction of its own.  action_discard is a single  *)
(* DELETE that carries its own condition on the state.  Every submitted    *)
(* action is a request of its own; requests run beside each other.         *)
(***************************************************************************)
EXTENDS Delivery

CONSTANTS Requests,     \* admin actions that users submit, each once
          RequeuePage,  \* the states of the jobs on the page when the user requeues:
          DiscardPage,  \* the changelist's filter; and when the user discards
          AdminEnv      \* subset of {"requeue", "discard", "abort"}

ASSUME AdminAssumption ==
  /\ RequeuePage \cup DiscardPage \subseteq RowStates \ {"absent"}
  /\ AdminEnv \subseteq {"requeue", "discard", "abort"}

VARIABLES
  jobs,      \* what action_retry of a request read and has not handled: messages and rows
  removed,   \* the job it deleted and has not enqueued yet
  submitted, \* the requests submitted so far
  dropped    \* history: messages that a request deleted and did not live to enqueue

admin == <<jobs, removed, submitted, dropped>>

Job == [msg : Messages, row : Row]

AdminTypeOK ==
  /\ TypeOK
  /\ jobs \in [Requests -> SUBSET Job] /\ removed \in [Requests -> SUBSET Job]
  /\ submitted \subseteq Requests
  /\ dropped \subseteq Messages

AdminInit ==
  /\ Init
  /\ jobs = [r \in Requests |-> {}] /\ removed = [r \in Requests |-> {}]
  /\ submitted = {} /\ dropped = {}

(* What a user can have selected. *)
Selections(page) == SUBSET {m \in Messages : rows[m].state \in page} \ {{}}

Submit(r) == r \notin submitted /\ submitted' = submitted \cup {r}

(* "for job in queryset": the rows of the selected jobs, as they are now. *)
RequeueSelect(r) ==
  /\ "requeue" \in AdminEnv
  /\ Submit(r)
  /\ \E S \in Selections(RequeuePage) :
       jobs' = [jobs EXCEPT ![r] = {[msg |-> m, row |-> rows[m]] : m \in S}]
  /\ UNCHANGED <<vars, removed, dropped>>

(* A job that was running when it was read is left alone.  Fault: no job is. *)
AnyJob(job) == TRUE

IdleJob(job) == job.row.state # "consumed"

(* The loop is at its next job. *)
NextJob(r, job) ==
  /\ removed[r] = {} /\ job \in jobs[r]
  /\ jobs' = [jobs EXCEPT ![r] = @ \ {job}]

RequeueSkip(r) ==
  /\ \E job \in jobs[r] : ~ IdleJob(job) /\ NextJob(r, job)
  /\ UNCHANGED <<vars, removed, submitted, dropped>>

(* Job.objects.filter(pk=job.pk).delete() *)
RequeueDelete(r) ==
  /\ \E job \in jobs[r] :
       /\ IdleJob(job) /\ NextJob(r, job)
       /\ rows' = [rows EXCEPT ![job.msg] = AbsentRow]
       /\ removed' = [removed EXCEPT ![r] = {job}]
  /\ UNCHANGED <<heartbeat, process, copies, in_processing, history, submitted, dropped>>

(* broker.enqueue(msg): the queue the message was in, a retry counter that starts
   again, available at once.  What became of it before does not count any more.
   Fault: nothing is enqueued. *)
RequeueDrop(r) ==
  /\ removed[r] # {}
  /\ removed' = [removed EXCEPT ![r] = {}]
  /\ UNCHANGED <<vars, jobs, submitted, dropped>>

RequeueEnqueue(r) ==
  /\ \E job \in removed[r] :
       /\ rows' = Enqueue(rows, job.msg, job.row.queue, TRUE, 0)
       /\ outcome' = [outcome EXCEPT ![job.msg] = {}]
  /\ removed' = [removed EXCEPT ![r] = {}]
  /\ UNCHANGED <<heartbeat, process, copies, in_processing, sent, resend, claims,
                 jobs, submitted, dropped>>

(* The request ends early: the web process dies, or enqueue gives up. *)
RequeueAbort(r) ==
  /\ "abort" \in AdminEnv
  /\ jobs[r] # {} \/ removed[r] # {}
  /\ jobs' = [jobs EXCEPT ![r] = {}] /\ removed' = [removed EXCEPT ![r] = {}]
  /\ dropped' = dropped \cup MsgsOf(removed[r])
  /\ UNCHANGED <<vars, submitted>>

(* deletable.delete(): the selected jobs that are not consumed when the DELETE
   gets at them.  Fault: the condition is that of the page the user saw. *)
DiscardableAny(S) == S

Discardable(S) == {m \in S : rows[m].state # "consumed"}

Discard(r) ==
  /\ "discard" \in AdminEnv
  /\ Submit(r)
  /\ \E S \in Selections(DiscardPage) :
       /\ rows' = [m \in Messages |-> IF m \in Discardable(S) THEN AbsentRow ELSE rows[m]]
       /\ NoteAll(Discardable(S), "flushed")
  /\ UNCHANGED <<heartbeat, process, copies, in_processing, sent, resend, claims,
                 jobs, removed, dropped>>

AdminStep ==
  \E r \in Requests :
    \/ RequeueSelect(r) \/ RequeueSkip(r) \/ RequeueDelete(r) \/ RequeueEnqueue(r)
    \/ RequeueAbort(r) \/ Discard(r)

AdminNext == AdminStep \/ (Next /\ UNCHANGED admin)

AdminSpec == AdminInit /\ [][AdminNext]_<<vars, admin>>

(* What a request still has to handle. *)
Work(r) == jobs[r] \cup removed[r]

(* Two more assumptions that nothing in the code enforces: no job is in the hands of two
   requests at a time, and nobody requeues from a page that lists queued jobs, which a
   worker may claim after they were read. *)
NoOverlap ==
  \A r, s \in Requests : r # s => MsgsOf(Work(r)) \cap MsgsOf(Work(s)) = {}

CautiousUser == "queued" \notin RequeuePage

(* Users who take care, workers whose first heartbeats are in time. *)
CarefulNext == AdminNext /\ Punctual /\ NoOverlap'

CarefulSpec == AdminInit /\ [][CarefulNext]_<<vars, admin>>

-----------------------------------------------------------------------------
(* Properties. *)

(* The jobs a request deletes and puts back: it has read and not skipped them. *)
Handled(r) == {job \in jobs[r] : IdleJob(job)} \cup removed[r]

(* A message no thread has to deal with: its row is rejected, or was deleted since. *)
Unheld(m) ==
  /\ m \in sent /\ rows[m].state \in {"rejected", "absent"}
  /\ \A c \in copies : c.msg = m => c.stage \notin OwnedStages

(* While LeasesLast, nobody takes up what action_retry has read of an idle job before
   it enqueues it again, one job after the other. *)
JobsUnheld ==
  \A r \in Requests :
    /\ r \notin submitted => Work(r) = {}
    /\ jobs[r] \cap removed[r] = {} /\ \A j, k \in removed[r] : j = k
    /\ \A j, k \in Work(r) : j.msg = k.msg => j = k
    /\ \A j \in Handled(r) : Unheld(j.msg)

AdminExclusive == ExclusiveInv /\ AdminTypeOK /\ NoOverlap /\ JobsUnheld

(* A message that is done with, too: all that is left of its deliveries is the ack of
   its release from the delay queue, which deletes nothing of the base queue. *)
Finished(m) ==
  /\ Unheld(m)
  /\ \A c \in copies : c.msg = m => c.queue = "default.DQ"

(* Only executions are rejected, and only the base queue is executed. *)
RejectedInDefault == \A m \in InState(rows, "rejected") : rows[m].queue = "default"

(* When AcksInTime, what it handles is done with. *)
JobsFinished ==
  \A r \in Requests : \A j \in Handled(r) : Finished(j.msg) /\ j.row.queue = "default"

(* A requeued job starts again: from then on it leaves the table as any other message
   does.  It is lost in one case only, when its request ends between the delete and the
   enqueue; as long as the request lives, it has the job. *)
LostInBetween ==
  \A m \in Messages : Lost(m) => m \in dropped \/ \E r \in Requests : m \in MsgsOf(removed[r])

AdminSafe ==
  /\ AdminExclusive /\ RequeuedElsewhere /\ DecidedFirst
  /\ RejectedInDefault /\ JobsFinished /\ LostInBetween

(* When Timely, the lease holds as well beside the admin's actions. *)
AdminInv == AdminSafe /\ LeaseValid

(* "Actions only touch idle jobs": a requeue or a discard never changes the row of
   a message that a worker holds. *)
ActionsTouchIdle ==
  [][AdminStep => \A m \in InState(rows, "consumed") : rows'[m] = rows[m]]_<<vars, admin>>
=============================================================================
