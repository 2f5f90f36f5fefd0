----------------------------- MODULE Lease_proofs -----------------------------
(***************************************************************************)
(* Theorems about Delivery.  While leases last, an owner without a row in  *)
(* the worker table is about to get one.  The rest is about PunctualSpec,  *)
(* where REAP does not run before that: no message is executed twice at a  *)
(* time, and retries count; when acks are in time, no message is lost; in  *)
(* a timely environment whoever has to deal with a delivery owns its row,  *)
(* and seen from outside the system is the queue of AtLeastOnce.           *)
(***************************************************************************)
EXTENDS Delivery_proofs

LEMMA LastingEnv ==
  ASSUME LeasesLast
  PROVE  /\ "conn_error" \notin Env /\ "stall" \notin Env /\ "recover" \notin Env
         /\ Replies = {TRUE}
BY DEF LeasesLast, Replies

LEMMA TimelyEnv == Timely => AcksInTime /\ LeasesLast /\ "flush" \notin Env
BY DEF Timely, AcksInTime

-----------------------------------------------------------------------------
(* Processes and heartbeats. *)

LEMMA GotoEffect ==
  ASSUME TypeOK, NEW w \in Workers, NEW q \in QueueNames, NEW label, Goto(w, q, label)
  PROVE  /\ pc'[w][q] = label
         /\ \A v \in Workers, p \in QueueNames : v # w \/ p # q => pc'[v][p] = pc[v][p]
BY DEF TypeOK, Goto

LEMMA HeartbeatStep ==
  ASSUME TypeOK, HeartbeatFirst, LeasesLast, [Next]_vars
  PROVE  HeartbeatFirst'
<1>e. /\ "conn_error" \notin Env /\ "stall" \notin Env
  BY LastingEnv
<1>t. TypeOK /\ HeartbeatFirst /\ Consumed \subseteq QueueNames
  BY DeliveryAssumption
<1>q. \A w \in Workers, q \in Consumed :
        /\ pc[w][q] # "off" => Live(w)
        /\ pc[w][q] \in {"heartbeat", "upkeep", "claim"} => w \in marked
  BY <1>t DEF HeartbeatFirst
<1>1. CASE UNCHANGED <<marked, life, pc, heartbeat>>
  BY <1>1, <1>t DEF HeartbeatFirst, Live
<1>2. ASSUME NEW w \in Workers, NEW q \in Consumed, ConsumerStep(w, q) PROVE HeartbeatFirst'
  <2>1. CASE HeartbeatDue(w, q)
    <3>1. pc[w][q] = "next" /\ pc'[w][q] = "heartbeat" /\ UNCHANGED <<life, heartbeat>>
      BY <2>1, <1>t, GotoEffect DEF HeartbeatDue, Ready
    <3>2. marked' = marked \cup {w}
      BY <2>1, <1>t DEF HeartbeatDue, TypeOK
    <3>3. \A v \in Workers, p \in QueueNames : v # w \/ p # q => pc'[v][p] = pc[v][p]
      BY <2>1, <1>t, GotoEffect DEF HeartbeatDue
    <3> QED BY <3>1, <3>2, <3>3, <1>t DEF HeartbeatFirst, Live
  <2>2. CASE HeartbeatRecent(w, q) \/ MaintenanceSkip(w, q) \/ Deliver(w, q) \/ Idle(w, q)
    <3>1. PICK label \in {"next", "upkeep", "claim"} : Goto(w, q, label)
      BY <2>2 DEF HeartbeatRecent, MaintenanceSkip, Deliver, Idle
    <3>2. /\ pc[w][q] \notin {"off", "heartbeat"} /\ UNCHANGED <<marked, life, heartbeat>>
          /\ label = "next" \/ w \in marked
      BY <2>2, <1>t, <1>q, <3>1
         DEF HeartbeatRecent, MaintenanceSkip, Deliver, Idle, Ready, HeartbeatFirst
    <3> QED BY <3>1, <3>2, <1>t, GotoEffect DEF HeartbeatFirst, Live
  <2>3. CASE HeartbeatCommit(w, q)
    <3>1. /\ pc[w][q] = "heartbeat" /\ pc'[w][q] = "upkeep" /\ UNCHANGED <<marked, life>>
          /\ heartbeat'[w] = "fresh" /\ \A v \in Workers \ {w} : heartbeat'[v] = heartbeat[v]
      BY <2>3, <1>t, GotoEffect DEF HeartbeatCommit, TypeOK
    <3>2. \A v \in Workers, p \in QueueNames : v # w \/ p # q => pc'[v][p] = pc[v][p]
      BY <2>3, <1>t, GotoEffect DEF HeartbeatCommit
    <3>3. w \in marked /\ Live(w)
      BY <3>1, <1>q
    <3> QED BY <3>1, <3>2, <1>t DEF HeartbeatFirst, Live
  <2>4. CASE Maintain(w, q)
    <3>1. /\ pc[w][q] = "upkeep" /\ pc'[w][q] = "claim" /\ UNCHANGED <<marked, life>>
          /\ \A v \in Workers, p \in QueueNames : v # w \/ p # q => pc'[v][p] = pc[v][p]
      BY <2>4, <1>t, GotoEffect DEF Maintain
    <3>2. \A v \in Workers : heartbeat'[v] = IF heartbeat[v] = "expired" THEN "none" ELSE heartbeat[v]
      BY <2>4 DEF Maintain, CleanWorkers
    <3> QED BY <3>1, <3>2, <1>t DEF HeartbeatFirst, Live
  <2>5. CASE Claim(w, q)
    BY <2>5, <1>1 DEF Claim, process
  <2> QED BY <1>2, <2>1, <2>2, <2>3, <2>4, <2>5 DEF ConsumerStep
<1>3. ASSUME NEW w \in Workers, NEW q \in Consumed, QuitConsumer(w, q) PROVE HeartbeatFirst'
  <2>1. pc[w][q] = "next" /\ pc'[w][q] = "off" /\ UNCHANGED <<marked, life, heartbeat>>
    BY <1>3, <1>t, GotoEffect DEF QuitConsumer, Ready
  <2> QED BY <1>3, <2>1, <1>t, GotoEffect DEF QuitConsumer, HeartbeatFirst, Live
<1>4. ASSUME NEW w \in Workers, Start(w) PROVE HeartbeatFirst'
  <2>1. /\ life[w] = "new" /\ life'[w] = "up" /\ \A v \in Workers \ {w} : life'[v] = life[v]
        /\ UNCHANGED <<marked, heartbeat>>
        /\ \A q \in QueueNames : pc'[w][q] = IF q \in Consumed THEN "next" ELSE "off"
        /\ \A v \in Workers \ {w}, q \in QueueNames : pc'[v][q] = pc[v][q]
    BY <1>4, <1>t DEF Start, TypeOK
  <2>2. w \notin marked /\ heartbeat[w] = "none"
    BY <2>1, <1>t DEF HeartbeatFirst, Live
  <2> QED BY <2>1, <2>2, <1>t DEF HeartbeatFirst, Live
<1>5. ASSUME NEW w \in Workers, Stop(w) \/ Drain(w) PROVE HeartbeatFirst'
  <2>1. /\ Live(w) /\ life'[w] \in {"stopping", "drained"}
        /\ \A v \in Workers \ {w} : life'[v] = life[v]
        /\ UNCHANGED <<marked, heartbeat, pc>>
    BY <1>5, <1>t DEF Stop, Drain, TypeOK, Live
  <2> QED BY <2>1, <1>t DEF HeartbeatFirst, Live
<1>6. ASSUME NEW w \in Workers, Exit(w) \/ Crash(w) PROVE HeartbeatFirst'
  <2>1. /\ life'[w] = "down" /\ \A v \in Workers \ {w} : life'[v] = life[v]
        /\ marked' = marked \ {w}
        /\ \A q \in QueueNames : pc'[w][q] = "off"
        /\ \A v \in Workers \ {w}, q \in QueueNames : pc'[v][q] = pc[v][q]
        /\ UNCHANGED heartbeat
    BY <1>6, <1>t DEF Exit, Crash, Die, TypeOK
  <2> QED BY <2>1, <1>t DEF HeartbeatFirst, Live
<1>7. ASSUME NEW w \in Workers, Lapse(w) PROVE HeartbeatFirst'
  <2>1. /\ life[w] = "down" /\ UNCHANGED <<marked, life, pc>>
        /\ \A v \in Workers \ {w} : heartbeat'[v] = heartbeat[v]
    BY <1>7, <1>e, <1>t DEF Lapse, process, TypeOK
  <2> QED BY <2>1, <1>t DEF HeartbeatFirst, Live
<1>8. ASSUME NEW w \in Workers, NEW q \in Consumed, ClaimLost(w, q) \/ ConsumerError(w, q)
      PROVE  HeartbeatFirst'
  BY <1>8, <1>e DEF ClaimLost, ConsumerError
<1>9. ASSUME NEW w \in Workers, ThreadStep(w) \/ Release(w) PROVE HeartbeatFirst'
  BY <1>9, <1>1 DEF ThreadStep, Begin, Succeed, Exhaust, Retry, AckDelivery, NackDelivery,
                    Release, process
<1>10. ASSUME NEW m \in Messages, Send(m) \/ SendAgain(m) \/ Due(m) PROVE HeartbeatFirst'
  BY <1>10, <1>1 DEF Send, SendAgain, Due, process
<1>11. CASE CliRecover \/ CliFlush \/ CliPurge
  BY <1>11, <1>1 DEF CliRecover, CliFlush, CliPurge, process
<1>12. ASSUME NEW w \in Workers, RetryLost(w) PROVE HeartbeatFirst'
  BY <1>12, <1>e DEF RetryLost
<1> QED BY <1>1, <1>2, <1>3, <1>4, <1>5, <1>6, <1>7, <1>8, <1>9, <1>10, <1>11, <1>12
        DEF Next, vars

(* No step but a claim gives a row an owner. *)
LEMMA TableKeeps ==
  ASSUME TypeOK, LeasesLast, [Next]_vars, \A w \in Workers, q \in Consumed : ~ Claim(w, q)
  PROVE  KeepsConsumed(rows, rows')
<1>e. "conn_error" \notin Env
  BY LastingEnv
<1>t. rows \in [Messages -> Row]
      /\ \A c \in copies : c.msg \in Messages /\ c.queue \in QueueNames
  BY DEF TypeOK, Copy
<1>u. CASE UNCHANGED rows
  BY <1>u DEF KeepsConsumed
<1>1. ASSUME NEW m \in Messages, Send(m) \/ SendAgain(m) PROVE KeepsConsumed(rows, rows')
  BY <1>1, <1>t, EnqueueMessageKeeps DEF Send, SendAgain
<1>2. ASSUME NEW m \in Messages, Due(m) PROVE KeepsConsumed(rows, rows')
  BY <1>2, <1>t DEF Due, KeepsConsumed, Row
<1>3. ASSUME NEW w \in Workers, NEW q \in Consumed, ConsumerStep(w, q)
      PROVE  KeepsConsumed(rows, rows')
  <2>1. CASE Maintain(w, q)
    BY <2>1, <1>t, MaintainKeeps DEF Maintain
  <2>2. CASE ~ Maintain(w, q)
    BY <2>2, <1>3, <1>u DEF ConsumerStep, HeartbeatDue, HeartbeatRecent, HeartbeatCommit,
                            MaintenanceSkip, Deliver, Idle
  <2> QED BY <2>1, <2>2
<1>4. ASSUME NEW w \in Workers, NEW q \in Consumed,
             ClaimLost(w, q) \/ ConsumerError(w, q) \/ QuitConsumer(w, q)
      PROVE  KeepsConsumed(rows, rows')
  BY <1>4, <1>e, <1>u DEF ClaimLost, ConsumerError, QuitConsumer
<1>5. ASSUME NEW w \in Workers, Release(w) \/ Retry(w) PROVE KeepsConsumed(rows, rows')
  <2>1. \E c \in copies : \E delayed, r : EnqueueMessage(c.msg, delayed, r)
    BY <1>5, Zenon DEF Release, Retry, CopiesAt
  <2> QED BY <2>1, <1>t, EnqueueMessageKeeps
<1>6. ASSUME NEW w \in Workers, AckDelivery(w) \/ NackDelivery(w) PROVE KeepsConsumed(rows, rows')
  <2>1. \E c \in copies : \/ rows' = Ack(rows, c.msg, c.queue)
                           \/ rows' = Nack(rows, c.msg, c.queue, c.retries)
    BY <1>6, Zenon DEF AckDelivery, NackDelivery
  <2> QED BY <2>1, <1>t, AckKeeps, NackKeeps
<1>7. ASSUME NEW w \in Workers,
             \/ Begin(w) \/ Succeed(w) \/ Exhaust(w) \/ RetryLost(w)
             \/ Start(w) \/ Stop(w) \/ Crash(w) \/ Lapse(w)
      PROVE  KeepsConsumed(rows, rows')
  BY <1>7, <1>u DEF Begin, Succeed, Exhaust, RetryLost, Start, Stop, Crash, Lapse
<1>8. ASSUME NEW w \in Workers, Drain(w) \/ Exit(w) PROVE KeepsConsumed(rows, rows')
  BY <1>8, <1>t, RequeueKeeps DEF Drain, Exit
<1>9. CASE CliRecover \/ CliFlush \/ CliPurge
  BY <1>9, <1>t, RequeueKeeps, FlushKeeps, PurgeKeeps
     DEF CliRecover, CliFlush, CliPurge, Recover
<1>10. CASE UNCHANGED vars
  BY <1>10, <1>u DEF vars
<1> QED BY <1>1, <1>2, <1>3, <1>4, <1>5, <1>6, <1>7, <1>8, <1>9, <1>10 DEF Next, ThreadStep

(* A process forgets its heartbeat only when it dies, and does not come back. *)
LEMMA MarkedStays ==
  ASSUME TypeOK, LeasesLast, [Next]_vars, NEW w \in Workers
  PROVE  /\ w \in marked => w \in marked' \/ life'[w] = "down"
         /\ life[w] = "down" => life'[w] = "down"
<1>e. "conn_error" \notin Env
  BY LastingEnv
<1>t. life \in [Workers -> {"new", "up", "stopping", "drained", "down"}]
  BY DEF TypeOK
<1> USE DEF process
<1>1. ASSUME NEW m \in Messages, Send(m) \/ SendAgain(m) \/ Due(m) PROVE UNCHANGED <<life, marked>>
  BY <1>1 DEF Send, SendAgain, Due
<1>2. ASSUME NEW v \in Workers, NEW q \in Consumed, ConsumerStep(v, q) \/ QuitConsumer(v, q)
      PROVE  UNCHANGED life /\ marked \subseteq marked'
  BY <1>2 DEF ConsumerStep, QuitConsumer, HeartbeatDue, HeartbeatRecent, HeartbeatCommit,
              MaintenanceSkip, Maintain, Claim, Deliver, Idle
<1>3. ASSUME NEW v \in Workers, NEW q \in Consumed, ClaimLost(v, q) \/ ConsumerError(v, q)
      PROVE  FALSE
  BY <1>3, <1>e DEF ClaimLost, ConsumerError
<1>4. ASSUME NEW v \in Workers, Release(v) \/ ThreadStep(v) \/ RetryLost(v) \/ Lapse(v)
      PROVE  UNCHANGED <<life, marked>>
  BY <1>4 DEF Release, RetryLost, Lapse, ThreadStep, Begin, Succeed, Exhaust, Retry,
              AckDelivery, NackDelivery
<1>5. ASSUME NEW v \in Workers, Start(v) \/ Stop(v) \/ Drain(v)
      PROVE  /\ UNCHANGED marked /\ life[v] # "down"
             /\ \A u \in Workers \ {v} : life'[u] = life[u]
  BY <1>5, <1>t DEF Start, Stop, Drain
<1>6. ASSUME NEW v \in Workers, Exit(v) \/ Crash(v)
      PROVE  /\ marked' = marked \ {v} /\ life'[v] = "down"
             /\ \A u \in Workers \ {v} : life'[u] = life[u]
  BY <1>6, <1>t DEF Exit, Crash, Die
<1>7. CASE CliRecover \/ CliFlush \/ CliPurge \/ UNCHANGED vars
  BY <1>7 DEF CliRecover, CliFlush, CliPurge, vars
<1> QED BY <1>1, <1>2, <1>3, <1>4, <1>5, <1>6, <1>7 DEF Next

(* ListedInv is inductive on its own. *)
LEMMA ListedStep ==
  ASSUME ListedInv, LeasesLast, [Next]_vars
  PROVE  ListedInv'
<1>t. TypeOK /\ HeartbeatFirst /\ OwnersMarked /\ rows \in [Messages -> Row]
      /\ Consumed \subseteq QueueNames
  BY DeliveryAssumption DEF ListedInv, TypeOK
<1>1. TypeOK' /\ HeartbeatFirst'
  BY <1>t, NextType, HeartbeatStep
<1>2. \A v \in Workers : v \in marked \/ life[v] = "down" => v \in marked' \/ life'[v] = "down"
  BY <1>t, MarkedStays
<1>3. OwnersMarked'
  <2>1. CASE \A w \in Workers, q \in Consumed : ~ Claim(w, q)
    <3>1. KeepsConsumed(rows, rows')
      BY <2>1, <1>t, TableKeeps
    <3> QED BY <3>1, <1>2, <1>t DEF OwnersMarked, KeepsConsumed, InState
  <2>2. ASSUME NEW w \in Workers, NEW q \in Consumed, Claim(w, q) PROVE OwnersMarked'
    <3>1. w \in marked /\ UNCHANGED <<marked, life>>
      BY <2>2, <1>t DEF Claim, MayClaim, HeartbeatFirst, process
    <3>2. PICK S \in Batches(w, q) : ClaimBatch(w, S)
      BY <2>2 DEF Claim
    <3>3. \A m \in Messages : rows'[m].worker = IF m \in S THEN w ELSE rows[m].worker
      BY <3>2, <1>t DEF ClaimBatch, ClaimRows, Row
    <3>4. \A m \in Messages \ S : rows'[m] = rows[m]
      BY <3>2 DEF ClaimBatch, ClaimRows
    <3> QED BY <3>1, <3>3, <3>4, <1>t DEF OwnersMarked, InState
  <2> QED BY <2>1, <2>2
<1> QED BY <1>1, <1>3 DEF ListedInv

LEMMA InitListed == Init => ListedInv
<1> SUFFICES ASSUME Init PROVE ListedInv
  OBVIOUS
<1>1. TypeOK
  BY InitType
<1>2. HeartbeatFirst
  BY DeliveryAssumption DEF Init, HeartbeatFirst, Live
<1>3. OwnersMarked
  BY DEF Init, OwnersMarked, InState, EmptyTable, AbsentRow
<1> QED BY <1>1, <1>2, <1>3 DEF ListedInv

(* The reaper may see a message whose owner is alive and has no row in the worker table
   yet: broker.py has two consumer threads per process, and one may claim while the other
   has noted the first heartbeat and not committed it.  While leases last that is the only
   way: the heartbeat that lists the owner is in the hands of a thread of its process.
   Nothing is assumed about when it commits. *)
THEOREM OwnersBecomeKnown == ASSUME LeasesLast PROVE Spec => []OwnerKnownSoon
<1>1. ListedInv => OwnerKnownSoon
  BY DEF ListedInv, OwnersMarked, HeartbeatFirst, OwnerKnownSoon, InState, Live
<1> QED BY InitListed, ListedStep, <1>1, PTL DEF Spec

-----------------------------------------------------------------------------
(* The parts of ExclusiveInv, step by step.  First the steps that claim nothing and
   enqueue nothing: what is left of the deliveries finds its rows as they were, or
   gone. *)

Kept(m) == rows'[m] = rows[m]

LEMMA TableExclusive ==
  ASSUME ExclusiveInv, ListedInv', copies' \subseteq copies,
         UNCHANGED <<claims, sent, resend>>,
         \A c \in copies' : c.worker \in marked',
         \A m \in Messages \ sent : rows'[m].state = "absent",
         \A c \in copies' : c.stage \in OwnedStages => Kept(c.msg) \/ rows'[c.msg].state = "absent"
  PROVE  ExclusiveInv'
<1> USE DEF ExclusiveInv
<1>2. HoldersAlive'
  BY DEF HoldersAlive
<1>3. ClaimsNumbered'
  BY DEF ClaimsNumbered
<1>4. DeliveriesDistinct'
  BY DEF DeliveriesDistinct
<1>5. StagesFit'
  BY DEF StagesFit
<1>6. OneHolder'
  BY DEF OneHolder, Owns, Kept
<1> QED BY <1>2, <1>3, <1>4, <1>5, <1>6

(* Steps that leave the table and the deliveries alone. *)

delivery == <<rows, copies, sent, resend, claims>>

LEMMA QuietExclusive ==
  ASSUME ExclusiveInv, ListedInv', UNCHANGED delivery, marked \subseteq marked'
  PROVE  ExclusiveInv'
<1> USE DEF ExclusiveInv, delivery
<1>1. \A c \in copies' : c.worker \in marked'
  BY DEF HoldersAlive
<1>3. \A m \in Messages \ sent : rows'[m].state = "absent"
  BY DEF DeliveriesDistinct
<1>4. \A m \in Messages : Kept(m)
  BY DEF Kept
<1>5. \A c \in copies' : c.msg \in Messages
  BY DEF ListedInv, TypeOK, Copy
<1> QED BY <1>1, <1>3, <1>4, <1>5, TableExclusive

(* One delivery per message is in a stage that owns it. *)
LEMMA OneOwner ==
  ASSUME ExclusiveInv, NEW c \in copies, NEW d \in copies, c.msg = d.msg,
         c.stage \in OwnedStages, d.stage \in OwnedStages
  PROVE  c = d
BY DEF ExclusiveInv, OneHolder

(* A row that is queued or rejected has nobody who owns it. *)
LEMMA NoOwner ==
  ASSUME ExclusiveInv, NEW c \in copies, c.stage \in OwnedStages
  PROVE  rows[c.msg].state \in {"consumed", "absent"}
BY DEF ExclusiveInv, OneHolder, Owns

LEMMA Parts ==
  ASSUME ExclusiveInv
  PROVE  /\ rows \in [Messages -> Row] /\ claims \in [Messages -> Nat]
         /\ copies \subseteq Copy /\ sent \subseteq Messages
         /\ \A c \in copies : /\ c.msg \in Messages /\ c.worker \in Workers
                               /\ c.queue \in QueueNames /\ c.retries \in Nat
         /\ \A m \in Messages \ sent : rows[m].state = "absent"
         /\ \A c \in copies : c.worker \in marked
BY DEF ExclusiveInv, ListedInv, TypeOK, Copy, DeliveriesDistinct, HoldersAlive

(* Claiming. *)

LEMMA ClaimEffect ==
  ASSUME ExclusiveInv, LeasesLast, NEW w \in Workers, NEW q \in Consumed, Claim(w, q)
  PROVE  \E S \in SUBSET Messages :
           /\ \A m \in S : rows[m].queue = q /\ rows[m].state = "queued" /\ rows[m].due
           /\ \A m \in S : /\ rows'[m].state = "consumed" /\ rows'[m].worker = w
                            /\ rows'[m].claim = claims[m] + 1 /\ rows'[m].queue = q
                            /\ rows'[m].retries = rows[m].retries
                            /\ claims'[m] = claims[m] + 1
           /\ \A m \in Messages \ S : rows'[m] = rows[m] /\ claims'[m] = claims[m]
           /\ copies' = copies \cup {CopyOf(w, q, m) : m \in S}
<1>1. PICK S \in Batches(w, q) :
        /\ ClaimBatch(w, S)
        /\ copies' = copies \cup {CopyOf(w, q, m) : m \in S}
  BY DEF Claim
<1>2. S \subseteq Messages /\ \A m \in S : rows[m].queue = q /\ rows[m].state = "queued" /\ rows[m].due
  BY DEF Batches, Claimable, InState
<1>3. \A m \in S : /\ rows'[m].state = "consumed" /\ rows'[m].worker = w
                   /\ rows'[m].claim = claims[m] + 1 /\ rows'[m].queue = q
                   /\ rows'[m].retries = rows[m].retries
                   /\ claims'[m] = claims[m] + 1
  BY <1>1, <1>2, Parts DEF ClaimBatch, ClaimRows, Row
<1>4. \A m \in Messages \ S : rows'[m] = rows[m] /\ claims'[m] = claims[m]
  BY <1>1 DEF ClaimBatch, ClaimRows
<1> QED BY <1>1, <1>2, <1>3, <1>4

(* Who claims has noted its first heartbeat. *)
LEMMA ClaimerMarked ==
  ASSUME ExclusiveInv, NEW w \in Workers, NEW q \in Consumed, Claim(w, q)
  PROVE  w \in marked
BY DeliveryAssumption DEF Claim, MayClaim, ExclusiveInv, ListedInv, HeartbeatFirst

LEMMA ClaimExclusive ==
  ASSUME ExclusiveInv, LeasesLast, ListedInv', NEW w \in Workers, NEW q \in Consumed,
         Claim(w, q)
  PROVE  ExclusiveInv'
<1> USE DEF ExclusiveInv
<1>1. PICK S \in SUBSET Messages :
        /\ \A m \in S : rows[m].queue = q /\ rows[m].state = "queued" /\ rows[m].due
        /\ \A m \in S : /\ rows'[m].state = "consumed" /\ rows'[m].worker = w
                         /\ rows'[m].claim = claims[m] + 1 /\ rows'[m].queue = q
                         /\ rows'[m].retries = rows[m].retries
                         /\ claims'[m] = claims[m] + 1
        /\ \A m \in Messages \ S : rows'[m] = rows[m] /\ claims'[m] = claims[m]
        /\ copies' = copies \cup {CopyOf(w, q, m) : m \in S}
  BY ClaimEffect
<1>2. UNCHANGED <<life, marked, pc, heartbeat, sent, resend, outcome>>
  BY DEF Claim, process
<1>3. w \in marked
  BY ClaimerMarked
<1> DEFINE New(m) == CopyOf(w, q, m)
<1>4. \A m \in S : /\ New(m).worker = w /\ New(m).msg = m /\ New(m).queue = q
                   /\ New(m).claim = claims[m] + 1 /\ New(m).stage = "buffer"
                   /\ New(m).retries = rows[m].retries
  BY DEF CopyOf
<1>5. copies' = copies \cup {New(m) : m \in S}
  BY <1>1
<1>6. \A c \in copies : c.msg \in Messages /\ c.claim \in Nat /\ c.claim <= claims[c.msg]
  BY DEF ClaimsNumbered, ListedInv, TypeOK, Copy
<1>7. \A c \in copies : c.msg \in S => c.stage \notin OwnedStages
  BY <1>1, NoOwner
<1>8. claims \in [Messages -> Nat]
  BY DEF ListedInv, TypeOK
<1> HIDE DEF New
<1>9. HoldersAlive'
  BY <1>2, <1>3, <1>4, <1>5 DEF HoldersAlive
<1>10. ClaimsNumbered'
  <2>1. \A c \in copies : c.claim <= claims'[c.msg]
    BY <1>1, <1>6, <1>8
  <2>2. \A m \in S : New(m).claim <= claims'[New(m).msg]
    BY <1>1, <1>4, <1>8
  <2> QED BY <2>1, <2>2, <1>5 DEF ClaimsNumbered
<1>11. DeliveriesDistinct'
  <2>1. \A c \in copies, m \in S : ~ (c.msg = New(m).msg /\ c.claim = New(m).claim)
    <3> SUFFICES ASSUME NEW c \in copies, NEW m \in S, c.msg = m, c.claim = claims[m] + 1
                 PROVE  FALSE
      BY <1>4
    <3> QED BY <1>6, <1>8
  <2>2. \A c, d \in copies' : c.msg = d.msg /\ c.claim = d.claim => c = d
    BY <2>1, <1>4, <1>5 DEF DeliveriesDistinct
  <2>3. \A m \in Messages \ sent : m \notin S
    BY <1>1 DEF DeliveriesDistinct
  <2>4. \A m \in Messages \ sent : rows'[m].state = "absent" /\ \A c \in copies' : c.msg # m
    BY <2>3, <1>1, <1>4, <1>5 DEF DeliveriesDistinct
  <2> QED BY <2>2, <2>4, <1>2 DEF DeliveriesDistinct
<1>12. StagesFit'
  BY <1>4, <1>5 DEF StagesFit
<1>13. OneHolder'
  <2>1. \A c, d \in copies' :
          c.stage \in OwnedStages /\ d.stage \in OwnedStages /\ c.msg = d.msg => c = d
    BY <1>4, <1>5, <1>7 DEF OneHolder
  <2>2. ASSUME NEW c \in copies', c.stage \in OwnedStages
        PROVE  Owns(c)' \/ rows'[c.msg].state = "absent"
    <3>1. CASE c \in copies
      BY <2>2, <3>1, <1>1, <1>6, <1>7 DEF OneHolder, Owns
    <3>2. CASE c \notin copies
      BY <3>2, <1>1, <1>4, <1>5 DEF Owns
    <3> QED BY <3>1, <3>2
  <2> QED BY <2>1, <2>2 DEF OneHolder
<1> QED BY <1>9, <1>10, <1>11, <1>12, <1>13

(* A delivery moves to its next stage. *)

LEMMA MoveToEffect ==
  ASSUME TypeOK, NEW c \in copies, NEW s, MoveTo(c, s)
  PROVE  \E n : /\ copies' = (copies \ {c}) \cup {n}
                /\ n.worker = c.worker /\ n.msg = c.msg /\ n.queue = c.queue
                /\ n.claim = c.claim /\ n.retries = c.retries /\ n.stage = s
<1>1. c \in Copy
  BY DEF TypeOK
<1>2. LET n == [c EXCEPT !.stage = s]
      IN  /\ n.worker = c.worker /\ n.msg = c.msg /\ n.queue = c.queue
          /\ n.claim = c.claim /\ n.retries = c.retries /\ n.stage = s
  BY <1>1 DEF Copy
<1> QED BY <1>2 DEF MoveTo

(* What a move does to the parts that do not depend on the table. *)
LEMMA MoveParts ==
  ASSUME ExclusiveInv, NEW c \in copies, NEW s \in Stages \ {"retrying"}, MoveTo(c, s),
         UNCHANGED <<marked, claims, sent, resend>>,
         s \in {"work", "run", "done", "failed"} => c.queue = "default",
         s = "delay" => c.queue = "default.DQ",
         \A m \in Messages \ {c.msg} : rows'[m] = rows[m]
  PROVE  HoldersAlive' /\ ClaimsNumbered' /\ DeliveriesDistinct' /\ StagesFit'
<1> USE DEF ExclusiveInv, ListedInv
<1>1. PICK n : /\ copies' = (copies \ {c}) \cup {n}
               /\ n.worker = c.worker /\ n.msg = c.msg /\ n.queue = c.queue
               /\ n.claim = c.claim /\ n.retries = c.retries /\ n.stage = s
  BY MoveToEffect
<1>2. HoldersAlive'
  BY <1>1 DEF HoldersAlive
<1>3. ClaimsNumbered'
  BY <1>1 DEF ClaimsNumbered
<1>4. DeliveriesDistinct'
  BY <1>1 DEF DeliveriesDistinct
<1>5. StagesFit'
  BY <1>1 DEF StagesFit
<1> QED BY <1>2, <1>3, <1>4, <1>5

LEMMA MoveExclusive ==
  ASSUME ExclusiveInv, ListedInv', NEW c \in copies, NEW s \in OwnedStages,
         MoveTo(c, s), c.stage \in OwnedStages,
         UNCHANGED <<rows, marked, claims, sent, resend>>,
         s \in {"work", "run", "done", "failed"} => c.queue = "default",
         s = "delay" => c.queue = "default.DQ"
  PROVE  ExclusiveInv'
<1> USE DEF ExclusiveInv, ListedInv
<1>1. PICK n : /\ copies' = (copies \ {c}) \cup {n}
               /\ n.worker = c.worker /\ n.msg = c.msg /\ n.queue = c.queue
               /\ n.claim = c.claim /\ n.retries = c.retries /\ n.stage = s
  BY MoveToEffect
<1>2. HoldersAlive' /\ ClaimsNumbered' /\ DeliveriesDistinct' /\ StagesFit'
  <2>1. s \in Stages \ {"retrying"}
    BY DEF OwnedStages, Stages
  <2> QED BY <2>1, MoveParts
<1>3. OneHolder'
  BY <1>1 DEF OneHolder, Owns
<1> QED BY <1>2, <1>3

(* A delivery is enqueued again: nobody owns the message then. *)
LEMMA EnqueueExclusive ==
  ASSUME ExclusiveInv, ListedInv', NEW c \in copies, NEW delayed, NEW r,
         c.stage \in OwnedStages, EnqueueMessage(c.msg, delayed, r), MoveTo(c, "requeued"),
         UNCHANGED <<marked, claims, sent, resend>>
  PROVE  ExclusiveInv'
<1> USE DEF ExclusiveInv, ListedInv
<1>1. PICK n : /\ copies' = (copies \ {c}) \cup {n}
               /\ n.worker = c.worker /\ n.msg = c.msg /\ n.queue = c.queue
               /\ n.claim = c.claim /\ n.retries = c.retries /\ n.stage = "requeued"
  BY MoveToEffect
<1>2. \A m \in Messages \ {c.msg} : rows'[m] = rows[m]
  BY Parts DEF EnqueueMessage, Enqueue
<1>3. HoldersAlive' /\ ClaimsNumbered' /\ DeliveriesDistinct' /\ StagesFit'
  <2>1. "requeued" \in Stages \ {"retrying"}
    BY DEF Stages
  <2> QED BY <2>1, <1>2, MoveParts
<1>4. OneHolder'
  <2>1. \A d \in copies' : d.stage \in OwnedStages => d \in copies /\ d.msg \in Messages \ {c.msg}
    BY <1>1, OneOwner, Parts DEF OwnedStages
  <2> QED BY <2>1, <1>2 DEF OneHolder, Owns
<1> QED BY <1>3, <1>4

(* Who executes a delivery, hands it over or settles it. *)
LEMMA MoveSteps ==
  ASSUME ExclusiveInv, NEW w \in Workers,
         \/ \E q \in Consumed : Deliver(w, q)
         \/ Begin(w) \/ Succeed(w) \/ Exhaust(w)
  PROVE  /\ UNCHANGED <<rows, marked, claims, sent, resend>>
         /\ \A m \in Messages : outcome[m] \subseteq outcome'[m]
         /\ \E c \in copies, s \in OwnedStages :
              /\ MoveTo(c, s) /\ c.stage \in OwnedStages
              /\ s \in {"work", "run", "done", "failed"} => c.queue = "default"
              /\ s = "delay" => c.queue = "default.DQ"
              /\ s \in {"done", "failed"} => c.stage = "run" /\ outcome'[c.msg] # {}
              /\ s = "done" => "executed" \in outcome'[c.msg]
              /\ UNCHANGED outcome \/ \E what \in {"executed", "exhausted"} :
                                        c.stage = "run" /\ Note(c.msg, what)
<1>1. outcome \in [Messages -> SUBSET Outcomes]
      /\ \A c \in copies : c.msg \in Messages
  BY DEF ExclusiveInv, ListedInv, TypeOK, Copy
<1>2. ASSUME NEW q \in Consumed, Deliver(w, q)
      PROVE  /\ UNCHANGED <<rows, marked, history>>
             /\ \E c \in copies, s \in {"delay", "work"} :
                  /\ MoveTo(c, s) /\ c.stage = "buffer"
                  /\ c.queue = IF s = "delay" THEN "default.DQ" ELSE "default"
  <2>1. PICK c \in CopiesAt(w, q, {"buffer"}) : MoveTo(c, IF q = "default.DQ" THEN "delay" ELSE "work")
    BY <1>2 DEF Deliver
  <2>2. c \in copies /\ c.queue = q /\ c.stage = "buffer" /\ q \in {"default", "default.DQ"}
    BY DeliveryAssumption DEF CopiesAt, QueueNames
  <2>3. UNCHANGED <<rows, marked, history>>
    BY <1>2 DEF Deliver
  <2> QED BY <2>1, <2>2, <2>3
<1>3. CASE \E q \in Consumed : Deliver(w, q)
  BY <1>2, <1>3 DEF history, OwnedStages
<1>4. CASE Begin(w)
  <2>1. PICK c \in CopiesAt(w, "default", {"work"}) : MoveTo(c, "run")
    BY <1>4 DEF Begin
  <2>2. c \in copies /\ c.queue = "default" /\ c.stage = "work"
    BY DEF CopiesAt
  <2>3. UNCHANGED <<rows, marked, claims, sent, resend, outcome>>
    BY <1>4 DEF Begin, process, history
  <2> QED BY <2>1, <2>2, <2>3 DEF OwnedStages
<1>5. CASE Succeed(w) \/ Exhaust(w)
  <2>1. PICK c \in CopiesAt(w, "default", {"run"}), s \in {"done", "failed"},
             what \in {"executed", "exhausted"} :
                MoveTo(c, s) /\ Note(c.msg, what) /\ (s = "done" => what = "executed")
    BY <1>5 DEF Succeed, Exhaust
  <2>2. c \in copies /\ c.queue = "default" /\ c.stage = "run"
    BY DEF CopiesAt
  <2>3. UNCHANGED <<rows, marked, claims, sent, resend>>
    BY <1>5 DEF Succeed, Exhaust, process
  <2>4. /\ \A m \in Messages : outcome[m] \subseteq outcome'[m]
        /\ what \in outcome'[c.msg]
    BY <2>1, <2>2, <1>1 DEF Note, NoteAll
  <2> QED BY <2>1, <2>2, <2>3, <2>4 DEF OwnedStages
<1> QED BY <1>3, <1>4, <1>5

(* A retry, and the release of a delayed message. *)
LEMMA RequeueSteps ==
  ASSUME ExclusiveInv, LeasesLast, NEW w \in Workers, Retry(w) \/ Release(w)
  PROVE  /\ UNCHANGED <<marked, claims, sent, resend, outcome>>
         /\ \E c \in copies, delayed \in BOOLEAN, r \in Nat :
              /\ EnqueueMessage(c.msg, delayed, r) /\ MoveTo(c, "requeued")
              /\ c.stage \in OwnedStages /\ r >= c.retries
              /\ IF c.queue = "default" THEN delayed \in RetryDelays ELSE ~ delayed
<1>1. Replies = {TRUE}
  BY LastingEnv
<1>2. \A c \in copies : c.stage # "retrying" /\ c.retries \in Nat
  BY DEF ExclusiveInv, ListedInv, StagesFit, TypeOK, Copy
<1>3. CASE Retry(w)
  <2>1. PICK c \in CopiesAt(w, "default", {"run", "retrying"}), delayed \in RetryDelays :
          EnqueueMessage(c.msg, delayed, c.retries + 1) /\ MoveTo(c, "requeued")
    <3>1. PICK c \in CopiesAt(w, "default", {"run", "retrying"}), delayed \in RetryDelays,
               reply \in Replies :
            /\ EnqueueMessage(c.msg, delayed, c.retries + 1)
            /\ MoveTo(c, IF reply THEN "requeued" ELSE "retrying")
      BY <1>3, Zenon DEF Retry
    <3>2. reply = TRUE
      BY <1>1
    <3> QED BY <3>1, <3>2, Zenon
  <2>2. c \in copies /\ c.queue = "default" /\ c.stage = "run" /\ delayed \in BOOLEAN
    BY <1>2, DeliveryAssumption DEF CopiesAt
  <2>3. c.retries + 1 \in Nat /\ c.retries + 1 >= c.retries
    BY <1>2, <2>2
  <2>4. UNCHANGED <<marked, claims, sent, resend, outcome>>
    BY <1>3 DEF Retry, process, history
  <2> QED BY <2>1, <2>2, <2>3, <2>4 DEF OwnedStages
<1>4. CASE Release(w)
  <2>1. PICK c \in CopiesAt(w, "default.DQ", {"delay", "retrying"}) :
          EnqueueMessage(c.msg, FALSE, c.retries) /\ MoveTo(c, "requeued")
    <3>1. PICK c \in CopiesAt(w, "default.DQ", {"delay", "retrying"}), reply \in Replies :
            /\ EnqueueMessage(c.msg, FALSE, c.retries)
            /\ MoveTo(c, IF reply THEN "requeued" ELSE "retrying")
      BY <1>4, Zenon DEF Release
    <3>2. reply = TRUE
      BY <1>1
    <3> QED BY <3>1, <3>2, Zenon
  <2>2. c \in copies /\ c.queue = "default.DQ" /\ c.stage = "delay"
    BY <1>2 DEF CopiesAt
  <2>3. c.retries \in Nat /\ c.retries >= c.retries
    BY <1>2, <2>2
  <2>4. UNCHANGED <<marked, claims, sent, resend, outcome>>
    BY <1>4 DEF Release, process, history
  <2> QED BY <2>1, <2>2, <2>3, <2>4 DEF OwnedStages
<1> QED BY <1>3, <1>4

(* An ack or a nack: the delivery goes, and the table forgets or rejects the message
   if it finds it where the delivery had it. *)
LEMMA SettleSteps ==
  ASSUME LeasesLast, NEW w \in Workers, AckDelivery(w) \/ NackDelivery(w)
  PROVE  /\ UNCHANGED <<marked, claims, sent, resend, outcome>>
         /\ \E c \in copies :
              /\ copies' = copies \ {c}
              /\ \/ c.stage \in {"done", "requeued"} /\ rows' = Ack(rows, c.msg, c.queue)
                 \/ c.stage = "failed" /\ rows' = Nack(rows, c.msg, c.queue, c.retries)
<1>1. Replies = {TRUE}
  BY LastingEnv
<1>2. CASE AckDelivery(w)
  <2>1. PICK c \in copies, reply \in Replies :
          /\ c.stage \in {"done", "requeued"} /\ rows' = Ack(rows, c.msg, c.queue)
          /\ Settled(c, reply)
    BY <1>2, Zenon DEF AckDelivery
  <2>2. copies' = copies \ {c}
    BY <1>1, <2>1 DEF Settled
  <2> QED BY <1>2, <2>1, <2>2 DEF AckDelivery, process, history
<1>3. CASE NackDelivery(w)
  <2>1. PICK c \in copies, reply \in Replies :
          /\ c.stage = "failed" /\ rows' = Nack(rows, c.msg, c.queue, c.retries)
          /\ Settled(c, reply)
    BY <1>3, Zenon DEF NackDelivery
  <2>2. copies' = copies \ {c}
    BY <1>1, <2>1 DEF Settled
  <2> QED BY <1>3, <2>1, <2>2 DEF NackDelivery, process, history
<1> QED BY <1>2, <1>3

LEMMA SettleExclusive ==
  ASSUME ExclusiveInv, LeasesLast, ListedInv', NEW w \in Workers,
         AckDelivery(w) \/ NackDelivery(w)
  PROVE  ExclusiveInv'
<1>1. UNCHANGED <<marked, claims, sent, resend, outcome>>
  BY SettleSteps
<1>2. PICK c \in copies :
        /\ copies' = copies \ {c}
        /\ \/ c.stage \in {"done", "requeued"} /\ rows' = Ack(rows, c.msg, c.queue)
           \/ c.stage = "failed" /\ rows' = Nack(rows, c.msg, c.queue, c.retries)
  BY SettleSteps
<1>4. \A m \in Messages \ {c.msg} : Kept(m)
  BY <1>2, Parts DEF Ack, Nack, Kept
<1>5. \A m \in Messages \ sent : rows'[m].state = "absent"
  BY <1>2, Parts DEF Ack, Nack
<1>6. ASSUME NEW d \in copies', d.stage \in OwnedStages
      PROVE  Kept(d.msg) \/ rows'[d.msg].state = "absent"
  <2>1. CASE d.msg # c.msg
    BY <2>1, <1>2, <1>4, Parts
  <2>2. CASE d.msg = c.msg
    <3>1. c.stage \notin OwnedStages
      BY <1>2, <1>6, <2>2, OneOwner
    <3>2. rows' = Ack(rows, c.msg, c.queue)
      BY <3>1, <1>2 DEF OwnedStages
    <3> QED BY <2>2, <3>2, Parts DEF Ack, Kept, AbsentRow
  <2> QED BY <2>1, <2>2
<1>7. /\ \A d \in copies' : d.worker \in marked'
      /\ copies' \subseteq copies /\ UNCHANGED <<claims, sent, resend>>
  BY <1>1, <1>2, Parts
<1> QED BY <1>5, <1>6, <1>7, TableExclusive

(* REAP takes from nobody who lives, provided the first heartbeat of every owner has
   committed. *)
LEMMA MaintainExclusive ==
  ASSUME ExclusiveInv, ListedInv', OwnersListed, NEW w \in Workers, NEW q \in Consumed, Maintain(w, q)
  PROVE  ExclusiveInv'
<1>1. PICK old \in SUBSET InState(rows, "rejected") : rows' = Purge(Reap(rows, AliveWorkers), old)
  BY DEF Maintain
<1>2. \A m \in Messages :
        rows'[m] = IF rows[m].state = "rejected" /\ m \in old THEN AbsentRow
                   ELSE IF rows[m].state = "consumed" /\ rows[m].worker \notin AliveWorkers
                        THEN Requeued(rows[m]) ELSE rows[m]
  <2>1. \A m \in Messages : Requeued(rows[m]).state = "queued"
    BY Parts DEF Requeued, Row
  <2> QED BY <1>1, <2>1 DEF Purge, Reap, Requeue, InState
<1>3. UNCHANGED <<marked, copies, claims, sent, resend>>
  BY DEF Maintain
<1>5. \A m \in Messages \ sent : rows'[m].state = "absent"
  BY <1>2, Parts
<1>6. ASSUME NEW c \in copies, c.stage \in OwnedStages
      PROVE  Kept(c.msg) \/ rows'[c.msg].state = "absent"
  <2>1. CASE rows[c.msg].state = "absent"
    BY <2>1, <1>2, Parts
  <2>2. CASE Owns(c)
    <3>1. c.worker \in marked /\ c.worker \in Workers /\ heartbeat[c.worker] \in {"none", "fresh"}
      BY Parts DEF ExclusiveInv, ListedInv, HeartbeatFirst
    <3>2. c.msg \in InState(rows, "consumed") /\ rows[c.msg].worker = c.worker
      BY <2>2, Parts DEF Owns, InState
    <3>3. c.worker \in AliveWorkers
      BY <3>1, <3>2 DEF OwnersListed, Unlisted, AliveWorkers
    <3> QED BY <2>2, <3>2, <3>3, <1>2, Parts DEF Kept, Owns
  <2> QED BY <2>1, <2>2, <1>6 DEF ExclusiveInv, OneHolder
<1>7. \A c \in copies' : c.worker \in marked'
  BY <1>3, Parts
<1> QED BY <1>3, <1>5, <1>6, <1>7, TableExclusive

(* The end of a process: what it gives back was its own, or is gone. *)
LEMMA EndSteps ==
  ASSUME ExclusiveInv, NEW w \in Workers, Drain(w) \/ Exit(w) \/ Crash(w)
  PROVE  /\ UNCHANGED <<claims, sent, resend, outcome>>
         /\ \A c \in copies' : c.worker \in marked'
         /\ \E C \in SUBSET copies :
              /\ copies' \subseteq copies \ C /\ \A c \in C : c.stage \in OwnedStages
              /\ rows' = Requeue(rows, MsgsOf(C))
<1>1. \A c \in copies : c.worker \in marked
  BY Parts
<1>3. CASE Drain(w)
  <2>2. \A c \in copies' : c.worker \in marked'
    BY <1>1, <1>3 DEF Drain
  <2> DEFINE C == CopiesAt(w, "default", {"work"})
  <2>3. C \in SUBSET copies /\ \A c \in C : c.stage \in OwnedStages
    BY DEF CopiesAt, OwnedStages
  <2>4. rows' = Requeue(rows, MsgsOf(C)) /\ copies' \subseteq copies \ C
        /\ UNCHANGED <<claims, sent, resend, outcome>>
    BY <1>3 DEF Drain, history
  <2> HIDE DEF C
  <2> QED BY <2>2, <2>3, <2>4
<1>4. CASE Exit(w)
  <2>1. \A c \in copies' : c.worker \in marked'
    BY <1>1, <1>4 DEF Exit, Die
  <2> DEFINE C == CopiesAt(w, "default.DQ", {"delay"})
  <2>2. C \in SUBSET copies /\ \A c \in C : c.stage \in OwnedStages
    BY DEF CopiesAt, OwnedStages
  <2>3. rows' = Requeue(rows, MsgsOf(C)) /\ copies' \subseteq copies \ C
        /\ UNCHANGED <<claims, sent, resend, outcome>>
    BY <1>4 DEF Exit, Die, history, CopiesAt
  <2> HIDE DEF C
  <2> QED BY <2>1, <2>2, <2>3
<1>5. CASE Crash(w)
  <2>1. /\ \A c \in copies' : c.worker \in marked'
        /\ copies' \subseteq copies /\ UNCHANGED <<rows, claims, sent, resend, outcome>>
    BY <1>1, <1>5 DEF Crash, Die, history
  <2>2. rows' = Requeue(rows, MsgsOf({}))
    BY <2>1, Parts DEF Requeue, MsgsOf
  <2> QED BY <2>1, <2>2
<1> QED BY <1>3, <1>4, <1>5

LEMMA EndExclusive ==
  ASSUME ExclusiveInv, ListedInv', NEW w \in Workers, Drain(w) \/ Exit(w) \/ Crash(w)
  PROVE  ExclusiveInv'
<1>1. /\ UNCHANGED <<claims, sent, resend, outcome>>
      /\ \A c \in copies' : c.worker \in marked'
  BY EndSteps
<1>2. PICK C \in SUBSET copies :
        /\ copies' \subseteq copies \ C /\ \A c \in C : c.stage \in OwnedStages
        /\ rows' = Requeue(rows, MsgsOf(C))
  BY EndSteps
<1>4. \A m \in Messages \ sent : rows'[m].state = "absent"
  BY <1>2, Parts DEF Requeue
<1>5. ASSUME NEW d \in copies', d.stage \in OwnedStages PROVE Kept(d.msg)
  <2>1. \A c \in C : c.msg # d.msg
    BY <1>2, <1>5, OneOwner
  <2>2. d.msg \notin MsgsOf(C) /\ d.msg \in Messages
    BY <1>2, <2>1, Parts DEF MsgsOf
  <2> QED BY <1>2, <2>2 DEF Requeue, Kept
<1> QED BY <1>1, <1>2, <1>4, <1>5, TableExclusive

(* Operators delete: what was a holder's is gone. *)
LEMMA DeleteExclusive ==
  ASSUME ExclusiveInv, ListedInv', CliPurge \/ CliFlush
  PROVE  ExclusiveInv'
<1>1. UNCHANGED <<marked, copies, claims, sent, resend>>
  BY DEF CliPurge, CliFlush, process, history
<1>2. \A m \in Messages : Kept(m) \/ rows'[m].state = "absent"
  BY DEF CliPurge, CliFlush, Purge, Flush, AbsentRow, Kept
<1>4. \A m \in Messages \ sent : rows'[m].state = "absent"
  BY <1>2, Parts DEF Kept
<1>5. \A c \in copies' : Kept(c.msg) \/ rows'[c.msg].state = "absent"
  BY <1>1, <1>2, Parts
<1>6. \A c \in copies' : c.worker \in marked'
  BY <1>1, Parts
<1> QED BY <1>1, <1>4, <1>5, <1>6, TableExclusive

(* The client and the clock. *)

LEMMA SendSteps ==
  ASSUME ExclusiveInv, LeasesLast, NEW m \in Messages, Send(m)
  PROVE  /\ m \notin sent /\ sent' = sent \cup {m} /\ resend' = {}
         /\ rows'[m].state = "queued" /\ \A n \in Messages \ {m} : rows'[n] = rows[n]
         /\ \A c \in copies : c.msg # m
         /\ UNCHANGED <<marked, copies, claims, outcome>>
<1>1. /\ m \notin sent /\ sent' = sent \cup {m}
      /\ UNCHANGED <<marked, copies, claims, outcome>>
  BY DEF Send, process
<1>2. /\ rows'[m].state = "queued"
      /\ \A n \in Messages \ {m} : rows'[n] = rows[n]
  BY Parts DEF Send, EnqueueMessage, Enqueue
<1>3. resend' = {}
  <2>1. Replies = {TRUE}
    BY LastingEnv
  <2>2. PICK delayed \in BOOLEAN, reply \in Replies :
          resend' = IF reply THEN resend ELSE resend \cup {<<m, delayed>>}
    BY Zenon DEF Send
  <2>3. reply = TRUE
    BY <2>1
  <2> QED BY <2>2, <2>3 DEF ExclusiveInv, DeliveriesDistinct
<1>4. \A c \in copies : c.msg # m
  BY <1>1 DEF ExclusiveInv, DeliveriesDistinct
<1> QED BY <1>1, <1>2, <1>3, <1>4

LEMMA SendExclusive ==
  ASSUME ExclusiveInv, LeasesLast, ListedInv', NEW m \in Messages, Send(m)
  PROVE  ExclusiveInv'
<1> USE DEF ExclusiveInv
<1>1. /\ m \notin sent /\ sent' = sent \cup {m} /\ resend' = {}
      /\ rows'[m].state = "queued" /\ \A n \in Messages \ {m} : rows'[n] = rows[n]
      /\ \A c \in copies : c.msg # m /\ c.msg \in Messages
      /\ UNCHANGED <<marked, copies, claims, outcome>>
  BY SendSteps, Parts
<1>2. HoldersAlive'
  BY <1>1 DEF HoldersAlive
<1>3. ClaimsNumbered' /\ StagesFit'
  BY <1>1 DEF ClaimsNumbered, StagesFit
<1>4. DeliveriesDistinct'
  <2>1. \A n \in Messages \ sent' : rows'[n].state = "absent" /\ \A c \in copies : c.msg # n
    BY <1>1 DEF DeliveriesDistinct
  <2> QED BY <2>1, <1>1 DEF DeliveriesDistinct
<1>5. OneHolder'
  BY <1>1 DEF OneHolder, Owns
<1> QED BY <1>2, <1>3, <1>4, <1>5

LEMMA DueSteps ==
  ASSUME ExclusiveInv, NEW m \in Messages, Due(m)
  PROVE  /\ rows[m].state = "queued" /\ rows'[m].state = "queued"
         /\ rows'[m].queue = rows[m].queue /\ rows'[m].retries = rows[m].retries
         /\ \A n \in Messages \ {m} : Kept(n)
         /\ UNCHANGED <<marked, copies, claims, sent, resend, outcome>>
<1>1. rows \in [Messages -> Row] /\ rows[m] \in Row
  BY Parts
<1>2. rows' = [rows EXCEPT ![m].due = TRUE] /\ rows[m].state = "queued"
  BY DEF Due
<1>3. rows'[m] = [rows[m] EXCEPT !.due = TRUE] /\ \A n \in Messages \ {m} : rows'[n] = rows[n]
  BY <1>1, <1>2
<1> QED BY <1>1, <1>2, <1>3 DEF Due, process, history, Row, Kept

LEMMA DueExclusive ==
  ASSUME ExclusiveInv, ListedInv', NEW m \in Messages, Due(m)
  PROVE  ExclusiveInv'
<1>1. /\ rows[m].state = "queued" /\ rows'[m].state = "queued"
      /\ \A n \in Messages \ {m} : Kept(n)
      /\ UNCHANGED <<marked, copies, claims, sent, resend>>
  BY DueSteps
<1>3. \A n \in Messages \ sent : rows'[n].state = "absent"
  BY <1>1, Parts DEF Kept
<1>4. \A c \in copies' : c.stage \in OwnedStages => Kept(c.msg)
  BY <1>1, NoOwner, Parts
<1>5. \A c \in copies' : c.worker \in marked'
  BY <1>1, Parts
<1> QED BY <1>1, <1>3, <1>4, <1>5, TableExclusive

-----------------------------------------------------------------------------
LEMMA InitExclusive == Init => ExclusiveInv
<1> SUFFICES ASSUME Init PROVE ExclusiveInv
  OBVIOUS
<1>1. ListedInv
  BY InitListed
<1>3. \A m \in Messages : rows[m].state = "absent"
  BY DEF Init, EmptyTable, AbsentRow
<1>4. copies = {} /\ sent = {} /\ resend = {}
  BY DEF Init
<1>5. HoldersAlive
  BY <1>4 DEF HoldersAlive
<1>6. ClaimsNumbered /\ DeliveriesDistinct /\ StagesFit /\ OneHolder
  BY <1>3, <1>4 DEF ClaimsNumbered, DeliveriesDistinct, StagesFit, OneHolder
<1> QED BY <1>1, <1>5, <1>6 DEF ExclusiveInv

(* Steps that touch neither the table nor a delivery: threads between two
   transactions, heartbeats, the life of a process, the ageing of heartbeats. *)
LEMMA QuietSteps ==
  ASSUME \/ UNCHANGED vars
         \/ \E w \in Workers, q \in Consumed :
              \/ HeartbeatDue(w, q) \/ HeartbeatRecent(w, q) \/ HeartbeatCommit(w, q)
              \/ MaintenanceSkip(w, q) \/ Idle(w, q) \/ QuitConsumer(w, q)
         \/ \E w \in Workers : Start(w) \/ Stop(w) \/ Lapse(w)
  PROVE  /\ UNCHANGED delivery /\ UNCHANGED outcome
         /\ marked \subseteq marked'
<1> USE DEF delivery, process, history
<1>1. CASE UNCHANGED vars
  BY <1>1 DEF vars
<1>2. ASSUME NEW w \in Workers, NEW q \in Consumed,
             \/ HeartbeatDue(w, q) \/ HeartbeatRecent(w, q) \/ HeartbeatCommit(w, q)
             \/ MaintenanceSkip(w, q) \/ Idle(w, q) \/ QuitConsumer(w, q)
      PROVE  UNCHANGED delivery /\ UNCHANGED outcome /\ marked \subseteq marked'
  BY <1>2 DEF HeartbeatDue, HeartbeatRecent, HeartbeatCommit, MaintenanceSkip, Idle, QuitConsumer
<1>3. ASSUME NEW w \in Workers, Start(w) \/ Stop(w) \/ Lapse(w)
      PROVE  UNCHANGED delivery /\ UNCHANGED outcome /\ UNCHANGED marked
  BY <1>3 DEF Start, Stop, Lapse
<1> QED BY <1>1, <1>2, <1>3

LEMMA NextExclusive ==
  ASSUME LeasesLast, ExclusiveInv, [PunctualNext]_vars
  PROVE  ExclusiveInv'
<1>n. [Next]_vars /\ (UNCHANGED vars \/ Punctual)
  BY DEF PunctualNext
<1>1. ListedInv'
  BY <1>n, ListedStep DEF ExclusiveInv
<1>e. "conn_error" \notin Env /\ "recover" \notin Env
  BY LastingEnv
<1>2. CASE \/ UNCHANGED vars
           \/ \E w \in Workers, q \in Consumed :
                \/ HeartbeatDue(w, q) \/ HeartbeatRecent(w, q) \/ HeartbeatCommit(w, q)
                \/ MaintenanceSkip(w, q) \/ Idle(w, q) \/ QuitConsumer(w, q)
           \/ \E w \in Workers : Start(w) \/ Stop(w) \/ Lapse(w)
  BY <1>1, <1>2, QuietSteps, QuietExclusive
<1>3. ASSUME NEW w \in Workers,
             \/ \E q \in Consumed : Deliver(w, q)
             \/ Begin(w) \/ Succeed(w) \/ Exhaust(w)
      PROVE  ExclusiveInv'
  BY <1>1, <1>3, MoveSteps, MoveExclusive
<1>4. ASSUME NEW w \in Workers, Retry(w) \/ Release(w) PROVE ExclusiveInv'
  <2>1. UNCHANGED <<marked, claims, sent, resend>>
        /\ \E c \in copies, delayed \in BOOLEAN, r \in Nat :
             /\ EnqueueMessage(c.msg, delayed, r) /\ MoveTo(c, "requeued")
             /\ c.stage \in OwnedStages
    BY <1>4, RequeueSteps, Zenon
  <2> QED BY <1>1, <2>1, EnqueueExclusive
<1>5. ASSUME NEW w \in Workers, AckDelivery(w) \/ NackDelivery(w) PROVE ExclusiveInv'
  BY <1>1, <1>5, SettleExclusive
<1>6. ASSUME NEW w \in Workers, NEW q \in Consumed, Claim(w, q) PROVE ExclusiveInv'
  BY <1>1, <1>6, ClaimExclusive
<1>12. ASSUME NEW w \in Workers, NEW q \in Consumed, Maintain(w, q) PROVE ExclusiveInv'
  <2>1. CASE Punctual
    BY <2>1, <1>1, <1>12, MaintainExclusive DEF Punctual
  <2> QED BY <2>1, <1>2, <1>n
<1>7. ASSUME NEW w \in Workers, Drain(w) \/ Exit(w) \/ Crash(w) PROVE ExclusiveInv'
  BY <1>1, <1>7, EndExclusive
<1>8. ASSUME NEW m \in Messages, Send(m) \/ Due(m) PROVE ExclusiveInv'
  BY <1>1, <1>8, SendExclusive, DueExclusive
<1>9. ASSUME NEW m \in Messages, SendAgain(m) PROVE ExclusiveInv'
  BY <1>9 DEF SendAgain, ExclusiveInv, DeliveriesDistinct
<1>10. CASE CliRecover \/ CliFlush \/ CliPurge
  BY <1>1, <1>10, <1>e, DeleteExclusive DEF CliRecover
<1>11. ASSUME NEW w \in Workers,
              RetryLost(w) \/ \E q \in Consumed : ClaimLost(w, q) \/ ConsumerError(w, q)
       PROVE  ExclusiveInv'
  BY <1>11, <1>e DEF RetryLost, ClaimLost, ConsumerError
<1> QED BY <1>2, <1>3, <1>4, <1>5, <1>6, <1>7, <1>8, <1>9, <1>10, <1>11, <1>12,
           <1>n DEF Next, ConsumerStep, ThreadStep

(* While leases last, one delivery at a time has to deal with a message, and what it
   finds is its own row or none: heartbeats, claims and stages fit together. *)
THEOREM ExclusiveInvariant == ASSUME LeasesLast PROVE PunctualSpec => []ExclusiveInv
BY InitExclusive, NextExclusive, PTL DEF PunctualSpec

(* While leases last no message is executed by two threads at a time, of one
   process or of two, whatever operators delete and however late acks are. *)
THEOREM ExecutedOnceAtATime == ASSUME LeasesLast PROVE PunctualSpec => []NoDoubleExecution
<1>1. ExclusiveInv => NoDoubleExecution
  <2> SUFFICES ASSUME ExclusiveInv, NEW c \in copies, NEW d \in copies,
                      c.stage = "run", d.stage = "run", c.msg = d.msg
               PROVE  c = d
    BY DEF NoDoubleExecution
  <2> QED BY OneOwner DEF OwnedStages
<1> QED BY <1>1, ExclusiveInvariant, PTL

-----------------------------------------------------------------------------
(* The retry counter.  A retry and a release write the counter of the delivery,
   which is that of its row if there still is one. *)

NoneReset ==
  \A m \in Messages :
    rows[m].state # "absent" /\ rows'[m].state # "absent" => rows'[m].retries >= rows[m].retries

LEMMA CounterKept ==
  ASSUME ExclusiveInv,
         \A m \in Messages : rows'[m].state # "absent" => rows'[m].retries = rows[m].retries
  PROVE  NoneReset
<1>1. \A m \in Messages : rows[m].retries \in Nat
  BY Parts DEF Row
<1> QED BY <1>1 DEF NoneReset

(* The statements that do not write the counter. *)
LEMMA SameCounter ==
  ASSUME NEW t \in [Messages -> Row], NEW m \in Messages
  PROVE  /\ \A S : Requeue(t, S)[m].retries = t[m].retries
         /\ \A old : Purge(t, old)[m].state # "absent" => Purge(t, old)[m].retries = t[m].retries
         /\ Flush(t)[m].state # "absent" => Flush(t)[m].retries = t[m].retries
         /\ \A q : Ack(t, m, q)[m].state # "absent" => Ack(t, m, q)[m].retries = t[m].retries
<1>1. t[m] \in Row
  OBVIOUS
<1>2. \A S : Requeue(t, S)[m].retries = t[m].retries
  BY <1>1 DEF Requeue, Requeued, Row
<1> QED BY <1>2 DEF Purge, Flush, Ack, AbsentRow

LEMMA NextCounter ==
  ASSUME LeasesLast, ExclusiveInv, [Next]_vars
  PROVE  NoneReset
<1>e. "conn_error" \notin Env /\ "recover" \notin Env
  BY LastingEnv
<1>t. /\ rows \in [Messages -> Row]
      /\ \A m \in Messages : rows[m] \in Row /\ rows[m].retries \in Nat
      /\ \A c \in copies : c.msg \in Messages /\ c.retries \in Nat
      /\ \A c \in copies :
           c.stage \in OwnedStages => rows[c.msg].state = "absent" \/ rows[c.msg].retries = c.retries
  BY Parts DEF Row, ExclusiveInv, OneHolder, Owns
<1> USE DEF process, history
<1>1. CASE UNCHANGED rows
  BY <1>1, CounterKept
<1>2. ASSUME NEW m \in Messages, Send(m) PROVE NoneReset
  <2>1. rows[m].state = "absent" /\ \A n \in Messages \ {m} : rows'[n] = rows[n]
    BY <1>2, Parts, SendSteps DEF Send
  <2> QED BY <2>1, <1>t DEF NoneReset
<1>3. ASSUME NEW m \in Messages, SendAgain(m) PROVE NoneReset
  BY <1>3 DEF SendAgain, ExclusiveInv, DeliveriesDistinct
<1>4. ASSUME NEW m \in Messages, Due(m) PROVE NoneReset
  BY <1>4, CounterKept, DueSteps DEF Kept
<1>5. ASSUME NEW w \in Workers, NEW q \in Consumed, Claim(w, q) PROVE NoneReset
  BY <1>5, CounterKept, ClaimEffect
<1>6. ASSUME NEW w \in Workers, NEW q \in Consumed, Maintain(w, q) PROVE NoneReset
  <2>1. PICK old : rows' = Purge(Reap(rows, AliveWorkers), old)
    BY <1>6 DEF Maintain
  <2>2. Reap(rows, AliveWorkers) \in [Messages -> Row]
    BY <1>t, ReapType
  <2>3. \A m \in Messages : Reap(rows, AliveWorkers)[m].retries = rows[m].retries
    BY <1>t, SameCounter DEF Reap
  <2> QED BY <2>1, <2>2, <2>3, SameCounter, CounterKept
<1>7. ASSUME NEW w \in Workers, Retry(w) \/ Release(w) PROVE NoneReset
  <2>1. PICK c \in copies, delayed \in BOOLEAN, r \in Nat :
          /\ EnqueueMessage(c.msg, delayed, r) /\ c.stage \in OwnedStages /\ r >= c.retries
    BY <1>7, RequeueSteps, Zenon
  <2>2. rows'[c.msg].retries = r /\ \A m \in Messages \ {c.msg} : rows'[m] = rows[m]
    BY <2>1, <1>t DEF EnqueueMessage, Enqueue
  <2> QED BY <2>1, <2>2, <1>t DEF NoneReset
<1>8. ASSUME NEW w \in Workers, AckDelivery(w) \/ NackDelivery(w) PROVE NoneReset
  <2>1. PICK c \in copies :
          \/ rows' = Ack(rows, c.msg, c.queue)
          \/ c.stage = "failed" /\ rows' = Nack(rows, c.msg, c.queue, c.retries)
    BY <1>8, SettleSteps
  <2>2. CASE rows' = Ack(rows, c.msg, c.queue)
    <3>1. \A m \in Messages \ {c.msg} : rows'[m] = rows[m]
      BY <2>2, <1>t DEF Ack
    <3> QED BY <2>2, <3>1, <1>t, SameCounter, CounterKept
  <2>3. CASE c.stage = "failed" /\ rows' = Nack(rows, c.msg, c.queue, c.retries)
    <3>1. rows[c.msg].state = "absent" \/ rows[c.msg].retries = c.retries
      BY <2>3, <1>t DEF OwnedStages
    <3>2. Rejected(rows[c.msg], c.retries).retries = c.retries
      BY <1>t DEF Rejected, Row
    <3> QED BY <2>3, <3>1, <3>2, <1>t, CounterKept DEF Nack
  <2> QED BY <2>1, <2>2, <2>3
<1>9. ASSUME NEW w \in Workers, Drain(w) \/ Exit(w) \/ Crash(w) PROVE NoneReset
  <2>1. \E S : rows' = Requeue(rows, S)
    BY <1>9, EndSteps
  <2> QED BY <2>1, <1>t, SameCounter, CounterKept
<1>10. CASE CliRecover \/ CliFlush \/ CliPurge
  <2>1. rows' = Flush(rows) \/ \E old : rows' = Purge(rows, old)
    BY <1>10, <1>e DEF CliRecover, CliFlush, CliPurge
  <2> QED BY <2>1, <1>t, SameCounter, CounterKept
<1>11. ASSUME NEW w \in Workers,
              RetryLost(w) \/ \E q \in Consumed : ClaimLost(w, q) \/ ConsumerError(w, q)
       PROVE  NoneReset
  BY <1>11, <1>e DEF RetryLost, ClaimLost, ConsumerError
<1>12. ASSUME NEW w \in Workers,
              \/ \E q \in Consumed : Deliver(w, q)
              \/ Begin(w) \/ Succeed(w) \/ Exhaust(w)
       PROVE  NoneReset
  BY <1>12, <1>1, MoveSteps
<1>13. CASE \/ UNCHANGED vars
            \/ \E w \in Workers, q \in Consumed :
                 \/ HeartbeatDue(w, q) \/ HeartbeatRecent(w, q) \/ HeartbeatCommit(w, q)
                 \/ MaintenanceSkip(w, q) \/ Idle(w, q) \/ QuitConsumer(w, q)
            \/ \E w \in Workers : Start(w) \/ Stop(w) \/ Lapse(w)
  BY <1>13, <1>1, QuietSteps DEF delivery
<1> QED BY <1>2, <1>3, <1>4, <1>5, <1>6, <1>7, <1>8, <1>9, <1>10, <1>11, <1>12, <1>13
        DEF Next, ConsumerStep, ThreadStep

(* While leases last the retry counter of a message never goes back as long as the
   message is in the table: releases, rejections and reaps keep it, a retry raises
   it, so max_retries bounds the executions. *)
THEOREM RetriesCount == ASSUME LeasesLast PROVE PunctualSpec => RetriesNeverReset
<1>1. ExclusiveInv /\ [PunctualNext]_vars =>
        \A m \in Messages :
          rows[m].state # "absent" /\ rows'[m].state # "absent" => rows'[m].retries >= rows[m].retries
  BY NextCounter DEF NoneReset, PunctualNext
<1> QED BY <1>1, ExclusiveInvariant, PTL DEF PunctualSpec, RetriesNeverReset

-----------------------------------------------------------------------------
(* When acks are in time: what SafeInv has more than ExclusiveInv.  A row is kept,
   moves inside its queue unless it waits there for its eta, or goes once the
   message was executed, flushed or purged. *)

Moved(m) ==
  /\ rows'[m].queue = rows[m].queue
  /\ rows[m].state # "absent" /\ rows'[m].state # "absent"
  /\ rows[m].queue = "default.DQ" => rows[m].state # "queued" \/ rows[m].due
  /\ rows'[m].state = "rejected" => outcome'[m] # {}

Gone(m) ==
  rows'[m] = AbsentRow /\ outcome'[m] \cap {"executed", "flushed", "purged"} # {}

(* SafeInv without NoLoss, and what keeps it: steps that keep AckInv and lose nothing
   that was not lost before. *)
AckInv == ExclusiveInv /\ RequeuedElsewhere /\ DecidedFirst

NoneLost == \A m \in Messages : Lost(m)' => Lost(m)

StaysSafe == RequeuedElsewhere' /\ DecidedFirst' /\ NoneLost

LEMMA TableSafe ==
  ASSUME AckInv, UNCHANGED sent, \A m \in Messages : outcome[m] \subseteq outcome'[m],
         \A m \in Messages : Kept(m) \/ Moved(m) \/ Gone(m),
         \A c \in copies' : c.msg \in Messages,
         \A c \in copies' : c.stage = "requeued" => c \in copies,
         \A c \in copies' : /\ c.stage = "done" => "executed" \in outcome'[c.msg]
                            /\ c.stage = "failed" => outcome'[c.msg] # {},
         \A c \in copies' :
           \/ c \in copies
           \/ \E d \in copies : d.stage \in OwnedStages /\ d.msg = c.msg /\ d.queue = c.queue
           \/ rows[c.msg].state = "queued" /\ rows[c.msg].due /\ rows[c.msg].queue = c.queue
  PROVE  StaysSafe
<1>t. /\ ExclusiveInv /\ RequeuedElsewhere /\ DecidedFirst
      /\ \A c \in copies : c.queue \in {"default", "default.DQ"}
  BY Parts DEF AckInv, QueueNames
<1>1. RequeuedElsewhere'
  <2> SUFFICES ASSUME NEW c \in copies', c.stage = "requeued"
               PROVE  /\ rows'[c.msg].queue = "default.DQ" =>
                           rows'[c.msg].state = "queued" /\ ~ rows'[c.msg].due
                      /\ c.queue = "default" =>
                           rows'[c.msg].queue = "default.DQ" \/ rows'[c.msg].state = "absent"
                      /\ \A d \in copies' : d.msg = c.msg /\ d # c =>
                           /\ d.queue # c.queue
                           /\ d.stage \in OwnedStages => d.queue = "default"
    BY DEF RequeuedElsewhere
  <2>1. /\ c \in copies /\ c.msg \in Messages
        /\ rows[c.msg].queue = "default.DQ" => rows[c.msg].state = "queued" /\ ~ rows[c.msg].due
        /\ c.queue = "default" => rows[c.msg].queue = "default.DQ" \/ rows[c.msg].state = "absent"
        /\ \A d \in copies : d.msg = c.msg /\ d # c =>
             d.queue # c.queue /\ (d.stage \in OwnedStages => d.queue = "default")
    BY <1>t DEF RequeuedElsewhere
  <2>2. ASSUME NEW d \in copies', d.msg = c.msg, d # c
        PROVE  d.queue # c.queue /\ (d.stage \in OwnedStages => d.queue = "default")
    <3>1. CASE d \in copies
      BY <2>1, <2>2, <3>1
    <3>2. ASSUME NEW e \in copies, e.stage \in OwnedStages, e.msg = d.msg, e.queue = d.queue
          PROVE  d.queue # c.queue /\ d.queue = "default"
      <4>1. e # c
        BY <3>2 DEF OwnedStages
      <4> QED BY <4>1, <3>2, <2>1, <2>2
    <3>3. CASE rows[d.msg].state = "queued" /\ rows[d.msg].due /\ rows[d.msg].queue = d.queue
      <4>1. rows[c.msg].queue = "default"
        BY <3>3, <2>1, <2>2, Parts, <1>t DEF Row, QueueNames
      <4>2. c.queue = "default.DQ"
        BY <4>1, <3>3, <2>1, <2>2, <1>t
      <4> QED BY <4>1, <4>2, <3>3, <2>2
    <3> QED BY <3>1, <3>2, <3>3
  <2>3. CASE Kept(c.msg)
    BY <2>1, <2>2, <2>3 DEF Kept
  <2>4. CASE Moved(c.msg)
    BY <2>1, <2>2, <2>4 DEF Moved
  <2>5. CASE Gone(c.msg)
    BY <2>2, <2>5 DEF Gone, AbsentRow
  <2> QED BY <2>1, <2>3, <2>4, <2>5
<1>2. DecidedFirst'
  <2>1. \A m \in InState(rows, "rejected")' : outcome'[m] # {}
    BY <1>t DEF InState, DecidedFirst, Kept, Moved, Gone, AbsentRow
  <2> QED BY <2>1 DEF DecidedFirst
<1>3. NoneLost
  <2> SUFFICES ASSUME NEW m \in Messages, Lost(m)' PROVE Lost(m)
    BY DEF NoneLost
  <2>1. Kept(m)
    BY DEF Lost, Moved, Gone
  <2> QED BY <2>1 DEF Lost, Kept
<1> QED BY <1>1, <1>2, <1>3 DEF StaysSafe

(* The same for steps that only drop deliveries. *)
LEMMA FewerSafe ==
  ASSUME AckInv, copies' \subseteq copies,
         UNCHANGED sent, \A m \in Messages : outcome[m] \subseteq outcome'[m],
         \A m \in Messages : Kept(m) \/ Moved(m) \/ Gone(m)
  PROVE  StaysSafe
<1>1. ExclusiveInv /\ \A c \in copies' : c.msg \in Messages
  BY Parts DEF AckInv
<1>2. \A c \in copies' : /\ c.stage = "done" => "executed" \in outcome'[c.msg]
                         /\ c.stage = "failed" => outcome'[c.msg] # {}
  BY <1>1 DEF AckInv, DecidedFirst
<1> QED BY <1>1, <1>2, TableSafe

LEMMA AllKept == ASSUME UNCHANGED rows PROVE \A m \in Messages : Kept(m)
BY DEF Kept

(* Rows that are given back stay in their queue. *)
LEMMA GivenBackMoves ==
  ASSUME ExclusiveInv, NEW S, NEW m \in Messages, rows'[m] = Requeue(rows, S)[m]
  PROVE  Kept(m) \/ Moved(m)
<1>1. rows[m] \in Row
  BY Parts
<1>2. rows[m].state = "consumed" =>
        Requeued(rows[m]).state = "queued" /\ Requeued(rows[m]).queue = rows[m].queue
  BY <1>1 DEF Requeued, Row
<1> QED BY <1>2 DEF Requeue, Kept, Moved

LEMMA PurgeGoes ==
  ASSUME ExclusiveInv, NEW m \in Messages, NEW S, m \in S, NoteAll(S, "purged"), rows'[m] = AbsentRow
  PROVE  Gone(m)
BY DEF ExclusiveInv, ListedInv, TypeOK, NoteAll, Gone

LEMMA ClaimSafe ==
  ASSUME AckInv, LeasesLast, NEW w \in Workers, NEW q \in Consumed, Claim(w, q)
  PROVE  StaysSafe
<1>t. ExclusiveInv
  BY DEF AckInv
<1>1. PICK S \in SUBSET Messages :
        /\ \A m \in S : rows[m].queue = q /\ rows[m].state = "queued" /\ rows[m].due
        /\ \A m \in S : rows'[m].state = "consumed" /\ rows'[m].queue = q
        /\ \A m \in Messages \ S : rows'[m] = rows[m]
        /\ copies' = copies \cup {CopyOf(w, q, m) : m \in S}
  BY <1>t, ClaimEffect
<1>2. UNCHANGED <<sent, outcome>>
  BY DEF Claim
<1>3. \A m \in Messages : Kept(m) \/ Moved(m)
  BY <1>1 DEF Kept, Moved
<1>4. \A m \in S : /\ CopyOf(w, q, m).msg = m /\ CopyOf(w, q, m).stage = "buffer"
                   /\ CopyOf(w, q, m).queue = q
  BY DEF CopyOf
<1>5. \A c \in copies' : c \in copies \/ (c.stage = "buffer" /\ c.msg \in S /\ c.queue = q)
  BY <1>1, <1>4
<1>6. \A c \in copies : c.msg \in Messages
  BY <1>t, Parts
<1>7. \A c \in copies' : /\ c.stage = "done" => "executed" \in outcome'[c.msg]
                         /\ c.stage = "failed" => outcome'[c.msg] # {}
  BY <1>2, <1>5 DEF AckInv, DecidedFirst
<1> QED BY <1>1, <1>2, <1>3, <1>5, <1>6, <1>7, TableSafe

LEMMA MoveSafe ==
  ASSUME AckInv, NEW w \in Workers,
         \/ \E q \in Consumed : Deliver(w, q)
         \/ Begin(w) \/ Succeed(w) \/ Exhaust(w)
  PROVE  StaysSafe
<1>t. ExclusiveInv /\ TypeOK /\ \A c \in copies : c.msg \in Messages
  BY Parts DEF AckInv, ExclusiveInv, ListedInv
<1>1. UNCHANGED <<rows, sent>> /\ \A m \in Messages : outcome[m] \subseteq outcome'[m]
  BY <1>t, MoveSteps
<1>2. PICK c \in copies, s \in OwnedStages :
        /\ MoveTo(c, s) /\ c.stage \in OwnedStages
        /\ s \in {"done", "failed"} => outcome'[c.msg] # {}
        /\ s = "done" => "executed" \in outcome'[c.msg]
  BY <1>t, MoveSteps, Zenon
<1>3. PICK n : /\ copies' = (copies \ {c}) \cup {n} /\ n.msg = c.msg /\ n.queue = c.queue
               /\ n.stage = s
  BY <1>2, <1>t, MoveToEffect
<1>4. \A d \in copies' : /\ d.stage = "done" => "executed" \in outcome'[d.msg]
                         /\ d.stage = "failed" => outcome'[d.msg] # {}
  BY <1>t, <1>1, <1>2, <1>3 DEF AckInv, DecidedFirst
<1>5. \A d \in copies' : d.stage = "requeued" => d \in copies
  BY <1>3 DEF OwnedStages
<1>6. \A d \in copies' : /\ d.msg \in Messages
                         /\ \/ d \in copies
                            \/ \E e \in copies : /\ e.stage \in OwnedStages
                                                /\ e.msg = d.msg /\ e.queue = d.queue
  BY <1>t, <1>2, <1>3
<1> QED BY <1>1, <1>4, <1>5, <1>6, AllKept, TableSafe

(* A retry with a delay goes to the delay queue, the delay queue releases to the base
   queue: the message changes queues, so that its ack misses it. *)
LEMMA RequeueSafe ==
  ASSUME AckInv, AcksInTime, NEW w \in Workers, Retry(w) \/ Release(w)
  PROVE  StaysSafe
<1>t. ExclusiveInv /\ LeasesLast /\ TypeOK /\ RetryDelays \subseteq {TRUE}
      /\ rows \in [Messages -> Row] /\ sent \subseteq Messages
      /\ \A c \in copies : c.msg \in Messages /\ c.queue \in {"default", "default.DQ"}
  BY Parts DEF AckInv, ExclusiveInv, ListedInv, AcksInTime, QueueNames
<1>1. UNCHANGED <<sent, outcome>>
  BY <1>t, RequeueSteps
<1>2. PICK c \in copies, delayed \in BOOLEAN, r \in Nat :
        /\ EnqueueMessage(c.msg, delayed, r) /\ MoveTo(c, "requeued")
        /\ c.stage \in OwnedStages
        /\ IF c.queue = "default" THEN delayed \in RetryDelays ELSE ~ delayed
  BY <1>t, RequeueSteps, Zenon
<1>3. delayed <=> c.queue = "default"
  BY <1>2, <1>t
<1>4. PICK n : /\ copies' = (copies \ {c}) \cup {n}
               /\ n.msg = c.msg /\ n.queue = c.queue /\ n.stage = "requeued"
  BY <1>2, <1>t, MoveToEffect
<1>5. /\ rows'[c.msg].state = "queued"
      /\ rows'[c.msg].queue = IF delayed THEN "default.DQ" ELSE "default"
      /\ rows'[c.msg].due = ~ delayed
      /\ \A m \in Messages \ {c.msg} : rows'[m] = rows[m]
  BY <1>2, <1>t DEF EnqueueMessage, Enqueue
<1>6. \A d \in copies' : d.stage \in OwnedStages => d \in copies /\ d.msg # c.msg
  BY <1>2, <1>4, <1>t, OneOwner DEF OwnedStages
<1>7. \A d \in copies \ {c} : d.msg = c.msg =>
        d.stage = "requeued" /\ c.queue = "default" /\ d.queue = "default.DQ"
  <2> SUFFICES ASSUME NEW d \in copies \ {c}, d.msg = c.msg
               PROVE  d.stage = "requeued" /\ c.queue = "default" /\ d.queue = "default.DQ"
    OBVIOUS
  <2>1. d.stage \notin OwnedStages
    BY <1>2, <1>t, OneOwner
  <2>2. d.stage = "requeued"
    BY <2>1, <1>t DEF ExclusiveInv, StagesFit, TypeOK, Copy, Stages, OwnedStages
  <2> QED BY <2>2, <1>2, <1>t DEF AckInv, RequeuedElsewhere
<1>8. RequeuedElsewhere'
  <2> SUFFICES ASSUME NEW d \in copies', d.stage = "requeued"
               PROVE  /\ rows'[d.msg].queue = "default.DQ" =>
                           rows'[d.msg].state = "queued" /\ ~ rows'[d.msg].due
                      /\ d.queue = "default" =>
                           rows'[d.msg].queue = "default.DQ" \/ rows'[d.msg].state = "absent"
                      /\ \A e \in copies' : e.msg = d.msg /\ e # d =>
                           /\ e.queue # d.queue
                           /\ e.stage \in OwnedStages => e.queue = "default"
    BY DEF RequeuedElsewhere
  <2>1. CASE d = n
    <3>1. \A e \in copies' : e.msg = d.msg /\ e # d => e \in copies \ {c} /\ e.msg = c.msg
      BY <2>1, <1>4
    <3>2. \A e \in copies' : e.msg = d.msg /\ e # d =>
            e.queue # d.queue /\ e.stage \notin OwnedStages
      BY <3>1, <2>1, <1>4, <1>7 DEF OwnedStages
    <3> QED BY <2>1, <3>2, <1>3, <1>4, <1>5
  <2>2. CASE d # n /\ d.msg = c.msg
    <3>1. d \in copies \ {c} /\ c.queue = "default" /\ d.queue = "default.DQ"
      BY <2>2, <1>4, <1>7
    <3>2. \A e \in copies' : e = n \/ e \in copies
      BY <1>4
    <3>3. \A e \in copies : e.msg = d.msg /\ e # d =>
            e.queue # d.queue /\ (e.stage \in OwnedStages => e.queue = "default")
      BY <2>2, <3>1 DEF AckInv, RequeuedElsewhere
    <3>4. n.queue # d.queue /\ n.queue = "default"
      BY <3>1, <1>4
    <3> QED BY <2>2, <3>1, <3>2, <3>3, <3>4, <1>3, <1>5
  <2>3. CASE d # n /\ d.msg # c.msg
    <3>1. d \in copies /\ rows'[d.msg] = rows[d.msg]
      BY <2>3, <1>4, <1>5, <1>t
    <3>2. \A e \in copies' : e.msg = d.msg => e \in copies
      BY <2>3, <1>4
    <3> QED BY <3>1, <3>2 DEF AckInv, RequeuedElsewhere
  <2> QED BY <2>1, <2>2, <2>3
<1>9. DecidedFirst'
  BY <1>1, <1>4, <1>5 DEF AckInv, DecidedFirst, InState
<1>10. NoneLost
  BY <1>1, <1>5, <1>t DEF NoneLost, Lost
<1> QED BY <1>8, <1>9, <1>10 DEF StaysSafe

(* An ack after a retry or a release misses; any other settlement was decided on. *)
LEMMA SettleSafe ==
  ASSUME AckInv, LeasesLast, NEW w \in Workers, AckDelivery(w) \/ NackDelivery(w)
  PROVE  StaysSafe
<1>t. ExclusiveInv /\ rows \in [Messages -> Row]
      /\ \A c \in copies : c.msg \in Messages /\ c.queue \in {"default", "default.DQ"}
  BY Parts DEF AckInv, QueueNames
<1>1. UNCHANGED <<sent, outcome>>
  BY SettleSteps
<1>2. PICK c \in copies :
        /\ copies' = copies \ {c}
        /\ \/ c.stage \in {"done", "requeued"} /\ rows' = Ack(rows, c.msg, c.queue)
           \/ c.stage = "failed" /\ rows' = Nack(rows, c.msg, c.queue, c.retries)
  BY SettleSteps
<1>3. \A m \in Messages \ {c.msg} : Kept(m)
  BY <1>2, <1>t DEF Ack, Nack, Kept
<1>4. CASE c.stage = "requeued" /\ rows' = Ack(rows, c.msg, c.queue)
  <2>1. ~ (rows[c.msg].state = "consumed" /\ rows[c.msg].queue = c.queue)
    BY <1>4, <1>t DEF AckInv, RequeuedElsewhere
  <2> QED BY <2>1, <1>1, <1>2, <1>4, AllKept, FewerSafe DEF Ack
<1>5. CASE c.stage = "done" /\ rows' = Ack(rows, c.msg, c.queue)
  <2>1. "executed" \in outcome[c.msg]
    BY <1>5 DEF AckInv, DecidedFirst
  <2>2. Kept(c.msg) \/ Gone(c.msg)
    BY <2>1, <1>1, <1>5, <1>t DEF Ack, Kept, Gone
  <2> QED BY <2>2, <1>1, <1>2, <1>3, FewerSafe
<1>6. CASE c.stage = "failed" /\ rows' = Nack(rows, c.msg, c.queue, c.retries)
  <2>1. outcome[c.msg] # {} /\ c.queue = "default"
    BY <1>6, <1>t DEF AckInv, DecidedFirst, ExclusiveInv, StagesFit
  <2>2. Rejected(rows[c.msg], c.retries).state = "rejected"
        /\ Rejected(rows[c.msg], c.retries).queue = rows[c.msg].queue
    BY <1>t DEF Rejected, Row
  <2>3. Kept(c.msg) \/ Moved(c.msg)
    BY <2>1, <2>2, <1>1, <1>6, <1>t DEF Nack, Kept, Moved
  <2> QED BY <2>3, <1>1, <1>2, <1>3, FewerSafe
<1> QED BY <1>2, <1>4, <1>5, <1>6

(* Reaping, purging, flushing and giving back. *)
LEMMA TableStepsSafe ==
  ASSUME AckInv, LeasesLast,
         \/ \E w \in Workers, q \in Consumed : Maintain(w, q)
         \/ \E w \in Workers : Drain(w) \/ Exit(w) \/ Crash(w)
         \/ CliFlush \/ CliPurge
  PROVE  StaysSafe
<1>t. ExclusiveInv /\ rows \in [Messages -> Row] /\ TypeOK
  BY Parts DEF AckInv, ExclusiveInv, ListedInv
<1>1. ASSUME NEW w \in Workers, NEW q \in Consumed, Maintain(w, q) PROVE StaysSafe
  <2>1. PICK old \in SUBSET InState(rows, "rejected") :
          rows' = Purge(Reap(rows, AliveWorkers), old) /\ NoteAll(old, "purged")
    BY <1>1 DEF Maintain
  <2>2. UNCHANGED <<copies, sent>> /\ \A m \in Messages : outcome[m] \subseteq outcome'[m]
    BY <1>1, <2>1, <1>t DEF Maintain, NoteAll, TypeOK
  <2>3. ASSUME NEW m \in Messages PROVE Kept(m) \/ Moved(m) \/ Gone(m)
    <3>1. CASE m \in old
      <4>1. rows[m].state = "rejected" /\ rows'[m] = AbsentRow
        BY <2>1, <3>1 DEF Purge, Reap, Requeue, InState
      <4> QED BY <4>1, <2>1, <3>1, <1>t, PurgeGoes
    <3>2. CASE m \notin old
      <4>1. rows'[m] = Requeue(rows, {k \in Messages : rows[k].worker \notin AliveWorkers})[m]
        BY <2>1, <3>2 DEF Purge, Reap
      <4> QED BY <4>1, <1>t, GivenBackMoves
    <3> QED BY <3>1, <3>2
  <2> QED BY <2>2, <2>3, FewerSafe
<1>2. ASSUME NEW w \in Workers, Drain(w) \/ Exit(w) \/ Crash(w) PROVE StaysSafe
  <2>1. UNCHANGED <<sent, outcome>> /\ copies' \subseteq copies /\ \E S : rows' = Requeue(rows, S)
    BY <1>2, <1>t, EndSteps
  <2>2. \A m \in Messages : Kept(m) \/ Moved(m)
    BY <2>1, <1>t, GivenBackMoves
  <2> QED BY <2>1, <2>2, FewerSafe
<1>3. CASE CliPurge
  <2>1. PICK old \in SUBSET InState(rows, "rejected") : rows' = Purge(rows, old) /\ NoteAll(old, "purged")
    BY <1>3 DEF CliPurge
  <2>2. UNCHANGED <<copies, sent>> /\ \A m \in Messages : outcome[m] \subseteq outcome'[m]
    BY <1>3, <2>1, <1>t DEF CliPurge, NoteAll, TypeOK
  <2>3. ASSUME NEW m \in Messages PROVE Kept(m) \/ Gone(m)
    <3>1. CASE m \in old
      <4>1. rows'[m] = AbsentRow
        BY <2>1, <3>1 DEF Purge, InState
      <4> QED BY <4>1, <2>1, <3>1, <1>t, PurgeGoes
    <3>2. CASE m \notin old
      BY <2>1, <3>2 DEF Purge, Kept
    <3> QED BY <3>1, <3>2
  <2> QED BY <2>2, <2>3, FewerSafe
<1>4. CASE CliFlush
  <2>1. /\ UNCHANGED <<copies, sent>> /\ rows' = Flush(rows)
        /\ NoteAll(InState(rows, "queued") \cup InState(rows, "consumed"), "flushed")
    BY <1>4 DEF CliFlush
  <2>2. \A m \in Messages :
          outcome'[m] = IF rows[m].state \in {"queued", "consumed"}
                        THEN outcome[m] \cup {"flushed"} ELSE outcome[m]
    BY <2>1, <1>t DEF NoteAll, InState, TypeOK
  <2>3. \A m \in Messages : outcome[m] \subseteq outcome'[m]
    BY <2>2
  <2>4. \A m \in Messages : Kept(m) \/ Gone(m)
    BY <2>1, <2>2 DEF Flush, Kept, Gone
  <2> QED BY <2>1, <2>3, <2>4, FewerSafe
<1> QED BY <1>1, <1>2, <1>3, <1>4

LEMMA SendDueSafe ==
  ASSUME AckInv, AcksInTime, NEW m \in Messages, Send(m) \/ Due(m)
  PROVE  StaysSafe
<1>t. ExclusiveInv /\ LeasesLast /\ sent \subseteq Messages /\ \A c \in copies : c.msg \in Messages
  BY Parts DEF AckInv, AcksInTime
<1> USE DEF AckInv, StaysSafe
<1>1. CASE Send(m)
  <2>1. /\ sent' = sent \cup {m} /\ rows'[m].state = "queued"
        /\ \A n \in Messages \ {m} : rows'[n] = rows[n]
        /\ \A c \in copies : c.msg # m /\ c.msg \in Messages
        /\ UNCHANGED <<copies, outcome>>
    BY <1>1, <1>t, SendSteps
  <2>2. RequeuedElsewhere'
    BY <2>1 DEF RequeuedElsewhere
  <2>3. DecidedFirst' /\ NoneLost
    BY <2>1, <1>t DEF DecidedFirst, NoneLost, Lost, InState
  <2> QED BY <2>2, <2>3
<1>2. CASE Due(m)
  <2>1. /\ rows[m].state = "queued" /\ rows'[m].state = "queued"
        /\ rows'[m].queue = rows[m].queue
        /\ \A n \in Messages \ {m} : rows'[n] = rows[n]
        /\ UNCHANGED <<copies, sent, outcome>>
    BY <1>2, <1>t, DueSteps DEF Kept
  <2>2. \A c \in copies : c.stage = "requeued" => c.msg # m
    BY <1>2 DEF Due, AcksInTime
  <2>3. RequeuedElsewhere'
    BY <2>1, <2>2, <1>t DEF RequeuedElsewhere
  <2>4. DecidedFirst' /\ NoneLost
    BY <2>1, <1>t DEF DecidedFirst, NoneLost, Lost, InState
  <2> QED BY <2>3, <2>4
<1> QED BY <1>1, <1>2

LEMMA InitSafe == Init => SafeInv
<1> SUFFICES ASSUME Init PROVE SafeInv
  OBVIOUS
<1>1. \A m \in Messages : rows[m].state = "absent"
  BY DEF Init, EmptyTable, AbsentRow
<1>2. copies = {} /\ sent = {}
  BY DEF Init
<1>3. RequeuedElsewhere /\ DecidedFirst /\ NoLoss
  BY <1>1, <1>2 DEF RequeuedElsewhere, DecidedFirst, NoLoss, Lost, InState
<1> QED BY <1>3, InitExclusive DEF SafeInv

LEMMA NextAcks ==
  ASSUME AcksInTime, AckInv, [PunctualNext]_vars
  PROVE  ExclusiveInv' /\ StaysSafe
<1>t. LeasesLast /\ ExclusiveInv
  BY DEF AcksInTime, AckInv
<1>e. "conn_error" \notin Env /\ "recover" \notin Env
  BY <1>t, LastingEnv
<1>1. ExclusiveInv'
  BY <1>t, NextExclusive
<1>s. SUFFICES StaysSafe
  BY <1>1
<1>2. CASE \/ UNCHANGED vars
           \/ \E w \in Workers, q \in Consumed :
                \/ HeartbeatDue(w, q) \/ HeartbeatRecent(w, q) \/ HeartbeatCommit(w, q)
                \/ MaintenanceSkip(w, q) \/ Idle(w, q) \/ QuitConsumer(w, q)
           \/ \E w \in Workers : Start(w) \/ Stop(w) \/ Lapse(w)
  <2>1. UNCHANGED <<rows, copies, sent, outcome>>
    BY <1>2, <1>t, QuietSteps DEF delivery
  <2> QED BY <2>1, AllKept, FewerSafe
<1>3. ASSUME NEW w \in Workers,
             \/ \E q \in Consumed : Deliver(w, q)
             \/ Begin(w) \/ Succeed(w) \/ Exhaust(w)
      PROVE  StaysSafe
  BY <1>3, MoveSafe
<1>4. ASSUME NEW w \in Workers, Retry(w) \/ Release(w) PROVE StaysSafe
  BY <1>4, RequeueSafe
<1>5. ASSUME NEW w \in Workers, AckDelivery(w) \/ NackDelivery(w) PROVE StaysSafe
  BY <1>5, <1>t, SettleSafe
<1>6. ASSUME NEW w \in Workers, NEW q \in Consumed, Maintain(w, q) \/ Claim(w, q) PROVE StaysSafe
  BY <1>6, <1>t, TableStepsSafe, ClaimSafe
<1>7. ASSUME NEW w \in Workers, Drain(w) \/ Exit(w) \/ Crash(w) PROVE StaysSafe
  BY <1>7, <1>t, TableStepsSafe
<1>8. ASSUME NEW m \in Messages, Send(m) \/ Due(m) PROVE StaysSafe
  BY <1>8, SendDueSafe
<1>9. ASSUME NEW m \in Messages, SendAgain(m) PROVE StaysSafe
  BY <1>9, <1>t DEF SendAgain, ExclusiveInv, DeliveriesDistinct
<1>10. CASE CliRecover \/ CliFlush \/ CliPurge
  BY <1>10, <1>e, <1>t, TableStepsSafe DEF CliRecover
<1>11. ASSUME NEW w \in Workers,
              RetryLost(w) \/ \E q \in Consumed : ClaimLost(w, q) \/ ConsumerError(w, q)
       PROVE  StaysSafe
  BY <1>11, <1>e DEF RetryLost, ClaimLost, ConsumerError
<1> QED BY <1>2, <1>3, <1>4, <1>5, <1>6, <1>7, <1>8, <1>9, <1>10, <1>11
        DEF PunctualNext, Next, ConsumerStep, ThreadStep

LEMMA NextSafe ==
  ASSUME AcksInTime, SafeInv, [PunctualNext]_vars
  PROVE  SafeInv'
<1>1. ExclusiveInv' /\ StaysSafe
  BY NextAcks DEF SafeInv, AckInv
<1> QED BY <1>1 DEF SafeInv, StaysSafe, NoLoss, NoneLost

LEMMA SafeInvariant == ASSUME AcksInTime PROVE PunctualSpec => []SafeInv
BY InitSafe, NextSafe, PTL DEF PunctualSpec

(* When acks are in time a message leaves the table only when it was executed, or
   was flushed, or purged as a rejected one, whatever crashes: the ack dramatiq sends
   after a retry never deletes the message that was enqueued again. *)
THEOREM NothingLost == ASSUME AcksInTime PROVE PunctualSpec => []NoLoss
<1>1. SafeInv => NoLoss
  BY DEF SafeInv
<1> QED BY <1>1, SafeInvariant, PTL

-----------------------------------------------------------------------------
(* In a timely environment nobody but the holder of a message takes it from the
   table: what is deleted was rejected, or is settled by its holder. *)

LEMMA SettleOwn ==
  ASSUME AckInv, LeaseValid, Timely, NEW w \in Workers, AckDelivery(w) \/ NackDelivery(w)
  PROVE  \E c \in copies :
           /\ copies' = copies \ {c} /\ \A m \in Messages \ {c.msg} : rows'[m] = rows[m]
           /\ \/ UNCHANGED rows
              \/ /\ c.stage \in {"done", "failed"} /\ rows[c.msg].state = "consumed"
                 /\ outcome[c.msg] # {} /\ rows'[c.msg].state \in {"absent", "rejected"}
<1>t. LeasesLast /\ ExclusiveInv /\ rows \in [Messages -> Row]
      /\ \A c \in copies : c.msg \in Messages /\ c.queue \in {"default", "default.DQ"}
  BY TimelyEnv, Parts DEF AckInv, QueueNames
<1>1. PICK c \in copies :
        /\ copies' = copies \ {c}
        /\ \/ c.stage \in {"done", "requeued"} /\ rows' = Ack(rows, c.msg, c.queue)
           \/ c.stage = "failed" /\ rows' = Nack(rows, c.msg, c.queue, c.retries)
  BY <1>t, SettleSteps
<1>2. \A m \in Messages \ {c.msg} : rows'[m] = rows[m]
  BY <1>1, <1>t DEF Ack, Nack
<1>3. CASE c.stage = "requeued" /\ rows' = Ack(rows, c.msg, c.queue)
  <2>1. ~ (rows[c.msg].state = "consumed" /\ rows[c.msg].queue = c.queue)
    BY <1>3, <1>t DEF AckInv, RequeuedElsewhere
  <2> QED BY <2>1, <1>1, <1>2, <1>3 DEF Ack
<1>4. CASE c.stage \in {"done", "failed"}
  <2>1. rows[c.msg].state = "consumed" /\ rows[c.msg].queue = c.queue /\ outcome[c.msg] # {}
    BY <1>4, <1>t DEF AckInv, LeaseValid, DecidedFirst, OwnedStages
  <2>2. AbsentRow.state = "absent" /\ Rejected(rows[c.msg], c.retries).state = "rejected"
    BY <1>t DEF AbsentRow, Rejected, Row
  <2>3. rows'[c.msg].state \in {"absent", "rejected"}
    BY <2>1, <2>2, <1>1, <1>t DEF Ack, Nack
  <2> QED BY <2>1, <2>3, <1>1, <1>2, <1>4
<1> QED BY <1>1, <1>3, <1>4

LEMMA StaysInTable ==
  ASSUME AckInv, LeaseValid, Timely, [Next]_vars, NEW c \in copies', c.stage \in OwnedStages
  PROVE  rows'[c.msg].state # "absent"
<1>t. LeasesLast /\ AcksInTime /\ ExclusiveInv /\ TypeOK /\ rows \in [Messages -> Row]
      /\ \A d \in copies : d.msg \in Messages
  BY TimelyEnv, Parts DEF AckInv, ExclusiveInv, ListedInv
<1>e. "conn_error" \notin Env /\ "recover" \notin Env /\ "flush" \notin Env
  BY <1>t, TimelyEnv, LastingEnv
<1>1. \A d \in copies : d.stage \in OwnedStages => rows[d.msg].state = "consumed"
  BY DEF LeaseValid
<1>2. ASSUME copies' \subseteq copies,
             \A m \in Messages : rows[m].state = "consumed" => rows'[m].state # "absent"
      PROVE  rows'[c.msg].state # "absent"
  BY <1>2, <1>1, <1>t
<1>3. CASE UNCHANGED <<rows, copies>>
  BY <1>3, <1>2
<1>4. CASE \/ UNCHANGED vars
           \/ \E w \in Workers, q \in Consumed :
                \/ HeartbeatDue(w, q) \/ HeartbeatRecent(w, q) \/ HeartbeatCommit(w, q)
                \/ MaintenanceSkip(w, q) \/ Idle(w, q) \/ QuitConsumer(w, q)
           \/ \E w \in Workers : Start(w) \/ Stop(w) \/ Lapse(w)
  BY <1>3, <1>4, <1>t, QuietSteps DEF delivery
<1>5. ASSUME NEW w \in Workers,
             \/ \E q \in Consumed : Deliver(w, q)
             \/ Begin(w) \/ Succeed(w) \/ Exhaust(w)
      PROVE  rows'[c.msg].state # "absent"
  <2>1. UNCHANGED rows
    BY <1>5, <1>t, MoveSteps
  <2>2. PICK d \in copies, s \in OwnedStages : MoveTo(d, s) /\ d.stage \in OwnedStages
    BY <1>5, <1>t, MoveSteps, Zenon
  <2>3. PICK n : copies' = (copies \ {d}) \cup {n} /\ n.msg = d.msg
    BY <2>2, <1>t, MoveToEffect
  <2> QED BY <2>1, <2>2, <2>3, <1>1
<1>6. ASSUME NEW w \in Workers, Retry(w) \/ Release(w) PROVE rows'[c.msg].state # "absent"
  <2>1. PICK d \in copies, delayed \in BOOLEAN, r \in Nat :
          EnqueueMessage(d.msg, delayed, r) /\ MoveTo(d, "requeued")
    BY <1>6, <1>t, RequeueSteps, Zenon
  <2>2. rows'[d.msg].state = "queued" /\ \A m \in Messages \ {d.msg} : rows'[m] = rows[m]
    BY <2>1, <1>t DEF EnqueueMessage, Enqueue
  <2>3. PICK n : copies' = (copies \ {d}) \cup {n} /\ n.msg = d.msg
    BY <2>1, <1>t, MoveToEffect
  <2>4. CASE c.msg = d.msg
    BY <2>2, <2>4
  <2>5. CASE c.msg # d.msg
    BY <2>2, <2>3, <2>5, <1>1, <1>t
  <2> QED BY <2>4, <2>5
<1>7. ASSUME NEW w \in Workers, AckDelivery(w) \/ NackDelivery(w) PROVE rows'[c.msg].state # "absent"
  <2>1. PICK d \in copies :
          /\ copies' = copies \ {d} /\ \A m \in Messages \ {d.msg} : rows'[m] = rows[m]
          /\ UNCHANGED rows \/ d.stage \in {"done", "failed"}
    BY <1>7, SettleOwn
  <2>2. d.stage \in {"done", "failed"} => c.msg # d.msg
    BY <2>1, <1>t, OneOwner DEF OwnedStages
  <2> QED BY <2>1, <2>2, <1>1, <1>t
<1>8. ASSUME NEW w \in Workers, NEW q \in Consumed, Claim(w, q) PROVE rows'[c.msg].state # "absent"
  <2>1. PICK S \in SUBSET Messages :
          /\ \A m \in S : rows'[m].state = "consumed"
          /\ \A m \in Messages \ S : rows'[m] = rows[m]
          /\ copies' = copies \cup {CopyOf(w, q, m) : m \in S}
    BY <1>8, <1>t, ClaimEffect
  <2>2. c \in copies \/ c.msg \in S
    BY <2>1 DEF CopyOf
  <2> QED BY <2>1, <2>2, <1>1, <1>t
<1>9. ASSUME NEW w \in Workers, NEW q \in Consumed, Maintain(w, q) PROVE rows'[c.msg].state # "absent"
  <2>1. PICK old \in SUBSET InState(rows, "rejected") : rows' = Purge(Reap(rows, AliveWorkers), old)
    BY <1>9 DEF Maintain
  <2>2. \A m \in Messages : Requeued(rows[m]).state = "queued"
    BY <1>t DEF Requeued, Row
  <2>3. \A m \in Messages : rows[m].state = "consumed" => rows'[m].state # "absent"
    BY <2>1, <2>2 DEF Purge, Reap, Requeue, InState
  <2> QED BY <2>3, <1>2, <1>9 DEF Maintain
<1>10. ASSUME NEW w \in Workers, Drain(w) \/ Exit(w) \/ Crash(w) PROVE rows'[c.msg].state # "absent"
  <2>1. copies' \subseteq copies /\ \E S : rows' = Requeue(rows, S)
    BY <1>10, <1>t, EndSteps
  <2>2. \A m \in Messages : Requeued(rows[m]).state = "queued"
    BY <1>t DEF Requeued, Row
  <2> QED BY <2>1, <2>2, <1>2 DEF Requeue
<1>11. CASE CliRecover \/ CliFlush \/ CliPurge
  BY <1>11, <1>e, <1>2 DEF CliRecover, CliFlush, CliPurge, Purge
<1>12. ASSUME NEW m \in Messages, Send(m) PROVE rows'[c.msg].state # "absent"
  BY <1>12, <1>t, <1>2, SendSteps
<1>13. ASSUME NEW m \in Messages, Due(m) PROVE rows'[c.msg].state # "absent"
  BY <1>13, <1>t, <1>2, DueSteps DEF Kept
<1>14. ASSUME NEW m \in Messages, SendAgain(m) PROVE FALSE
  BY <1>14, <1>t DEF SendAgain, ExclusiveInv, DeliveriesDistinct
<1>15. ASSUME NEW w \in Workers,
              RetryLost(w) \/ \E q \in Consumed : ClaimLost(w, q) \/ ConsumerError(w, q)
       PROVE  FALSE
  BY <1>15, <1>e DEF RetryLost, ClaimLost, ConsumerError
<1> QED BY <1>4, <1>5, <1>6, <1>7, <1>8, <1>9, <1>10, <1>11, <1>12, <1>13, <1>14, <1>15
        DEF Next, ConsumerStep, ThreadStep

LEMMA InitLease == Init => LeaseInv
BY InitSafe DEF Init, LeaseInv, LeaseValid

LEMMA StepLease ==
  ASSUME Timely, AckInv, LeaseValid, [Next]_vars, ExclusiveInv'
  PROVE  LeaseValid'
<1> SUFFICES ASSUME NEW c \in copies', c.stage \in OwnedStages PROVE Owns(c)'
  BY DEF LeaseValid, Owns
<1> QED BY StaysInTable DEF ExclusiveInv, OneHolder

LEMMA NextLease ==
  ASSUME Timely, LeaseInv, [PunctualNext]_vars
  PROVE  LeaseInv'
<1>1. SafeInv'
  BY TimelyEnv, NextSafe DEF LeaseInv
<1>2. LeaseValid'
  BY <1>1, StepLease DEF PunctualNext, LeaseInv, AckInv, SafeInv
<1> QED BY <1>1, <1>2 DEF LeaseInv

(* The invariant of a timely environment: on top of the two before, what a delivery
   has to deal with is still in the table. *)
THEOREM LeaseInvariant == ASSUME Timely PROVE PunctualSpec => []LeaseInv
BY InitLease, NextLease, PTL DEF PunctualSpec

(* In a timely environment the lease a delivery stands for is never taken away
   from the process that still has to execute or settle it: no other claim, no
   reap, no second enqueue gets at its row (broker.py, CLAIM, REAP, REQUEUE). *)
THEOREM LeaseHolds == ASSUME Timely PROVE PunctualSpec => []LeaseValid
<1>1. LeaseInv => LeaseValid
  BY DEF LeaseInv
<1> QED BY <1>1, LeaseInvariant, PTL

-----------------------------------------------------------------------------
(* Refinement: in a timely environment every step of the system is a step of the
   queue of AtLeastOnce or one that it cannot see.  LeaseInv says why: a settlement
   finds the row its delivery stands for, and that message has been decided on.

   The abstract queue sees which messages are pending, not where they are. *)

Pending(t) == InState(t, "queued") \cup InState(t, "consumed")

Decided(o) == {m \in Messages : o[m] # {}}

(* Abstract steps in terms of this specification's variables. *)
LEMMA AbstractSteps ==
  ASSUME sent \subseteq Messages
  PROVE  /\ UNCHANGED <<sent, Pending(rows), Decided(outcome)>> => UNCHANGED Promise!vars
         /\ \A m \in Messages :
              m \notin sent /\ sent' = sent \cup {m} /\ UNCHANGED Decided(outcome)
                /\ Pending(rows') = Pending(rows) \cup {m} => Promise!Next
         /\ \A m \in Pending(rows) :
              UNCHANGED <<sent, Pending(rows)>>
                /\ Decided(outcome') = Decided(outcome) \cup {m} => Promise!Next
         /\ \A m \in Pending(rows) \cap Decided(outcome) :
              UNCHANGED <<sent, Decided(outcome)>>
                /\ Pending(rows') = Pending(rows) \ {m} => Promise!Next
BY DEF Promise!vars, Promise!Next, Promise!Accept, Promise!Decide, Promise!Settle,
       Pending, Decided, InState

(* The statements that move rows but neither add nor settle a message. *)
LEMMA SamePending ==
  ASSUME NEW t \in [Messages -> Row]
  PROVE  /\ \A S : Pending(Requeue(t, S)) = Pending(t)
         /\ \A alive : Pending(Reap(t, alive)) = Pending(t)
         /\ \A old : Pending(Purge(t, old)) = Pending(t)
         /\ \A m \in Messages : Pending([t EXCEPT ![m].due = TRUE]) = Pending(t)
<1>1. \A S : Pending(Requeue(t, S)) = Pending(t)
  BY DEF Pending, InState, Requeue, Requeued, Row
<1>2. \A alive : Pending(Reap(t, alive)) = Pending(t)
  BY <1>1 DEF Reap
<1>3. \A old : Pending(Purge(t, old)) = Pending(t)
  BY DEF Pending, InState, Purge, AbsentRow
<1>4. \A m \in Messages : Pending([t EXCEPT ![m].due = TRUE]) = Pending(t)
  BY DEF Pending, InState, Row
<1> QED BY <1>1, <1>2, <1>3, <1>4

LEMMA MoverRefines ==
  ASSUME LeaseInv, Timely,
         \/ \E m \in Messages : Due(m)
         \/ \E w \in Workers, q \in Consumed : Maintain(w, q) \/ Claim(w, q)
         \/ \E w \in Workers : Retry(w) \/ Release(w) \/ Drain(w) \/ Exit(w) \/ Crash(w)
         \/ CliPurge
  PROVE  UNCHANGED <<sent, Pending(rows), Decided(outcome)>>
<1>t. LeasesLast /\ ExclusiveInv /\ rows \in [Messages -> Row] /\ \A c \in copies : c.msg \in Messages
  BY TimelyEnv, Parts DEF LeaseInv, SafeInv
<1>0. UNCHANGED outcome => UNCHANGED Decided(outcome)
  BY DEF Decided
<1>p. Pending(rows') = Pending(rows) => UNCHANGED Pending(rows)
  BY DEF Pending, InState
<1> SUFFICES UNCHANGED sent /\ UNCHANGED Decided(outcome) /\ Pending(rows') = Pending(rows)
  BY <1>p
<1>1. ASSUME NEW m \in Messages, Due(m) PROVE UNCHANGED <<sent, outcome>> /\ Pending(rows') = Pending(rows)
  BY <1>1, <1>t, SamePending DEF Due, history
<1>o. ASSUME NEW old \in SUBSET InState(rows, "rejected"), NoteAll(old, "purged")
      PROVE  UNCHANGED Decided(outcome)
  <2>1. \A m \in old : m \in Messages /\ outcome[m] # {}
    BY DEF LeaseInv, SafeInv, DecidedFirst, InState
  <2>2. \A m \in Messages : outcome'[m] # {} <=> outcome[m] # {}
    BY <1>o, <2>1 DEF NoteAll
  <2> QED BY <2>2 DEF Decided
<1>2. ASSUME NEW w \in Workers, NEW q \in Consumed, Maintain(w, q)
      PROVE  UNCHANGED sent /\ UNCHANGED Decided(outcome) /\ Pending(rows') = Pending(rows)
  <2>1. PICK old \in SUBSET InState(rows, "rejected") :
          rows' = Purge(Reap(rows, AliveWorkers), old) /\ NoteAll(old, "purged")
    BY <1>2 DEF Maintain
  <2>2. Pending(rows') = Pending(rows)
    BY <2>1, <1>t, SamePending, ReapType
  <2> QED BY <2>1, <2>2, <1>2, <1>o DEF Maintain
<1>3. ASSUME NEW w \in Workers, NEW q \in Consumed, Claim(w, q)
      PROVE  UNCHANGED <<sent, outcome>> /\ Pending(rows') = Pending(rows)
  <2>1. Pending(rows') = Pending(rows)
    BY <1>3, <1>t, ClaimEffect DEF Pending, InState
  <2> QED BY <2>1, <1>3 DEF Claim
<1>4. ASSUME NEW w \in Workers, Retry(w) \/ Release(w)
      PROVE  UNCHANGED <<sent, outcome>> /\ Pending(rows') = Pending(rows)
  <2>1. PICK c \in copies, delayed \in BOOLEAN, r \in Nat :
          EnqueueMessage(c.msg, delayed, r) /\ c.stage \in OwnedStages
    BY <1>4, <1>t, RequeueSteps, Zenon
  <2>2. rows[c.msg].state = "consumed"
    BY <2>1 DEF LeaseInv, LeaseValid
  <2>3. rows'[c.msg].state = "queued" /\ \A m \in Messages \ {c.msg} : rows'[m] = rows[m]
    BY <2>1, <1>t DEF EnqueueMessage, Enqueue
  <2>4. Pending(rows') = Pending(rows)
    BY <2>2, <2>3, <1>t DEF Pending, InState
  <2> QED BY <2>4, <1>4, <1>t, RequeueSteps
<1>5. ASSUME NEW w \in Workers, Drain(w) \/ Exit(w) \/ Crash(w)
      PROVE  UNCHANGED <<sent, outcome>> /\ Pending(rows') = Pending(rows)
  BY <1>5, <1>t, EndSteps, SamePending
<1>6. ASSUME CliPurge
      PROVE  UNCHANGED sent /\ UNCHANGED Decided(outcome) /\ Pending(rows') = Pending(rows)
  <2>1. PICK old \in SUBSET InState(rows, "rejected") : rows' = Purge(rows, old) /\ NoteAll(old, "purged")
    BY <1>6 DEF CliPurge
  <2> QED BY <2>1, <1>6, <1>t, <1>o, SamePending DEF CliPurge
<1> QED BY <1>0, <1>1, <1>2, <1>3, <1>4, <1>5, <1>6

LEMMA SettlerRefines ==
  ASSUME LeaseInv, Timely, NEW w \in Workers, AckDelivery(w) \/ NackDelivery(w)
  PROVE  [Promise!Next]_(Promise!vars)
<1>t. LeasesLast /\ sent \subseteq Messages /\ \A c \in copies : c.msg \in Messages
  BY TimelyEnv, Parts DEF LeaseInv, SafeInv
<1>1. UNCHANGED <<sent, outcome>>
  BY <1>t, SettleSteps
<1>2. PICK c \in copies :
        /\ \A m \in Messages \ {c.msg} : rows'[m] = rows[m]
        /\ \/ UNCHANGED rows
           \/ /\ rows[c.msg].state = "consumed" /\ outcome[c.msg] # {}
              /\ rows'[c.msg].state \in {"absent", "rejected"}
  BY SettleOwn DEF LeaseInv, SafeInv, AckInv
<1>3. CASE UNCHANGED rows
  BY <1>1, <1>3, <1>t, AbstractSteps DEF Pending, InState, Decided
<1>4. CASE /\ rows[c.msg].state = "consumed" /\ outcome[c.msg] # {}
           /\ rows'[c.msg].state \in {"absent", "rejected"}
  <2>1. c.msg \in Pending(rows) \cap Decided(outcome)
    BY <1>4, <1>t DEF Pending, InState, Decided
  <2>2. Pending(rows') = Pending(rows) \ {c.msg}
    BY <1>2, <1>4, <1>t DEF Pending, InState
  <2> QED BY <2>1, <2>2, <1>1, <1>t, AbstractSteps DEF Decided
<1> QED BY <1>2, <1>3, <1>4

LEMMA DeciderRefines ==
  ASSUME LeaseInv, NEW w \in Workers, Succeed(w) \/ Exhaust(w)
  PROVE  Promise!Next
<1>t. /\ outcome \in [Messages -> SUBSET Outcomes]
      /\ sent \subseteq Messages /\ \A c \in copies : c.msg \in Messages
  BY DEF LeaseInv, SafeInv, ExclusiveInv, ListedInv, TypeOK, Copy
<1>1. PICK c \in copies, what \in {"executed", "exhausted"} : c.stage = "run" /\ Note(c.msg, what)
  BY DEF Succeed, Exhaust, CopiesAt
<1>2. UNCHANGED <<rows, sent>>
  BY DEF Succeed, Exhaust
<1>3. c.msg \in Pending(rows)
  BY <1>1, <1>t DEF LeaseInv, LeaseValid, Pending, InState, OwnedStages
<1>4. Decided(outcome') = Decided(outcome) \cup {c.msg}
  BY <1>1, <1>t DEF Note, NoteAll, Decided
<1> QED BY <1>2, <1>3, <1>4, <1>t, AbstractSteps DEF Pending, InState

LEMMA StepRefines ==
  ASSUME Timely, LeaseInv, [Next]_vars
  PROVE  [Promise!Next]_(Promise!vars)
<1>t. /\ LeasesLast /\ ExclusiveInv /\ sent \subseteq Messages /\ rows \in [Messages -> Row]
  BY TimelyEnv, Parts DEF LeaseInv, SafeInv
<1>e. /\ "conn_error" \notin Env /\ "recover" \notin Env /\ "flush" \notin Env
  BY <1>t, TimelyEnv, LastingEnv
<1>1. ASSUME UNCHANGED <<sent, rows, outcome>> PROVE [Promise!Next]_(Promise!vars)
  BY <1>1, <1>t, AbstractSteps DEF Pending, InState, Decided
<1>2. ASSUME NEW m \in Messages, Send(m) PROVE [Promise!Next]_(Promise!vars)
  <2>1. m \notin sent /\ sent' = sent \cup {m} /\ UNCHANGED outcome
    BY <1>2 DEF Send
  <2>2. rows'[m].state = "queued" /\ \A n \in Messages \ {m} : rows'[n] = rows[n]
    BY <1>2, <1>t DEF Send, EnqueueMessage, Enqueue
  <2>3. Pending(rows') = Pending(rows) \cup {m}
    BY <2>2 DEF Pending, InState
  <2> QED BY <2>1, <2>3, <1>t, AbstractSteps DEF Decided
<1>3. ASSUME NEW m \in Messages, SendAgain(m) \/ Due(m) PROVE [Promise!Next]_(Promise!vars)
  BY <1>3, <1>t, MoverRefines, AbstractSteps DEF SendAgain, ExclusiveInv, DeliveriesDistinct
<1>4. ASSUME NEW w \in Workers, NEW q \in Consumed, ConsumerStep(w, q)
      PROVE  [Promise!Next]_(Promise!vars)
  <2>1. CASE Maintain(w, q) \/ Claim(w, q)
    BY <2>1, <1>t, MoverRefines, AbstractSteps
  <2>2. CASE ~ (Maintain(w, q) \/ Claim(w, q))
    BY <2>2, <1>1, <1>4 DEF ConsumerStep, HeartbeatDue, HeartbeatRecent, HeartbeatCommit,
                            MaintenanceSkip, Deliver, Idle, history
  <2> QED BY <2>1, <2>2
<1>5. ASSUME NEW w \in Workers, NEW q \in Consumed,
             ClaimLost(w, q) \/ ConsumerError(w, q) \/ QuitConsumer(w, q)
      PROVE  [Promise!Next]_(Promise!vars)
  BY <1>5, <1>e, <1>1 DEF ClaimLost, ConsumerError, QuitConsumer, history
<1>6. ASSUME NEW w \in Workers, ThreadStep(w) \/ Release(w) PROVE [Promise!Next]_(Promise!vars)
  <2>1. CASE Begin(w)
    BY <2>1, <1>1 DEF Begin, history
  <2>2. CASE Retry(w) \/ Release(w)
    BY <2>2, <1>t, MoverRefines, AbstractSteps
  <2> QED BY <2>1, <2>2, <1>6, DeciderRefines, SettlerRefines DEF ThreadStep
<1>7. ASSUME NEW w \in Workers, Start(w) \/ Stop(w) \/ Lapse(w)
      PROVE  [Promise!Next]_(Promise!vars)
  BY <1>7, <1>1 DEF Start, Stop, Lapse, history
<1>8. ASSUME NEW w \in Workers, Drain(w) \/ Exit(w) \/ Crash(w) PROVE [Promise!Next]_(Promise!vars)
  BY <1>8, <1>t, MoverRefines, AbstractSteps
<1>9. CASE CliRecover \/ CliFlush \/ CliPurge
  BY <1>9, <1>e, <1>t, MoverRefines, AbstractSteps DEF CliRecover, CliFlush
<1>10. CASE UNCHANGED vars
  BY <1>10, <1>1 DEF vars
<1>11. ASSUME NEW w \in Workers, RetryLost(w) PROVE [Promise!Next]_(Promise!vars)
  BY <1>11, <1>e DEF RetryLost
<1> QED BY <1>2, <1>3, <1>4, <1>5, <1>6, <1>7, <1>8, <1>9, <1>10, <1>11 DEF Next

(* In a timely environment the whole system implements the queue of AtLeastOnce:
   claims, retries, crashes and the reaper are steps the outside cannot see. *)
THEOREM KeepsPromise == ASSUME Timely PROVE PunctualSpec => ImplementsAtLeastOnce
<1>1. Init => Promise!Init
  BY DEF Init, Promise!Init, InState, EmptyTable, AbsentRow
<1>2. LeaseInv /\ [PunctualNext]_vars => [Promise!Next]_(Promise!vars)
  BY StepRefines DEF PunctualNext
<1> QED BY <1>1, <1>2, LeaseInvariant, PTL DEF PunctualSpec, ImplementsAtLeastOnce, Promise!Spec
===============================================================================
