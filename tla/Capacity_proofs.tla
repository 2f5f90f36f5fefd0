---------------------------- MODULE Capacity_proofs ----------------------------
(***************************************************************************)
(* What a consumer counts against its prefetch.  That no capacity is lost  *)
(* is proved whatever goes wrong: crashes, connection errors at any        *)
(* statement, consumers that are rebuilt, operators that take rows away.   *)
(* That a consumer never has more deliveries than its prefetch needs acks  *)
(* in time.  The set of messages has to be finite.                         *)
(***************************************************************************)
EXTENDS Lease_proofs, FiniteSetTheorems

Buffer(w, q) == CopiesAt(w, q, {"buffer"})

(* The messages of q that process w took out of a buffer and has not settled. *)
HandedOut(w, q) == MsgsOf(CopiesAt(w, q, Stages \ {"buffer"}))

(* The state of one consumer is as it should be. *)
Sound(w, q) ==
  /\ IsFiniteSet(Buffer(w, q))
  /\ Cardinality(in_processing[w][q]) + Cardinality(Buffer(w, q)) <= Prefetch
  /\ life[w] \in {"up", "stopping"} => in_processing[w][q] \subseteq HandedOut(w, q)
  /\ life[w] = "new" => in_processing[w][q] = {} /\ pc[w][q] = "off"

CapacityInv == TypeOK /\ \A w \in Workers, q \in Consumed : Sound(w, q)

-----------------------------------------------------------------------------
LEMMA Limits == Prefetch \in Nat /\ Consumed \subseteq QueueNames
BY DeliveryAssumption

LEMMA Counted ==
  ASSUME IsFiniteSet(Messages), TypeOK, NEW w \in Workers, NEW q \in QueueNames
  PROVE  IsFiniteSet(in_processing[w][q]) /\ Cardinality(in_processing[w][q]) \in Nat
<1>1. in_processing[w][q] \in SUBSET Messages
  BY DEF TypeOK
<1> QED BY <1>1, FS_Subset, FS_CardinalityType

(* A step that leaves a consumer's buffer and count alone. *)
LEMMA SoundKept ==
  ASSUME NEW w \in Workers, NEW q \in Consumed, Sound(w, q),
         in_processing'[w][q] = in_processing[w][q], Buffer(w, q)' = Buffer(w, q),
         \/ life'[w] \in {"drained", "down"}
         \/ /\ HandedOut(w, q) \subseteq HandedOut(w, q)'
            /\ life'[w] = life[w] \/ (life[w] \in {"new", "up"} /\ life'[w] \in {"up", "stopping"}),
         life'[w] = "new" => pc'[w][q] = pc[w][q]
  PROVE  Sound(w, q)'
BY DEF Sound

(* A consumer that has just been built, or one of a process that ended. *)
LEMMA SoundEmpty ==
  ASSUME NEW w \in Workers, NEW q \in Consumed,
         in_processing'[w][q] = {}, Buffer(w, q)' = {}, life'[w] # "new"
  PROVE  Sound(w, q)'
<1>1. IsFiniteSet({}) /\ Cardinality({}) = 0
  BY FS_EmptySet
<1> QED BY <1>1, Limits DEF Sound

(* A delivery that goes on, once out of its buffer. *)
LEMMA MoveKeeps ==
  ASSUME TypeOK, NEW c \in copies, c.stage # "buffer", NEW s \in Stages \ {"buffer"}, MoveTo(c, s),
         NEW w \in Workers, NEW q \in QueueNames
  PROVE  Buffer(w, q)' = Buffer(w, q) /\ HandedOut(w, q) \subseteq HandedOut(w, q)'
<1> DEFINE d == [c EXCEPT !.stage = s]
<1>1. c \in Copy
  BY DEF TypeOK
<1>2. d.worker = c.worker /\ d.msg = c.msg /\ d.queue = c.queue /\ d.stage = s
  BY <1>1 DEF Copy
<1>3. copies' = (copies \ {c}) \cup {d}
  BY DEF MoveTo
<1> HIDE DEF d
<1>4. Buffer(w, q)' = Buffer(w, q)
  BY <1>2, <1>3 DEF Buffer, CopiesAt
<1>5. ASSUME NEW m \in HandedOut(w, q) PROVE m \in HandedOut(w, q)'
  <2>1. PICK e \in copies : e.worker = w /\ e.queue = q /\ e.stage \in Stages \ {"buffer"} /\ e.msg = m
    BY <1>5 DEF HandedOut, MsgsOf, CopiesAt
  <2>2. PICK f \in copies' : f.worker = w /\ f.queue = q /\ f.stage \in Stages \ {"buffer"} /\ f.msg = m
    BY <1>2, <1>3, <2>1
  <2> QED BY <2>2 DEF HandedOut, MsgsOf, CopiesAt
<1> QED BY <1>4, <1>5

LEMMA SameCopies ==
  ASSUME UNCHANGED copies, NEW w, NEW q
  PROVE  Buffer(w, q)' = Buffer(w, q) /\ HandedOut(w, q)' = HandedOut(w, q)
BY DEF Buffer, HandedOut, MsgsOf, CopiesAt

(* A step of nobody who holds deliveries, or of one that does not touch them. *)
LEMMA IdleStep ==
  ASSUME CapacityInv, TypeOK', UNCHANGED <<copies, in_processing, life>>,
         \A w \in Workers, q \in Consumed : life[w] = "new" => pc'[w][q] = pc[w][q]
  PROVE  CapacityInv'
<1> SUFFICES ASSUME NEW w \in Workers, NEW q \in Consumed PROVE Sound(w, q)'
  BY DEF CapacityInv
<1> QED BY SameCopies, SoundKept DEF CapacityInv

(* A thread that is in __next__ belongs to a process that has started. *)
LEMMA Started ==
  ASSUME CapacityInv, NEW w \in Workers, NEW q \in Consumed, pc[w][q] # "off",
         NEW label, Goto(w, q, label), UNCHANGED life
  PROVE  /\ life[w] # "new"
         /\ \A v \in Workers, p \in Consumed : life[v] = "new" => pc'[v][p] = pc[v][p]
<1>1. life[w] # "new"
  BY DEF CapacityInv, Sound
<1> QED BY <1>1, Limits DEF Goto, CapacityInv, TypeOK

LEMMA MoveStep ==
  ASSUME CapacityInv, TypeOK', UNCHANGED <<in_processing, life, pc>>,
         NEW c \in copies, c.stage # "buffer", NEW s \in Stages \ {"buffer"}, MoveTo(c, s)
  PROVE  CapacityInv'
<1> SUFFICES ASSUME NEW w \in Workers, NEW q \in Consumed PROVE Sound(w, q)'
  BY DEF CapacityInv
<1>1. Buffer(w, q)' = Buffer(w, q) /\ HandedOut(w, q) \subseteq HandedOut(w, q)'
  BY Limits, MoveKeeps DEF CapacityInv
<1> QED BY <1>1, SoundKept DEF CapacityInv

(* Settling a delivery takes its id out of the count, and only its own. *)
LEMMA SettledSound ==
  ASSUME IsFiniteSet(Messages), CapacityInv, TypeOK', UNCHANGED <<life, pc>>,
         NEW c \in copies, c.stage # "buffer", NEW reply, Settled(c, reply)
  PROVE  CapacityInv'
<1>1. CASE ~ reply
  BY <1>1, IdleStep DEF Settled
<1>2. CASE reply
  <2>1. /\ copies' = copies \ {c}
        /\ in_processing' = [in_processing EXCEPT ![c.worker][c.queue] = @ \ {c.msg}]
    BY <1>2 DEF Settled
  <2>2. c \in Copy /\ c.worker \in Workers /\ c.queue \in QueueNames
    BY DEF CapacityInv, TypeOK, Copy
  <2> SUFFICES ASSUME NEW w \in Workers, NEW q \in Consumed PROVE Sound(w, q)'
    BY DEF CapacityInv
  <2>3. q \in QueueNames
    BY Limits
  <2>4. Sound(w, q)
    BY DEF CapacityInv
  <2>5. Buffer(w, q)' = Buffer(w, q)
    BY <2>1 DEF Buffer, CopiesAt
  <2>6. CASE w = c.worker /\ q = c.queue
    <3>1. in_processing'[w][q] = in_processing[w][q] \ {c.msg}
      BY <2>1, <2>2, <2>3, <2>6 DEF CapacityInv, TypeOK
    <3>2. HandedOut(w, q) \ {c.msg} \subseteq HandedOut(w, q)'
      <4> SUFFICES ASSUME NEW m \in HandedOut(w, q), m # c.msg PROVE m \in HandedOut(w, q)'
        OBVIOUS
      <4>1. PICK e \in copies : e.worker = w /\ e.queue = q /\ e.stage \in Stages \ {"buffer"} /\ e.msg = m
        BY DEF HandedOut, MsgsOf, CopiesAt
      <4>2. e \in copies'
        BY <2>1, <4>1
      <4> QED BY <4>1, <4>2 DEF HandedOut, MsgsOf, CopiesAt
    <3>3. Cardinality(in_processing'[w][q]) <= Cardinality(in_processing[w][q])
      BY <2>3, <3>1, Counted, FS_Subset DEF CapacityInv
    <3>4. /\ Cardinality(in_processing'[w][q]) \in Nat /\ Cardinality(in_processing[w][q]) \in Nat
          /\ Cardinality(Buffer(w, q)) \in Nat
      <4>1. in_processing'[w][q] \in SUBSET in_processing[w][q]
        BY <3>1
      <4> QED BY <2>3, <2>4, <4>1, Counted, FS_CardinalityType, FS_Subset DEF Sound, CapacityInv
    <3> QED BY <2>4, <2>5, <3>1, <3>2, <3>3, <3>4, Limits DEF Sound
  <2>7. CASE ~ (w = c.worker /\ q = c.queue)
    <3>1. in_processing'[w][q] = in_processing[w][q]
      BY <2>1, <2>2, <2>3, <2>7 DEF CapacityInv, TypeOK
    <3>2. HandedOut(w, q)' = HandedOut(w, q)
      BY <2>1, <2>7 DEF HandedOut, MsgsOf, CopiesAt
    <3> QED BY <2>4, <2>5, <3>1, <3>2, SoundKept
  <2> QED BY <2>6, <2>7
<1> QED BY <1>1, <1>2

(* One consumer starts afresh; the others keep what they have. *)
LEMMA NewConsumerSound ==
  ASSUME CapacityInv, TypeOK', UNCHANGED life, NEW w \in Workers, NEW q \in Consumed,
         pc[w][q] # "off", NewConsumer(w, q)
  PROVE  CapacityInv'
<1>1. /\ copies' = copies \ ThreadsOwn(w, q)
      /\ in_processing' = [in_processing EXCEPT ![w][q] = {}]
      /\ Goto(w, q, "next")
  BY DEF NewConsumer
<1>2. /\ life[w] # "new"
      /\ \A v \in Workers, p \in Consumed : life[v] = "new" => pc'[v][p] = pc[v][p]
  BY <1>1, Started
<1> SUFFICES ASSUME NEW v \in Workers, NEW p \in Consumed PROVE Sound(v, p)'
  BY DEF CapacityInv
<1>3. CASE v = w /\ p = q
  <2>1. in_processing'[v][p] = {}
    BY <1>1, <1>3, Limits DEF CapacityInv, TypeOK
  <2>2. Buffer(v, p)' = {}
    BY <1>1, <1>3 DEF Buffer, CopiesAt, ThreadsOwn
  <2> QED BY <1>2, <1>3, <2>1, <2>2, SoundEmpty
<1>4. CASE ~ (v = w /\ p = q)
  <2>1. in_processing'[v][p] = in_processing[v][p]
    BY <1>1, <1>4, Limits DEF CapacityInv, TypeOK
  <2>2. Buffer(v, p)' = Buffer(v, p) /\ HandedOut(v, p)' = HandedOut(v, p)
    BY <1>1, <1>4 DEF Buffer, HandedOut, MsgsOf, CopiesAt, ThreadsOwn
  <2> QED BY <1>2, <2>1, <2>2, SoundKept DEF CapacityInv
<1> QED BY <1>3, <1>4

(* A process ends. *)
LEMMA DieSound ==
  ASSUME CapacityInv, TypeOK', NEW w \in Workers, Die(w)
  PROVE  CapacityInv'
<1> SUFFICES ASSUME NEW v \in Workers, NEW p \in Consumed PROVE Sound(v, p)'
  BY DEF CapacityInv
<1>1. CASE v = w
  <2>1. in_processing'[v][p] = {} /\ life'[v] = "down"
    BY <1>1, Limits DEF Die, CapacityInv, TypeOK
  <2>2. Buffer(v, p)' = {}
    BY <1>1 DEF Die, Buffer, CopiesAt
  <2> QED BY <2>1, <2>2, SoundEmpty
<1>2. CASE v # w
  <2>1. in_processing'[v] = in_processing[v] /\ life'[v] = life[v] /\ pc'[v] = pc[v]
    BY <1>2 DEF Die, CapacityInv, TypeOK
  <2>2. Buffer(v, p)' = Buffer(v, p) /\ HandedOut(v, p)' = HandedOut(v, p)
    BY <1>2 DEF Die, Buffer, HandedOut, MsgsOf, CopiesAt
  <2> QED BY <2>1, <2>2, SoundKept DEF CapacityInv
<1> QED BY <1>1, <1>2

(* CLAIM takes no more rows than the buffer may hold. *)
LEMMA ClaimSound ==
  ASSUME IsFiniteSet(Messages), CapacityInv, TypeOK', UNCHANGED <<life, pc, in_processing>>,
         NEW w \in Workers, NEW q \in Consumed, Buffer(w, q) = {},
         NEW S \in Batches(w, q), copies' = copies \cup {CopyOf(w, q, m) : m \in S}
  PROVE  CapacityInv'
<1> DEFINE f == [m \in S |-> CopyOf(w, q, m)]
           new == {CopyOf(w, q, m) : m \in S}
<1>1. S \subseteq Messages /\ Cardinality(S) <= Prefetch - Cardinality(in_processing[w][q])
  BY DEF Batches, Claimable, InState, Capacity
<1>2. IsFiniteSet(S)
  BY <1>1, FS_Subset
<1>3. f \in Surjection(S, new)
  BY DEF Surjection
<1>4. IsFiniteSet(new) /\ Cardinality(new) <= Cardinality(S)
  BY <1>2, <1>3, FS_Surjection
<1>5. \A c \in new : c.worker = w /\ c.queue = q /\ c.stage = "buffer"
  BY DEF CopyOf
<1>6. copies' = copies \cup new
  OBVIOUS
<1> HIDE DEF new, f
<1> SUFFICES ASSUME NEW v \in Workers, NEW p \in Consumed PROVE Sound(v, p)'
  BY DEF CapacityInv
<1>7. HandedOut(v, p)' = HandedOut(v, p)
  BY <1>5, <1>6 DEF HandedOut, MsgsOf, CopiesAt
<1>8. CASE v = w /\ p = q
  <2>1. Buffer(v, p)' = new
    BY <1>5, <1>6, <1>8 DEF Buffer, CopiesAt
  <2>2. Cardinality(new) \in Nat /\ Cardinality(S) \in Nat /\ Cardinality(in_processing[v][p]) \in Nat
    BY <1>2, <1>4, Counted, FS_CardinalityType, Limits DEF CapacityInv
  <2> QED BY <1>1, <1>4, <1>7, <1>8, <2>1, <2>2, Limits DEF Sound, CapacityInv
<1>9. CASE ~ (v = w /\ p = q)
  <2>1. Buffer(v, p)' = Buffer(v, p)
    BY <1>5, <1>6, <1>9 DEF Buffer, CopiesAt
  <2> QED BY <1>7, <2>1, SoundKept DEF CapacityInv
<1> QED BY <1>8, <1>9

(* What __next__ hands out moves from the buffer to the count. *)
LEMMA DeliverSound ==
  ASSUME IsFiniteSet(Messages), CapacityInv, TypeOK', NEW w \in Workers, NEW q \in Consumed, Deliver(w, q)
  PROVE  CapacityInv'
<1> DEFINE s == IF q = "default.DQ" THEN "delay" ELSE "work"
<1>1. PICK c \in Buffer(w, q) :
        /\ in_processing' = [in_processing EXCEPT ![w][q] = @ \cup {c.msg}]
        /\ MoveTo(c, s)
  BY DEF Deliver, Buffer
<1>2. Goto(w, q, "next") /\ UNCHANGED life /\ pc[w][q] # "off"
  BY DEF Deliver
<1>3. /\ life[w] # "new"
      /\ \A v \in Workers, p \in Consumed : life[v] = "new" => pc'[v][p] = pc[v][p]
  BY <1>2, Started
<1>4. c \in copies /\ c \in Copy /\ c.worker = w /\ c.queue = q /\ c.stage = "buffer"
  BY DEF Buffer, CopiesAt, CapacityInv, TypeOK
<1> DEFINE d == [c EXCEPT !.stage = s]
<1>5. d.worker = w /\ d.msg = c.msg /\ d.queue = q /\ d.stage \in Stages \ {"buffer"}
  BY <1>4 DEF Copy, Stages
<1>6. copies' = (copies \ {c}) \cup {d}
  BY <1>1 DEF MoveTo
<1> HIDE DEF d, s
<1> SUFFICES ASSUME NEW v \in Workers, NEW p \in Consumed PROVE Sound(v, p)'
  BY DEF CapacityInv
<1>7. Sound(v, p)
  BY DEF CapacityInv
<1>8. HandedOut(v, p) \subseteq HandedOut(v, p)'
  <2> SUFFICES ASSUME NEW m \in HandedOut(v, p) PROVE m \in HandedOut(v, p)'
    OBVIOUS
  <2>1. PICK e \in copies : e.worker = v /\ e.queue = p /\ e.stage \in Stages \ {"buffer"} /\ e.msg = m
    BY DEF HandedOut, MsgsOf, CopiesAt
  <2>2. e \in copies'
    BY <1>4, <1>6, <2>1
  <2> QED BY <2>1, <2>2 DEF HandedOut, MsgsOf, CopiesAt
<1>9. CASE v = w /\ p = q
  <2>1. Buffer(v, p)' = Buffer(v, p) \ {c}
    BY <1>5, <1>6, <1>9 DEF Buffer, CopiesAt
  <2>2. c.msg \in HandedOut(v, p)'
    BY <1>5, <1>6, <1>9 DEF HandedOut, MsgsOf, CopiesAt
  <2>3. in_processing'[v][p] = in_processing[v][p] \cup {c.msg}
    BY <1>1, <1>9, Limits DEF CapacityInv, TypeOK
  <2>4. /\ IsFiniteSet(in_processing[v][p]) /\ Cardinality(in_processing[v][p]) \in Nat
    BY Counted, Limits DEF CapacityInv
  <2>5. /\ Cardinality(in_processing'[v][p]) \in Nat
        /\ Cardinality(in_processing'[v][p]) <= Cardinality(in_processing[v][p]) + 1
    <3>1. /\ IsFiniteSet(in_processing'[v][p])
          /\ Cardinality(in_processing'[v][p]) =
               IF c.msg \in in_processing[v][p] THEN Cardinality(in_processing[v][p])
                                                ELSE Cardinality(in_processing[v][p]) + 1
      <4> DEFINE T == in_processing[v][p]
      <4>1. IsFiniteSet(T \cup {c.msg})
            /\ Cardinality(T \cup {c.msg}) = IF c.msg \in T THEN Cardinality(T) ELSE Cardinality(T) + 1
        <5>1. IsFiniteSet(T)
          BY <2>4
        <5> HIDE DEF T
        <5> QED BY <5>1, FS_AddElement
      <4> QED BY <2>3, <4>1
    <3> QED BY <2>4, <3>1
  <2>6. /\ IsFiniteSet(Buffer(v, p)') /\ Cardinality(Buffer(v, p)) \in Nat
        /\ Cardinality(Buffer(v, p)') = Cardinality(Buffer(v, p)) - 1
    BY <1>1, <1>7, <1>9, <2>1, FS_RemoveElement, FS_CardinalityType DEF Sound
  <2>7. Cardinality(in_processing'[v][p]) + Cardinality(Buffer(v, p)') <= Prefetch
    BY <1>7, <2>4, <2>5, <2>6, Limits DEF Sound
  <2>8. life'[v] \in {"up", "stopping"} => in_processing'[v][p] \subseteq HandedOut(v, p)'
    BY <1>2, <1>7, <1>8, <2>2, <2>3 DEF Sound
  <2> QED BY <1>2, <1>3, <1>9, <2>6, <2>7, <2>8 DEF Sound
<1>10. CASE ~ (v = w /\ p = q)
  <2>1. in_processing'[v][p] = in_processing[v][p]
    BY <1>1, <1>10, Limits DEF CapacityInv, TypeOK
  <2>2. Buffer(v, p)' = Buffer(v, p)
    BY <1>4, <1>5, <1>6, <1>10 DEF Buffer, CopiesAt
  <2> QED BY <1>2, <1>3, <1>7, <1>8, <2>1, <2>2, SoundKept
<1> QED BY <1>9, <1>10

-----------------------------------------------------------------------------
LEMMA InitCapacity == Init => CapacityInv
<1> SUFFICES ASSUME Init PROVE CapacityInv
  OBVIOUS
<1>1. IsFiniteSet({}) /\ Cardinality({}) = 0
  BY FS_EmptySet
<1>2. ASSUME NEW w \in Workers, NEW q \in Consumed PROVE Sound(w, q)
  <2>1. in_processing[w][q] = {} /\ Buffer(w, q) = {} /\ pc[w][q] = "off"
    BY Limits DEF Init, Buffer, CopiesAt
  <2> QED BY <1>1, <2>1, Limits DEF Sound
<1> QED BY <1>2, InitType DEF CapacityInv

LEMMA CapacityStep ==
  ASSUME IsFiniteSet(Messages), CapacityInv, [Next]_vars
  PROVE  CapacityInv'
<1>1. TypeOK'
  BY NextType DEF CapacityInv
<1> USE DEF process, history
<1>2. ASSUME NEW m \in Messages, Send(m) \/ SendAgain(m) \/ Due(m) PROVE CapacityInv'
  BY <1>1, <1>2, IdleStep DEF Send, SendAgain, Due
<1>3. ASSUME NEW w \in Workers, NEW q \in Consumed, ConsumerStep(w, q) PROVE CapacityInv'
  <2>1. CASE HeartbeatDue(w, q)
    <3>1. Goto(w, q, "heartbeat") /\ pc[w][q] # "off" /\ UNCHANGED <<copies, in_processing, life>>
      BY <2>1 DEF HeartbeatDue, Ready
    <3> QED BY <1>1, <3>1, Started, IdleStep
  <2>2. CASE HeartbeatRecent(w, q) \/ HeartbeatCommit(w, q)
    <3>1. Goto(w, q, "upkeep") /\ pc[w][q] # "off" /\ UNCHANGED <<copies, in_processing, life>>
      BY <2>2 DEF HeartbeatRecent, HeartbeatCommit, Ready
    <3> QED BY <1>1, <3>1, Started, IdleStep
  <2>3. CASE MaintenanceSkip(w, q) \/ Maintain(w, q)
    <3>1. Goto(w, q, "claim") /\ pc[w][q] # "off" /\ UNCHANGED <<copies, in_processing, life>>
      BY <2>3 DEF MaintenanceSkip, Maintain
    <3> QED BY <1>1, <3>1, Started, IdleStep
  <2>4. CASE Claim(w, q)
    <3>1. PICK S \in Batches(w, q) : copies' = copies \cup {CopyOf(w, q, m) : m \in S}
      BY <2>4 DEF Claim
    <3>2. Buffer(w, q) = {} /\ UNCHANGED <<life, pc, in_processing>>
      BY <2>4 DEF Claim, MayClaim, Buffer
    <3> QED BY <1>1, <3>1, <3>2, ClaimSound
  <2>5. CASE Deliver(w, q)
    BY <1>1, <2>5, DeliverSound
  <2>6. CASE Idle(w, q)
    <3>1. Goto(w, q, "next") /\ pc[w][q] # "off" /\ UNCHANGED <<copies, in_processing, life>>
      BY <2>6 DEF Idle
    <3> QED BY <1>1, <3>1, Started, IdleStep
  <2> QED BY <1>3, <2>1, <2>2, <2>3, <2>4, <2>5, <2>6 DEF ConsumerStep
<1>4. ASSUME NEW w \in Workers, NEW q \in Consumed, ClaimLost(w, q) \/ ConsumerError(w, q)
      PROVE  CapacityInv'
  <2>1. NewConsumer(w, q) /\ pc[w][q] # "off" /\ UNCHANGED life
    BY <1>4 DEF ClaimLost, ConsumerError, MayClaim
  <2> QED BY <1>1, <2>1, NewConsumerSound
<1>5. ASSUME NEW w \in Workers, NEW q \in Consumed, QuitConsumer(w, q) PROVE CapacityInv'
  <2>1. Goto(w, q, "off") /\ pc[w][q] # "off" /\ UNCHANGED <<copies, in_processing, life>>
    BY <1>5 DEF QuitConsumer, Ready
  <2> QED BY <1>1, <2>1, Started, IdleStep
<1>6. ASSUME NEW w \in Workers, Start(w) PROVE CapacityInv'
  <2> SUFFICES ASSUME NEW v \in Workers, NEW p \in Consumed PROVE Sound(v, p)'
    BY <1>1 DEF CapacityInv
  <2>1. (life'[v] = life[v] /\ pc'[v] = pc[v]) \/ (life[v] = "new" /\ life'[v] = "up")
    <3>1. /\ life[w] = "new" /\ life' = [life EXCEPT ![w] = "up"]
          /\ pc' = [pc EXCEPT ![w] = pc'[w]]
      BY <1>6 DEF Start, CapacityInv, TypeOK
    <3>2. life \in [Workers -> {"new", "up", "stopping", "drained", "down"}]
      BY DEF CapacityInv, TypeOK
    <3>3. pc \in [Workers -> [QueueNames -> {"off", "next", "heartbeat", "upkeep", "claim"}]]
      BY DEF CapacityInv, TypeOK
    <3>4. CASE v = w
      BY <3>1, <3>2, <3>4
    <3>5. CASE v # w
      BY <3>1, <3>2, <3>3, <3>5
    <3> QED BY <3>4, <3>5
  <2>2. UNCHANGED <<copies, in_processing>>
    BY <1>6 DEF Start
  <2> QED BY <2>1, <2>2, SameCopies, SoundKept DEF CapacityInv
<1>7. ASSUME NEW w \in Workers, Release(w) PROVE CapacityInv'
  <2>1. PICK c \in CopiesAt(w, "default.DQ", {"delay", "retrying"}), reply \in Replies :
          MoveTo(c, IF reply THEN "requeued" ELSE "retrying")
    BY <1>7 DEF Release
  <2>2. c \in copies /\ c.stage # "buffer"
    BY DEF CopiesAt
  <2>3. UNCHANGED <<in_processing, life, pc>>
    BY <1>7 DEF Release
  <2> QED BY <1>1, <2>1, <2>2, <2>3, MoveStep DEF Stages
<1>8. ASSUME NEW w \in Workers, Begin(w) \/ Succeed(w) \/ Exhaust(w) \/ Retry(w) \/ RetryLost(w)
      PROVE  CapacityInv'
  <2>1. PICK c \in copies, s \in {"run", "done", "failed", "requeued", "retrying"} :
          c.stage # "buffer" /\ MoveTo(c, s)
    <3>1. CASE Begin(w)
      BY <3>1 DEF Begin, CopiesAt
    <3>2. CASE Succeed(w)
      BY <3>2 DEF Succeed, CopiesAt
    <3>3. CASE Exhaust(w)
      BY <3>3 DEF Exhaust, CopiesAt
    <3>4. CASE Retry(w)
      BY <3>4 DEF Retry, CopiesAt
    <3>5. CASE RetryLost(w)
      BY <3>5 DEF RetryLost, CopiesAt
    <3> QED BY <1>8, <3>1, <3>2, <3>3, <3>4, <3>5
  <2>2. UNCHANGED <<in_processing, life, pc>>
    BY <1>8 DEF Begin, Succeed, Exhaust, Retry, RetryLost
  <2> QED BY <1>1, <2>1, <2>2, MoveStep DEF Stages
<1>9. ASSUME NEW w \in Workers, AckDelivery(w) \/ NackDelivery(w) PROVE CapacityInv'
  <2>1. PICK c \in copies, reply \in Replies : c.stage # "buffer" /\ Settled(c, reply)
    BY <1>9 DEF AckDelivery, NackDelivery
  <2>2. UNCHANGED <<life, pc>>
    BY <1>9 DEF AckDelivery, NackDelivery
  <2> QED BY <1>1, <2>1, <2>2, SettledSound
<1>10. ASSUME NEW w \in Workers, Stop(w) PROVE CapacityInv'
  <2> SUFFICES ASSUME NEW v \in Workers, NEW p \in Consumed PROVE Sound(v, p)'
    BY <1>1 DEF CapacityInv
  <2>1. life'[v] = life[v] \/ (life[v] = "up" /\ life'[v] = "stopping")
    <3>1. life[w] = "up" /\ life' = [life EXCEPT ![w] = "stopping"]
      BY <1>10 DEF Stop
    <3>2. life \in [Workers -> {"new", "up", "stopping", "drained", "down"}]
      BY DEF CapacityInv, TypeOK
    <3> QED BY <3>1, <3>2
  <2>2. UNCHANGED <<copies, in_processing, pc>>
    BY <1>10 DEF Stop
  <2> QED BY <2>1, <2>2, SameCopies, SoundKept DEF CapacityInv
<1>11. ASSUME NEW w \in Workers, Drain(w) PROVE CapacityInv'
  <2> SUFFICES ASSUME NEW v \in Workers, NEW p \in Consumed PROVE Sound(v, p)'
    BY <1>1 DEF CapacityInv
  <2>1. /\ copies' = copies \ CopiesAt(w, "default", {"work"}) /\ UNCHANGED <<in_processing, pc>>
        /\ life' = [life EXCEPT ![w] = "drained"]
    BY <1>11 DEF Drain
  <2>2. Buffer(v, p)' = Buffer(v, p)
    BY <2>1 DEF Buffer, CopiesAt
  <2>3. CASE v = w
    <3>1. life'[v] = "drained"
      BY <2>1, <2>3 DEF CapacityInv, TypeOK
    <3> QED BY <2>1, <2>2, <3>1, SoundKept DEF CapacityInv
  <2>4. CASE v # w
    <3>1. life'[v] = life[v]
      BY <2>1, <2>4 DEF CapacityInv, TypeOK
    <3>2. HandedOut(v, p)' = HandedOut(v, p)
      BY <2>1, <2>4 DEF HandedOut, MsgsOf, CopiesAt
    <3> QED BY <2>1, <2>2, <3>1, <3>2, SoundKept DEF CapacityInv
  <2> QED BY <2>3, <2>4
<1>12. ASSUME NEW w \in Workers, Exit(w) \/ Crash(w) PROVE CapacityInv'
  BY <1>1, <1>12, DieSound DEF Exit, Crash
<1>13. CASE (\E w \in Workers : Lapse(w)) \/ CliRecover \/ CliFlush \/ CliPurge
  BY <1>1, <1>13, IdleStep DEF Lapse, CliRecover, CliFlush, CliPurge
<1>14. CASE UNCHANGED vars
  BY <1>1, <1>14, IdleStep DEF vars
<1> QED BY <1>2, <1>3, <1>4, <1>5, <1>6, <1>7, <1>8, <1>9, <1>10, <1>11, <1>12, <1>13, <1>14
      DEF Next, ThreadStep

LEMMA CapacityInvariant == ASSUME IsFiniteSet(Messages) PROVE Spec => []CapacityInv
<1>1. CapacityInv /\ [Next]_vars => CapacityInv'
  BY CapacityStep
<1> QED BY InitCapacity, <1>1, PTL DEF Spec

-----------------------------------------------------------------------------
(* In any environment the ids a consumer counts are of deliveries its process still
   has: dramatiq settles each of them, and with it the capacity is back. *)
THEOREM CapacityReturns == ASSUME IsFiniteSet(Messages) PROVE Spec => []CapacityComesBack
<1>1. CapacityInv => CapacityComesBack
  BY DEF CapacityInv, Sound, CapacityComesBack, HandedOut
<1> QED BY <1>1, CapacityInvariant, PTL

-----------------------------------------------------------------------------
(* When acks are in time a consumer has no two deliveries of one message, so that the
   ids it counts are as many as the deliveries it handed out. *)

HandedCounted ==
  \A c \in copies : c.stage # "buffer" => c.msg \in in_processing[c.worker][c.queue]

LEMMA OneOfEach ==
  ASSUME SafeInv, NEW c \in copies, NEW d \in copies,
         c.msg = d.msg, c.worker = d.worker, c.queue = d.queue
  PROVE  c = d
<1>1. \A e \in copies : e.stage \in OwnedStages \/ e.stage = "requeued"
  BY DEF SafeInv, ExclusiveInv, ListedInv, StagesFit, TypeOK, Copy, Stages, OwnedStages
<1>2. CASE c.stage \in OwnedStages /\ d.stage \in OwnedStages
  BY <1>2, OneOwner DEF SafeInv
<1>3. CASE c.stage = "requeued" \/ d.stage = "requeued"
  BY <1>3 DEF SafeInv, RequeuedElsewhere
<1> QED BY <1>1, <1>2, <1>3

LEMMA MovedCounted ==
  ASSUME TypeOK, HandedCounted, UNCHANGED in_processing,
         NEW c \in copies, c.stage # "buffer", NEW s, MoveTo(c, s)
  PROVE  HandedCounted'
BY MoveToEffect DEF HandedCounted

LEMMA CountedStep ==
  ASSUME AcksInTime, SafeInv, HandedCounted, [Next]_vars
  PROVE  HandedCounted'
<1>t. TypeOK /\ ExclusiveInv /\ in_processing \in [Workers -> [QueueNames -> SUBSET Messages]]
      /\ \A c \in copies : c.worker \in Workers /\ c.queue \in QueueNames /\ c.msg \in Messages
  BY DEF SafeInv, ExclusiveInv, ListedInv, TypeOK, Copy
<1>e. "conn_error" \notin Env /\ Replies = {TRUE}
  BY LastingEnv DEF AcksInTime
<1> USE DEF process, history
<1>1. ASSUME copies' \subseteq copies, UNCHANGED in_processing PROVE HandedCounted'
  BY <1>1 DEF HandedCounted
<1>2. ASSUME NEW w \in Workers, NEW q \in Consumed, ConsumerStep(w, q) PROVE HandedCounted'
  <2>1. CASE Claim(w, q)
    <3>1. PICK S : copies' = copies \cup {CopyOf(w, q, m) : m \in S}
      BY <2>1 DEF Claim
    <3> QED BY <2>1, <3>1 DEF HandedCounted, Claim, CopyOf
  <2>2. CASE Deliver(w, q)
    <3>1. PICK c \in copies, s \in Stages :
            /\ c.worker = w /\ c.queue = q /\ MoveTo(c, s)
            /\ in_processing' = [in_processing EXCEPT ![w][q] = @ \cup {c.msg}]
      BY <2>2 DEF Deliver, CopiesAt, Stages
    <3>2. /\ in_processing'[w][q] = in_processing[w][q] \cup {c.msg}
          /\ \A v \in Workers, p \in QueueNames : in_processing[v][p] \subseteq in_processing'[v][p]
      BY <3>1, <1>t, Limits
    <3>3. PICK n : /\ copies' = (copies \ {c}) \cup {n}
                   /\ n.worker = w /\ n.queue = q /\ n.msg = c.msg
      BY <3>1, <1>t, MoveToEffect
    <3> QED BY <3>2, <3>3, <1>t DEF HandedCounted
  <2>3. CASE ~ Claim(w, q) /\ ~ Deliver(w, q)
    BY <2>3, <1>1, <1>2 DEF ConsumerStep, HeartbeatDue, HeartbeatRecent, HeartbeatCommit,
                            MaintenanceSkip, Maintain, Idle
  <2> QED BY <2>1, <2>2, <2>3
<1>3. ASSUME NEW w \in Workers,
             \/ Begin(w) \/ Succeed(w) \/ Exhaust(w) \/ Retry(w) \/ Release(w) \/ RetryLost(w)
      PROVE  HandedCounted'
  <2>1. \E c \in copies : \E s : c.stage # "buffer" /\ MoveTo(c, s)
    BY <1>3, Zenon DEF Begin, Succeed, Exhaust, Retry, Release, RetryLost, CopiesAt
  <2>2. UNCHANGED in_processing
    BY <1>3 DEF Begin, Succeed, Exhaust, Retry, Release, RetryLost
  <2> QED BY <2>1, <2>2, <1>t, MovedCounted
<1>4. ASSUME NEW w \in Workers, AckDelivery(w) \/ NackDelivery(w) PROVE HandedCounted'
  <2>1. PICK c \in copies, reply \in Replies : Settled(c, reply)
    BY <1>4, Zenon DEF AckDelivery, NackDelivery
  <2>2. /\ copies' = copies \ {c}
        /\ in_processing' = [in_processing EXCEPT ![c.worker][c.queue] = @ \ {c.msg}]
    BY <2>1, <1>e DEF Settled
  <2> SUFFICES ASSUME NEW d \in copies', d.stage # "buffer"
               PROVE  d.msg \in in_processing'[d.worker][d.queue]
    BY DEF HandedCounted
  <2>3. d \in copies /\ d # c /\ d.msg \in in_processing[d.worker][d.queue]
    BY <2>2 DEF HandedCounted
  <2>4. ~ (d.msg = c.msg /\ d.worker = c.worker /\ d.queue = c.queue)
    BY <2>3, OneOfEach
  <2> QED BY <2>2, <2>3, <2>4, <1>t
<1>5. ASSUME NEW w \in Workers, Exit(w) \/ Crash(w) PROVE HandedCounted'
  <2>1. /\ copies' = {c \in copies : c.worker # w}
        /\ \A v \in Workers \ {w} : in_processing'[v] = in_processing[v]
    BY <1>5, <1>t DEF Exit, Crash, Die
  <2> QED BY <2>1, <1>t DEF HandedCounted
<1>6. ASSUME NEW w \in Workers, Start(w) \/ Stop(w) \/ Drain(w) \/ Lapse(w) PROVE HandedCounted'
  BY <1>6, <1>1 DEF Start, Stop, Drain, Lapse
<1>7. ASSUME NEW m \in Messages, Send(m) \/ SendAgain(m) \/ Due(m) PROVE HandedCounted'
  BY <1>7, <1>1 DEF Send, SendAgain, Due
<1>8. ASSUME NEW w \in Workers, NEW q \in Consumed,
             ClaimLost(w, q) \/ ConsumerError(w, q) \/ QuitConsumer(w, q)
      PROVE  HandedCounted'
  BY <1>8, <1>e, <1>1 DEF ClaimLost, ConsumerError, QuitConsumer
<1>9. CASE CliRecover \/ CliFlush \/ CliPurge \/ UNCHANGED vars
  BY <1>9, <1>1 DEF CliRecover, CliFlush, CliPurge, vars
<1> QED BY <1>2, <1>3, <1>4, <1>5, <1>6, <1>7, <1>8, <1>9 DEF Next, ThreadStep

(* The deliveries of a consumer are those in its buffer and those it counts. *)
LEMMA CountBoundsDeliveries ==
  ASSUME IsFiniteSet(Messages), SafeInv, CapacityInv, HandedCounted,
         NEW w \in Workers, NEW q \in Consumed
  PROVE  Cardinality(CopiesAt(w, q, Stages)) <= Prefetch
<1> DEFINE all == CopiesAt(w, q, Stages)
           held == CopiesAt(w, q, Stages \ {"buffer"})
           count == in_processing[w][q]
           f == [c \in held |-> c.msg]
<1>1. Sound(w, q) /\ IsFiniteSet(count) /\ Cardinality(count) \in Nat
  BY Counted, Limits DEF CapacityInv
<1>2. all = Buffer(w, q) \cup held
  BY DEF Buffer, CopiesAt, Stages
<1>3. f \in [held -> count]
  BY DEF HandedCounted, CopiesAt
<1>4. \A c, d \in held : f[c] = f[d] => c = d
  BY OneOfEach DEF CopiesAt
<1>5. f \in Injection(held, count)
  BY <1>3, <1>4 DEF Injection, IsInjective
<1>6. IsFiniteSet(held) /\ Cardinality(held) <= Cardinality(count)
  BY <1>1, <1>5, FS_Injection
<1>7. /\ Cardinality(Buffer(w, q)) \in Nat /\ Cardinality(held) \in Nat
      /\ IsFiniteSet(Buffer(w, q)) /\ Cardinality(Buffer(w, q)) + Cardinality(count) <= Prefetch
  BY <1>1, <1>6, FS_CardinalityType DEF Sound
<1> HIDE DEF held, count, f
<1>8. Cardinality(Buffer(w, q) \cup held) <= Cardinality(Buffer(w, q)) + Cardinality(held)
  <2>1. /\ Cardinality(Buffer(w, q) \cup held) =
             Cardinality(Buffer(w, q)) + Cardinality(held) - Cardinality(Buffer(w, q) \cap held)
        /\ Cardinality(Buffer(w, q) \cap held) \in Nat
    BY <1>6, <1>7, FS_Union, FS_Intersection, FS_CardinalityType
  <2> QED BY <2>1, <1>7
<1>9. Cardinality(Buffer(w, q) \cup held) \in Nat
  BY <1>6, <1>7, FS_Union, FS_CardinalityType
<1> QED BY <1>1, <1>2, <1>6, <1>7, <1>8, <1>9, Limits

(* When acks are in time a consumer never has more deliveries than its prefetch, counting
   its buffer and the deliveries that wait for the ack after a retry: a claim is sized by
   in_processing, is made only when the buffer is empty, and in_processing has as many ids
   as the consumer handed out deliveries (broker.py, __next__ and ack). *)
THEOREM PrefetchBounds ==
  ASSUME AcksInTime, IsFiniteSet(Messages) PROVE PunctualSpec => []PrefetchRespected
<1>1. SafeInv /\ CapacityInv /\ HandedCounted => PrefetchRespected
  BY CountBoundsDeliveries DEF PrefetchRespected
<1>2. Init => HandedCounted /\ CapacityInv
  BY InitCapacity DEF Init, HandedCounted
<1>3. SafeInv /\ CapacityInv /\ HandedCounted /\ [PunctualNext]_vars => CapacityInv' /\ HandedCounted'
  BY CapacityStep, CountedStep DEF PunctualNext
<1> QED BY <1>1, <1>2, <1>3, SafeInvariant, PTL DEF PunctualSpec
===============================================================================
