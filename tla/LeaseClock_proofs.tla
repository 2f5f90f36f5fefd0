--------------------------- MODULE LeaseClock_proofs ---------------------------
(***************************************************************************)
(* Theorems about LeaseClock: for every number of processes and every      *)
(* choice of the intervals that fits, a process that runs has a row within *)
(* LongestGap of its start, the lease that row stands for is never over as *)
(* long as it runs, and when it dies its messages are back in time.        *)
(***************************************************************************)
EXTENDS LeaseClock, FiniteSetTheorems, TLAPS

LEMMA Constants ==
  /\ Interval \in Nat \ {0} /\ Maintenance \in Nat /\ Turn \in Nat \ {0} /\ Failures \in Nat
  /\ Ttl \in Nat /\ MaxAge \in Nat /\ Ttl >= LongestGap
  /\ NoWorker \notin Workers /\ Period \in Nat \ {0}
BY LeaseClockAssumption DEF Period

(* Products of a failure count and the period of heartbeats. *)
LEMMA Periods ==
  ASSUME NEW f \in Nat
  PROVE  f * Period \in Nat /\ (f + 1) * Period = f * Period + Period
BY Constants

LEMMA MorePeriods ==
  ASSUME NEW f \in Nat, NEW n \in Nat
  PROVE  f * Period <= (f + n) * Period
<1>1. (f + n) * Period = f * Period + n * Period /\ n * Period \in Nat
  BY Constants
<1> QED BY <1>1, Periods

(* What the parts of ClockInv say of a process that runs, put together. *)
LEMMA GapIsShort ==
  ASSUME ClockInv, NEW w \in Workers, life[w] = "up"
  PROVE  age[w] < LongestGap
<1>t. /\ sinceMark[w] \in Nat /\ sinceTurn[w] \in Nat /\ age[w] \in Nat
      /\ failed[w] \in Nat /\ failed[w] <= Failures
  BY Constants DEF ClockInv, TypeOK
<1>1. /\ sinceTurn[w] <= Turn
      /\ pc[w] = "heartbeat" => sinceMark[w] = sinceTurn[w]
      /\ Marked(w) => sinceMark[w] = sinceTurn[w] \/ sinceMark[w] - sinceTurn[w] < Interval
      /\ ~ Marked(w) => age[w] <= sinceTurn[w]
      /\ age[w] + Pending(w) <= sinceMark[w] + (failed[w] + Pending(w)) * Period
  BY <1>t DEF ClockInv, TurnsTaken, GapBounded, MarkedFirst
<1>2. /\ failed[w] * Period \in Nat
      /\ (failed[w] + 1) * Period = failed[w] * Period + Period
      /\ (failed[w] + 1) * Period <= (Failures + 1) * Period
      /\ (Failures + 1) * Period \in Nat
  <2>1. PICK n \in Nat : Failures + 1 = (failed[w] + 1) + n
    <3>1. Failures - failed[w] \in Nat /\ Failures + 1 = (failed[w] + 1) + (Failures - failed[w])
      BY <1>t, Constants
    <3> QED BY <3>1
  <2>2. failed[w] + 1 \in Nat /\ Failures + 1 \in Nat
    BY <1>t, Constants
  <2> QED BY <1>t, <2>1, <2>2, Periods, MorePeriods, Constants
<1>3. LongestGap = (Failures + 1) * Period + Turn
  BY DEF LongestGap, Period
<1> HIDE DEF Marked
<1>4. CASE pc[w] = "heartbeat"
  <2>1. age[w] + 1 <= sinceMark[w] + (failed[w] + 1) * Period /\ sinceMark[w] <= Turn
    BY <1>1, <1>4 DEF Pending
  <2> QED BY <2>1, <1>t, <1>2, <1>3, Constants
<1>5. CASE pc[w] # "heartbeat" /\ Marked(w)
  <2>1. age[w] <= sinceMark[w] + failed[w] * Period
    BY <1>1, <1>5, <1>t DEF Pending
  <2>2. sinceMark[w] <= Interval + Turn
    BY <1>1, <1>5, <1>t, Constants
  <2>3. sinceMark[w] <= Period
    BY <2>2 DEF Period
  <2> QED BY <2>1, <2>3, <1>t, <1>2, <1>3, Constants
<1>6. CASE ~ Marked(w)
  <2>1. age[w] <= Turn /\ Period > 0
    BY <1>1, <1>6, <1>t, Constants
  <2> QED BY <2>1, <1>t, <1>2, <1>3, Constants
<1> QED BY <1>4, <1>5, <1>6

LEMMA YoungWhileUp ==
  ASSUME ClockInv
  PROVE  /\ \A w \in Workers : life[w] = "up" => age[w] < Ttl
         /\ LeaseKept /\ ListedInTime
<1>1. /\ listed \subseteq Workers
      /\ \A w \in Workers : age[w] \in Nat /\ (life[w] = "up" => age[w] < LongestGap)
  BY GapIsShort DEF ClockInv, TypeOK
<1>2. LongestGap \in Nat
  <2>1. Failures + 1 \in Nat
    BY Constants
  <2>2. (Failures + 1) * Period \in Nat
    BY <2>1, Periods
  <2> QED BY <2>2, Constants DEF LongestGap, Period
<1> HIDE DEF LongestGap
<1>3. \A w \in Workers : life[w] = "up" => age[w] < Ttl
  BY <1>1, <1>2, Constants
<1> QED BY <1>1, <1>3 DEF LeaseKept, ListedInTime

-----------------------------------------------------------------------------
LEMMA InitClock == Init => ClockInv
BY Constants DEF Init, ClockInv, TypeOK, TurnsTaken, GapBounded, MarkedFirst, Marked, Pending

LEMMA UpkeepEffect ==
  ASSUME TypeOK, NEW w \in Workers, Upkeep(w)
  PROVE  /\ due' \in [Workers -> Nat]
         /\ pc' \in [Workers -> {"idle", "heartbeat", "lock", "maintain", "claim"}]
         /\ pc'[w] \in {"claim", "lock"}
         /\ \A v \in Workers \ {w} : pc'[v] = pc[v]
<1>1. Jitter \subseteq Nat
  <2>1. Maintenance \div 2 \in Nat
    BY Constants
  <2> QED BY <2>1 DEF Jitter
<1> QED BY <1>1 DEF Upkeep, Goto, TypeOK

LEMMA GotoEffect ==
  ASSUME TypeOK, NEW w \in Workers,
         NEW label \in {"idle", "heartbeat", "lock", "maintain", "claim"}, Goto(w, label)
  PROVE  /\ pc' \in [Workers -> {"idle", "heartbeat", "lock", "maintain", "claim"}]
         /\ pc'[w] = label
         /\ \A v \in Workers \ {w} : pc'[v] = pc[v]
BY DEF Goto, TypeOK

LEMMA TypeStep == ASSUME TypeOK, MarkedFirst, [Next]_vars PROVE TypeOK'
<1>1. ASSUME NEW w \in Workers, Start(w) PROVE TypeOK'
  BY <1>1, Constants DEF Start, TypeOK, tables, locking
<1>2. ASSUME NEW w \in Workers, BeginTurn(w) PROVE TypeOK'
  <2>1. CASE HeartbeatDue(w) /\ Goto(w, "heartbeat") /\ UNCHANGED due
    BY <1>2, <2>1, GotoEffect DEF BeginTurn, TypeOK, tables, locking
  <2>2. CASE Upkeep(w)
    BY <1>2, <2>2, UpkeepEffect DEF BeginTurn, TypeOK, tables, locking
  <2> QED BY <1>2, <2>1, <2>2 DEF BeginTurn
<1>3. ASSUME NEW w \in Workers, HeartbeatCommit(w) PROVE TypeOK'
  BY <1>3, UpkeepEffect, Constants DEF HeartbeatCommit, TypeOK, locking
<1>4. ASSUME NEW w \in Workers, HeartbeatFails(w) PROVE TypeOK'
  BY <1>4, GotoEffect, Constants DEF HeartbeatFails, TypeOK, tables, locking
<1>5. ASSUME NEW w \in Workers, TryLock(w) PROVE TypeOK'
  BY <1>5, GotoEffect DEF TryLock, TypeOK, process, tables, locking
<1>6. ASSUME NEW w \in Workers, Maintain(w) PROVE TypeOK'
  BY <1>6, GotoEffect DEF Maintain, TypeOK, process
<1>7. ASSUME NEW w \in Workers, Claim(w) PROVE TypeOK'
  BY <1>7, GotoEffect DEF Claim, TypeOK, process, locking
<1>8. ASSUME NEW w \in Workers, ClaimBeside(w) \/ Settle(w) PROVE TypeOK'
  BY <1>8 DEF ClaimBeside, Settle, TypeOK, process, locking
<1>9. ASSUME NEW w \in Workers, Crash(w) PROVE TypeOK'
  BY <1>9, Constants DEF Crash, TypeOK, tables, locking
<1>10. CASE Tick
  BY <1>10 DEF Tick, TypeOK
<1>11. CASE UNCHANGED vars
  BY <1>11 DEF vars, TypeOK
<1> QED BY <1>1, <1>2, <1>3, <1>4, <1>5, <1>6, <1>7, <1>8, <1>9, <1>10, <1>11
        DEF Next, WorkerStep
(* A thread that looks at its mark once per turn never lets it grow beyond an
   interval and a turn. *)
LEMMA TurnsStep == ASSUME ClockInv, TypeOK', [Next]_vars PROVE TurnsTaken'
<1>t. TypeOK /\ TurnsTaken /\ MarkedFirst
  BY DEF ClockInv
<1>u. \A w \in Workers : /\ sinceTurn[w] \in Nat /\ sinceMark[w] \in Nat
                        /\ sinceTurn'[w] \in Nat /\ sinceMark'[w] \in Nat
  BY DEF ClockInv, TypeOK
<1>s. ASSUME UNCHANGED <<life, sinceTurn, sinceMark>>,
             \A w \in Workers : /\ pc'[w] = "heartbeat" => pc[w] = "heartbeat"
                                /\ Marked(w)' => Marked(w)
      PROVE  TurnsTaken'
  BY <1>s, <1>t DEF TurnsTaken
<1>v. ASSUME UNCHANGED <<life, sinceTurn, sinceMark, failed>>, listed' \subseteq listed,
             \A w \in Workers : pc'[w] = "heartbeat" => pc[w] = "heartbeat"
      PROVE  TurnsTaken'
  BY <1>s, <1>v DEF Marked
<1>1. ASSUME NEW w \in Workers, Start(w) PROVE TurnsTaken'
  <2>1. /\ pc[w] = "idle" /\ ~ Marked(w) /\ UNCHANGED <<pc, listed, failed>>
        /\ sinceTurn'[w] = 0
        /\ \A v \in Workers \ {w} : /\ life'[v] = life[v] /\ sinceTurn'[v] = sinceTurn[v]
                                    /\ sinceMark'[v] = sinceMark[v]
    BY <1>1, <1>t, Constants DEF Start, MarkedFirst, Marked, TypeOK, tables
  <2> QED BY <2>1, <1>t, Constants DEF TurnsTaken, Marked
<1>2. ASSUME NEW w \in Workers, BeginTurn(w) PROVE TurnsTaken'
  <2>1. /\ sinceTurn'[w] = 0 /\ UNCHANGED <<listed, life, failed>> /\ life[w] = "up"
        /\ \A v \in Workers \ {w} : sinceTurn'[v] = sinceTurn[v]
    BY <1>2, <1>t DEF BeginTurn, TypeOK, tables
  <2>2. CASE HeartbeatDue(w) /\ sinceMark' = [sinceMark EXCEPT ![w] = 0] /\ Goto(w, "heartbeat")
    <3>1. /\ sinceMark'[w] = 0
          /\ \A v \in Workers \ {w} : sinceMark'[v] = sinceMark[v] /\ pc'[v] = pc[v]
      BY <2>2, <1>t, GotoEffect DEF TypeOK
    <3> QED BY <2>1, <3>1, <1>t, Constants DEF TurnsTaken, Marked
  <2>3. CASE ~ HeartbeatDue(w) /\ Upkeep(w) /\ UNCHANGED sinceMark
    <3>1. /\ sinceMark[w] < Interval /\ pc'[w] # "heartbeat"
          /\ \A v \in Workers \ {w} : pc'[v] = pc[v]
      BY <2>3, <1>t, <1>u, UpkeepEffect, Constants DEF HeartbeatDue
    <3>2. sinceMark'[w] - sinceTurn'[w] < Interval /\ sinceTurn'[w] <= Turn
      BY <2>1, <2>3, <3>1, <1>u, Constants
    <3> QED BY <2>1, <2>3, <3>1, <3>2, <1>t DEF TurnsTaken, Marked
  <2> QED BY <1>2, <2>2, <2>3 DEF BeginTurn
<1>3. ASSUME NEW w \in Workers, HeartbeatCommit(w) PROVE TurnsTaken'
  <2>1. /\ pc'[w] # "heartbeat" /\ \A v \in Workers \ {w} : pc'[v] = pc[v]
        /\ pc[w] = "heartbeat" /\ life[w] = "up"
        /\ \A v \in Workers \ {w} : failed'[v] = failed[v]
        /\ listed' = listed \cup {w} /\ UNCHANGED <<life, sinceTurn, sinceMark>>
    BY <1>3, <1>t, UpkeepEffect DEF HeartbeatCommit, MarkedFirst, TypeOK
  <2>2. \A v \in Workers : Marked(v)' => Marked(v)
    BY <2>1 DEF Marked
  <2> QED BY <2>1, <2>2, <1>s
<1>4. ASSUME NEW w \in Workers, HeartbeatFails(w) PROVE TurnsTaken'
  <2>1. /\ pc'[w] # "heartbeat" /\ \A v \in Workers \ {w} : pc'[v] = pc[v]
        /\ pc[w] = "heartbeat"
        /\ \A v \in Workers \ {w} : failed'[v] = failed[v]
        /\ UNCHANGED <<life, sinceTurn, sinceMark, listed>>
    BY <1>4, <1>t, GotoEffect DEF HeartbeatFails, tables, TypeOK
  <2>2. \A v \in Workers : Marked(v)' => Marked(v)
    BY <2>1 DEF Marked
  <2> QED BY <2>1, <2>2, <1>s
<1>5. ASSUME NEW w \in Workers, TryLock(w) PROVE TurnsTaken'
  BY <1>5, <1>v, <1>t, GotoEffect DEF TryLock, process, tables
<1>6. ASSUME NEW w \in Workers, Maintain(w) PROVE TurnsTaken'
  BY <1>6, <1>v, <1>t, GotoEffect DEF Maintain, process
<1>7. ASSUME NEW w \in Workers, Claim(w) PROVE TurnsTaken'
  BY <1>7, <1>v, <1>t, GotoEffect DEF Claim, process
<1>8. ASSUME NEW w \in Workers, ClaimBeside(w) \/ Settle(w) PROVE TurnsTaken'
  BY <1>8, <1>v, <1>t DEF ClaimBeside, Settle, process
<1>9. ASSUME NEW w \in Workers, Crash(w) PROVE TurnsTaken'
  <2>1. life'[w] = "down" /\ listed' = listed
        /\ \A v \in Workers \ {w} : /\ life'[v] = life[v] /\ pc'[v] = pc[v] /\ failed'[v] = failed[v]
                                   /\ sinceTurn'[v] = sinceTurn[v] /\ sinceMark'[v] = sinceMark[v]
    BY <1>9, <1>t DEF Crash, TypeOK, tables
  <2> QED BY <2>1, <1>t DEF TurnsTaken, Marked
<1>10. CASE Tick
  <2>0. \A w \in Workers : Marked(w)' = Marked(w)
    BY <1>10 DEF Tick, Marked
  <2> HIDE DEF Marked
  <2> SUFFICES ASSUME NEW w \in Workers, life[w] = "up"
               PROVE  /\ sinceTurn'[w] <= Turn
                      /\ pc[w] = "heartbeat" => sinceMark'[w] = sinceTurn'[w]
                      /\ Marked(w) => \/ sinceMark'[w] = sinceTurn'[w]
                                      \/ sinceMark'[w] - sinceTurn'[w] < Interval
    BY <1>10, <2>0 DEF Tick, TurnsTaken
  <2>1. /\ sinceTurn[w] < Turn
        /\ sinceTurn'[w] = sinceTurn[w] + 1 /\ sinceMark'[w] = sinceMark[w] + 1
    BY <1>10 DEF Tick
  <2>2. /\ pc[w] = "heartbeat" => sinceMark[w] = sinceTurn[w]
        /\ Marked(w) => \/ sinceMark[w] = sinceTurn[w]
                        \/ sinceMark[w] - sinceTurn[w] < Interval
    BY <1>t DEF TurnsTaken
  <2> QED BY <2>1, <2>2, <1>u, Constants
<1>11. CASE UNCHANGED vars
  BY <1>11, <1>v DEF vars
<1> QED BY <1>1, <1>2, <1>3, <1>4, <1>5, <1>6, <1>7, <1>8, <1>9, <1>10, <1>11
        DEF Next, WorkerStep

(* The age of a row and the time since the last mark drift apart by one period for
   each heartbeat that is pending or failed. *)
LEMMA GapStep == ASSUME ClockInv, TypeOK', [Next]_vars PROVE GapBounded'
<1>t. TypeOK /\ TurnsTaken /\ GapBounded /\ MarkedFirst
  BY DEF ClockInv
<1>u. \A w \in Workers :
        /\ sinceTurn[w] \in Nat /\ sinceMark[w] \in Nat /\ age[w] \in Nat /\ failed[w] \in Nat
        /\ failed[w] * Period \in Nat
        /\ (failed[w] + 1) * Period = failed[w] * Period + Period
        /\ (failed[w] + 0) * Period = failed[w] * Period
  BY <1>t, Periods, Constants DEF TypeOK
<1> DEFINE Bound(w) == age[w] + Pending(w) <= sinceMark[w] + (failed[w] + Pending(w)) * Period
<1>s. ASSUME UNCHANGED <<life, sinceMark, age, failed>>,
             \A w \in Workers : pc'[w] = "heartbeat" <=> pc[w] = "heartbeat"
      PROVE  GapBounded'
  BY <1>s, <1>t DEF GapBounded, Pending, TypeOK
<1>o. ASSUME NEW v \in Workers, life[v] = "up", age'[v] = age[v], pc'[v] = pc[v],
             failed'[v] = failed[v], sinceMark'[v] = sinceMark[v]
      PROVE  Bound(v)'
  BY <1>o, <1>t DEF GapBounded, Pending
<1>1. ASSUME NEW w \in Workers, Start(w) PROVE GapBounded'
  <2>1. /\ pc[w] = "idle" /\ age[w] = 0 /\ failed[w] = 0 /\ sinceMark'[w] = Interval
        /\ UNCHANGED <<pc, age, failed>>
        /\ \A v \in Workers \ {w} : life'[v] = life[v] /\ sinceMark'[v] = sinceMark[v]
    BY <1>1, <1>t DEF Start, MarkedFirst, TypeOK, tables
  <2>2. age'[w] + 0 <= sinceMark'[w] + (failed'[w] + 0) * Period
    BY <2>1, Constants
  <2> SUFFICES ASSUME NEW v \in Workers, life'[v] = "up" PROVE Bound(v)'
    BY DEF GapBounded
  <2>3. CASE v = w
    BY <2>1, <2>2, <2>3 DEF Pending
  <2>4. CASE v # w
    BY <2>1, <2>4, <1>o
  <2> QED BY <2>3, <2>4
<1>2. ASSUME NEW w \in Workers, BeginTurn(w) PROVE GapBounded'
  <2>1. /\ UNCHANGED <<listed, life, age, failed>> /\ pc[w] = "idle" /\ life[w] = "up"
    BY <1>2 DEF BeginTurn, tables
  <2>2. CASE HeartbeatDue(w) /\ sinceMark' = [sinceMark EXCEPT ![w] = 0] /\ Goto(w, "heartbeat")
    <3>1. /\ sinceMark'[w] = 0 /\ pc'[w] = "heartbeat"
          /\ \A v \in Workers \ {w} : sinceMark'[v] = sinceMark[v] /\ pc'[v] = pc[v]
      BY <2>2, <1>t, GotoEffect DEF TypeOK
    <3>2. age[w] + 1 <= 0 + (failed[w] + 1) * Period
      <4>1. age[w] <= sinceMark[w] + failed[w] * Period
        BY <2>1, <1>t, <1>u DEF GapBounded, Pending
      <4>2. CASE Marked(w)
        <5>1. sinceMark[w] < Interval + Turn
          BY <4>2, <2>1, <1>t, <1>u, Constants DEF TurnsTaken, TypeOK
        <5> QED BY <4>1, <5>1, <1>u, Constants DEF Period
      <4>3. CASE ~ Marked(w)
        <5>1. age[w] <= Turn
          BY <4>3, <2>1, <1>t, <1>u, Constants DEF TurnsTaken, MarkedFirst
        <5>2. age[w] + 1 <= Period
          BY <5>1, <1>u, Constants DEF Period
        <5> QED BY <5>2, <1>u, Constants
      <4> QED BY <4>2, <4>3
    <3> QED BY <2>1, <3>1, <3>2, <1>t DEF GapBounded, Pending, TypeOK
  <2>3. CASE Upkeep(w) /\ UNCHANGED sinceMark
    BY <2>1, <2>3, <1>s, <1>t, UpkeepEffect
  <2> QED BY <1>2, <2>2, <2>3 DEF BeginTurn
<1>3. ASSUME NEW w \in Workers, HeartbeatCommit(w) PROVE GapBounded'
  <2>1. PICK ago \in 0..sinceTurn[w] : age' = [age EXCEPT ![w] = ago]
    BY <1>3 DEF HeartbeatCommit
  <2>2. /\ pc'[w] # "heartbeat" /\ \A v \in Workers \ {w} : pc'[v] = pc[v]
        /\ pc[w] = "heartbeat" /\ life[w] = "up" /\ failed'[w] = 0
        /\ \A v \in Workers \ {w} : failed'[v] = failed[v] /\ age'[v] = age[v]
        /\ UNCHANGED <<life, sinceMark>>
    BY <1>3, <2>1, <1>t, UpkeepEffect DEF HeartbeatCommit, MarkedFirst, TypeOK
  <2>3. age'[w] <= sinceMark[w] /\ age'[w] \in Nat
    BY <2>1, <2>2, <1>t, <1>u DEF TurnsTaken, TypeOK
  <2>4. age'[w] + 0 <= sinceMark[w] + (0 + 0) * Period
    BY <2>3, <1>u, Constants
  <2> SUFFICES ASSUME NEW v \in Workers, life'[v] = "up" PROVE Bound(v)'
    BY DEF GapBounded
  <2>5. CASE v = w
    BY <2>2, <2>4, <2>5 DEF Pending
  <2>6. CASE v # w
    BY <2>2, <2>6, <1>o
  <2> QED BY <2>5, <2>6
<1>4. ASSUME NEW w \in Workers, HeartbeatFails(w) PROVE GapBounded'
  <2>1. /\ pc[w] = "heartbeat" /\ pc'[w] = "idle" /\ failed'[w] = failed[w] + 1
        /\ \A v \in Workers \ {w} : failed'[v] = failed[v] /\ pc'[v] = pc[v]
        /\ UNCHANGED <<life, sinceMark, age>> /\ life[w] = "up"
    BY <1>4, <1>t, GotoEffect DEF HeartbeatFails, tables, TypeOK, MarkedFirst
  <2>2. age[w] + 1 <= sinceMark[w] + (failed[w] + 1) * Period
    BY <2>1, <1>t DEF GapBounded, Pending
  <2>3. age[w] + 0 <= sinceMark[w] + ((failed[w] + 1) + 0) * Period
    BY <2>2, <1>u, Constants
  <2> SUFFICES ASSUME NEW v \in Workers, life'[v] = "up" PROVE Bound(v)'
    BY DEF GapBounded
  <2>4. CASE v = w
    BY <2>1, <2>3, <2>4 DEF Pending
  <2>5. CASE v # w
    BY <2>1, <2>5, <1>o
  <2> QED BY <2>4, <2>5
<1>5. ASSUME NEW w \in Workers, TryLock(w) PROVE GapBounded'
  BY <1>5, <1>s, <1>t, GotoEffect DEF TryLock, process, tables
<1>6. ASSUME NEW w \in Workers, Maintain(w) PROVE GapBounded'
  BY <1>6, <1>s, <1>t, GotoEffect DEF Maintain, process
<1>7. ASSUME NEW w \in Workers, Claim(w) PROVE GapBounded'
  BY <1>7, <1>s, <1>t, GotoEffect DEF Claim, process
<1>8. ASSUME NEW w \in Workers, ClaimBeside(w) \/ Settle(w) PROVE GapBounded'
  BY <1>8, <1>s, <1>t DEF ClaimBeside, Settle, process
<1>9. ASSUME NEW w \in Workers, Crash(w) PROVE GapBounded'
  <2>1. life'[w] = "down" /\ UNCHANGED age
        /\ \A v \in Workers \ {w} : /\ life'[v] = life[v] /\ pc'[v] = pc[v]
                                   /\ failed'[v] = failed[v] /\ sinceMark'[v] = sinceMark[v]
    BY <1>9, <1>t DEF Crash, TypeOK, tables
  <2> SUFFICES ASSUME NEW v \in Workers, life'[v] = "up" PROVE Bound(v)'
    BY DEF GapBounded
  <2> QED BY <2>1, <1>o
<1>10. CASE Tick
  <2> SUFFICES ASSUME NEW w \in Workers, life[w] = "up"
               PROVE  age'[w] + Pending(w) <= sinceMark'[w] + (failed[w] + Pending(w)) * Period
    BY <1>10 DEF Tick, GapBounded, Pending
  <2>1. /\ sinceMark'[w] = sinceMark[w] + 1 /\ age'[w] <= age[w] + 1
        /\ age'[w] \in Nat
    BY <1>10, <1>t, <1>u, Constants DEF Tick, TypeOK
  <2>2. age[w] + Pending(w) <= sinceMark[w] + (failed[w] + Pending(w)) * Period
    BY <1>t DEF GapBounded
  <2>3. Pending(w) \in Nat /\ (failed[w] + Pending(w)) * Period \in Nat
    BY <1>u, <2>1, Constants DEF Pending
  <2> QED BY <2>1, <2>2, <2>3, <1>u
<1>11. CASE UNCHANGED vars
  BY <1>11, <1>s DEF vars
<1> QED BY <1>1, <1>2, <1>3, <1>4, <1>5, <1>6, <1>7, <1>8, <1>9, <1>10, <1>11
        DEF Next, WorkerStep

(* While the lease of every live process is kept, REAP and CLEAN_WORKERS leave what
   has a row and runs alone. *)
LEMMA MaintainSpares ==
  ASSUME TypeOK, LeaseKept, NEW w \in Workers, Maintain(w)
  PROVE  /\ \A v \in listed : life[v] = "up" => v \in listed' /\ (v \in holders => v \in holders')
         /\ holders' \subseteq holders /\ listed' \subseteq listed
<1>1. /\ holders' = holders \cap Alive(sinceLock) /\ listed' = listed \ Forgotten(sinceLock)
      /\ sinceLock \in Nat
  BY DEF Maintain, TypeOK
<1>2. ASSUME NEW v \in listed, age[v] - sinceLock < Ttl
      PROVE  v \in Alive(sinceLock) /\ v \notin Forgotten(sinceLock)
  BY <1>1, <1>2, Constants DEF Alive, Forgotten, TypeOK
<1>3. ASSUME NEW v \in listed, life[v] = "up" PROVE age[v] - sinceLock < Ttl
  BY <1>1, <1>3, Constants DEF LeaseKept, TypeOK
<1> QED BY <1>1, <1>2, <1>3

LEMMA MarkedStep == ASSUME ClockInv, TypeOK', [Next]_vars PROVE MarkedFirst'
<1>t. TypeOK /\ MarkedFirst /\ LeaseKept
  BY YoungWhileUp DEF ClockInv
<1>s. ASSUME UNCHANGED <<life, age, sinceMark, sinceTurn, failed>>, listed \subseteq listed',
             \A w \in Workers : pc'[w] # pc[w] => life[w] = "up" /\ Marked(w)',
             \A w \in Workers : life[w] = "new" => w \notin listed' /\ w \notin holders'
      PROVE  MarkedFirst'
  BY <1>s, <1>t DEF MarkedFirst, Marked
<1>1. ASSUME NEW w \in Workers, Start(w) PROVE MarkedFirst'
  <2>1. /\ life'[w] = "up" /\ sinceMark'[w] = Interval /\ sinceTurn'[w] = 0 /\ pc[w] = "idle"
        /\ age[w] = 0
        /\ \A v \in Workers \ {w} : /\ life'[v] = life[v] /\ sinceMark'[v] = sinceMark[v]
                                   /\ sinceTurn'[v] = sinceTurn[v]
        /\ UNCHANGED <<pc, failed, listed, holders, age>>
    BY <1>1, <1>t DEF Start, TypeOK, MarkedFirst, tables
  <2> QED BY <2>1, <1>t, Constants DEF MarkedFirst, Marked
<1>2. ASSUME NEW w \in Workers, BeginTurn(w) PROVE MarkedFirst'
  <2>1. /\ UNCHANGED <<life, listed, holders, failed, age>> /\ life[w] = "up" /\ pc[w] = "idle"
        /\ \A v \in Workers \ {w} : sinceTurn'[v] = sinceTurn[v]
    BY <1>2, <1>t DEF BeginTurn, tables, TypeOK
  <2>2. CASE HeartbeatDue(w) /\ sinceMark' = [sinceMark EXCEPT ![w] = 0] /\ Goto(w, "heartbeat")
    <3>1. pc'[w] = "heartbeat"
          /\ \A v \in Workers \ {w} : pc'[v] = pc[v] /\ sinceMark'[v] = sinceMark[v]
      BY <2>2, <1>t, GotoEffect DEF TypeOK
    <3> QED BY <2>1, <3>1, <1>t DEF MarkedFirst, Marked
  <2>3. CASE ~ HeartbeatDue(w) /\ Upkeep(w) /\ UNCHANGED sinceMark
    <3>1. \A v \in Workers \ {w} : pc'[v] = pc[v]
      BY <2>3, <1>t, UpkeepEffect
    <3>2. w \in listed \/ failed[w] > 0
      BY <2>1, <2>3, <1>t DEF HeartbeatDue, MarkedFirst, Marked
    <3> QED BY <2>1, <2>3, <3>1, <3>2, <1>t DEF MarkedFirst, Marked
  <2> QED BY <1>2, <2>2, <2>3 DEF BeginTurn
<1>3. ASSUME NEW w \in Workers, HeartbeatCommit(w) PROVE MarkedFirst'
  <2>1. /\ \A v \in Workers \ {w} : pc'[v] = pc[v] /\ age'[v] = age[v] /\ failed'[v] = failed[v]
        /\ life[w] = "up" /\ listed' = listed \cup {w}
        /\ UNCHANGED <<life, sinceMark, sinceTurn, holders>>
    BY <1>3, <1>t, UpkeepEffect DEF HeartbeatCommit, MarkedFirst, TypeOK
  <2> QED BY <2>1, <1>t DEF MarkedFirst, Marked
<1>4. ASSUME NEW w \in Workers, HeartbeatFails(w) PROVE MarkedFirst'
  <2>1. /\ pc'[w] = "idle" /\ life[w] = "up" /\ failed'[w] = failed[w] + 1 /\ failed[w] \in Nat
        /\ UNCHANGED <<life, sinceMark, sinceTurn, age, listed, holders>>
        /\ \A v \in Workers \ {w} : pc'[v] = pc[v] /\ failed'[v] = failed[v]
    BY <1>4, <1>t, GotoEffect DEF HeartbeatFails, tables, MarkedFirst, TypeOK
  <2>2. failed'[w] > 0
    BY <2>1
  <2> QED BY <2>1, <2>2, <1>t DEF MarkedFirst, Marked
<1>5. ASSUME NEW w \in Workers, TryLock(w) PROVE MarkedFirst'
  <2>1. /\ pc[w] = "lock" /\ pc'[w] # "idle" /\ pc'[w] # "heartbeat"
        /\ UNCHANGED <<life, age, sinceMark, sinceTurn, failed, listed, holders>>
        /\ \A v \in Workers \ {w} : pc'[v] = pc[v]
    BY <1>5, <1>t, GotoEffect DEF TryLock, process, tables
  <2>2. life[w] = "up" /\ Marked(w)'
    BY <2>1, <1>t DEF MarkedFirst, Marked
  <2> QED BY <2>1, <2>2, <1>s, <1>t DEF MarkedFirst
<1>6. ASSUME NEW w \in Workers, Maintain(w) PROVE MarkedFirst'
  <2>1. /\ pc[w] = "maintain" /\ UNCHANGED <<life, sinceMark, sinceTurn, failed, age>>
        /\ pc'[w] = "claim" /\ \A v \in Workers \ {w} : pc'[v] = pc[v]
    BY <1>6, <1>t, GotoEffect DEF Maintain, process
  <2>2. /\ \A v \in listed : life[v] = "up" => v \in listed'
        /\ holders' \subseteq holders /\ listed' \subseteq listed
    BY <1>6, <1>t, MaintainSpares
  <2>3. life[w] = "up" /\ Marked(w)
    BY <2>1, <1>t DEF MarkedFirst
  <2>4. \A v \in Workers : life[v] = "up" => (Marked(v)' <=> Marked(v))
    BY <2>1, <2>2 DEF Marked
  <2> QED BY <2>1, <2>2, <2>3, <2>4, <1>t DEF MarkedFirst
<1>7. ASSUME NEW w \in Workers, Claim(w) PROVE MarkedFirst'
  <2>1. /\ pc[w] = "claim" /\ pc'[w] = "idle"
        /\ UNCHANGED <<life, age, sinceMark, sinceTurn, failed, listed>>
        /\ holders' \subseteq holders \cup {w}
        /\ \A v \in Workers \ {w} : pc'[v] = pc[v]
    BY <1>7, <1>t, GotoEffect DEF Claim, process
  <2>2. life[w] = "up" /\ Marked(w)'
    BY <2>1, <1>t DEF MarkedFirst, Marked
  <2> QED BY <2>1, <2>2, <1>s, <1>t DEF MarkedFirst
<1>8. ASSUME NEW w \in Workers, ClaimBeside(w) \/ Settle(w) PROVE MarkedFirst'
  <2>1. /\ life[w] = "up" /\ holders' \subseteq holders \cup {w}
        /\ UNCHANGED <<life, age, sinceMark, sinceTurn, failed, listed, pc>>
    BY <1>8 DEF ClaimBeside, Settle, process
  <2> QED BY <2>1, <1>s, <1>t DEF MarkedFirst
<1>9. ASSUME NEW w \in Workers, Crash(w) PROVE MarkedFirst'
  <2>1. /\ life'[w] = "down" /\ pc'[w] = "idle" /\ failed'[w] = 0
        /\ UNCHANGED <<listed, holders, age>>
        /\ \A v \in Workers \ {w} : /\ life'[v] = life[v] /\ pc'[v] = pc[v] /\ failed'[v] = failed[v]
                                   /\ sinceMark'[v] = sinceMark[v] /\ sinceTurn'[v] = sinceTurn[v]
    BY <1>9, <1>t DEF Crash, TypeOK, tables
  <2> QED BY <2>1, <1>t DEF MarkedFirst, Marked
<1>10. CASE Tick
  <2>1. UNCHANGED <<life, pc, failed, listed, holders>>
    BY <1>10 DEF Tick
  <2>2. \A v \in Workers : Marked(v)' = Marked(v)
    BY <2>1 DEF Marked
  <2> HIDE DEF Marked
  <2>3. ASSUME NEW v \in Workers, life[v] = "up", sinceMark[v] >= Interval, age[v] <= sinceTurn[v]
        PROVE  sinceMark'[v] >= Interval /\ age'[v] <= sinceTurn'[v]
    <3>1. /\ sinceMark[v] \in Nat /\ age[v] \in Nat /\ sinceTurn[v] \in Nat
      BY <1>t DEF TypeOK
    <3>2. /\ sinceMark'[v] = sinceMark[v] + 1 /\ sinceTurn'[v] = sinceTurn[v] + 1
          /\ age'[v] \in {age[v], age[v] + 1}
      BY <1>10, <2>3 DEF Tick
    <3> QED BY <2>3, <3>1, <3>2, Constants
  <2>4. ASSUME NEW v \in Workers, life[v] = "new" PROVE age'[v] = age[v]
    BY <1>10, <2>4, <1>t DEF Tick, Aged, MarkedFirst
  <2> QED BY <2>1, <2>2, <2>3, <2>4, <1>t DEF MarkedFirst
<1>11. CASE UNCHANGED vars
  BY <1>11, <1>t DEF vars, MarkedFirst, Marked
<1> QED BY <1>1, <1>2, <1>3, <1>4, <1>5, <1>6, <1>7, <1>8, <1>9, <1>10, <1>11
        DEF Next, WorkerStep

LEMMA NextClock == ASSUME ClockInv, [Next]_vars PROVE ClockInv'
<1>1. TypeOK'
  BY TypeStep DEF ClockInv
<1> QED BY <1>1, TurnsStep, GapStep, MarkedStep DEF ClockInv

-----------------------------------------------------------------------------
(* The four parts of the clock's invariant hold. *)
THEOREM ClockIsRight == Spec => []ClockInv
BY InitClock, NextClock, PTL DEF Spec

(* With heartbeat_ttl no shorter than LongestGap, the row of a process that runs is
   never as old as heartbeat_ttl, whatever Failures heartbeats in a row fail. *)
THEOREM LeaseIsKept == Spec => []LeaseKept
<1>1. ClockInv => LeaseKept
  BY YoungWhileUp
<1> QED BY <1>1, ClockIsRight, PTL

(* A process that runs has a row within LongestGap of its start, though its first
   Failures heartbeats fail: that long, at most, REAP takes what it claims for orphaned. *)
THEOREM EveryoneIsListed == Spec => []ListedInTime
<1>1. ClockInv => ListedInTime
  BY YoungWhileUp
<1> QED BY <1>1, ClockIsRight, PTL

(* From its first heartbeat on, REAP takes no message of a process that runs, whatever
   thread of it claimed the message. *)
THEOREM OnlyTheUnlistedAreReaped == Spec => LosesOnlyUnlisted
<1>1. ASSUME ClockInv, [Next]_vars
      PROVE  [\A w \in holders : life[w] = "up" /\ (\E u \in Workers : Maintain(u))
                                => w \in holders' \/ w \notin listed]_vars
  <2>1. ASSUME NEW w \in holders, life[w] = "up", NEW u \in Workers, Maintain(u), w \in listed
        PROVE  w \in holders'
    <3>1. TypeOK /\ LeaseKept
      BY <1>1, YoungWhileUp DEF ClockInv
    <3> QED BY <2>1, <3>1, MaintainSpares
  <2>2. \A w \in holders : life[w] = "up" /\ (\E u \in Workers : Maintain(u))
                            => w \in holders' \/ w \notin listed
    BY <2>1, Zenon
  <2> QED BY <2>2
<1> QED BY <1>1, ClockIsRight, PTL DEF Spec, LosesOnlyUnlisted
-----------------------------------------------------------------------------
(* Recovery.  While the row of a dead process is older than heartbeat_ttl, some process
   that does not die (a survivor) is on its way to a maintenance, and how long that may
   take, with what further deaths may add, stays within RecoveryTime. *)

Survivors == Workers \ Mortal

(* The maintenance transaction is that of a thread in the midst of its turn. *)
LockFit ==
  /\ lock # NoWorker => pc[lock] = "maintain" /\ sinceLock <= sinceTurn[lock]
  /\ \A w \in Workers : pc[w] = "maintain" => lock = w
  /\ \A w \in Workers : due[w] <= (3 * Maintenance) \div 2
  /\ \A w \in Survivors : life[w] = "up"

(* The turns that u may still spend on heartbeats that fail. *)
TurnsLeft(u) == (Failures + 1 - failed[u] - Pending(u)) * Turn

(* How far u is, at most, from the end of the turn in which it tries the lock. *)
UntilTry(u) ==
  IF pc[u] = "lock" THEN Turn - sinceTurn[u]
  ELSE IF due[u] > 0 THEN due[u] + (Failures + 2) * Turn
  ELSE (Turn - sinceTurn[u]) + TurnsLeft(u)

Overdue(w) == w \in holders /\ life[w] = "down" /\ age[w] >= Ttl

(* The maintenance under way began late enough to give the messages of w back. *)
Reaping(w) == lock # NoWorker /\ age[w] - sinceLock >= Ttl

MayDie == {w \in Mortal : life[w] # "down"}

DeathsLeft == Cardinality(MayDie) * (Round + Turn)

(* What is left until w's messages are back, whoever dies meanwhile. *)
InTime(w) ==
  IF Reaping(w)
  THEN IF lock \in Mortal THEN age[w] - sinceLock + DeathsLeft <= RecoveryTime
                          ELSE age[w] + (Turn - sinceTurn[lock]) + DeathsLeft <= RecoveryTime
  ELSE \A u \in Survivors : age[w] + UntilTry(u) + DeathsLeft <= RecoveryTime

RecoveryInv == LockFit /\ \A w \in Workers : Overdue(w) => InTime(w)

(* Products of a count and a duration. *)
LEMMA Multiples ==
  ASSUME NEW d \in Nat, NEW k \in Nat
  PROVE  k * d \in Nat /\ (k + 1) * d = k * d + d
OBVIOUS

LEMMA MoreMultiples ==
  ASSUME NEW d \in Nat, NEW k \in Nat, NEW n \in Nat, k <= n
  PROVE  k * d <= n * d
<1>1. n - k \in Nat /\ n = k + (n - k)
  OBVIOUS
<1>2. (k + (n - k)) * d = k * d + (n - k) * d /\ (n - k) * d \in Nat
  BY <1>1
<1> QED BY <1>1, <1>2, Multiples

LEMMA Durations ==
  /\ (3 * Maintenance) \div 2 \in Nat /\ (Failures + 2) * Turn \in Nat
  /\ (Failures + 2) * Turn = (Failures + 1) * Turn + Turn /\ (Failures + 1) * Turn \in Nat
  /\ Round \in Nat /\ Round = (3 * Maintenance) \div 2 + (Failures + 2) * Turn
<1>1. (3 * Maintenance) \div 2 \in Nat
  BY Constants
<1>2. Failures + 1 \in Nat /\ Failures + 2 = (Failures + 1) + 1 /\ Turn \in Nat
  BY Constants
<1>3. (Failures + 1) * Turn \in Nat /\ ((Failures + 1) + 1) * Turn = (Failures + 1) * Turn + Turn
  BY <1>2, Multiples
<1> QED BY <1>1, <1>2, <1>3 DEF Round

(* Those who may still die. *)
LEMMA Deaths ==
  ASSUME IsFiniteSet(Mortal)
  PROVE  /\ DeathsLeft \in Nat /\ RecoveryTime \in Nat
         /\ (\E w \in Mortal : life[w] = "down") =>
               Ttl + DeathsLeft + Round + Turn <= RecoveryTime
<1> DEFINE d == Round + Turn
           k == Cardinality(MayDie)
           n == Cardinality(Mortal)
<1>1. d \in Nat
  BY Durations, Constants
<1>2. MayDie \subseteq Mortal /\ IsFiniteSet(MayDie) /\ k \in Nat /\ n \in Nat
  BY FS_Subset, FS_CardinalityType DEF MayDie
<1>3. DeathsLeft = k * d /\ RecoveryTime = Ttl + n * d
  BY DEF DeathsLeft, RecoveryTime
<1>4. ASSUME NEW w \in Mortal, life[w] = "down" PROVE k + 1 <= n
  <2>1. MayDie \subseteq Mortal \ {w}
    BY <1>4 DEF MayDie
  <2>2. IsFiniteSet(Mortal \ {w}) /\ Cardinality(Mortal \ {w}) = n - 1
    BY FS_RemoveElement
  <2>3. k <= Cardinality(Mortal \ {w})
    BY <2>1, <2>2, FS_Subset
  <2> QED BY <2>2, <2>3, <1>2
<1> HIDE DEF d, k, n
<1>5. k * d \in Nat /\ n * d \in Nat /\ (k + 1) * d = k * d + d
  BY <1>1, <1>2, Multiples
<1>6. ASSUME k + 1 <= n PROVE k * d + d <= n * d
  BY <1>1, <1>2, <1>5, <1>6, MoreMultiples
<1>7. DeathsLeft \in Nat /\ RecoveryTime \in Nat
  BY <1>3, <1>5, Constants
<1>8. ASSUME k + 1 <= n PROVE Ttl + DeathsLeft + d <= RecoveryTime
  BY <1>1, <1>2, <1>3, <1>5, <1>6, <1>8, Constants
<1> QED BY <1>4, <1>7, <1>8, Durations, Constants DEF d

LEMMA DeathsOfOthers ==
  ASSUME IsFiniteSet(Mortal), NEW w \in MayDie
  PROVE  /\ Cardinality(MayDie \ {w}) * (Round + Turn) \in Nat
         /\ DeathsLeft = Cardinality(MayDie \ {w}) * (Round + Turn) + Round + Turn
<1> DEFINE d == Round + Turn
           k == Cardinality(MayDie \ {w})
<1>1. d \in Nat
  BY Durations, Constants
<1>2. k \in Nat /\ Cardinality(MayDie) = k + 1
  <2>1. IsFiniteSet(MayDie)
    BY FS_Subset DEF MayDie
  <2>2. IsFiniteSet(MayDie \ {w}) /\ Cardinality(MayDie \ {w}) = Cardinality(MayDie) - 1
    BY <2>1, FS_RemoveElement
  <2> QED BY <2>1, <2>2, FS_CardinalityType
<1>3. DeathsLeft = (k + 1) * d
  BY <1>2 DEF DeathsLeft
<1> HIDE DEF k, d
<1>4. k * d \in Nat /\ (k + 1) * d = k * d + d
  BY <1>1, <1>2, Multiples
<1>5. DeathsLeft = k * d + d
  BY <1>3, <1>4
<1> QED BY <1>4, <1>5, Durations, Constants DEF d, k

LEMMA OneDeathLess ==
  ASSUME IsFiniteSet(Mortal), NEW w \in MayDie, MayDie' = MayDie \ {w}
  PROVE  DeathsLeft' + Round + Turn = DeathsLeft /\ DeathsLeft' \in Nat
<1>1. DeathsLeft' = Cardinality(MayDie \ {w}) * (Round + Turn)
  BY DEF DeathsLeft
<1> QED BY <1>1, DeathsOfOthers

-----------------------------------------------------------------------------
LEMMA InitLock == Init => LockFit
<1>1. \A w \in Workers : 0 <= (3 * Maintenance) \div 2
  BY Durations
<1> QED BY <1>1, Constants DEF Init, LockFit, Survivors

LEMMA JitterFits == \A j \in Jitter : j <= (3 * Maintenance) \div 2
<1>1. Maintenance \div 2 \in Nat
  BY Constants
<1> QED BY <1>1, Durations DEF Jitter

LEMMA LockStep == ASSUME ClockInv, LockFit, TypeOK', [Next]_vars PROVE LockFit'
<1>t. TypeOK /\ TurnsTaken /\ MarkedFirst
  BY DEF ClockInv
<1>u. \A w \in Workers : sinceTurn[w] \in Nat /\ due[w] \in Nat /\ sinceLock \in Nat
  BY <1>t DEF TypeOK
<1>s. ASSUME UNCHANGED <<lock, sinceLock, life, due>>,
             \A v \in Workers : pc'[v] = "maintain" <=> pc[v] = "maintain",
             \A v \in Workers : pc[v] = "maintain" => sinceTurn'[v] = sinceTurn[v]
      PROVE  LockFit'
  BY <1>s, <1>t DEF LockFit, TypeOK
<1>d. ASSUME NEW w \in Workers, Upkeep(w)
      PROVE  \A v \in Workers : due'[v] <= (3 * Maintenance) \div 2
  BY <1>d, <1>t, JitterFits DEF Upkeep, LockFit, TypeOK
<1>1. ASSUME NEW w \in Workers, Start(w) PROVE LockFit'
  <2>1. /\ pc[w] = "idle" /\ life'[w] = "up" /\ UNCHANGED <<pc, due, lock, sinceLock>>
        /\ \A v \in Workers \ {w} : life'[v] = life[v] /\ sinceTurn'[v] = sinceTurn[v]
    BY <1>1, <1>t DEF Start, MarkedFirst, TypeOK, locking
  <2> QED BY <2>1, <1>t DEF LockFit, Survivors, TypeOK
<1>2. ASSUME NEW w \in Workers, BeginTurn(w) PROVE LockFit'
  <2>1. /\ pc[w] = "idle" /\ UNCHANGED <<life, lock, sinceLock>>
        /\ \A v \in Workers \ {w} : sinceTurn'[v] = sinceTurn[v]
    BY <1>2, <1>t DEF BeginTurn, TypeOK, locking
  <2>2. CASE Goto(w, "heartbeat") /\ UNCHANGED due
    BY <2>1, <2>2, <1>s, <1>t, GotoEffect
  <2>3. CASE Upkeep(w)
    <3>1. pc'[w] # "maintain" /\ \A v \in Workers \ {w} : pc'[v] = pc[v]
      BY <2>3, <1>t, UpkeepEffect
    <3> QED BY <2>1, <2>3, <3>1, <1>d, <1>t DEF LockFit, TypeOK
  <2> QED BY <1>2, <2>2, <2>3 DEF BeginTurn
<1>3. ASSUME NEW w \in Workers, HeartbeatCommit(w) PROVE LockFit'
  <2>1. /\ pc[w] = "heartbeat" /\ pc'[w] # "maintain" /\ \A v \in Workers \ {w} : pc'[v] = pc[v]
        /\ UNCHANGED <<life, sinceTurn, lock, sinceLock>>
    BY <1>3, <1>t, UpkeepEffect DEF HeartbeatCommit, locking
  <2>2. \A v \in Workers : due'[v] <= (3 * Maintenance) \div 2
    BY <1>3, <1>d DEF HeartbeatCommit
  <2> QED BY <2>1, <2>2, <1>t DEF LockFit, TypeOK
<1>4. ASSUME NEW w \in Workers, HeartbeatFails(w) PROVE LockFit'
  BY <1>4, <1>s, <1>t, GotoEffect DEF HeartbeatFails, locking
<1>5. ASSUME NEW w \in Workers, TryLock(w) PROVE LockFit'
  <2>1. pc[w] = "lock" /\ UNCHANGED <<life, sinceTurn, due>>
    BY <1>5 DEF TryLock, process
  <2>2. CASE lock = NoWorker /\ lock' = w /\ sinceLock' = 0 /\ Goto(w, "maintain")
    <3>1. pc'[w] = "maintain" /\ \A v \in Workers \ {w} : pc'[v] = pc[v]
      BY <2>2, <1>t, GotoEffect
    <3>2. \A v \in Workers : pc[v] # "maintain"
      BY <2>2, Constants DEF LockFit
    <3> QED BY <2>1, <2>2, <3>1, <3>2, <1>u DEF LockFit
  <2>3. CASE Goto(w, "claim") /\ UNCHANGED locking
    BY <2>1, <2>3, <1>s, <1>t, GotoEffect DEF locking
  <2> QED BY <1>5, <2>2, <2>3 DEF TryLock
<1>6. ASSUME NEW w \in Workers, Maintain(w) PROVE LockFit'
  <2>1. /\ pc[w] = "maintain" /\ pc'[w] = "claim" /\ lock' = NoWorker
        /\ \A v \in Workers \ {w} : pc'[v] = pc[v]
        /\ UNCHANGED <<life, due>>
    BY <1>6, <1>t, GotoEffect DEF Maintain, process
  <2> QED BY <2>1 DEF LockFit
<1>7. ASSUME NEW w \in Workers, Claim(w) PROVE LockFit'
  BY <1>7, <1>s, <1>t, GotoEffect DEF Claim, process, locking
<1>8. ASSUME NEW w \in Workers, ClaimBeside(w) \/ Settle(w) PROVE LockFit'
  BY <1>8, <1>s DEF ClaimBeside, Settle, process, locking
<1>9. ASSUME NEW w \in Workers, Crash(w) PROVE LockFit'
  <2>1. /\ w \in Mortal /\ pc'[w] = "idle" /\ due'[w] = 0
        /\ \A v \in Workers \ {w} : /\ pc'[v] = pc[v] /\ due'[v] = due[v]
                                   /\ sinceTurn'[v] = sinceTurn[v] /\ life'[v] = life[v]
        /\ IF lock = w THEN lock' = NoWorker ELSE UNCHANGED <<lock, sinceLock>>
    BY <1>9, <1>t DEF Crash, TypeOK, locking
  <2> QED BY <2>1, <1>t, Durations DEF LockFit, Survivors, TypeOK
<1>10. CASE Tick
  <2>1. UNCHANGED <<pc, life, lock>>
    BY <1>10 DEF Tick
  <2>2. ASSUME lock # NoWorker PROVE sinceLock' <= sinceTurn'[lock]
    <3>1. lock \in Workers /\ life[lock] = "up"
      BY <2>2, <1>t DEF LockFit, MarkedFirst, TypeOK
    <3>2. sinceTurn'[lock] = sinceTurn[lock] + 1 /\ sinceLock' = sinceLock + 1
      BY <1>10, <2>2, <3>1 DEF Tick
    <3> QED BY <2>2, <3>1, <3>2, <1>u DEF LockFit
  <2>3. \A w \in Workers : due'[w] <= due[w] /\ due'[w] \in Nat
    BY <1>10, <1>u DEF Tick
  <2>4. \A w \in Workers : due'[w] <= (3 * Maintenance) \div 2
    BY <2>3, <1>u, Durations DEF LockFit
  <2> QED BY <2>1, <2>2, <2>4 DEF LockFit
<1>11. CASE UNCHANGED vars
  BY <1>11, <1>s DEF vars
<1> QED BY <1>1, <1>2, <1>3, <1>4, <1>5, <1>6, <1>7, <1>8, <1>9, <1>10, <1>11
        DEF Next, WorkerStep

(* A survivor is never further than a round from its next try. *)
LEMMA TurnsRange ==
  ASSUME NEW f \in 0..Failures, NEW p \in {0, 1}
  PROVE  (Failures + 1 - f - p) * Turn \in Nat /\ (Failures + 1 - f - p) * Turn <= (Failures + 1) * Turn
<1>1. PICK k \in 0 .. Failures + 1 : k = Failures + 1 - f - p
  BY Constants
<1>2. k \in Nat /\ Failures + 1 \in Nat /\ k <= Failures + 1 /\ Turn \in Nat
  BY <1>1, Constants
<1>3. k * Turn \in Nat /\ k * Turn <= (Failures + 1) * Turn
  BY <1>2, Multiples, MoreMultiples
<1> QED BY <1>1, <1>3

LEMMA TryRange ==
  ASSUME ClockInv, LockFit, NEW u \in Survivors
  PROVE  UntilTry(u) \in Nat /\ UntilTry(u) <= Round
<1>1. /\ u \in Workers /\ sinceTurn[u] \in Nat /\ sinceTurn[u] <= Turn /\ due[u] \in Nat
      /\ due[u] <= (3 * Maintenance) \div 2 /\ failed[u] \in 0..Failures /\ Pending(u) \in {0, 1}
  BY DEF Survivors, ClockInv, TypeOK, TurnsTaken, LockFit, Pending
<1>2. TurnsLeft(u) \in Nat /\ TurnsLeft(u) <= (Failures + 1) * Turn
  BY <1>1, TurnsRange DEF TurnsLeft
<1> HIDE DEF TurnsLeft
<1> QED BY <1>1, <1>2, Durations, Constants DEF UntilTry

LEMMA TryRangeNext ==
  ASSUME ClockInv', LockFit', NEW u \in Survivors
  PROVE  UntilTry(u)' \in Nat /\ UntilTry(u)' <= Round
<1>1. /\ u \in Workers /\ sinceTurn'[u] \in Nat /\ sinceTurn'[u] <= Turn /\ due'[u] \in Nat
      /\ due'[u] <= (3 * Maintenance) \div 2 /\ failed'[u] \in 0..Failures /\ Pending(u)' \in {0, 1}
  BY DEF Survivors, ClockInv, TypeOK, TurnsTaken, LockFit, Pending
<1>2. TurnsLeft(u)' \in Nat /\ TurnsLeft(u)' <= (Failures + 1) * Turn
  BY <1>1, TurnsRange DEF TurnsLeft
<1> HIDE DEF TurnsLeft
<1> QED BY <1>1, <1>2, Durations, Constants DEF UntilTry

(* As long as u does not give up a round because the lock is taken, no step takes it
   further away from its next try. *)
LEMMA TryStep ==
  ASSUME ClockInv, LockFit, (\E x \in Workers : WorkerStep(x)) \/ UNCHANGED vars,
         NEW u \in Survivors, pc[u] = "lock" => pc'[u] = "lock"
  PROVE  UntilTry(u)' <= UntilTry(u)
<1>t. TypeOK /\ TurnsTaken /\ MarkedFirst /\ u \in Workers /\ life[u] = "up" /\ u \notin Mortal
  BY DEF ClockInv, LockFit, Survivors
<1>u. /\ sinceTurn[u] \in Nat /\ due[u] \in Nat /\ sinceTurn[u] <= Turn /\ UntilTry(u) \in Nat
      /\ failed[u] \in 0..Failures
  BY <1>t, TryRange DEF TypeOK, TurnsTaken
<1>s. ASSUME pc'[u] = pc[u], due'[u] = due[u], failed'[u] = failed[u], sinceTurn'[u] = sinceTurn[u]
      PROVE  UntilTry(u)' <= UntilTry(u)
  <2>1. UntilTry(u)' = UntilTry(u)
    BY <1>s DEF UntilTry, TurnsLeft, Pending
  <2> QED BY <2>1, <1>u
(* Another step of the same turn, beside heartbeat and lock. *)
<1>c. ASSUME pc[u] \notin {"heartbeat", "lock"}, pc'[u] \notin {"heartbeat", "lock"},
             due'[u] = due[u], failed'[u] = failed[u], sinceTurn'[u] = sinceTurn[u]
      PROVE  UntilTry(u)' <= UntilTry(u)
  <2>1. UntilTry(u)' = UntilTry(u)
    BY <1>c DEF UntilTry, TurnsLeft, Pending
  <2> QED BY <2>1, <1>u
<1>m. \A k \in 0..Failures : k * Turn \in Nat /\ (k + 1) * Turn = k * Turn + Turn
  BY Multiples, Constants
<1>1. CASE BeginTurn(u)
  <2>1. /\ pc[u] = "idle" /\ sinceTurn'[u] = 0 /\ failed' = failed
    BY <1>1, <1>t DEF BeginTurn, TypeOK
  <2>2. PICK k \in 0..Failures : k = Failures - failed[u]
    BY <1>u, Constants
  <2>3. k \in Nat /\ k * Turn \in Nat /\ (k + 1) * Turn = k * Turn + Turn
    BY <1>m, <2>2
  <2>4. TurnsLeft(u) = (k + 1) * Turn
    <3>1. Failures + 1 - failed[u] - Pending(u) = k + 1
      BY <2>1, <2>2, <1>u, Constants DEF Pending
    <3> QED BY <3>1 DEF TurnsLeft
  <2>5. CASE Goto(u, "heartbeat") /\ UNCHANGED due
    <3>1. pc'[u] = "heartbeat" /\ due'[u] = due[u]
      BY <2>5, <1>t, GotoEffect
    <3>2. TurnsLeft(u)' = k * Turn
      <4>1. Failures + 1 - failed'[u] - Pending(u)' = k
        BY <2>1, <2>2, <3>1, <1>u, Constants DEF Pending
      <4> QED BY <4>1 DEF TurnsLeft
    <3>3. CASE due[u] > 0
      BY <3>1, <3>3, <2>1, <1>u, Durations DEF UntilTry
    <3>4. CASE due[u] = 0
      <4>1. UntilTry(u)' = Turn + k * Turn
        BY <2>1, <3>1, <3>2, <3>4, Constants DEF UntilTry
      <4>2. UntilTry(u) = (Turn - sinceTurn[u]) + (k * Turn + Turn)
        BY <2>1, <2>3, <2>4, <3>4 DEF UntilTry
      <4> QED BY <4>1, <4>2, <2>3, <1>u, Constants
    <3> QED BY <3>3, <3>4, <1>u
  <2>6. CASE due[u] > 0 /\ Goto(u, "claim") /\ UNCHANGED due
    <3>1. pc'[u] = "claim" /\ due'[u] = due[u]
      BY <2>6, <1>t, GotoEffect
    <3> QED BY <2>1, <2>6, <3>1, <1>u, Durations DEF UntilTry
  <2>7. CASE due[u] = 0 /\ Goto(u, "lock")
    <3>1. pc'[u] = "lock"
      BY <2>7, <1>t, GotoEffect
    <3>2. UntilTry(u)' = Turn
      BY <2>1, <3>1, Constants DEF UntilTry
    <3>3. UntilTry(u) = (Turn - sinceTurn[u]) + (k * Turn + Turn)
      BY <2>1, <2>3, <2>4, <2>7 DEF UntilTry
    <3> QED BY <3>2, <3>3, <2>3, <1>u, Constants
  <2> QED BY <1>1, <2>5, <2>6, <2>7 DEF BeginTurn, Upkeep
<1>2. CASE HeartbeatCommit(u)
  <2>1. pc[u] = "heartbeat" /\ sinceTurn' = sinceTurn
    BY <1>2 DEF HeartbeatCommit
  <2>2. CASE due[u] > 0 /\ Goto(u, "claim") /\ UNCHANGED due
    <3>1. pc'[u] = "claim" /\ due'[u] = due[u]
      BY <2>2, <1>t, GotoEffect
    <3> QED BY <2>1, <2>2, <3>1, <1>u, Durations DEF UntilTry
  <2>3. CASE due[u] = 0 /\ Goto(u, "lock")
    <3>1. pc'[u] = "lock"
      BY <2>3, <1>t, GotoEffect
    <3>2. UntilTry(u) = (Turn - sinceTurn[u]) + TurnsLeft(u) /\ TurnsLeft(u) \in Nat
      <4>1. TurnsLeft(u) \in Nat
        BY <1>u, TurnsRange DEF TurnsLeft, Pending
      <4> QED BY <2>1, <2>3, <4>1 DEF UntilTry
    <3>3. UntilTry(u)' = Turn - sinceTurn[u]
      BY <2>1, <3>1 DEF UntilTry
    <3> QED BY <3>2, <3>3, <1>u, Constants
  <2> QED BY <1>2, <2>2, <2>3 DEF HeartbeatCommit, Upkeep
<1>3. CASE HeartbeatFails(u)
  <2>1. /\ pc[u] = "heartbeat" /\ pc'[u] = "idle" /\ failed'[u] = failed[u] + 1
        /\ sinceTurn' = sinceTurn /\ due' = due
    BY <1>3, <1>t, GotoEffect DEF HeartbeatFails, TypeOK
  <2>2. TurnsLeft(u)' = TurnsLeft(u)
    <3>1. Failures + 1 - failed'[u] - Pending(u)' = Failures + 1 - failed[u] - Pending(u)
      BY <2>1, <1>u, Constants DEF Pending
    <3> QED BY <3>1 DEF TurnsLeft
  <2>3. UntilTry(u)' = UntilTry(u)
    BY <2>1, <2>2 DEF UntilTry
  <2> QED BY <2>3, <1>u
<1>4. CASE Maintain(u)
  BY <1>4, <1>c, <1>t, GotoEffect DEF Maintain, process
<1>5. CASE Claim(u)
  BY <1>5, <1>c, <1>t, GotoEffect DEF Claim, process
<1>6. CASE ClaimBeside(u) \/ Settle(u)
  BY <1>6, <1>s DEF ClaimBeside, Settle, process
<1>7. ASSUME NEW w \in Workers \ {u}, WorkerStep(w) PROVE UntilTry(u)' <= UntilTry(u)
  <2>1. ASSUME Start(w) PROVE UntilTry(u)' <= UntilTry(u)
    BY <2>1, <1>7, <1>s, <1>t DEF Start, TypeOK
  <2>2. ASSUME Upkeep(w) PROVE pc'[u] = pc[u] /\ due'[u] = due[u]
    BY <2>2, <1>7, <1>t, UpkeepEffect DEF Upkeep, TypeOK
  <2>3. ASSUME BeginTurn(w) PROVE UntilTry(u)' <= UntilTry(u)
    <3>1. sinceTurn'[u] = sinceTurn[u] /\ failed' = failed
      BY <2>3, <1>7, <1>t DEF BeginTurn, TypeOK
    <3>2. CASE Goto(w, "heartbeat") /\ UNCHANGED due
      BY <3>1, <3>2, <1>7, <1>s, <1>t, GotoEffect
    <3> QED BY <2>2, <2>3, <3>1, <3>2, <1>s DEF BeginTurn
  <2>4. ASSUME HeartbeatCommit(w) PROVE UntilTry(u)' <= UntilTry(u)
    BY <2>2, <2>4, <1>7, <1>s, <1>t DEF HeartbeatCommit, TypeOK
  <2>5. ASSUME HeartbeatFails(w) PROVE UntilTry(u)' <= UntilTry(u)
    BY <2>5, <1>7, <1>s, <1>t, GotoEffect DEF HeartbeatFails, TypeOK
  <2>6. ASSUME TryLock(w) PROVE UntilTry(u)' <= UntilTry(u)
    BY <2>6, <1>7, <1>s, <1>t, GotoEffect DEF TryLock, process
  <2>7. ASSUME Maintain(w) PROVE UntilTry(u)' <= UntilTry(u)
    BY <2>7, <1>7, <1>s, <1>t, GotoEffect DEF Maintain, process
  <2>8. ASSUME Claim(w) PROVE UntilTry(u)' <= UntilTry(u)
    BY <2>8, <1>7, <1>s, <1>t, GotoEffect DEF Claim, process
  <2>9. ASSUME ClaimBeside(w) \/ Settle(w) PROVE UntilTry(u)' <= UntilTry(u)
    BY <2>9, <1>s DEF ClaimBeside, Settle, process
  <2>10. ASSUME Crash(w) PROVE UntilTry(u)' <= UntilTry(u)
    BY <2>10, <1>7, <1>s, <1>t DEF Crash, TypeOK
  <2> QED BY <1>7, <2>1, <2>3, <2>4, <2>5, <2>6, <2>7, <2>8, <2>9, <2>10 DEF WorkerStep
<1>8. CASE UNCHANGED vars
  BY <1>8, <1>s DEF vars
<1>9. ~ Start(u) /\ ~ Crash(u) /\ ~ TryLock(u)
  BY <1>t, GotoEffect DEF Start, Crash, TryLock
<1> QED BY <1>1, <1>2, <1>3, <1>4, <1>5, <1>6, <1>7, <1>8, <1>9 DEF WorkerStep

(* Time brings it nearer. *)
LEMMA TryTick ==
  ASSUME ClockInv, LockFit, Tick, NEW u \in Survivors
  PROVE  UntilTry(u)' + 1 <= UntilTry(u)
<1>1. /\ u \in Workers /\ life[u] = "up" /\ TypeOK
      /\ sinceTurn[u] \in Nat /\ due[u] \in Nat /\ sinceTurn[u] < Turn
      /\ sinceTurn'[u] = sinceTurn[u] + 1 /\ UNCHANGED <<pc, failed>>
      /\ due'[u] = IF due[u] > 0 THEN due[u] - 1 ELSE 0
  BY DEF Tick, Survivors, LockFit, ClockInv, TypeOK
<1>2. TurnsLeft(u)' = TurnsLeft(u) /\ TurnsLeft(u) \in Nat /\ TurnsLeft(u) <= (Failures + 1) * Turn
  <2>1. failed[u] \in 0..Failures /\ Pending(u) \in {0, 1} /\ Pending(u)' = Pending(u)
    BY <1>1 DEF TypeOK, Pending
  <2> QED BY <1>1, <2>1, TurnsRange DEF TurnsLeft
<1> HIDE DEF TurnsLeft
<1>3. CASE pc[u] = "lock"
  BY <1>1, <1>3, Constants DEF UntilTry
<1>4. CASE pc[u] # "lock" /\ due[u] > 1
  BY <1>1, <1>4, Durations DEF UntilTry
<1>5. CASE pc[u] # "lock" /\ due[u] = 1
  <2>1. UntilTry(u) = 1 + (Failures + 2) * Turn
    BY <1>1, <1>5 DEF UntilTry
  <2>2. UntilTry(u)' = (Turn - sinceTurn'[u]) + TurnsLeft(u)
    BY <1>1, <1>2, <1>5 DEF UntilTry
  <2> QED BY <2>1, <2>2, <1>1, <1>2, Durations, Constants
<1>6. CASE pc[u] # "lock" /\ due[u] = 0
  <2>1. UntilTry(u) = (Turn - sinceTurn[u]) + TurnsLeft(u)
    BY <1>1, <1>6 DEF UntilTry
  <2>2. UntilTry(u)' = (Turn - sinceTurn'[u]) + TurnsLeft(u)
    BY <1>1, <1>2, <1>6 DEF UntilTry
  <2> QED BY <2>1, <2>2, <1>1, <1>2, Constants
<1> QED BY <1>1, <1>3, <1>4, <1>5, <1>6

(* The bound of a dead process' row survives a step of somebody else. *)
LEMMA InTimeKept ==
  ASSUME NEW w \in Workers, ClockInv, LockFit, InTime(w), IsFiniteSet(Mortal),
         age'[w] = age[w], UNCHANGED <<lock, sinceLock>>, MayDie' = MayDie,
         lock # NoWorker => sinceTurn'[lock] = sinceTurn[lock],
         \A u \in Survivors : UntilTry(u)' <= UntilTry(u) /\ UntilTry(u)' \in Nat
  PROVE  InTime(w)'
<1>1. DeathsLeft' = DeathsLeft /\ DeathsLeft \in Nat /\ RecoveryTime \in Nat
  BY Deaths DEF DeathsLeft
<1>2. Reaping(w)' = Reaping(w)
  BY DEF Reaping
<1>3. age[w] \in Nat /\ \A u \in Survivors : UntilTry(u) \in Nat
  BY TryRange DEF ClockInv, TypeOK
<1> HIDE DEF UntilTry, DeathsLeft
<1>4. CASE Reaping(w)
  BY <1>1, <1>2, <1>4 DEF InTime, Reaping
<1>5. CASE ~ Reaping(w)
  <2> SUFFICES ASSUME NEW u \in Survivors PROVE age'[w] + UntilTry(u)' + DeathsLeft' <= RecoveryTime
    BY <1>2, <1>5 DEF InTime
  <2>1. age[w] + UntilTry(u) + DeathsLeft <= RecoveryTime
    BY <1>5 DEF InTime
  <2> QED BY <2>1, <1>1, <1>3
<1> QED BY <1>4, <1>5

(* At any moment within the bound, the row is no older than RecoveryTime. *)
LEMMA InTimeBounds ==
  ASSUME NEW w \in Workers, ClockInv, LockFit, InTime(w), IsFiniteSet(Mortal), Survivors # {}
  PROVE  age[w] <= RecoveryTime
<1>1. DeathsLeft \in Nat /\ RecoveryTime \in Nat /\ age[w] \in Nat /\ Round \in Nat
  BY Deaths, Durations DEF ClockInv, TypeOK
<1>2. CASE ~ Reaping(w)
  <2>1. PICK u \in Survivors : age[w] + UntilTry(u) + DeathsLeft <= RecoveryTime
    BY <1>2 DEF InTime
  <2>2. UntilTry(u) \in Nat
    BY TryRange
  <2> HIDE DEF UntilTry, DeathsLeft
  <2> QED BY <2>1, <2>2, <1>1
<1>3. CASE Reaping(w)
  <2>1. /\ lock \in Workers /\ life[lock] = "up" /\ sinceLock \in Nat /\ sinceTurn[lock] \in Nat
        /\ sinceLock <= sinceTurn[lock] /\ sinceTurn[lock] <= Turn
    BY <1>3 DEF Reaping, LockFit, ClockInv, TypeOK, MarkedFirst, TurnsTaken
  <2>2. CASE lock \in Mortal
    <3>1. lock \in MayDie /\ age[w] - sinceLock + DeathsLeft <= RecoveryTime
      BY <1>3, <2>1, <2>2 DEF InTime, MayDie
    <3>2. PICK k \in Nat : DeathsLeft = k + Round + Turn
      BY <3>1, DeathsOfOthers
    <3> HIDE DEF DeathsLeft
    <3> QED BY <3>1, <3>2, <2>1, <1>1, Constants
  <2>3. CASE lock \notin Mortal
    <3>1. age[w] + (Turn - sinceTurn[lock]) + DeathsLeft <= RecoveryTime
      BY <1>3, <2>3 DEF InTime
    <3> HIDE DEF DeathsLeft
    <3> QED BY <3>1, <2>1, <1>1, Constants
  <2> QED BY <2>2, <2>3
<1> QED BY <1>2, <1>3

(* The transaction with w's row in time gives its messages back. *)
LEMMA ReapingReaps ==
  ASSUME ClockInv, NEW w \in Workers, Reaping(w), NEW x \in Workers, Maintain(x)
  PROVE  w \notin holders'
<1>1. w \notin Alive(sinceLock)
  <2>1. ~ (age[w] - sinceLock < Ttl)
    BY Constants DEF Reaping, ClockInv, TypeOK
  <2> QED BY <2>1 DEF Alive
<1> QED BY <1>1 DEF Maintain

-----------------------------------------------------------------------------
(* RecoveryInv step by step.  First the steps that leave lock and ages alone. *)
LEMMA RecoveryByOthers ==
  ASSUME ClockInv, ClockInv', RecoveryInv, LockFit', IsFiniteSet(Mortal),
         \/ \E x \in Workers : \/ Start(x) \/ BeginTurn(x) \/ HeartbeatCommit(x)
                              \/ HeartbeatFails(x) \/ Claim(x) \/ ClaimBeside(x) \/ Settle(x)
         \/ UNCHANGED vars,
         NEW w \in Workers, Overdue(w)'
  PROVE  InTime(w)'
<1>t. TypeOK /\ MarkedFirst /\ LockFit
  BY DEF ClockInv, RecoveryInv
<1> DEFINE Quiet ==
      /\ Overdue(w) /\ age'[w] = age[w] /\ UNCHANGED <<lock, sinceLock>> /\ MayDie' = MayDie
      /\ lock # NoWorker => sinceTurn'[lock] = sinceTurn[lock]
      /\ \A u \in Survivors : pc[u] = "lock" => pc'[u] = "lock"
<1>1. ASSUME NEW x \in Workers, Start(x) PROVE Quiet
  <2>1. pc[x] = "idle" /\ lock # x /\ life'[x] = "up"
    BY <1>1, <1>t, Constants DEF Start, MarkedFirst, LockFit, TypeOK
  <2>2. MayDie' = MayDie
    BY <1>1, <1>t DEF Start, MayDie, TypeOK
  <2> QED BY <1>1, <2>1, <2>2, <1>t DEF Start, Overdue, TypeOK, tables, locking
<1>2. ASSUME NEW x \in Workers, BeginTurn(x) PROVE Quiet
  <2>1. pc[x] = "idle" /\ (lock # NoWorker => lock # x) /\ \A v \in Workers \ {x} : pc'[v] = pc[v]
    <3>1. CASE Upkeep(x)
      BY <1>2, <3>1, <1>t, UpkeepEffect DEF BeginTurn, LockFit
    <3>2. CASE Goto(x, "heartbeat")
      BY <1>2, <3>2, <1>t, GotoEffect DEF BeginTurn, LockFit
    <3> QED BY <1>2, <3>1, <3>2 DEF BeginTurn
  <2>2. MayDie' = MayDie
    BY <1>2 DEF BeginTurn, MayDie
  <2>3. \A u \in Survivors : pc[u] = "lock" => pc'[u] = "lock"
    BY <2>1 DEF Survivors
  <2> QED BY <1>2, <2>1, <2>2, <2>3, <1>t DEF BeginTurn, Overdue, TypeOK, tables, locking
<1>3. ASSUME NEW x \in Workers, HeartbeatCommit(x) PROVE Quiet
  <2>1. pc[x] = "heartbeat" /\ \A v \in Workers \ {x} : pc'[v] = pc[v]
    BY <1>3, <1>t, UpkeepEffect DEF HeartbeatCommit
  <2>2. life[x] = "up" /\ life' = life /\ MayDie' = MayDie
    BY <1>3, <2>1, <1>t DEF HeartbeatCommit, MarkedFirst, MayDie
  <2>3. w # x
    BY <2>2 DEF Overdue
  <2>4. age'[w] = age[w]
    BY <1>3, <2>3, <1>t DEF HeartbeatCommit, TypeOK
  <2> QED BY <1>3, <2>1, <2>2, <2>4 DEF HeartbeatCommit, Overdue, Survivors, locking
<1>4. ASSUME NEW x \in Workers, HeartbeatFails(x) PROVE Quiet
  <2>1. pc[x] = "heartbeat" /\ \A v \in Workers \ {x} : pc'[v] = pc[v]
    BY <1>4, <1>t, GotoEffect DEF HeartbeatFails
  <2>2. MayDie' = MayDie
    BY <1>4 DEF HeartbeatFails, MayDie
  <2> QED BY <1>4, <2>1, <2>2 DEF HeartbeatFails, Overdue, Survivors, tables, locking
<1>5. ASSUME NEW x \in Workers, Claim(x) PROVE Quiet
  <2>1. pc[x] = "claim" /\ \A v \in Workers \ {x} : pc'[v] = pc[v]
    BY <1>5, <1>t, GotoEffect DEF Claim
  <2>2. life[x] = "up" /\ life' = life /\ MayDie' = MayDie
    BY <1>5, <2>1, <1>t DEF Claim, MarkedFirst, MayDie, process
  <2>3. w # x /\ holders' \subseteq holders \cup {x}
    BY <1>5, <2>2 DEF Overdue, Claim
  <2> QED BY <1>5, <2>1, <2>2, <2>3 DEF Claim, Overdue, Survivors, process, locking
<1>6. ASSUME NEW x \in Workers, ClaimBeside(x) \/ Settle(x) PROVE Quiet
  <2>1. MayDie' = MayDie
    BY <1>6 DEF ClaimBeside, Settle, MayDie, process
  <2>2. w # x /\ holders' \subseteq holders \cup {x}
    BY <1>6 DEF ClaimBeside, Settle, Overdue, process
  <2> QED BY <1>6, <2>1, <2>2 DEF ClaimBeside, Settle, Overdue, process, locking
<1>7. ASSUME UNCHANGED vars PROVE Quiet
  <2>1. MayDie' = MayDie
    BY <1>7 DEF vars, MayDie
  <2> QED BY <1>7, <2>1 DEF vars, Overdue
<1>8. Quiet
  BY <1>1, <1>2, <1>3, <1>4, <1>5, <1>6, <1>7
<1>9. (\E x \in Workers : WorkerStep(x)) \/ UNCHANGED vars
  BY DEF WorkerStep
<1>10. \A u \in Survivors : UntilTry(u)' <= UntilTry(u) /\ UntilTry(u)' \in Nat
  <2> TAKE u \in Survivors
  <2>1. pc[u] = "lock" => pc'[u] = "lock"
    BY <1>8
  <2> HIDE DEF Quiet
  <2>2. UntilTry(u)' <= UntilTry(u)
    BY <2>1, <1>9, <1>t, TryStep
  <2>3. UntilTry(u)' \in Nat
    BY TryRangeNext
  <2> QED BY <2>2, <2>3
<1>11. InTime(w)
  BY <1>8 DEF RecoveryInv
<1> QED BY <1>8, <1>10, <1>11, <1>t, InTimeKept

(* Whoever gets the lock while w's messages are overdue began late enough; whoever does
   not, while the holder began too early, saw the row at most a turn past heartbeat_ttl. *)
LEMMA RecoveryTryLock ==
  ASSUME ClockInv, ClockInv', RecoveryInv, LockFit', IsFiniteSet(Mortal), Survivors # {},
         NEW x \in Workers, TryLock(x), NEW w \in Workers, Overdue(w)'
  PROVE  InTime(w)'
<1>t. TypeOK /\ LockFit /\ pc[x] = "lock" /\ UNCHANGED <<life, age, holders, sinceTurn>>
  BY DEF ClockInv, RecoveryInv, TryLock, process, tables
<1>1. Overdue(w) /\ InTime(w) /\ age[w] \in Nat /\ age[w] >= Ttl /\ w \in Mortal /\ life[w] = "down"
  <2>1. Overdue(w)
    BY <1>t DEF Overdue
  <2> QED BY <2>1, <1>t DEF RecoveryInv, Overdue, TypeOK, LockFit, Survivors
<1>2. MayDie' = MayDie /\ DeathsLeft' = DeathsLeft
  BY <1>t DEF MayDie, DeathsLeft
<1>3. /\ DeathsLeft \in Nat /\ RecoveryTime \in Nat /\ Round \in Nat
      /\ Ttl + DeathsLeft + Round + Turn <= RecoveryTime
  BY <1>1, Deaths, Durations
<1> HIDE DEF DeathsLeft, RecoveryTime, Round
<1>4. CASE lock = NoWorker /\ lock' = x /\ sinceLock' = 0
  <2>1. x # NoWorker /\ Reaping(w)'
    BY <1>1, <1>4, <1>t, Constants DEF Reaping
  <2>2. \A u \in Survivors : age[w] + UntilTry(u) + DeathsLeft <= RecoveryTime /\ UntilTry(u) \in Nat
    BY <1>1, <1>4, <1>t, TryRange DEF InTime, Reaping
  <2>3. CASE x \in Mortal
    <3>1. PICK u \in Survivors : age[w] + UntilTry(u) + DeathsLeft <= RecoveryTime /\ UntilTry(u) \in Nat
      BY <2>2
    <3> HIDE DEF UntilTry
    <3>2. age[w] - 0 + DeathsLeft <= RecoveryTime
      BY <3>1, <1>1, <1>3
    <3> QED BY <1>2, <1>4, <1>t, <2>1, <2>3, <3>2 DEF InTime
  <2>4. CASE x \notin Mortal
    <3>1. x \in Survivors /\ UntilTry(x) = Turn - sinceTurn[x]
      BY <2>4, <1>t DEF Survivors, UntilTry
    <3>2. age[w] + (Turn - sinceTurn[x]) + DeathsLeft <= RecoveryTime
      BY <2>2, <3>1
    <3> QED BY <1>2, <1>4, <1>t, <2>1, <2>4, <3>2 DEF InTime
  <2> QED BY <2>3, <2>4
<1>5. CASE lock # NoWorker /\ UNCHANGED <<lock, sinceLock>>
  <2>1. Reaping(w)' = Reaping(w)
    BY <1>5, <1>t DEF Reaping
  <2>2. CASE Reaping(w)
    BY <1>1, <1>2, <1>5, <1>t, <2>1, <2>2 DEF InTime
  <2>3. CASE ~ Reaping(w)
    <3>1. /\ lock \in Workers /\ life[lock] = "up" /\ sinceLock \in Nat /\ sinceTurn[lock] \in Nat
          /\ sinceLock <= sinceTurn[lock] /\ sinceTurn[lock] <= Turn
      BY <1>5 DEF RecoveryInv, LockFit, ClockInv, TypeOK, MarkedFirst, TurnsTaken
    <3>2. age[w] - sinceLock < Ttl
      BY <1>1, <1>5, <2>3, <3>1, Constants DEF Reaping
    <3> SUFFICES ASSUME NEW u \in Survivors PROVE age'[w] + UntilTry(u)' + DeathsLeft' <= RecoveryTime
      BY <2>1, <2>3 DEF InTime
    <3>3. UntilTry(u)' \in Nat /\ UntilTry(u)' <= Round
      BY TryRangeNext
    <3> HIDE DEF UntilTry
    <3> QED BY <3>1, <3>2, <3>3, <1>1, <1>2, <1>3, <1>t, Constants
  <2> QED BY <2>2, <2>3
<1> QED BY <1>4, <1>5 DEF TryLock, locking

(* A maintenance that began too early for w leaves the lock to the next. *)
LEMMA RecoveryMaintain ==
  ASSUME ClockInv, ClockInv', RecoveryInv, LockFit', IsFiniteSet(Mortal),
         NEW x \in Workers, Maintain(x), NEW w \in Workers, Overdue(w)'
  PROVE  InTime(w)'
<1>t. TypeOK /\ LockFit /\ pc[x] = "maintain" /\ UNCHANGED <<life, age>> /\ lock' = NoWorker
      /\ holders' \subseteq holders /\ Goto(x, "claim")
  BY DEF ClockInv, RecoveryInv, Maintain, process
<1>1. Overdue(w) /\ InTime(w) /\ age[w] \in Nat
  <2>1. Overdue(w)
    BY <1>t DEF Overdue
  <2> QED BY <2>1, <1>t DEF RecoveryInv, TypeOK
<1>2. MayDie' = MayDie /\ DeathsLeft' = DeathsLeft /\ DeathsLeft \in Nat /\ RecoveryTime \in Nat
  BY <1>t, Deaths DEF MayDie, DeathsLeft
<1>3. ~ Reaping(w) /\ ~ Reaping(w)'
  BY <1>t, ReapingReaps DEF Reaping, Overdue
<1> HIDE DEF DeathsLeft, RecoveryTime
<1> SUFFICES ASSUME NEW u \in Survivors PROVE age'[w] + UntilTry(u)' + DeathsLeft' <= RecoveryTime
  BY <1>3 DEF InTime
<1>4. pc[u] = "lock" => pc'[u] = "lock"
  BY <1>t, GotoEffect DEF Survivors
<1>5. (\E y \in Workers : WorkerStep(y)) \/ UNCHANGED vars
  BY DEF WorkerStep
<1>6. UntilTry(u)' <= UntilTry(u) /\ UntilTry(u) \in Nat /\ UntilTry(u)' \in Nat
  BY <1>t, <1>4, <1>5, TryStep, TryRange, TryRangeNext
<1>7. age[w] + UntilTry(u) + DeathsLeft <= RecoveryTime
  BY <1>1, <1>3 DEF InTime
<1> HIDE DEF UntilTry
<1> QED BY <1>1, <1>2, <1>6, <1>7, <1>t

(* A death adds a round and a turn, and DeathsLeft has counted them. *)
LEMMA RecoveryCrash ==
  ASSUME ClockInv, ClockInv', RecoveryInv, LockFit', IsFiniteSet(Mortal),
         NEW d \in Workers, Crash(d), NEW w \in Workers, Overdue(w)'
  PROVE  InTime(w)'
<1>t. TypeOK /\ LockFit /\ \A v \in Workers : life[v] = "up" => age[v] < Ttl
  BY YoungWhileUp DEF ClockInv, RecoveryInv
<1>1. /\ d \in MayDie /\ MayDie' = MayDie \ {d} /\ UNCHANGED <<age, holders, listed>>
      /\ \A v \in Workers \ {d} : life'[v] = life[v] /\ pc'[v] = pc[v] /\ sinceTurn'[v] = sinceTurn[v]
      /\ life[d] = "up" /\ d \in Mortal
  BY <1>t DEF Crash, MayDie, TypeOK, tables
<1>2. Overdue(w) /\ InTime(w) /\ age[w] \in Nat
  <2>1. w # d
    BY <1>1, <1>t, Constants DEF Overdue, TypeOK
  <2>2. Overdue(w)
    BY <1>1, <2>1 DEF Overdue
  <2> QED BY <2>2, <1>t DEF RecoveryInv, TypeOK
<1>3. /\ DeathsLeft' + Round + Turn = DeathsLeft /\ DeathsLeft' \in Nat
      /\ RecoveryTime \in Nat /\ Round \in Nat
  BY <1>1, OneDeathLess, Deaths, Durations
<1> HIDE DEF DeathsLeft, RecoveryTime, Round
<1>4. \A u \in Survivors : /\ UntilTry(u)' \in Nat /\ UntilTry(u)' <= Round
                          /\ UntilTry(u) \in Nat /\ UntilTry(u)' <= UntilTry(u)
  <2> TAKE u \in Survivors
  <2>1. pc[u] = "lock" => pc'[u] = "lock"
    BY <1>1 DEF Survivors
  <2>2. (\E y \in Workers : WorkerStep(y)) \/ UNCHANGED vars
    BY DEF WorkerStep
  <2> QED BY <1>t, <2>1, <2>2, TryStep, TryRange, TryRangeNext
<1> HIDE DEF UntilTry
<1>5. ASSUME ~ Reaping(w), ~ Reaping(w)' PROVE InTime(w)'
  <2> SUFFICES ASSUME NEW u \in Survivors PROVE age'[w] + UntilTry(u)' + DeathsLeft' <= RecoveryTime
    BY <1>5 DEF InTime
  <2>1. age[w] + UntilTry(u) + DeathsLeft <= RecoveryTime
    BY <1>2, <1>5 DEF InTime
  <2> QED BY <2>1, <1>1, <1>2, <1>3, <1>4, Constants
<1>6. CASE lock = d
  <2>1. lock' = NoWorker /\ ~ Reaping(w)'
    BY <1>6 DEF Crash, Reaping
  <2>2. CASE Reaping(w)
    <3>1. age[w] - sinceLock + DeathsLeft <= RecoveryTime
      BY <1>1, <1>2, <1>6, <2>2 DEF InTime
    <3>2. sinceLock \in Nat /\ sinceLock <= Turn
      <4>1. /\ d # NoWorker /\ sinceLock \in Nat /\ sinceTurn[d] \in Nat
            /\ sinceLock <= sinceTurn[d] /\ sinceTurn[d] <= Turn
        BY <1>1, <1>6, <1>t, Constants DEF LockFit, TypeOK, ClockInv, TurnsTaken
      <4> QED BY <4>1, Constants
    <3> SUFFICES ASSUME NEW u \in Survivors PROVE age'[w] + UntilTry(u)' + DeathsLeft' <= RecoveryTime
      BY <2>1 DEF InTime
    <3> QED BY <3>1, <3>2, <1>1, <1>2, <1>3, <1>4, Constants
  <2> QED BY <2>1, <2>2, <1>5
<1>7. CASE lock # d
  <2>1. UNCHANGED <<lock, sinceLock>> /\ Reaping(w)' = Reaping(w)
    BY <1>1, <1>7 DEF Crash, Reaping, locking
  <2>2. CASE Reaping(w)
    <3>1. /\ lock \in Workers /\ sinceTurn'[lock] = sinceTurn[lock]
          /\ sinceLock \in Nat /\ sinceTurn[lock] \in Nat
      BY <2>2, <1>1, <1>7, <1>t DEF Reaping, TypeOK
    <3>2. CASE lock \in Mortal
      <4>1. age[w] - sinceLock + DeathsLeft <= RecoveryTime
        BY <1>2, <2>2, <3>2 DEF InTime
      <4>2. age'[w] - sinceLock' + DeathsLeft' <= RecoveryTime
        BY <4>1, <2>1, <3>1, <1>1, <1>2, <1>3, Constants
      <4> QED BY <4>2, <2>1, <2>2, <3>2 DEF InTime
    <3>3. CASE lock \notin Mortal
      <4>1. age[w] + (Turn - sinceTurn[lock]) + DeathsLeft <= RecoveryTime
        BY <1>2, <2>2, <3>3 DEF InTime
      <4>2. age'[w] + (Turn - sinceTurn'[lock]) + DeathsLeft' <= RecoveryTime
        BY <4>1, <2>1, <3>1, <1>1, <1>2, <1>3, Constants
      <4> QED BY <4>2, <2>1, <2>2, <3>3 DEF InTime
    <3> QED BY <3>2, <3>3
  <2> QED BY <2>1, <2>2, <1>5
<1> QED BY <1>6, <1>7

(* Time: a row that becomes overdue was seen by no maintenance under way, and a survivor
   is within a round of its next try; an older row ages as its way gets shorter. *)
LEMMA RecoveryTick ==
  ASSUME ClockInv, ClockInv', RecoveryInv, LockFit', IsFiniteSet(Mortal), Survivors # {},
         Tick, NEW w \in Workers, Overdue(w)'
  PROVE  InTime(w)'
<1>t. TypeOK /\ LockFit /\ UNCHANGED <<life, lock, holders>>
  BY DEF ClockInv, RecoveryInv, Tick
<1>1. /\ w \in holders /\ life[w] = "down" /\ age[w] \in Nat /\ w \in Mortal
      /\ sinceLock \in Nat
      /\ sinceLock' = IF lock = NoWorker THEN 0 ELSE sinceLock + 1
      /\ age'[w] = IF age[w] < MaxAge THEN age[w] + 1 ELSE age[w]
  BY <1>t DEF Overdue, TypeOK, LockFit, Survivors, Tick, Aged
<1>2. MayDie' = MayDie /\ DeathsLeft' = DeathsLeft
  BY <1>t DEF MayDie, DeathsLeft
<1>3. /\ DeathsLeft \in Nat /\ RecoveryTime \in Nat /\ Round \in Nat
      /\ Ttl + DeathsLeft + Round + Turn <= RecoveryTime
  BY <1>1, Deaths, Durations
<1>4. MaxAge \in Nat /\ MaxAge > Ttl /\ MaxAge > RecoveryTime
  BY LeaseClockAssumption
<1> HIDE DEF DeathsLeft, RecoveryTime, Round
<1>5. \A u \in Survivors : /\ UntilTry(u)' \in Nat /\ UntilTry(u)' <= Round
                          /\ UntilTry(u) \in Nat /\ UntilTry(u)' + 1 <= UntilTry(u)
  BY <1>t, TryTick, TryRange, TryRangeNext
<1> HIDE DEF UntilTry
<1>6. CASE age[w] < Ttl
  <2>1. age'[w] = Ttl
    BY <1>1, <1>4, <1>6, Constants DEF Overdue
  <2>2. ~ Reaping(w)'
    BY <2>1, <1>1, <1>t, Constants DEF Reaping
  <2> SUFFICES ASSUME NEW u \in Survivors PROVE age'[w] + UntilTry(u)' + DeathsLeft' <= RecoveryTime
    BY <2>2 DEF InTime
  <2> QED BY <2>1, <1>2, <1>3, <1>5, Constants
<1>7. CASE age[w] >= Ttl
  <2>1. InTime(w) /\ age[w] <= RecoveryTime
    <3>1. InTime(w)
      BY <1>1, <1>7 DEF RecoveryInv, Overdue
    <3> QED BY <3>1, <1>t, InTimeBounds
  <2>2. age'[w] = age[w] + 1
    BY <2>1, <1>1, <1>3, <1>4
  <2>3. Reaping(w)' = Reaping(w)
    BY <2>2, <1>1, <1>t, Constants DEF Reaping
  <2>4. CASE ~ Reaping(w)
    <3> SUFFICES ASSUME NEW u \in Survivors PROVE age'[w] + UntilTry(u)' + DeathsLeft' <= RecoveryTime
      BY <2>3, <2>4 DEF InTime
    <3>1. age[w] + UntilTry(u) + DeathsLeft <= RecoveryTime
      BY <2>1, <2>4 DEF InTime
    <3> QED BY <3>1, <2>2, <1>1, <1>2, <1>3, <1>5
  <2>5. CASE Reaping(w)
    <3>1. /\ lock \in Workers /\ life[lock] = "up" /\ sinceTurn[lock] \in Nat
          /\ sinceTurn'[lock] = sinceTurn[lock] + 1 /\ sinceLock' = sinceLock + 1
      BY <2>5, <1>1, <1>t DEF Reaping, Tick, LockFit, ClockInv, MarkedFirst, TypeOK
    <3>2. CASE lock \in Mortal
      <4>1. age[w] - sinceLock + DeathsLeft <= RecoveryTime
        BY <2>1, <2>5, <3>2 DEF InTime
      <4>2. age'[w] - sinceLock' + DeathsLeft' <= RecoveryTime
        BY <4>1, <2>2, <3>1, <1>1, <1>2, <1>3
      <4> QED BY <4>2, <2>3, <2>5, <3>2, <1>t DEF InTime
    <3>3. CASE lock \notin Mortal
      <4>1. age[w] + (Turn - sinceTurn[lock]) + DeathsLeft <= RecoveryTime
        BY <2>1, <2>5, <3>3 DEF InTime
      <4>2. age'[w] + (Turn - sinceTurn'[lock]) + DeathsLeft' <= RecoveryTime
        BY <4>1, <2>2, <3>1, <1>1, <1>2, <1>3, Constants
      <4> QED BY <4>2, <2>3, <2>5, <3>3, <1>t DEF InTime
    <3> QED BY <3>2, <3>3
  <2> QED BY <2>4, <2>5
<1> QED BY <1>1, <1>6, <1>7, Constants

LEMMA NextRecovery ==
  ASSUME IsFiniteSet(Mortal), Survivors # {}, ClockInv, RecoveryInv, [Next]_vars
  PROVE  RecoveryInv'
<1>1. ClockInv'
  BY NextClock
<1>2. LockFit'
  BY <1>1, LockStep DEF ClockInv, RecoveryInv
<1> SUFFICES ASSUME NEW w \in Workers, Overdue(w)' PROVE InTime(w)'
  BY <1>2 DEF RecoveryInv
<1>3. CASE Tick
  BY <1>1, <1>2, <1>3, RecoveryTick
<1>4. ASSUME NEW x \in Workers, TryLock(x) PROVE InTime(w)'
  BY <1>1, <1>2, <1>4, RecoveryTryLock
<1>5. ASSUME NEW x \in Workers, Maintain(x) PROVE InTime(w)'
  BY <1>1, <1>2, <1>5, RecoveryMaintain
<1>6. ASSUME NEW x \in Workers, Crash(x) PROVE InTime(w)'
  BY <1>1, <1>2, <1>6, RecoveryCrash
<1>7. CASE \/ \E x \in Workers : \/ Start(x) \/ BeginTurn(x) \/ HeartbeatCommit(x)
                                \/ HeartbeatFails(x) \/ Claim(x) \/ ClaimBeside(x) \/ Settle(x)
           \/ UNCHANGED vars
  BY <1>1, <1>2, <1>7, RecoveryByOthers
<1> QED BY <1>3, <1>4, <1>5, <1>6, <1>7 DEF Next, WorkerStep

(* As long as one process survives, the messages of every dead one are queued again
   within RecoveryTime of its last heartbeat, whoever else dies and whenever. *)
THEOREM RecoveryIsInTime ==
  ASSUME IsFiniteSet(Mortal), Workers \ Mortal # {}
  PROVE  Spec => []RecoveredInTime
<1>1. Init => RecoveryInv
  <2>1. ASSUME Init PROVE \A w \in Workers : ~ Overdue(w)
    BY <2>1 DEF Init, Overdue
  <2> QED BY <2>1, InitLock DEF RecoveryInv
<1>2. Survivors # {}
  BY DEF Survivors
<1>3. ASSUME ClockInv, RecoveryInv, [Next]_vars PROVE RecoveryInv'
  BY <1>2, <1>3, NextRecovery
<1>4. ASSUME ClockInv, RecoveryInv PROVE RecoveredInTime
  <2> SUFFICES ASSUME NEW w \in holders, life[w] = "down" PROVE age[w] <= RecoveryTime
    BY DEF RecoveredInTime
  <2>1. w \in Workers /\ age[w] \in Nat /\ w \in Mortal
    BY <1>4 DEF ClockInv, TypeOK, RecoveryInv, LockFit, Survivors
  <2>2. CASE age[w] >= Ttl
    <3>1. InTime(w)
      BY <1>4, <2>1, <2>2 DEF RecoveryInv, Overdue
    <3> QED BY <1>2, <1>4, <2>1, <3>1, InTimeBounds DEF RecoveryInv
  <2>3. CASE age[w] < Ttl
    <3>1. /\ DeathsLeft \in Nat /\ RecoveryTime \in Nat /\ Round \in Nat
          /\ Ttl + DeathsLeft + Round + Turn <= RecoveryTime
      BY <2>1, Deaths, Durations
    <3> HIDE DEF DeathsLeft, RecoveryTime, Round
    <3> QED BY <3>1, <2>1, <2>3, Constants
  <2> QED BY <2>1, <2>2, <2>3, Constants
<1> QED BY <1>1, <1>3, <1>4, ClockIsRight, PTL DEF Spec

==============================================================================
