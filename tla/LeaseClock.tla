------------------------------ MODULE LeaseClock ------------------------------
(***************************************************************************)
(* The lease of Delivery with a clock: heartbeat_interval, heartbeat_ttl   *)
(* and maintenance_interval of PostgresBroker, in units of time.  Delivery *)
(* assumes that the heartbeat of a live process never grows older than     *)
(* heartbeat_ttl; this module says for which parameters that is so, how    *)
(* long the messages of a dead process wait, and what the worker page of   *)
(* the Django admin may conclude from an old heartbeat.                    *)
(*                                                                         *)
(* One consumer thread of a process is followed here.  The others share    *)
(* its marks and can only look at them more often; what they claim in the  *)
(* meantime is ClaimBeside.  A thread begins __next__ again at most Turn   *)
(* after it last began it (its transactions, the wait of poll_interval, a  *)
(* restart of the consumer); Tick waits for that.                          *)
(***************************************************************************)
EXTENDS Integers, FiniteSets

CONSTANTS Workers,      \* worker processes
          NoWorker,     \* nobody: the advisory lock is free
          Mortal,       \* the processes that may start late and die
          Interval,     \* heartbeat_interval
          Ttl,          \* heartbeat_ttl
          Maintenance,  \* maintenance_interval
          Turn,         \* longest time between two calls of __next__
          Failures,     \* bound: heartbeats that fail in a row
          Flaky,        \* the processes whose heartbeats may fail
          MaxAge        \* bound: the age at which a row stops ageing

(* The age of a heartbeat that came after Failures failed ones is less than this, and
   so is the age of a process at its first one. *)
LongestGap == (Failures + 1) * (Interval + Turn) + Turn

(* From the moment the maintenance timer is set to the end of the turn in which it is
   set again: the timer, the turn under way when it expires, a turn for each heartbeat
   that fails first, and the turn that looks at it. *)
Round == (3 * Maintenance) \div 2 + (Failures + 2) * Turn

(* A message of a dead process is back this long after its last heartbeat (its start,
   if there was none): a round, and one more for each other process that dies while it
   holds the lock, since whoever found the lock taken waits for its next round.  A lock
   may be held for a turn. *)
RecoveryTime == Ttl + Cardinality(Mortal) * (Round + Turn)

ASSUME LeaseClockAssumption ==
  /\ Mortal \subseteq Workers /\ Flaky \subseteq Workers /\ NoWorker \notin Workers
  /\ Interval \in Nat \ {0} /\ Maintenance \in Nat /\ Turn \in Nat \ {0} /\ Failures \in Nat
  /\ Ttl \in Nat /\ Ttl >= LongestGap
  /\ MaxAge \in Nat /\ MaxAge > 5 * Ttl + Turn /\ MaxAge > RecoveryTime

VARIABLES
  life,       \* life cycle of each process
  pc,         \* where its consumer thread is in __next__
  sinceTurn,  \* time since it began __next__
  sinceMark,  \* time since broker._heartbeat_at; Interval or more when it is unset
  due,        \* time until broker._maintenance_at
  failed,     \* heartbeats that failed since the last one that committed
  listed,     \* the workers with a row in the worker table
  age,        \* age of heartbeat_at of that row; without one, time since the start
  lock,       \* who holds the maintenance advisory lock
  sinceLock,  \* time since NOW() of the transaction that holds it
  holders     \* the workers with consumed rows

vars == <<life, pc, sinceTurn, sinceMark, due, failed, listed, age, lock, sinceLock, holders>>

process == <<life, sinceTurn, sinceMark, due, failed>>
tables == <<listed, age, holders>>
locking == <<lock, sinceLock>>

TypeOK ==
  /\ life \in [Workers -> {"new", "up", "down"}]
  /\ pc \in [Workers -> {"idle", "heartbeat", "lock", "maintain", "claim"}]
  /\ sinceTurn \in [Workers -> Nat]
  /\ sinceMark \in [Workers -> Nat]
  /\ due \in [Workers -> Nat]
  /\ failed \in [Workers -> 0..Failures]
  /\ listed \subseteq Workers
  /\ age \in [Workers -> Nat]
  /\ lock \in Workers \cup {NoWorker}
  /\ sinceLock \in Nat
  /\ holders \subseteq Workers

(* The processes that do not die are there from the start. *)
Init ==
  /\ life = [w \in Workers |-> IF w \in Mortal THEN "new" ELSE "up"]
  /\ pc = [w \in Workers |-> "idle"]
  /\ sinceTurn = [w \in Workers |-> 0]
  /\ sinceMark = [w \in Workers |-> Interval]
  /\ due = [w \in Workers |-> 0]
  /\ failed = [w \in Workers |-> 0]
  /\ listed = {}
  /\ age = [w \in Workers |-> 0]
  /\ lock = NoWorker
  /\ sinceLock = 0
  /\ holders = {}

-----------------------------------------------------------------------------
Goto(w, label) == pc' = [pc EXCEPT ![w] = label]

(* now - _heartbeat_at >= heartbeat_interval, or none was sent.  Faults: only
   when it is over; the wrong parameter. *)
HeartbeatDueLate(w) == sinceMark[w] > Interval
HeartbeatDueByTtl(w) == sinceMark[w] >= Ttl
HeartbeatDue(w) == sinceMark[w] >= Interval

(* maintenance_interval * (0.5 + random()). *)
Jitter == Maintenance \div 2 .. (3 * Maintenance) \div 2

(* Whom REAP finds alive when NOW() was `ago` ago: heartbeat_at > NOW() - ttl.
   Fault: heartbeat_interval for heartbeat_ttl. *)
AliveByInterval(ago) == {w \in listed : age[w] - ago < Interval}
Alive(ago) == {w \in listed : age[w] - ago < Ttl}

(* Whom CLEAN_WORKERS drops: heartbeat_at < NOW() - 5 * ttl. *)
Forgotten(ago) == {w \in listed : age[w] - ago > 5 * Ttl}

-----------------------------------------------------------------------------
(* One action per step of __next__. *)

Start(w) ==
  /\ life[w] = "new"
  /\ life' = [life EXCEPT ![w] = "up"]
  /\ sinceTurn' = [sinceTurn EXCEPT ![w] = 0]
  /\ sinceMark' = [sinceMark EXCEPT ![w] = Interval]
  /\ UNCHANGED <<pc, due, failed, tables, locking>>

(* maybe_maintenance: not due, or due and the timer is armed again before the
   transaction begins.  Fault: a timer that was never armed is not due. *)
UpkeepNever(w) == Goto(w, "claim") /\ UNCHANGED due

Upkeep(w) ==
  \/ due[w] > 0 /\ Goto(w, "claim") /\ UNCHANGED due
  \/ due[w] = 0 /\ Goto(w, "lock") /\ \E j \in Jitter : due' = [due EXCEPT ![w] = j]

(* __next__ begins with maybe_heartbeat: the thread notes the time under the lock
   before it sends anything, or returns early and goes on with maybe_maintenance. *)
BeginTurn(w) ==
  /\ life[w] = "up" /\ pc[w] = "idle"
  /\ sinceTurn' = [sinceTurn EXCEPT ![w] = 0]
  /\ \/ /\ HeartbeatDue(w)
        /\ sinceMark' = [sinceMark EXCEPT ![w] = 0]
        /\ Goto(w, "heartbeat")
        /\ UNCHANGED due
     \/ /\ ~ HeartbeatDue(w)
        /\ Upkeep(w)
        /\ UNCHANGED sinceMark
  /\ UNCHANGED <<life, failed, tables, locking>>

(* HEARTBEAT commits; its NOW() is that of the start of its transaction, some
   time after the thread noted it. *)
HeartbeatCommit(w) ==
  /\ pc[w] = "heartbeat"
  /\ listed' = listed \cup {w}
  /\ \E ago \in 0..sinceTurn[w] : age' = [age EXCEPT ![w] = ago]
  /\ failed' = [failed EXCEPT ![w] = 0]
  /\ Upkeep(w)
  /\ UNCHANGED <<life, sinceTurn, sinceMark, holders, locking>>

(* HEARTBEAT fails, the first one of the process perhaps: __next__ raises, the mark
   stays, and until the interval is over nobody sends another one. *)
HeartbeatFails(w) ==
  /\ pc[w] = "heartbeat"
  /\ w \in Flaky /\ failed[w] < Failures
  /\ failed' = [failed EXCEPT ![w] = @ + 1]
  /\ Goto(w, "idle")
  /\ UNCHANGED <<life, sinceTurn, sinceMark, due, tables, locking>>

(* MAINTENANCE_LOCK: whoever does not get it gives up this round. *)
TryLock(w) ==
  /\ pc[w] = "lock"
  /\ \/ lock = NoWorker /\ lock' = w /\ sinceLock' = 0 /\ Goto(w, "maintain")
     \/ lock # NoWorker /\ Goto(w, "claim") /\ UNCHANGED locking
  /\ UNCHANGED <<process, tables>>

(* REAP, CLEAN_WORKERS, commit, which releases the lock. *)
Maintain(w) ==
  /\ pc[w] = "maintain"
  /\ holders' = holders \cap Alive(sinceLock)
  /\ listed' = listed \ Forgotten(sinceLock)
  /\ lock' = NoWorker /\ sinceLock' = 0
  /\ Goto(w, "claim")
  /\ UNCHANGED <<process, age>>

(* CLAIM, if there is capacity and a message; then the wait. *)
Claim(w) ==
  /\ pc[w] = "claim"
  /\ holders' \in {holders, holders \cup {w}}
  /\ Goto(w, "idle")
  /\ UNCHANGED <<process, listed, age, locking>>

(* Is _heartbeat_at set?  A first heartbeat is under way, has failed or has committed. *)
Marked(w) == w \in listed \/ failed[w] > 0 \/ pc[w] = "heartbeat"

(* Another consumer thread of the process, which found the mark recent, claims. *)
ClaimBeside(w) ==
  /\ life[w] = "up" /\ Marked(w)
  /\ holders' = holders \cup {w}
  /\ UNCHANGED <<process, pc, listed, age, locking>>

(* The last message of w is acknowledged or rejected. *)
Settle(w) ==
  /\ life[w] = "up" /\ w \in holders
  /\ holders' = holders \ {w}
  /\ UNCHANGED <<process, pc, listed, age, locking>>

(* The process dies; the server rolls its transaction back. *)
Crash(w) ==
  /\ w \in Mortal /\ life[w] = "up"
  /\ life' = [life EXCEPT ![w] = "down"]
  /\ pc' = [pc EXCEPT ![w] = "idle"]
  /\ sinceTurn' = [sinceTurn EXCEPT ![w] = 0]
  /\ sinceMark' = [sinceMark EXCEPT ![w] = 0]
  /\ due' = [due EXCEPT ![w] = 0]
  /\ failed' = [failed EXCEPT ![w] = 0]
  /\ IF lock = w THEN lock' = NoWorker /\ sinceLock' = 0 ELSE UNCHANGED locking
  /\ UNCHANGED tables

(* The age of a dead process matters as long as it has a row or messages. *)
Aged(w) == life[w] = "up" \/ w \in listed \cup holders

(* Time passes, unless a thread is due to begin its next turn. *)
Tick ==
  /\ \A w \in Workers : life[w] = "up" => sinceTurn[w] < Turn
  /\ sinceTurn' = [w \in Workers |-> IF life[w] = "up" THEN sinceTurn[w] + 1 ELSE 0]
  /\ sinceMark' = [w \in Workers |-> IF life[w] = "up" THEN sinceMark[w] + 1 ELSE sinceMark[w]]
  /\ due' = [w \in Workers |-> IF due[w] > 0 THEN due[w] - 1 ELSE 0]
  /\ age' = [w \in Workers |-> IF Aged(w) /\ age[w] < MaxAge THEN age[w] + 1 ELSE age[w]]
  /\ sinceLock' = IF lock = NoWorker THEN 0 ELSE sinceLock + 1
  /\ UNCHANGED <<life, pc, failed, listed, lock, holders>>

WorkerStep(w) ==
  \/ Start(w) \/ BeginTurn(w) \/ HeartbeatCommit(w) \/ HeartbeatFails(w)
  \/ TryLock(w) \/ Maintain(w) \/ Claim(w) \/ ClaimBeside(w) \/ Settle(w) \/ Crash(w)

Next == (\E w \in Workers : WorkerStep(w)) \/ Tick

Spec == Init /\ [][Next]_vars
-----------------------------------------------------------------------------
(* Properties. *)

(* As long as no more than Failures heartbeats fail in a row, the row of a process
   that runs never gets as old as heartbeat_ttl: nobody may take it for dead. *)
LeaseKept == \A w \in listed : life[w] = "up" => age[w] < Ttl

(* LeaseKept is not inductive: a process looks at its mark once per turn, so the
   mark is never older than an interval and a turn; each heartbeat that failed
   since adds as much to the age of the row. *)
Period == Interval + Turn

Pending(w) == IF pc[w] = "heartbeat" THEN 1 ELSE 0

TurnsTaken ==
  \A w \in Workers : life[w] = "up" =>
    /\ sinceTurn[w] <= Turn
    /\ pc[w] = "heartbeat" => sinceMark[w] = sinceTurn[w]
    /\ Marked(w) => \/ sinceMark[w] = sinceTurn[w]
                    \/ sinceMark[w] - sinceTurn[w] < Interval

GapBounded ==
  \A w \in Workers : life[w] = "up" =>
    age[w] + Pending(w) <= sinceMark[w] + (failed[w] + Pending(w)) * Period

(* A process notes its first heartbeat when it begins its first turn. *)
MarkedFirst ==
  \A w \in Workers :
    /\ life[w] # "up" => pc[w] = "idle" /\ failed[w] = 0
    /\ life[w] = "up" /\ ~ Marked(w) =>
         pc[w] = "idle" /\ sinceMark[w] >= Interval /\ age[w] <= sinceTurn[w]
    /\ life[w] = "new" => w \notin listed /\ w \notin holders /\ age[w] = 0

ClockInv == TypeOK /\ TurnsTaken /\ GapBounded /\ MarkedFirst

(* A process that runs has a row within LongestGap of its start.  Until then REAP takes
   what its threads have claimed already. *)
ListedInTime == \A w \in Workers \ listed : life[w] = "up" => age[w] < LongestGap

(* Once it has a row, the reaper takes nothing of it as long as it runs. *)
LosesOnlyUnlisted ==
  [][\A w \in holders : life[w] = "up" /\ (\E u \in Workers : Maintain(u))
                        => w \in holders' \/ w \notin listed]_vars

(* A dead process' messages are queued again within RecoveryTime of its last
   heartbeat, also when the survivor's maintenance was due just before and another
   process, the dead one even, held the lock at the time. *)
RecoveredInTime == \A w \in holders : life[w] = "down" => age[w] <= RecoveryTime

=============================================================================
