------------------------------- MODULE Notifier -------------------------------
(***************************************************************************)
(* What cuts a consumer's wait short: the Notifier thread of a process,    *)
(* which listens on one connection for the channels its consumers          *)
(* subscribed to, and sets a consumer's wakeup event when PostgreSQL       *)
(* notifies its channel.  Subscribers and the thread share the             *)
(* subscriptions (under a lock) and the flag `dirty`; the consumer reads   *)
(* the queue, clears its event and waits, in three steps.                  *)
(*                                                                         *)
(* A process has one consumer per queue, so a queue stands for its         *)
(* channel, its consumer and that consumer's event.  A consumer that is    *)
(* rebuilt subscribes a new event.                                         *)
(***************************************************************************)
EXTENDS Naturals, FiniteSets

CONSTANTS Queues,
          MaxSubscribes,  \* bound: consumers that are built
          MaxBreaks       \* bound: times a connection breaks or is not to be had

ASSUME NotifierAssumption == MaxSubscribes \in Nat /\ MaxBreaks \in Nat

VARIABLES
  subscriptions,  \* the channels somebody subscribed to
  dirty,          \* they changed since the thread last read them
  stopping,
  npc,            \* where the thread is in run and ensure_conn
  conn,           \* its connection
  channels,       \* local to ensure_conn: channels it still has to LISTEN to
  listens,        \* what PostgreSQL has registered for the connection
  inbox,          \* channels with a notification on its way
  pending,        \* queues with a message nobody has claimed
  wakeup,         \* the consumers whose event is set
  pc,             \* where each consumer is in __next__
  built,          \* bound: consumers that were built
  breaks          \* bound: times it broke or was not to be had

vars == <<subscriptions, dirty, stopping, npc, conn, channels, listens, inbox,
          pending, wakeup, pc, built, breaks>>

thread == <<npc, channels>>
postgres == <<conn, listens, inbox>>
consumers == <<pending, wakeup, pc, built>>

TypeOK ==
  /\ subscriptions \subseteq Queues
  /\ dirty \in BOOLEAN /\ stopping \in BOOLEAN
  /\ npc \in {"off", "top", "clear", "read", "unlisten", "listen", "notifies", "backoff", "ended"}
  /\ conn \in {"none", "open", "broken"}
  /\ channels \subseteq Queues /\ listens \subseteq Queues /\ inbox \subseteq Queues
  /\ pending \subseteq Queues /\ wakeup \subseteq Queues
  /\ pc \in [Queues -> {"off", "claim", "clear", "wait"}]
  /\ built \in 0 .. MaxSubscribes
  /\ breaks \in 0 .. MaxBreaks
  /\ conn # "open" => listens = {} /\ inbox = {}  \* no other user inherits them

Init ==
  /\ subscriptions = {} /\ dirty = FALSE /\ stopping = FALSE
  /\ npc = "off" /\ conn = "none"
  /\ channels = {} /\ listens = {} /\ inbox = {}
  /\ pending = {} /\ wakeup = {}
  /\ pc = [q \in Queues |-> "off"]
  /\ built = 0
  /\ breaks = 0

Goto(label) == npc' = label

ConsumerGoto(q, label) == pc' = [pc EXCEPT ![q] = label]

-----------------------------------------------------------------------------
(* The consumers. *)

(* A consumer is built: subscribe, which starts the thread the first time. *)
Subscribe(q) ==
  /\ pc[q] = "off" /\ built < MaxSubscribes
  /\ built' = built + 1
  /\ subscriptions' = subscriptions \cup {q}
  /\ dirty' = TRUE
  /\ npc' = IF npc = "off" THEN "top" ELSE npc
  /\ wakeup' = wakeup \ {q}
  /\ ConsumerGoto(q, "claim")
  /\ UNCHANGED <<stopping, channels, postgres, pending, breaks>>

(* A consumer is closed: unsubscribe. *)
Unsubscribe(q) ==
  /\ pc[q] = "claim"
  /\ subscriptions' = subscriptions \ {q}
  /\ dirty' = TRUE
  /\ ConsumerGoto(q, "off")
  /\ UNCHANGED <<stopping, thread, postgres, pending, wakeup, built, breaks>>

(* A client enqueues a message and notifies in the same transaction. *)
Enqueue(q) ==
  /\ pending' = pending \cup {q}
  /\ inbox' = IF conn = "open" /\ q \in listens THEN inbox \cup {q} ELSE inbox
  /\ UNCHANGED <<subscriptions, dirty, stopping, thread, conn, listens, wakeup, pc, built, breaks>>

(* __next__ claims: it returns what it finds, and waits if it finds nothing. *)
Claim(q) ==
  /\ pc[q] = "claim"
  /\ pending' = pending \ {q}
  /\ ConsumerGoto(q, IF q \in pending THEN "claim" ELSE "clear")
  /\ UNCHANGED <<subscriptions, dirty, stopping, thread, postgres, wakeup, built, breaks>>

(* self.wakeup.clear() *)
Clear(q) ==
  /\ pc[q] = "clear"
  /\ wakeup' = wakeup \ {q}
  /\ ConsumerGoto(q, "wait")
  /\ UNCHANGED <<subscriptions, dirty, stopping, thread, postgres, pending, built, breaks>>

(* self.wakeup.wait() returns: the event is set, or the poll interval is over.
   Fault: it waits for the event alone. *)
WaitForEvent(q) ==
  /\ pc[q] = "wait" /\ q \in wakeup
  /\ ConsumerGoto(q, "claim")
  /\ UNCHANGED <<subscriptions, dirty, stopping, thread, postgres, pending, wakeup, built, breaks>>

Wait(q) ==
  /\ pc[q] = "wait"
  /\ ConsumerGoto(q, "claim")
  /\ UNCHANGED <<subscriptions, dirty, stopping, thread, postgres, pending, wakeup, built, breaks>>

-----------------------------------------------------------------------------
(* The thread. *)

(* drop_conn closes the connection before the pool gets it.  Fault: it does not. *)
DropConnOpen == conn' = "none" /\ UNCHANGED <<listens, inbox>>

DropConn == conn' = "none" /\ listens' = {} /\ inbox' = {}

(* The end of run, which drops the connection.  Fault: it does not. *)
EndKeepsConn ==
  /\ npc = "top" /\ stopping
  /\ Goto("ended")
  /\ UNCHANGED <<subscriptions, dirty, stopping, channels, postgres, consumers, breaks>>

End ==
  /\ npc = "top" /\ stopping
  /\ Goto("ended")
  /\ DropConn
  /\ UNCHANGED <<subscriptions, dirty, stopping, channels, consumers, breaks>>

(* ensure_conn with a connection and nothing new: check_conn passes. *)
KeepConn ==
  /\ npc = "top" /\ ~ stopping
  /\ conn = "open" /\ ~ dirty
  /\ Goto("notifies")
  /\ UNCHANGED <<subscriptions, dirty, stopping, channels, postgres, consumers, breaks>>

(* ensure_conn without one takes one from the pool; with one, subscriptions have
   changed. *)
RenewConn ==
  /\ npc = "top" /\ ~ stopping
  /\ conn = "none" \/ dirty
  /\ conn' = IF conn = "none" THEN "open" ELSE conn
  /\ Goto("clear")
  /\ UNCHANGED <<subscriptions, dirty, stopping, channels, listens, inbox, consumers, breaks>>

(* getconn gives up. *)
NoConnection ==
  /\ npc = "top" /\ ~ stopping
  /\ conn = "none" /\ breaks < MaxBreaks
  /\ breaks' = breaks + 1
  /\ Goto("backoff")
  /\ UNCHANGED <<subscriptions, dirty, stopping, channels, postgres, consumers>>

ClearDirty ==
  /\ npc = "clear"
  /\ dirty' = FALSE
  /\ Goto("read")
  /\ UNCHANGED <<subscriptions, stopping, channels, postgres, consumers, breaks>>

ReadSubscriptions ==
  /\ npc = "read"
  /\ channels' = subscriptions
  /\ Goto("unlisten")
  /\ UNCHANGED <<subscriptions, dirty, stopping, postgres, consumers, breaks>>

(* "UNLISTEN *": from here to its LISTEN a channel is deaf.  Fault: dirty is
   cleared only now, after the subscriptions were read. *)
UnlistenClearing ==
  /\ npc = "unlisten" /\ conn = "open"
  /\ listens' = {} /\ dirty' = FALSE
  /\ Goto("listen")
  /\ UNCHANGED <<subscriptions, stopping, channels, conn, inbox, consumers, breaks>>

Unlisten ==
  /\ npc = "unlisten" /\ conn = "open"
  /\ listens' = {}
  /\ Goto("listen")
  /\ UNCHANGED <<subscriptions, dirty, stopping, channels, conn, inbox, consumers, breaks>>

(* LISTEN, one channel after the other. *)
Listen ==
  /\ npc = "listen" /\ conn = "open"
  /\ \/ \E q \in channels : /\ listens' = listens \cup {q}
                            /\ channels' = channels \ {q}
                            /\ UNCHANGED npc
     \/ channels = {} /\ Goto("notifies") /\ UNCHANGED <<channels, listens>>
  /\ UNCHANGED <<subscriptions, dirty, stopping, conn, inbox, consumers, breaks>>

(* conn.notifies yields: wake the subscriber.  When the loop is left, the rest of
   the batch the generator had read may be lost. *)
Notified ==
  /\ npc = "notifies"
  /\ \E q \in inbox :
       /\ wakeup' = IF q \in subscriptions THEN wakeup \cup {q} ELSE wakeup
       /\ IF stopping \/ dirty
          THEN Goto("top") /\ \E rest \in SUBSET (inbox \ {q}) : inbox' = rest
          ELSE UNCHANGED npc /\ inbox' = inbox \ {q}
  /\ UNCHANGED <<subscriptions, dirty, stopping, channels, conn, listens, pending, pc, built, breaks>>

(* conn.notifies ends after two seconds. *)
NotifiesEnd ==
  /\ npc = "notifies" /\ conn = "open"
  /\ Goto("top")
  /\ UNCHANGED <<subscriptions, dirty, stopping, channels, postgres, consumers, breaks>>

(* Whatever uses a broken connection raises: drop_conn, and try again later.
   Fault: the broken connection is kept. *)
ErrorKeepsConn ==
  /\ conn = "broken"
  /\ npc \in {"unlisten", "listen", "notifies"} \/ (npc = "top" /\ ~ stopping /\ ~ dirty)
  /\ Goto("backoff")
  /\ UNCHANGED <<subscriptions, dirty, stopping, channels, postgres, consumers, breaks>>

Error ==
  /\ conn = "broken"
  /\ npc \in {"unlisten", "listen", "notifies"} \/ (npc = "top" /\ ~ stopping /\ ~ dirty)
  /\ DropConn
  /\ Goto("backoff")
  /\ UNCHANGED <<subscriptions, dirty, stopping, channels, consumers, breaks>>

(* self.stopping.wait(1) *)
Backoff ==
  /\ npc = "backoff"
  /\ Goto("top")
  /\ UNCHANGED <<subscriptions, dirty, stopping, channels, postgres, consumers, breaks>>

-----------------------------------------------------------------------------
(* broker.close() *)
Stop ==
  /\ ~ stopping
  /\ stopping' = TRUE
  /\ UNCHANGED <<subscriptions, dirty, thread, postgres, consumers, breaks>>

(* The network: the connection breaks, the server forgets it. *)
Break ==
  /\ conn = "open" /\ breaks < MaxBreaks
  /\ conn' = "broken" /\ listens' = {} /\ inbox' = {}
  /\ breaks' = breaks + 1
  /\ UNCHANGED <<subscriptions, dirty, stopping, thread, consumers>>

Run ==
  \/ End \/ KeepConn \/ RenewConn \/ NoConnection \/ ClearDirty \/ ReadSubscriptions \/ Unlisten
  \/ Listen \/ Notified \/ NotifiesEnd \/ Error \/ Backoff

Turn(q) == Claim(q) \/ Clear(q) \/ Wait(q)

Next ==
  \/ \E q \in Queues : Subscribe(q) \/ Unsubscribe(q) \/ Enqueue(q) \/ Turn(q)
  \/ Run \/ Stop \/ Break

Spec == Init /\ [][Next]_vars

(* The threads go on, and conn.notifies ends: it has a timeout, and notifications
   do not keep it busy for ever once dirty or stopping is set. *)
Fairness == WF_vars(Run) /\ SF_vars(NotifiesEnd) /\ \A q \in Queues : WF_vars(Turn(q))

FairSpec == Spec /\ Fairness

-----------------------------------------------------------------------------
(* A thread that waits for notifications with nothing marked as changed listens to
   exactly the channels subscribed to: no change of the subscriptions slips in
   between its reading them and its clearing the mark. *)
CleanMeansListening ==
  npc = "notifies" /\ conn = "open" /\ ~ dirty => listens = subscriptions

(* A consumer that stays is listened for in the end, whatever connections broke
   and however often other consumers came and went. *)
SubscriptionHeard ==
  \A q \in Queues : q \in subscriptions ~> (q \in listens \/ q \notin subscriptions \/ stopping)

(* "A missed notify only costs one poll interval": a message is claimed although
   its notification was lost with a connection, while the thread was deaf, or
   because the event it set was cleared before the consumer waited. *)
MissedNotifyHarmless ==
  \A q \in Queues : q \in pending /\ pc[q] # "off" ~> (q \notin pending \/ pc[q] = "off")

(* A stopped thread ends and gives its connection back. *)
StopEnds == stopping /\ npc # "off" ~> npc = "ended" /\ conn = "none"
===============================================================================
