---------------------------- MODULE Notifier_proofs ----------------------------
(***************************************************************************)
(* The notifier thread listens to what its process subscribed to, proved   *)
(* for any number of queues, of consumers that come and go between any two *)
(* of its steps, and of connections that break at any of them.             *)
(***************************************************************************)
EXTENDS Notifier, TLAPS

(* A thread that does not run, or is about to try again, has no connection. *)
NoConnAtRest == npc \in {"off", "backoff", "ended"} => conn = "none"

(* From the moment ensure_conn has read the subscriptions, what it listens to and
   what it still has to listen to are all of them, unless they changed since it
   cleared the mark. *)
Followed ==
  conn = "open" /\ ~ dirty =>
    /\ npc = "unlisten" => channels = subscriptions
    /\ npc = "listen" => listens \cup channels = subscriptions
    /\ npc \in {"notifies", "top"} => listens = subscriptions

IInv == TypeOK /\ NoConnAtRest /\ Followed

LEMMA InitFollowed == Init => IInv
<1>1. Init => 0 \in 0 .. MaxSubscribes /\ 0 \in 0 .. MaxBreaks
  BY NotifierAssumption
<1>2. Init => TypeOK
  BY <1>1 DEF Init, TypeOK
<1>3. Init => NoConnAtRest /\ Followed
  BY DEF Init, NoConnAtRest, Followed
<1> QED BY <1>2, <1>3 DEF IInv

LEMMA FollowedStep == ASSUME IInv, [Next]_vars PROVE IInv'
<1> USE NotifierAssumption
    DEF IInv, TypeOK, NoConnAtRest, Followed, thread, postgres, consumers, Goto, ConsumerGoto
<1>1. ASSUME NEW q \in Queues, Subscribe(q) PROVE IInv'
  BY <1>1 DEF Subscribe
<1>2. ASSUME NEW q \in Queues, Unsubscribe(q) PROVE IInv'
  BY <1>2 DEF Unsubscribe
<1>3. ASSUME NEW q \in Queues, Enqueue(q) PROVE IInv'
  BY <1>3 DEF Enqueue
<1>4. ASSUME NEW q \in Queues, Claim(q) \/ Clear(q) \/ Wait(q) PROVE IInv'
  BY <1>4 DEF Claim, Clear, Wait
<1>5. CASE End
  BY <1>5 DEF End, DropConn
<1>6. CASE KeepConn
  BY <1>6 DEF KeepConn
<1>7. CASE RenewConn
  BY <1>7 DEF RenewConn
<1>8. CASE NoConnection
  BY <1>8 DEF NoConnection
<1>9. CASE ClearDirty
  BY <1>9 DEF ClearDirty
<1>10. CASE ReadSubscriptions
  BY <1>10 DEF ReadSubscriptions
<1>11. CASE Unlisten
  BY <1>11 DEF Unlisten
<1>12. CASE Listen
  BY <1>12 DEF Listen
<1>13. CASE Notified
  <2>1. PICK q \in inbox :
          /\ wakeup' = IF q \in subscriptions THEN wakeup \cup {q} ELSE wakeup
          /\ IF stopping \/ dirty
             THEN npc' = "top" /\ \E rest \in SUBSET (inbox \ {q}) : inbox' = rest
             ELSE UNCHANGED npc /\ inbox' = inbox \ {q}
    BY <1>13 DEF Notified
  <2>2. inbox' \subseteq inbox /\ wakeup' \subseteq Queues
    BY <2>1
  <2>3. npc' = "top" \/ npc' = npc
    BY <2>1
  <2> QED BY <1>13, <2>2, <2>3 DEF Notified
<1>14. CASE NotifiesEnd
  BY <1>14 DEF NotifiesEnd
<1>15. CASE Error
  BY <1>15 DEF Error, DropConn
<1>16. CASE Backoff
  BY <1>16 DEF Backoff
<1>17. CASE Stop
  BY <1>17 DEF Stop
<1>18. CASE Break
  BY <1>18 DEF Break
<1>19. CASE UNCHANGED vars
  BY <1>19 DEF vars
<1> QED BY <1>1, <1>2, <1>3, <1>4, <1>5, <1>6, <1>7, <1>8, <1>9, <1>10, <1>11, <1>12, <1>13,
           <1>14, <1>15, <1>16, <1>17, <1>18, <1>19 DEF Next, Run, Turn

LEMMA NotifierInvariant == Spec => []IInv
<1>1. IInv /\ [Next]_vars => IInv'
  BY FollowedStep
<1> QED BY InitFollowed, <1>1, PTL DEF Spec

-----------------------------------------------------------------------------
(* Types; and a connection that is not open is deaf, so its next user in the pool
   inherits nothing. *)
THEOREM NotifierTyped == Spec => []TypeOK
<1>1. IInv => TypeOK
  BY DEF IInv
<1> QED BY <1>1, NotifierInvariant, PTL

(* Clearing the mark before reading the subscriptions is enough: subscribe and
   unsubscribe may run between any two steps of ensure_conn, and a thread that
   waits believing it is up to date is. *)
THEOREM ListensToSubscribers == Spec => []CleanMeansListening
<1>1. IInv => CleanMeansListening
  BY DEF IInv, Followed, CleanMeansListening
<1> QED BY <1>1, NotifierInvariant, PTL
================================================================================
