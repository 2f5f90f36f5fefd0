---------------------------- MODULE Results_proofs ----------------------------
(***************************************************************************)
(* What get_result relies on, proved for any number of messages, calling   *)
(* threads, pooled connections and results, with and without connection    *)
(* errors: a connection of the pool carries nothing from one call to the   *)
(* next, LISTEN before the look into the table misses no result, and what  *)
(* a call returns answers it.                                              *)
(***************************************************************************)
EXTENDS Results, TLAPS

(* A getter has a connection while it looks and waits, and nobody else has it. *)
ConnOwned ==
  /\ \A g \in Getters : conn[g] # NoConn <=> pc[g] \in {"get", "wait"}
  /\ \A g, h \in Getters : conn[g] = conn[h] /\ conn[g] # NoConn => g = h

(* A row that is found holds the last result stored. *)
RowIsLast == \A k \in Keys : row[k].live => row[k].n = stored[k] /\ stored[k] > 0

(* What was stored when a call was made is not taken back. *)
BaseStored == \A g \in Getters : call[g].base <= stored[call[g].key]

(* A notification with a result tells one that was stored during the call. *)
NewsOnly ==
  \A g \in Getters : conn[g] # NoConn =>
    \A i \in 1 .. Len(inbox[conn[g]]) : inbox[conn[g]][i].n # 0 =>
      call[g].base <= inbox[conn[g]][i].n /\ inbox[conn[g]][i].n <= stored[call[g].key]

IInv ==
  /\ TypeOK /\ ConnOwned /\ PoolClean /\ OwnChannel
  /\ RowIsLast /\ BaseStored /\ NewsOnly /\ WaiterInformed /\ AnswersCall

-----------------------------------------------------------------------------
(* Types. *)

LEMMA Sizes == MaxStores \in Nat /\ MaxAttempts \in Nat \ {0} /\ NoConn \notin Conns /\ Keys # {}
BY ResultsAssumption

LEMMA NoCallType ==
  /\ NoCall \in [key : Keys, block : BOOLEAN, base : 0 .. MaxStores]
  /\ NoCall.key \in Keys /\ NoCall.base = 0
<1>1. (CHOOSE k \in Keys : TRUE) \in Keys
  BY Sizes
<1> QED BY <1>1, Sizes DEF NoCall

LEMMA NoAnswerType ==
  ASSUME NEW k \in Keys
  PROVE  /\ NoAnswer(k) \in [kind : AnswerKinds, key : Keys, n : 0 .. MaxStores]
         /\ NoAnswer(k).kind # "value"
BY Sizes DEF NoAnswer, AnswerKinds

LEMMA InitResults == Init => IInv
<1> SUFFICES ASSUME Init PROVE IInv
  OBVIOUS
<1> USE Sizes, NoCallType DEF Init
<1>1. TypeOK
  <2>1. answer \in [Getters -> [kind : AnswerKinds, key : Keys, n : 0 .. MaxStores]]
    BY NoAnswerType
  <2>2. inbox \in [Conns -> Seq(Notify)]
    OBVIOUS
  <2> QED BY <2>1, <2>2 DEF TypeOK
<1>2. AnswersCall
  BY NoAnswerType DEF AnswersCall
<1> QED BY <1>1, <1>2 DEF IInv, ConnOwned, PoolClean, OwnChannel, RowIsLast, BaseStored,
      NewsOnly, WaiterInformed

(* A release leaves an empty connection in the pool. *)
LEMMA ReleaseType ==
  ASSUME TypeOK, NEW g \in Getters, conn[g] \in Conns, Release(g)
  PROVE  /\ listens' \in [Conns -> SUBSET Keys]
         /\ inbox' \in [Conns -> Seq(Notify)]
         /\ conn' \in [Getters -> Conns \cup {NoConn}]
<1>1. << >> \in Seq(Notify)
  OBVIOUS
<1> QED BY <1>1 DEF TypeOK, Release

(* Where a getter goes and what it answers. *)
LEMMA GotoType ==
  ASSUME TypeOK, NEW g \in Getters, NEW l \in {"idle", "open", "get", "wait", "fetch", "done"}, Goto(g, l)
  PROVE  pc' \in [Getters -> {"idle", "open", "get", "wait", "fetch", "done"}]
BY DEF TypeOK, Goto

LEMMA ValueType ==
  ASSUME TypeOK, NEW g \in Getters, NEW k \in Keys, NEW n \in 0 .. MaxStores, Value(g, k, n)
  PROVE  /\ pc' \in [Getters -> {"idle", "open", "get", "wait", "fetch", "done"}]
         /\ answer' \in [Getters -> [kind : AnswerKinds, key : Keys, n : 0 .. MaxStores]]
<1>1. [kind |-> "value", key |-> k, n |-> n] \in [kind : AnswerKinds, key : Keys, n : 0 .. MaxStores]
  BY DEF AnswerKinds
<1> QED BY <1>1, GotoType DEF Value, TypeOK

LEMMA RaiseType ==
  ASSUME TypeOK, NEW g \in Getters, NEW kind \in AnswerKinds, Raise(g, kind)
  PROVE  /\ pc' \in [Getters -> {"idle", "open", "get", "wait", "fetch", "done"}]
         /\ answer' \in [Getters -> [kind : AnswerKinds, key : Keys, n : 0 .. MaxStores]]
<1>1. call[g].key \in Keys
  BY DEF TypeOK
<1>2. [kind |-> kind, key |-> call[g].key, n |-> 0] \in [kind : AnswerKinds, key : Keys, n : 0 .. MaxStores]
  BY <1>1, Sizes
<1> QED BY <1>2, GotoType DEF Raise, TypeOK

LEMMA TypeStep == ASSUME TypeOK, ConnOwned, [Next]_vars PROVE TypeOK'
<1> USE Sizes DEF TypeOK, table, pool
<1>1. ASSUME NEW k \in Keys, Store(k) PROVE TypeOK'
  <2> DEFINE n == stored[k] + 1
             note == [key |-> k, n |-> IF n \in Large THEN 0 ELSE n]
  <2>1. n \in 0 .. MaxStores /\ note \in Notify
    BY <1>1 DEF Store, Notify
  <2> HIDE DEF n, note
  <2>2. stored' = [stored EXCEPT ![k] = n] /\ row' = [row EXCEPT ![k] = [n |-> n, live |-> TRUE]]
    BY <1>1 DEF Store, n
  <2>3. inbox' = [c \in Conns |-> IF k \in listens[c] THEN Append(inbox[c], note) ELSE inbox[c]]
    BY <1>1 DEF Store, n, note
  <2>4. inbox' \in [Conns -> Seq(Notify)]
    <3>1. \A c \in Conns : inbox[c] \in Seq(Notify) /\ Append(inbox[c], note) \in Seq(Notify)
      BY <2>1
    <3> QED BY <2>3, <3>1
  <2> QED BY <1>1, <2>1, <2>2, <2>4 DEF Store
<1>2. ASSUME NEW k \in Keys, Expire(k) PROVE TypeOK'
  BY <1>2 DEF Expire
<1>3. CASE PurgeResults
  BY <1>3 DEF PurgeResults
<1>4. ASSUME NEW g \in Getters, Call(g) PROVE TypeOK'
  <2>1. PICK k \in Keys, block \in BOOLEAN :
          /\ call' = [call EXCEPT ![g] = [key |-> k, block |-> block, base |-> stored[k]]]
          /\ answer' = [answer EXCEPT ![g] = NoAnswer(k)]
    BY <1>4 DEF Call
  <2> QED BY <1>4, <2>1, NoAnswerType DEF Call, Goto
<1>5. ASSUME NEW g \in Getters, Open(g) PROVE TypeOK'
  <2>1. PICK c \in Conns : /\ conn' = [conn EXCEPT ![g] = c]
                          /\ listens' = [listens EXCEPT ![c] = @ \cup {call[g].key}]
    BY <1>5 DEF Open
  <2>2. call[g].key \in Keys
    OBVIOUS
  <2> QED BY <1>5, <2>1, <2>2, GotoType DEF Open
<1>6. ASSUME NEW g \in Getters, Get(g) PROVE TypeOK'
  <2>1. conn[g] \in Conns
    BY <1>6 DEF Get, ConnOwned
  <2>2. call[g].key \in Keys /\ row[call[g].key].n \in 0 .. MaxStores
    OBVIOUS
  <2>3. "missing" \in AnswerKinds
    BY DEF AnswerKinds
  <2>4. CASE Value(g, call[g].key, row[call[g].key].n) /\ Release(g)
    BY <1>6, <2>1, <2>2, <2>4, ValueType, ReleaseType DEF Get
  <2>5. CASE Raise(g, "missing") /\ Release(g)
    BY <1>6, <2>1, <2>3, <2>5, RaiseType, ReleaseType DEF Get
  <2>6. CASE Goto(g, "wait") /\ UNCHANGED <<pool, answer>>
    BY <1>6, <2>6, GotoType DEF Get
  <2> QED BY <1>6, <2>4, <2>5, <2>6 DEF Get
<1>7. ASSUME NEW g \in Getters, Receive(g) PROVE TypeOK'
  <2>1. conn[g] \in Conns
    BY <1>7 DEF Receive, ConnOwned
  <2>2. Head(inbox[conn[g]]) \in Notify
    BY <1>7, <2>1 DEF Receive
  <2>3. Head(inbox[conn[g]]).key \in Keys /\ Head(inbox[conn[g]]).n \in 0 .. MaxStores
    BY <2>2 DEF Notify
  <2>4. "too_many" \in AnswerKinds
    BY DEF AnswerKinds
  <2>5. /\ answer' \in [Getters -> [kind : AnswerKinds, key : Keys, n : 0 .. MaxStores]]
        /\ pc' \in [Getters -> {"idle", "open", "get", "wait", "fetch", "done"}]
    <3>1. CASE Raise(g, "too_many")
      BY <2>4, <3>1, RaiseType
    <3>2. CASE Value(g, Head(inbox[conn[g]]).key, Head(inbox[conn[g]]).n)
      BY <2>3, <3>2, ValueType
    <3>3. CASE Goto(g, "fetch") /\ UNCHANGED answer
      BY <3>3, GotoType
    <3> QED BY <1>7, <3>1, <3>2, <3>3 DEF Receive
  <2> QED BY <1>7, <2>1, <2>5, ReleaseType DEF Receive
<1>8. ASSUME NEW g \in Getters, TimeOut(g) PROVE TypeOK'
  <2>1. conn[g] \in Conns
    BY <1>8 DEF TimeOut, ConnOwned
  <2>2. "timeout" \in AnswerKinds
    BY DEF AnswerKinds
  <2> QED BY <1>8, <2>1, <2>2, ReleaseType, RaiseType DEF TimeOut
<1>9. ASSUME NEW g \in Getters, Fetch(g) PROVE TypeOK'
  <2>1. call[g].key \in Keys /\ row[call[g].key].n \in 0 .. MaxStores
    OBVIOUS
  <2>2. "missing" \in AnswerKinds
    BY DEF AnswerKinds
  <2>3. Value(g, call[g].key, row[call[g].key].n) \/ Raise(g, "missing")
    BY <1>9 DEF Fetch
  <2> QED BY <1>9, <2>1, <2>2, <2>3, ValueType, RaiseType DEF Fetch
<1>10. ASSUME NEW g \in Getters, ConnError(g) PROVE TypeOK'
  <2>1. /\ answer' \in [Getters -> [kind : AnswerKinds, key : Keys, n : 0 .. MaxStores]]
        /\ pc' \in [Getters -> {"idle", "open", "get", "wait", "fetch", "done"}]
        /\ attempt' \in [Getters -> 1 .. MaxAttempts]
    <3>1. CASE /\ attempt[g] < MaxAttempts
               /\ attempt' = [attempt EXCEPT ![g] = @ + 1]
               /\ Goto(g, "open")
               /\ UNCHANGED answer
      <4>1. attempt[g] \in 1 .. MaxAttempts
        OBVIOUS
      <4>2. attempt[g] + 1 \in 1 .. MaxAttempts
        BY <3>1, <4>1
      <4> QED BY <3>1, <4>2, GotoType
    <3>2. CASE Raise(g, "error") /\ UNCHANGED attempt
      <4>1. "error" \in AnswerKinds
        BY DEF AnswerKinds
      <4> QED BY <3>2, <4>1, RaiseType
    <3> QED BY <1>10, <3>1, <3>2 DEF ConnError
  <2>2. UNCHANGED pool \/ (conn[g] \in Conns /\ Release(g))
    BY <1>10 DEF ConnError
  <2> QED BY <1>10, <2>1, <2>2, ReleaseType DEF ConnError
<1>11. ASSUME NEW g \in Getters, Return(g) PROVE TypeOK'
  <2>1. NoAnswer(NoCall.key) \in [kind : AnswerKinds, key : Keys, n : 0 .. MaxStores]
    BY NoCallType, NoAnswerType
  <2>2. call' \in [Getters -> [key : Keys, block : BOOLEAN, base : 0 .. MaxStores]]
    BY <1>11, NoCallType DEF Return
  <2>3. answer' \in [Getters -> [kind : AnswerKinds, key : Keys, n : 0 .. MaxStores]]
    BY <1>11, <2>1 DEF Return
  <2>4. attempt' \in [Getters -> 1 .. MaxAttempts]
    BY <1>11 DEF Return
  <2> QED BY <1>11, <2>2, <2>3, <2>4, GotoType DEF Return
<1>12. CASE UNCHANGED vars
  BY <1>12 DEF vars
<1> QED BY <1>1, <1>2, <1>3, <1>4, <1>5, <1>6, <1>7, <1>8, <1>9, <1>10, <1>11, <1>12 DEF Next, GetStep

-----------------------------------------------------------------------------
(* The connections. *)

ConnsFit == ConnOwned /\ PoolClean /\ OwnChannel /\ NewsOnly /\ WaiterInformed

(* A getter that does not take or give a connection, with the table as it was:
   the others' facts stay. *)
LEMMA OthersKeep ==
  ASSUME IInv, NEW g \in Getters, conn[g] = NoConn, UNCHANGED <<table, pool>>,
         NEW l \in {"idle", "open", "fetch", "done"}, Goto(g, l),
         call' = [call EXCEPT ![g] = call'[g]]
  PROVE  ConnsFit'
<1> USE DEF IInv, table, pool, Goto
<1>1. ConnOwned' /\ PoolClean'
  BY DEF TypeOK, ConnOwned, PoolClean, Free
<1>2. \A h \in Getters : conn[h] # NoConn => call'[h] = call[h] /\ pc'[h] = pc[h]
  BY DEF TypeOK
<1>3. OwnChannel'
  BY <1>2 DEF OwnChannel
<1>4. NewsOnly'
  BY <1>2 DEF NewsOnly
<1>5. WaiterInformed'
  BY <1>2 DEF WaiterInformed, Found, ConnOwned, TypeOK
<1> QED BY <1>1, <1>3, <1>4, <1>5 DEF ConnsFit

(* A connection that is given back. *)
LEMMA ReleaseKeeps ==
  ASSUME IInv, NEW g \in Getters, conn[g] # NoConn, Release(g), UNCHANGED <<table, call>>,
         NEW l \in {"idle", "open", "fetch", "done"}, Goto(g, l)
  PROVE  ConnsFit'
<1> USE DEF IInv, table, Goto, Release
<1>1. conn[g] \in Conns
  BY DEF TypeOK
<1>2. \A h \in Getters : h # g => conn'[h] = conn[h] /\ pc'[h] = pc[h]
  BY DEF TypeOK
<1>3. conn'[g] = NoConn /\ pc'[g] = l
  BY DEF TypeOK
<1>4. \A h \in Getters : conn'[h] # NoConn =>
        /\ h # g /\ conn[h] # NoConn /\ conn[h] # conn[g] /\ conn[h] \in Conns
        /\ listens'[conn'[h]] = listens[conn[h]] /\ inbox'[conn'[h]] = inbox[conn[h]]
  BY <1>1, <1>2, <1>3 DEF TypeOK, ConnOwned
<1>5. ConnOwned'
  BY <1>2, <1>3, <1>4 DEF ConnOwned
<1>6. PoolClean'
  <2> SUFFICES ASSUME NEW c \in Conns, Free(c)' PROVE listens'[c] = {} /\ inbox'[c] = << >>
    BY DEF PoolClean
  <2>1. CASE c = conn[g]
    BY <2>1 DEF TypeOK
  <2>2. CASE c # conn[g]
    <3>1. Free(c)
      BY <1>2, <2>2 DEF Free
    <3> QED BY <1>1, <2>2, <3>1 DEF PoolClean, TypeOK
  <2> QED BY <2>1, <2>2
<1>7. OwnChannel'
  BY <1>2, <1>4 DEF OwnChannel
<1>8. NewsOnly'
  BY <1>2, <1>4 DEF NewsOnly
<1>9. WaiterInformed'
  BY <1>2, <1>3, <1>4, <1>5 DEF WaiterInformed, Found, ConnOwned
<1> QED BY <1>5, <1>6, <1>7, <1>8, <1>9 DEF ConnsFit

(* LISTEN on a free connection, which has no channel and no backlog. *)
LEMMA OpenKeeps == ASSUME IInv, NEW g \in Getters, Open(g) PROVE ConnsFit'
<1> USE DEF IInv, table, Goto
<1>1. PICK c \in Conns : /\ Free(c)
                        /\ conn' = [conn EXCEPT ![g] = c]
                        /\ listens' = [listens EXCEPT ![c] = @ \cup {call[g].key}]
  BY DEF Open
<1>2. UNCHANGED <<table, inbox, call>> /\ pc' = [pc EXCEPT ![g] = "get"] /\ pc[g] = "open"
  BY DEF Open
<1>3. c # NoConn
  BY Sizes
<1>4. \A h \in Getters : h # g => conn'[h] = conn[h] /\ pc'[h] = pc[h] /\ conn[h] # c
  BY <1>1, <1>2 DEF TypeOK, Free
<1>5. conn'[g] = c /\ pc'[g] = "get" /\ conn[g] = NoConn
  BY <1>1, <1>2 DEF TypeOK, ConnOwned
<1>6. listens'[c] = {call[g].key} /\ inbox[c] = << >>
  BY <1>1 DEF TypeOK, PoolClean
<1>7. \A h \in Getters : h # g /\ conn[h] # NoConn => listens'[conn[h]] = listens[conn[h]]
  BY <1>1, <1>4 DEF TypeOK
<1>8. ConnOwned'
  BY <1>3, <1>4, <1>5 DEF ConnOwned
<1>9. PoolClean'
  <2> SUFFICES ASSUME NEW d \in Conns, Free(d)' PROVE listens'[d] = {} /\ inbox[d] = << >>
    BY <1>2 DEF PoolClean
  <2>1. d # c
    BY <1>5 DEF Free
  <2>2. Free(d)
    <3> SUFFICES ASSUME NEW h \in Getters PROVE conn[h] # d
      BY DEF Free
    <3>1. d # NoConn
      BY Sizes
    <3> QED BY <1>4, <1>5, <3>1 DEF Free
  <2> QED BY <1>1, <2>1, <2>2 DEF PoolClean, TypeOK
<1>10. OwnChannel'
  <2> SUFFICES ASSUME NEW h \in Getters, conn'[h] # NoConn
               PROVE  /\ listens'[conn'[h]] = {call[h].key}
                      /\ \A i \in 1 .. Len(inbox[conn'[h]]) : inbox[conn'[h]][i].key = call[h].key
    BY <1>2 DEF OwnChannel
  <2>1. CASE h = g
    <3>1. Len(inbox[conn'[h]]) = 0
      BY <1>5, <1>6, <2>1
    <3> QED BY <1>5, <1>6, <2>1, <3>1
  <2>2. CASE h # g
    BY <1>4, <1>7, <2>2 DEF OwnChannel
  <2> QED BY <2>1, <2>2
<1>11. NewsOnly'
  <2> SUFFICES ASSUME NEW h \in Getters, conn'[h] # NoConn,
                      NEW i \in 1 .. Len(inbox[conn'[h]]), inbox[conn'[h]][i].n # 0
               PROVE  /\ call[h].base <= inbox[conn'[h]][i].n
                      /\ inbox[conn'[h]][i].n <= stored[call[h].key]
    BY <1>2 DEF NewsOnly
  <2>1. h # g
    <3> SUFFICES ASSUME h = g PROVE FALSE
      OBVIOUS
    <3>1. Len(inbox[conn'[h]]) = 0
      BY <1>5, <1>6
    <3> QED BY <3>1
  <2> QED BY <1>4, <2>1 DEF NewsOnly
<1>12. WaiterInformed'
  BY <1>2, <1>4, <1>5 DEF WaiterInformed, Found
<1> QED BY <1>8, <1>9, <1>10, <1>11, <1>12 DEF ConnsFit

LEMMA Appended ==
  ASSUME NEW s \in Seq(Notify), NEW x \in Notify
  PROVE  /\ Len(s) \in Nat /\ Len(Append(s, x)) = Len(s) + 1
         /\ \A j \in 1 .. Len(s) : Append(s, x)[j] = s[j] /\ s[j] \in Notify
         /\ Append(s, x)[Len(s) + 1] = x
OBVIOUS

(* A result is stored: every getter that listens for it is told, with a result
   newer than what its call began with. *)
LEMMA StoreKeeps ==
  ASSUME IInv, NEW k \in Keys, Store(k)
  PROVE  ConnsFit' /\ RowIsLast' /\ BaseStored' /\ AnswersCall'
<1> USE DEF IInv
<1> DEFINE n == stored[k] + 1
           note == [key |-> k, n |-> IF n \in Large THEN 0 ELSE n]
<1>1. n \in 1 .. MaxStores /\ note.key = k /\ note.n \in {0, n} /\ note \in Notify
  BY Sizes DEF Store, TypeOK, Notify
<1>2. inbox' = [c \in Conns |-> IF k \in listens[c] THEN Append(inbox[c], note) ELSE inbox[c]]
  BY DEF Store
<1>3. stored' = [stored EXCEPT ![k] = n] /\ row' = [row EXCEPT ![k] = [n |-> n, live |-> TRUE]]
  BY DEF Store
<1> HIDE DEF n, note
<1>4. UNCHANGED <<listens, conn, pc, call, attempt, answer>>
  BY DEF Store
<1>5. /\ stored'[k] = n /\ stored[k] < n
      /\ \A j \in Keys : j # k => stored'[j] = stored[j] /\ row'[j] = row[j]
      /\ \A j \in Keys : stored[j] \in Nat /\ stored'[j] \in Nat /\ stored[j] <= stored'[j]
  BY <1>1, <1>3, Sizes DEF TypeOK, n
<1>6. row'[k].n = n /\ row'[k].live
  BY <1>3 DEF TypeOK
<1>7. \A g \in Getters : call[g].key \in Keys /\ call[g].base \in Nat /\ answer[g].n \in Nat
  BY DEF TypeOK
<1>8. RowIsLast'
  BY <1>1, <1>5, <1>6 DEF RowIsLast
<1>9. BaseStored'
  BY <1>4, <1>5, <1>7 DEF BaseStored
<1>10. AnswersCall'
  BY <1>4, <1>5, <1>7 DEF AnswersCall
<1>11. ConnOwned'
  BY <1>4 DEF ConnOwned
<1>12. PoolClean'
  BY <1>2, <1>4 DEF PoolClean, Free
<1>13. ASSUME NEW g \in Getters, conn[g] # NoConn
       PROVE  /\ inbox[conn[g]] \in Seq(Notify)
              /\ inbox'[conn[g]] = IF k = call[g].key THEN Append(inbox[conn[g]], note) ELSE inbox[conn[g]]
  <2>1. conn[g] \in Conns
    BY <1>13 DEF TypeOK
  <2>2. k \in listens[conn[g]] <=> k = call[g].key
    BY <1>13 DEF OwnChannel
  <2> QED BY <1>2, <2>1, <2>2 DEF TypeOK
<1>14. ASSUME NEW g \in Getters, conn[g] # NoConn, NEW i \in 1 .. Len(inbox'[conn[g]])
       PROVE  \/ k = call[g].key /\ inbox'[conn[g]][i] = note
              \/ i \in 1 .. Len(inbox[conn[g]]) /\ inbox'[conn[g]][i] = inbox[conn[g]][i]
  <2>0. inbox[conn[g]] \in Seq(Notify)
    BY <1>13, <1>14
  <2>1. CASE k = call[g].key
    <3>0. inbox'[conn[g]] = Append(inbox[conn[g]], note)
      BY <1>13, <1>14, <2>1
    <3>1. /\ Len(inbox'[conn[g]]) = Len(inbox[conn[g]]) + 1
          /\ \A j \in 1 .. Len(inbox[conn[g]]) : inbox'[conn[g]][j] = inbox[conn[g]][j]
          /\ inbox'[conn[g]][Len(inbox[conn[g]]) + 1] = note
          /\ Len(inbox[conn[g]]) \in Nat
      BY <1>1, <2>0, <3>0, Appended
    <3> QED BY <1>14, <2>1, <3>1
  <2>2. CASE k # call[g].key
    BY <1>13, <1>14, <2>2
  <2> QED BY <2>1, <2>2
<1>15. OwnChannel'
  <2> SUFFICES ASSUME NEW g \in Getters, conn[g] # NoConn
               PROVE  /\ listens[conn[g]] = {call[g].key}
                      /\ \A i \in 1 .. Len(inbox'[conn[g]]) : inbox'[conn[g]][i].key = call[g].key
    BY <1>4 DEF OwnChannel
  <2> QED BY <1>1, <1>14 DEF OwnChannel
<1>16. NewsOnly'
  <2> SUFFICES ASSUME NEW g \in Getters, conn[g] # NoConn,
                      NEW i \in 1 .. Len(inbox'[conn[g]]), inbox'[conn[g]][i].n # 0
               PROVE  /\ call[g].base <= inbox'[conn[g]][i].n
                      /\ inbox'[conn[g]][i].n <= stored'[call[g].key]
    BY <1>4 DEF NewsOnly
  <2>1. CASE k = call[g].key /\ inbox'[conn[g]][i] = note
    <3>1. note.n = n
      BY <1>1, <2>1
    <3>2. call[g].base <= stored[k]
      BY <2>1 DEF BaseStored
    <3> QED BY <1>1, <1>5, <1>7, <2>1, <3>1, <3>2
  <2>2. CASE i \in 1 .. Len(inbox[conn[g]]) /\ inbox'[conn[g]][i] = inbox[conn[g]][i]
    <3>0. inbox[conn[g]] \in Seq(Notify)
      BY <1>13
    <3>1. inbox[conn[g]][i] \in Notify
      BY <1>1, <2>2, <3>0, Appended
    <3>2. inbox[conn[g]][i].n \in Nat
      BY <3>1 DEF Notify
    <3>3. call[g].base <= inbox[conn[g]][i].n /\ inbox[conn[g]][i].n <= stored[call[g].key]
      BY <2>2 DEF NewsOnly
    <3>4. /\ stored[call[g].key] \in Nat /\ stored'[call[g].key] \in Nat
          /\ stored[call[g].key] <= stored'[call[g].key]
      BY <1>5, <1>7
    <3>5. inbox[conn[g]][i].n <= stored'[call[g].key]
      BY <3>2, <3>3, <3>4
    <3> QED BY <2>2, <3>3, <3>5
  <2> QED BY <1>14, <2>1, <2>2
<1>17. WaiterInformed'
  <2> SUFFICES ASSUME NEW g \in Getters, pc[g] = "wait", inbox'[conn[g]] = << >>
               PROVE  ~ row'[call[g].key].live
    BY <1>4 DEF WaiterInformed, Found
  <2>1. conn[g] # NoConn
    BY DEF ConnOwned
  <2>2. k # call[g].key
    <3> SUFFICES ASSUME k = call[g].key PROVE FALSE
      OBVIOUS
    <3>0. inbox[conn[g]] \in Seq(Notify) /\ inbox'[conn[g]] = Append(inbox[conn[g]], note)
      BY <1>13, <2>1
    <3>1. Len(inbox'[conn[g]]) = Len(inbox[conn[g]]) + 1 /\ Len(inbox[conn[g]]) \in Nat
      BY <1>1, <3>0, Appended
    <3>2. Len(inbox'[conn[g]]) = 0
      OBVIOUS
    <3> QED BY <3>1, <3>2
  <2> QED BY <1>5, <1>7, <1>13, <2>1, <2>2 DEF WaiterInformed, Found
<1> QED BY <1>8, <1>9, <1>10, <1>11, <1>12, <1>15, <1>16, <1>17 DEF ConnsFit

(* What get_result finds in the table answers its call. *)
LEMMA FoundAnswers ==
  ASSUME IInv, NEW g \in Getters, Found(call[g].key), UNCHANGED <<table, call>>,
         Value(g, call[g].key, row[call[g].key].n)
  PROVE  AnswersCall'
<1> USE DEF IInv, table
<1>1. answer' = [answer EXCEPT ![g] = [kind |-> "value", key |-> call[g].key, n |-> row[call[g].key].n]]
  BY DEF Value
<1>2. call[g].key \in Keys
  BY DEF TypeOK
<1>3. row[call[g].key].n = stored[call[g].key] /\ stored[call[g].key] > 0
  BY <1>2 DEF RowIsLast, Found
<1>4. call[g].base <= stored[call[g].key] /\ stored[call[g].key] \in Nat
  BY <1>2 DEF BaseStored, TypeOK
<1> QED BY <1>1, <1>2, <1>3, <1>4 DEF AnswersCall, TypeOK

LEMMA RaiseAnswers ==
  ASSUME IInv, NEW g \in Getters, UNCHANGED <<table, call>>, NEW kind, kind # "value", Raise(g, kind)
  PROVE  AnswersCall'
BY DEF IInv, AnswersCall, TypeOK, Raise, table

-----------------------------------------------------------------------------
(* Every step. *)

LEMMA ResultsStep == ASSUME IInv, [Next]_vars PROVE IInv'
<1> USE DEF IInv, table, pool
<1>1. TypeOK'
  BY TypeStep
<1>2. UNCHANGED <<table, call>> => RowIsLast' /\ BaseStored'
  BY DEF RowIsLast, BaseStored
<1>3. UNCHANGED <<table, call, answer>> => AnswersCall'
  BY DEF AnswersCall
<1>4. ASSUME NEW k \in Keys, Store(k) PROVE IInv'
  BY <1>1, <1>4, StoreKeeps DEF ConnsFit
<1>5. ASSUME UNCHANGED <<stored, pool, pc, call, attempt, answer>>,
             \A k \in Keys : row'[k].live => row'[k] = row[k] /\ row[k].live
      PROVE  IInv'
  <2>1. \A g \in Getters : call[g].key \in Keys
    BY DEF TypeOK
  <2>2. ConnOwned' /\ PoolClean'
    BY <1>5 DEF ConnOwned, PoolClean, Free
  <2>3. OwnChannel' /\ NewsOnly'
    BY <1>5 DEF OwnChannel, NewsOnly
  <2>4. RowIsLast' /\ BaseStored' /\ AnswersCall'
    BY <1>5 DEF RowIsLast, BaseStored, AnswersCall
  <2>5. WaiterInformed'
    BY <1>5, <2>1 DEF WaiterInformed, Found
  <2> QED BY <1>1, <2>2, <2>3, <2>4, <2>5
<1>6. ASSUME NEW k \in Keys, Expire(k) PROVE IInv'
  <2>1. \A j \in Keys : row'[j].live => row'[j] = row[j] /\ row[j].live
    BY <1>6 DEF Expire, TypeOK
  <2> QED BY <1>5, <1>6, <2>1 DEF Expire
<1>7. CASE PurgeResults
  <2>1. \A j \in Keys : row'[j].live => row'[j] = row[j] /\ row[j].live
    BY <1>7 DEF PurgeResults, Found
  <2> QED BY <1>5, <1>7, <2>1 DEF PurgeResults
<1>8. ASSUME NEW g \in Getters, Call(g) PROVE IInv'
  <2>1. PICK k \in Keys, block \in BOOLEAN :
          /\ call' = [call EXCEPT ![g] = [key |-> k, block |-> block, base |-> stored[k]]]
          /\ answer' = [answer EXCEPT ![g] = NoAnswer(k)]
    BY <1>8 DEF Call
  <2>2. conn[g] = NoConn
    BY <1>8 DEF Call, ConnOwned
  <2>3. call' = [call EXCEPT ![g] = call'[g]]
    BY <2>1 DEF TypeOK
  <2>4. ConnsFit'
    BY <1>8, <2>2, <2>3, OthersKeep DEF Call
  <2>5. \A h \in Getters : h # g => call'[h] = call[h] /\ answer'[h] = answer[h]
    BY <2>1 DEF TypeOK
  <2>6. call'[g].key = k /\ call'[g].base = stored[k] /\ stored[k] \in Nat /\ answer'[g].kind # "value"
    BY <2>1, NoAnswerType DEF TypeOK
  <2>7. RowIsLast' /\ BaseStored' /\ AnswersCall'
    BY <1>8, <2>5, <2>6 DEF Call, RowIsLast, BaseStored, AnswersCall
  <2> QED BY <1>1, <2>4, <2>7 DEF ConnsFit
<1>9. ASSUME NEW g \in Getters, Open(g) PROVE IInv'
  BY <1>1, <1>2, <1>3, <1>9, OpenKeeps DEF Open, ConnsFit
<1>10. ASSUME NEW g \in Getters, Get(g) PROVE IInv'
  <2>1. UNCHANGED <<table, call>> /\ conn[g] # NoConn /\ pc[g] = "get"
    BY <1>10 DEF Get, ConnOwned
  <2>2. CASE Found(call[g].key) /\ Value(g, call[g].key, row[call[g].key].n) /\ Release(g)
    <3>1. ConnsFit'
      BY <2>1, <2>2, ReleaseKeeps DEF Value
    <3> QED BY <1>1, <1>2, <2>1, <2>2, <3>1, FoundAnswers DEF ConnsFit
  <2>3. CASE Raise(g, "missing") /\ Release(g)
    <3>1. ConnsFit'
      BY <2>1, <2>3, ReleaseKeeps DEF Raise
    <3> QED BY <1>1, <1>2, <2>1, <2>3, <3>1, RaiseAnswers DEF ConnsFit
  <2>4. CASE ~ Found(call[g].key) /\ Goto(g, "wait") /\ UNCHANGED <<pool, answer>>
    <3>1. pc' = [pc EXCEPT ![g] = "wait"]
      BY <2>4 DEF Goto
    <3>2. ConnOwned' /\ PoolClean'
      BY <2>1, <2>4, <3>1 DEF ConnOwned, PoolClean, Free, TypeOK
    <3>3. OwnChannel'
      BY <2>1, <2>4 DEF OwnChannel
    <3>4. NewsOnly'
      BY <2>1, <2>4 DEF NewsOnly
    <3>5. WaiterInformed'
      BY <2>1, <2>4, <3>1 DEF WaiterInformed, Found, TypeOK
    <3> QED BY <1>1, <1>2, <1>3, <2>1, <2>4, <3>2, <3>3, <3>4, <3>5
  <2> QED BY <1>10, <2>2, <2>3, <2>4 DEF Get
<1>11. ASSUME NEW g \in Getters, Receive(g) PROVE IInv'
  <2>1. UNCHANGED <<table, call>> /\ Release(g) /\ inbox[conn[g]] # << >> /\ conn[g] # NoConn
    BY <1>11 DEF Receive, ConnOwned
  <2>2. ConnsFit'
    <3>1. Goto(g, "done") \/ Goto(g, "fetch")
      BY <1>11 DEF Receive, Raise, Value
    <3> QED BY <2>1, <3>1, ReleaseKeeps
  <2>3. AnswersCall'
    <3>1. CASE Raise(g, "too_many")
      BY <2>1, <3>1, RaiseAnswers
    <3>2. CASE Head(inbox[conn[g]]).n # 0 /\ Value(g, Head(inbox[conn[g]]).key, Head(inbox[conn[g]]).n)
      <4>1. conn[g] \in Conns
        BY <2>1 DEF TypeOK
      <4>2. inbox[conn[g]] \in Seq(Notify)
        BY <4>1 DEF TypeOK
      <4>3. Head(inbox[conn[g]]) = inbox[conn[g]][1] /\ 1 \in 1 .. Len(inbox[conn[g]])
        BY <2>1, <4>2
      <4> DEFINE note == inbox[conn[g]][1]
      <4>4. note \in Notify
        BY <4>2, <4>3
      <4>5. note.key = call[g].key /\ call[g].base <= note.n /\ note.n <= stored[call[g].key]
        BY <2>1, <3>2, <4>3 DEF OwnChannel, NewsOnly
      <4>6. 0 < note.n
        BY <3>2, <4>3, <4>4 DEF Notify
      <4>7. answer' = [answer EXCEPT ![g] = [kind |-> "value", key |-> note.key, n |-> note.n]]
        BY <3>2, <4>3 DEF Value
      <4> HIDE DEF note
      <4> QED BY <2>1, <4>5, <4>6, <4>7 DEF AnswersCall, TypeOK
    <3>3. CASE UNCHANGED answer
      BY <1>3, <2>1, <3>3
    <3> QED BY <1>11, <3>1, <3>2, <3>3 DEF Receive
  <2> QED BY <1>1, <1>2, <2>1, <2>2, <2>3 DEF ConnsFit
<1>12. ASSUME NEW g \in Getters, TimeOut(g) PROVE IInv'
  <2>1. UNCHANGED <<table, call>> /\ Release(g) /\ Raise(g, "timeout") /\ conn[g] # NoConn
    BY <1>12 DEF TimeOut, ConnOwned
  <2>2. ConnsFit'
    BY <2>1, ReleaseKeeps DEF Raise
  <2> QED BY <1>1, <1>2, <2>1, <2>2, RaiseAnswers DEF ConnsFit
<1>13. ASSUME NEW g \in Getters, Fetch(g) PROVE IInv'
  <2>1. UNCHANGED <<table, pool, call>> /\ conn[g] = NoConn
    BY <1>13 DEF Fetch, ConnOwned
  <2>2. call' = [call EXCEPT ![g] = call'[g]]
    BY <2>1 DEF TypeOK
  <2>3. CASE Found(call[g].key) /\ Value(g, call[g].key, row[call[g].key].n)
    <3>1. ConnsFit'
      BY <2>1, <2>2, <2>3, OthersKeep DEF Value
    <3> QED BY <1>1, <1>2, <2>1, <2>3, <3>1, FoundAnswers DEF ConnsFit
  <2>4. CASE Raise(g, "missing")
    <3>1. ConnsFit'
      BY <2>1, <2>2, <2>4, OthersKeep DEF Raise
    <3> QED BY <1>1, <1>2, <2>1, <2>4, <3>1, RaiseAnswers DEF ConnsFit
  <2> QED BY <1>13, <2>3, <2>4 DEF Fetch
<1>14. ASSUME NEW g \in Getters, ConnError(g) PROVE IInv'
  <2>1. UNCHANGED <<table, call>>
    BY <1>14 DEF ConnError
  <2>2. \E l \in {"open", "done"} : Goto(g, l)
    BY <1>14 DEF ConnError, Raise
  <2>3. call' = [call EXCEPT ![g] = call'[g]]
    BY <2>1 DEF TypeOK
  <2>4. ConnsFit'
    <3>1. CASE conn[g] = NoConn /\ UNCHANGED pool
      BY <2>1, <2>2, <2>3, <3>1, OthersKeep
    <3>2. CASE conn[g] # NoConn /\ Release(g)
      BY <2>1, <2>2, <3>2, ReleaseKeeps
    <3> QED BY <1>14, <3>1, <3>2 DEF ConnError
  <2>5. UNCHANGED answer \/ Raise(g, "error")
    BY <1>14 DEF ConnError
  <2> QED BY <1>1, <1>2, <1>3, <2>1, <2>4, <2>5, RaiseAnswers DEF ConnsFit
<1>15. ASSUME NEW g \in Getters, Return(g) PROVE IInv'
  <2>1. /\ UNCHANGED <<table, pool>> /\ Goto(g, "idle")
        /\ call' = [call EXCEPT ![g] = NoCall]
        /\ answer' = [answer EXCEPT ![g] = NoAnswer(NoCall.key)]
        /\ conn[g] = NoConn
    BY <1>15 DEF Return, ConnOwned
  <2>2. call' = [call EXCEPT ![g] = call'[g]]
    BY <2>1 DEF TypeOK
  <2>3. ConnsFit'
    BY <2>1, <2>2, OthersKeep
  <2>4. \A h \in Getters : h # g => call'[h] = call[h] /\ answer'[h] = answer[h]
    BY <2>1 DEF TypeOK
  <2>5. call'[g].key \in Keys /\ call'[g].base = 0 /\ answer'[g].kind # "value"
    BY <2>1, NoCallType, NoAnswerType DEF TypeOK
  <2>6. \A k \in Keys : stored[k] \in Nat
    BY DEF TypeOK
  <2>7. RowIsLast' /\ BaseStored' /\ AnswersCall'
    BY <2>1, <2>4, <2>5, <2>6 DEF RowIsLast, BaseStored, AnswersCall
  <2> QED BY <1>1, <2>3, <2>7 DEF ConnsFit
<1>16. CASE UNCHANGED vars
  BY <1>16, <1>5 DEF vars
<1> QED BY <1>4, <1>6, <1>7, <1>8, <1>9, <1>10, <1>11, <1>12, <1>13, <1>14, <1>15, <1>16
      DEF Next, GetStep

LEMMA ResultsInvariant == Spec => []IInv
<1>1. IInv /\ [Next]_vars => IInv'
  BY ResultsStep
<1> QED BY InitResults, <1>1, PTL DEF Spec

-----------------------------------------------------------------------------
(* Types. *)
THEOREM ResultsTyped == Spec => []TypeOK
<1>1. IInv => TypeOK
  BY DEF IInv
<1> QED BY <1>1, ResultsInvariant, PTL

(* Whoever waits in get_result with nothing received has missed nothing, at
   whatever moments results are stored: LISTEN comes before the look. *)
THEOREM NothingMissed == Spec => []WaiterInformed
<1>1. IInv => WaiterInformed
  BY DEF IInv
<1> QED BY <1>1, ResultsInvariant, PTL

(* unlisten_all leaves nothing on a connection for its next user, however its last
   one's call ended. *)
THEOREM NothingCarriedOver == Spec => []PoolClean
<1>1. IInv => PoolClean
  BY DEF IInv
<1> QED BY <1>1, ResultsInvariant, PTL

(* What a connection in use receives is for the one who uses it. *)
THEOREM ChannelIsOwn == Spec => []OwnChannel
<1>1. IInv => OwnChannel
  BY DEF IInv
<1> QED BY <1>1, ResultsInvariant, PTL

(* get_result returns a result of its message, stored during the call or the last
   one before it. *)
THEOREM AnswersAreRight == Spec => []AnswersCall
<1>1. IInv => AnswersCall
  BY DEF IInv
<1> QED BY <1>1, ResultsInvariant, PTL
===============================================================================
