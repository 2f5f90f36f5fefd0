------------------------------- MODULE Results -------------------------------
(***************************************************************************)
(* The result backend: results.py, with transaction(listen=...),           *)
(* wait_for_notifies and unlisten_all of utils.py.  A worker stores the    *)
(* result of a message in the result table and notifies the message's      *)
(* channel with it, or with an empty payload when it is too large.  A      *)
(* getter takes a connection of the pool, listens, looks into the table    *)
(* and waits for a notification if there is no result yet.  PostgreSQL     *)
(* queues notifications per connection, and connections are pooled: what   *)
(* one call leaves on a connection, the next call on it finds.             *)
(*                                                                         *)
(* Results of one message are numbered in the order in which STORE commits *)
(* them: a message that is executed twice, or whose STORE retry_pg repeats *)
(* after a lost reply, has more than one.                                  *)
(***************************************************************************)
EXTENDS Naturals, Sequences, FiniteSets, Functions

CONSTANTS Keys,         \* messages, and so channels
          Getters,      \* threads that call get_result
          Conns,        \* connections of the pool
          NoConn,
          MaxStores,    \* bound: results stored
          Large,        \* the numbers of those that are too large for a payload
          MaxAttempts,  \* attempts of retry_pg
          Env           \* subset of {"conn_error"}

ASSUME ResultsAssumption ==
  /\ Keys # {}
  /\ NoConn \notin Conns
  /\ MaxStores \in Nat /\ Large \subseteq 1 .. MaxStores
  /\ MaxAttempts \in Nat \ {0}
  /\ Env \subseteq {"conn_error"}

(* A notification; number 0 stands for the empty payload. *)
Notify == [key : Keys, n : 0 .. MaxStores]

AnswerKinds == {"none", "value", "missing", "timeout", "too_many", "error"}

VARIABLES
  row,      \* the result table: number 0 is no row, live is not expired
  stored,   \* history: how many results of each message were stored
  listens,  \* the channels each connection listens to
  inbox,    \* notifications PostgreSQL queued for each connection
  conn,     \* the connection each getter holds
  pc,       \* where each getter is in get_result
  call,     \* arguments of its call; `base` is stored[key] when it was made
  attempt,  \* which attempt of retry_pg it is in
  answer    \* what the call returned or raised

vars == <<row, stored, listens, inbox, conn, pc, call, attempt, answer>>

table == <<row, stored>>
pool == <<listens, inbox, conn>>

NoAnswer(k) == [kind |-> "none", key |-> k, n |-> 0]

(* A getter outside get_result. *)
NoCall == [key |-> CHOOSE k \in Keys : TRUE, block |-> FALSE, base |-> 0]

TypeOK ==
  /\ row \in [Keys -> [n : 0 .. MaxStores, live : BOOLEAN]]
  /\ stored \in [Keys -> 0 .. MaxStores]
  /\ listens \in [Conns -> SUBSET Keys]
  /\ inbox \in [Conns -> Seq(Notify)]
  /\ conn \in [Getters -> Conns \cup {NoConn}]
  /\ pc \in [Getters -> {"idle", "open", "get", "wait", "fetch", "done"}]
  /\ call \in [Getters -> [key : Keys, block : BOOLEAN, base : 0 .. MaxStores]]
  /\ attempt \in [Getters -> 1 .. MaxAttempts]
  /\ answer \in [Getters -> [kind : AnswerKinds, key : Keys, n : 0 .. MaxStores]]

Init ==
  /\ row = [k \in Keys |-> [n |-> 0, live |-> FALSE]]
  /\ stored = [k \in Keys |-> 0]
  /\ listens = [c \in Conns |-> {}]
  /\ inbox = [c \in Conns |-> << >>]
  /\ conn = [g \in Getters |-> NoConn]
  /\ pc = [g \in Getters |-> "idle"]
  /\ call = [g \in Getters |-> NoCall]
  /\ attempt = [g \in Getters |-> 1]
  /\ answer = [g \in Getters |-> NoAnswer(NoCall.key)]

-----------------------------------------------------------------------------
(* The table. *)

(* QUERIES.GET finds a row. *)
Found(k) == row[k].live

StoredInAll == FoldFunction(+, 0, stored)

(* _store: one transaction writes the row and notifies who listens. *)
Store(k) ==
  /\ StoredInAll < MaxStores
  /\ stored[k] < MaxStores  \* follows from the sum
  /\ LET n == stored[k] + 1
         note == [key |-> k, n |-> IF n \in Large THEN 0 ELSE n]
     IN  /\ stored' = [stored EXCEPT ![k] = n]
         /\ row' = [row EXCEPT ![k] = [n |-> n, live |-> TRUE]]
         /\ inbox' = [c \in Conns |-> IF k \in listens[c] THEN Append(inbox[c], note) ELSE inbox[c]]
  /\ UNCHANGED <<listens, conn, pc, call, attempt, answer>>

(* expires_at passes. *)
Expire(k) ==
  /\ Found(k)
  /\ row' = [row EXCEPT ![k].live = FALSE]
  /\ UNCHANGED <<stored, pool, pc, call, attempt, answer>>

(* PURGE_RESULTS, run by maintenance and by the CLI's purge. *)
PurgeResults ==
  /\ row' = [k \in Keys |-> IF Found(k) THEN row[k] ELSE [n |-> 0, live |-> FALSE]]
  /\ UNCHANGED <<stored, pool, pc, call, attempt, answer>>

-----------------------------------------------------------------------------
(* get_result. *)

Free(c) == \A g \in Getters : conn[g] # c

Goto(g, label) == pc' = [pc EXCEPT ![g] = label]

(* get_result returns result n of message k, or raises. *)
Value(g, k, n) ==
  /\ answer' = [answer EXCEPT ![g] = [kind |-> "value", key |-> k, n |-> n]]
  /\ Goto(g, "done")

Raise(g, kind) ==
  /\ answer' = [answer EXCEPT ![g] = [kind |-> kind, key |-> call[g].key, n |-> 0]]
  /\ Goto(g, "done")

(* The end of transaction(listen=...): unlisten_all, then the connection is back
   in the pool.  Faults: it goes on listening; what it received stays queued. *)
ReleaseListening(g) ==
  /\ inbox' = [inbox EXCEPT ![conn[g]] = << >>]
  /\ conn' = [conn EXCEPT ![g] = NoConn]
  /\ UNCHANGED listens

ReleaseUndrained(g) ==
  /\ listens' = [listens EXCEPT ![conn[g]] = {}]
  /\ conn' = [conn EXCEPT ![g] = NoConn]
  /\ UNCHANGED inbox

Release(g) ==
  /\ listens' = [listens EXCEPT ![conn[g]] = {}]
  /\ inbox' = [inbox EXCEPT ![conn[g]] = << >>]
  /\ conn' = [conn EXCEPT ![g] = NoConn]

Call(g) ==
  /\ pc[g] = "idle"
  /\ \E k \in Keys, block \in BOOLEAN :
       /\ call' = [call EXCEPT ![g] = [key |-> k, block |-> block, base |-> stored[k]]]
       /\ answer' = [answer EXCEPT ![g] = NoAnswer(k)]
  /\ Goto(g, "open")
  /\ UNCHANGED <<table, pool, attempt>>

(* A connection of the pool; LISTEN takes effect at once, it is in autocommit.
   Fault: LISTEN waits for a transaction that never commits. *)
OpenUnheard(g) ==
  /\ pc[g] = "open"
  /\ \E c \in Conns :
       /\ Free(c)
       /\ conn' = [conn EXCEPT ![g] = c]
  /\ Goto(g, "get")
  /\ UNCHANGED <<table, listens, inbox, call, attempt, answer>>

Open(g) ==
  /\ pc[g] = "open"
  /\ \E c \in Conns :
       /\ Free(c)
       /\ conn' = [conn EXCEPT ![g] = c]
       /\ listens' = [listens EXCEPT ![c] = @ \cup {call[g].key}]
  /\ Goto(g, "get")
  /\ UNCHANGED <<table, inbox, call, attempt, answer>>

(* "First, search result in table." *)
Get(g) ==
  /\ pc[g] = "get"
  /\ \/ /\ Found(call[g].key)
        /\ Value(g, call[g].key, row[call[g].key].n)
        /\ Release(g)
     \/ /\ ~ Found(call[g].key) /\ ~ call[g].block
        /\ Raise(g, "missing")
        /\ Release(g)
     \/ /\ ~ Found(call[g].key) /\ call[g].block
        /\ Goto(g, "wait")
        /\ UNCHANGED <<pool, answer>>
  /\ UNCHANGED <<table, call, attempt>>

(* wait_for_notifies returns at least one notification, and with it the others
   that are there: all of the backlog, or those of the same packet.  More than
   one is a ValueError in get_result. *)
Receive(g) ==
  /\ pc[g] = "wait"
  /\ inbox[conn[g]] # << >>
  /\ \/ /\ Len(inbox[conn[g]]) > 1
        /\ Raise(g, "too_many")
     \/ /\ Head(inbox[conn[g]]).n # 0
        /\ Value(g, Head(inbox[conn[g]]).key, Head(inbox[conn[g]]).n)
     \/ /\ Head(inbox[conn[g]]).n = 0
        /\ Goto(g, "fetch")
        /\ UNCHANGED answer
  /\ Release(g)
  /\ UNCHANGED <<table, call, attempt>>

(* No notification within the timeout.  Fault: no timeout is set. *)
TimeOutUnset(g) == FALSE /\ UNCHANGED vars

TimeOut(g) ==
  /\ pc[g] = "wait"
  /\ inbox[conn[g]] = << >>
  /\ Raise(g, "timeout")
  /\ Release(g)
  /\ UNCHANGED <<table, call, attempt>>

(* The payload was too large for a NOTIFY: search the table once more, in a
   transaction of its own. *)
Fetch(g) ==
  /\ pc[g] = "fetch"
  /\ \E c \in Conns : Free(c)
  /\ IF Found(call[g].key) THEN Value(g, call[g].key, row[call[g].key].n)
                           ELSE Raise(g, "missing")
  /\ UNCHANGED <<table, pool, call, attempt>>

(* The connection breaks: the pool replaces it by a new one and retry_pg starts
   get_result again, or gives up.  Fault: one attempt too many. *)
ConnErrorOnceMore(g) ==
  /\ "conn_error" \in Env
  /\ pc[g] \in {"open", "get", "wait", "fetch"}
  /\ attempt' = [attempt EXCEPT ![g] = @ + 1]
  /\ Goto(g, "open")
  /\ IF conn[g] = NoConn THEN UNCHANGED pool ELSE Release(g)
  /\ UNCHANGED <<table, call, answer>>

ConnError(g) ==
  /\ "conn_error" \in Env
  /\ pc[g] \in {"open", "get", "wait", "fetch"}
  /\ \/ /\ attempt[g] < MaxAttempts
        /\ attempt' = [attempt EXCEPT ![g] = @ + 1]
        /\ Goto(g, "open")
        /\ UNCHANGED answer
     \/ /\ attempt[g] = MaxAttempts
        /\ Raise(g, "error")
        /\ UNCHANGED attempt
  /\ IF conn[g] = NoConn THEN UNCHANGED pool ELSE Release(g)
  /\ UNCHANGED <<table, call>>

Return(g) ==
  /\ pc[g] = "done"
  /\ Goto(g, "idle")
  /\ call' = [call EXCEPT ![g] = NoCall]
  /\ attempt' = [attempt EXCEPT ![g] = 1]
  /\ answer' = [answer EXCEPT ![g] = NoAnswer(NoCall.key)]
  /\ UNCHANGED <<table, pool>>

-----------------------------------------------------------------------------
GetStep(g) == Open(g) \/ Get(g) \/ Receive(g) \/ TimeOut(g) \/ Fetch(g)

Next ==
  \/ \E k \in Keys : Store(k) \/ Expire(k)
  \/ PurgeResults
  \/ \E g \in Getters : Call(g) \/ GetStep(g) \/ ConnError(g) \/ Return(g)

Spec == Init /\ [][Next]_vars

(* A thread in get_result goes on; whoever waits for a connection gets one that
   is free again and again (the pool serves its waiters in turn); what was
   returned is used before the next call. *)
Fairness ==
  \A g \in Getters : WF_vars(GetStep(g)) /\ SF_vars(Open(g)) /\ SF_vars(Fetch(g)) /\ WF_vars(Return(g))

FairSpec == Spec /\ Fairness

-----------------------------------------------------------------------------
(* A getter that waits with nothing in its inbox has not missed the result: there
   is none.  LISTEN precedes the look into the table, so a STORE that the look did
   not see notifies the getter. *)
WaiterInformed ==
  \A g \in Getters :
    pc[g] = "wait" /\ inbox[conn[g]] = << >> => ~ Found(call[g].key)

(* A connection in the pool is as good as new: it listens to nothing and nothing
   is queued on it. *)
PoolClean == \A c \in Conns : Free(c) => listens[c] = {} /\ inbox[c] = << >>

(* What a connection in use receives is about the message its getter asked for. *)
OwnChannel ==
  \A g \in Getters : conn[g] # NoConn =>
    /\ listens[conn[g]] = {call[g].key}
    /\ \A i \in 1 .. Len(inbox[conn[g]]) : inbox[conn[g]][i].key = call[g].key

(* get_result returns a result of the message it was called for, and none that was
   replaced before the call: not what an earlier call left on the connection. *)
AnswersCall ==
  \A g \in Getters : answer[g].kind = "value" =>
    /\ answer[g].key = call[g].key
    /\ 0 < answer[g].n /\ call[g].base <= answer[g].n
    /\ answer[g].n <= stored[call[g].key]

(* wait_for_notifies returns the first notification "plus any sibling delivered
   in the same packet"; its caller copes with them. *)
SiblingsAccepted == \A g \in Getters : answer[g].kind # "too_many"

(* Every call of get_result ends, with an answer or an exception, whatever the
   connections do and however many calls compete for them. *)
CallReturns == \A g \in Getters : pc[g] = "open" ~> pc[g] = "done"
=============================================================================
