# A TLA+ model of dramatiq-postgres

dramatiq-postgres is a broker for the task library dramatiq that keeps its
queues in PostgreSQL. This directory holds a TLA+ model of the parts of it whose
correctness depends on the order in which processes, threads and transactions
interleave, the TLC configurations that check it on small instances, and proofs
that TLAPS checks for instances of any size.

    tlc -config delivery_timely.cfg MCDelivery.tla     # model-check one configuration
    tlapm Lease_proofs.tla                             # check the proofs of one module

`PROJECT.json` is the index: components, runs, the lines of source every
definition stands for, the hazards of the code and the properties aimed at
them, findings and theorems. Paths below are relative to the repository.

## 1. The system

| Component | Source | State | Operations |
|---|---|---|---|
| Queue table | `schema.sql`, `QUERIES` in `broker.py`, `cli.py` | one row per message: `queued`, `consumed` (by `worker_id`) or `rejected`, `available_at` | ENQUEUE, CLAIM, ACK, NACK, REQUEUE, REAP, PURGE, RECOVER, FLUSH |
| Worker table | `schema.sql`, `broker.py` | one row per worker process: `heartbeat_at` | HEARTBEAT, CLEAN_WORKERS |
| Broker | `broker.py` `PostgresBroker` | `worker_id`, `_heartbeat_at`, `_maintenance_at` | `enqueue`, `maybe_heartbeat`, `maybe_maintenance` (under an advisory lock) |
| Consumer, one per queue and process | `broker.py` `PostgresConsumer` | `buffer` (claimed, not handed out), `in_processing` (handed out, not settled), `wakeup`, a connection | `__next__`, `claim`, `ack`, `nack`, `requeue`, `close` |
| dramatiq's worker (a library) | called through the broker | work queue, delay queue, threads | executes, retries, releases delayed messages, shuts down |
| Notifier, one thread per process | `broker.py` `Notifier` | subscriptions, `dirty`, a connection | `subscribe`, `unsubscribe`, `run` |
| Result backend | `results.py`, `utils.py` | result table; subscriptions and queued notifications of pooled connections | `get_result`, `_store` |
| CLI | `cli.py` | none | recover, flush, purge, init, stats |
| Django admin | `django/admin.py` | a queryset, while an action runs | requeue, discard |
| Django glue | `django/apps.py`, `models.py`, `migrations/`, `middleware.py`, `worker.py` | settings; the models' table names | `ready`, `forwards` |
| Query texts | `utils.py` `QueryManager` | one group of texts per module, global in a process | `build_queries` |
| Connections, retries | `utils.py` | the pool | `transaction`, `retry_pg` |
| Schema initialisation | `schema.py`, `schema.sql` | which schemas and tables exist; an advisory lock per deployment | `init` |

Components meet in the two tables. Nothing else is shared between processes:
within one, the consumer threads run `__next__` (heartbeat, maintenance, claim),
the worker threads run `ack` and `nack`, and both touch `in_processing`.
Notifications only shorten waits in the queue's case; in the result backend they
carry the result. Which tables these are is a matter of its own: every process works
it out from its configuration, and whoever initialises the schema from the command
line's arguments or from Django's settings.

What is hard about it:

- **ownership across processes**: a row is leased to a worker whose heartbeat
  keeps the lease; crash, stall, shutdown, `recover`, `flush` and the admin all
  take rows from under somebody;
- **dramatiq acks what it retried**: the retry is enqueued under the same message
  id before the ack of the failed delivery, and so is a released delayed message;
- **a commit without a reply**: every transaction may have happened when its caller
  believes it has not (`retry_pg`, `raise_connection_error`, the worker's own retry
  of `ack`);
- **state that dies with an object**: `buffer` and `in_processing` belong to a
  consumer that dramatiq replaces after a connection error;
- **pooled connections**: LISTEN and queued notifications outlive a call;
- **three clocks**: a heartbeat is sent when a thread looks at its mark, judged when
  another process' jittered timer has run out, and may fail in between;
- **globals and defaults**: what names the tables is rewritten by every constructor
  that is given a name and left alone by one that is not.

What makes each component correct: the queue loses nothing and executes nothing
twice at a time; prefetch bounds what a consumer holds and its capacity comes
back; retries are bounded; a dead worker's messages come back within a bounded time
and every message is settled in the end; nothing is reaped of a living worker that has a
row in the worker table, and it gets one within a bounded time;
`get_result` misses no result, takes nobody else's and returns; an admin action
leaves alone what a worker holds; a deployment is created once, however many create
it, and everybody configured for it uses its tables.

## 2. Modules

| Module | Models | Used by |
|---|---|---|
| `QueueTable` | the table and one operator per SQL statement, a function from table to table | `Delivery`, `Admin` |
| `Delivery` | clients, consumers, worker threads, heartbeats, maintenance, crash and shutdown, CLI, the clock | `MCDelivery`, `Admin`, the proofs |
| `AtLeastOnce` | the abstract promise | `Delivery` (`Promise!Spec`) |
| `Notifier` | the notifier thread, its subscriptions, the wait of the consumers | `MCNotifier` |
| `Results` | the result backend | `MCResults` |
| `Admin` | `action_retry` and `action_discard`, composed with all of `Delivery` | `MCAdmin` |
| `LeaseClock` | heartbeats, maintenance and its lock, on a clock | `MCLeaseClock`, its proofs |
| `Deployments` | schema initialisation, query texts, Django's settings | `MCDeployments`, its proofs |
| `Delivery_proofs` | types, what holds without connection errors | `Lease_proofs`, `Capacity_proofs` |
| `Capacity_proofs` | prefetch and capacity, whatever goes wrong | |
| `Lease_proofs` | leases, retry counters, losses, the refinement, each in the environment it needs | `Admin_proofs` |
| `Admin_proofs` | types, and the layers of `Lease_proofs` beside the admin's actions | |
| `Results_proofs`, `Notifier_proofs`, `LeaseClock_proofs`, `Deployments_proofs` | theorems about these modules | |

### Delivery and the code

| Model | Code |
|---|---|
| `rows`, `heartbeat` | the two tables; a heartbeat is `fresh`, `stale` (older than `heartbeat_ttl`) or `expired` (older than five times that), as REAP and CLEAN_WORKERS compare no other ages |
| `marked` | `_heartbeat_at` is set, whether or not the heartbeat that was noted has committed |
| `pc[w][q]` | where the consumer thread of queue `q` in process `w` is in `__next__`: `next` (between calls), `heartbeat` (noted, not committed), `upkeep`, `claim` |
| `copies` | every delivery in some process' memory: `buffer`, `work`, `delay`, `run`, `done`, `failed`, `retrying`, `requeued` say where |
| `in_processing` | the attribute of that name |
| `Send`, `SendAgain` | `enqueue` by a client; its repetition by `retry_pg` after a commit whose reply was lost |
| `HeartbeatDue`, `HeartbeatCommit`, `HeartbeatRecent` | `maybe_heartbeat`: note under the lock; commit; early return, also between the other thread's note and commit |
| `Maintain`, `MaintenanceSkip` | `maybe_maintenance`: REAP, CLEAN_WORKERS and PURGE in one transaction; its early returns |
| `Claim`, `Deliver`, `Idle` | the rest of `__next__` |
| `ClaimLost`, `ConsumerError` | a connection error in `__next__`, after or before the commit; `NewConsumer` is what dramatiq does then |
| `Release`, `Begin`, `Succeed`, `Exhaust`, `Retry` | dramatiq's threads (external), calling `enqueue` |
| `RetryLost` | the enqueue of a retry gives up after `retry_pg`'s last attempt; dramatiq acks all the same |
| `AckDelivery`, `NackDelivery` | `ack`, `nack`: transaction, then `in_processing.discard` |
| `Stop`, `QuitConsumer`, `Drain`, `Exit`, `Crash` | dramatiq's shutdown order with `requeue` and `close`; SIGKILL |
| `Due`, `Lapse` | time |
| `CliRecover`, `CliFlush`, `CliPurge` | the commands |

One action is one transaction, or one step of a thread between two. PostgreSQL's
row locks and `SKIP LOCKED` make each statement atomic on the rows it touches; a
CLAIM may take any batch of due rows up to its limit, which covers rows skipped
because they are locked (and every order of `available_at, position`). All of
`pg_notify`, payload contents and logging is left out.

The numbered `claim` in a row and in a copy is a history value: the code has no
such number, which is what several findings are about.

### Notifier and the code

`npc` is where the thread is in `run` and `ensure_conn`, `pc` where a consumer is in
`__next__`: about to claim, about to clear its event, waiting. `subscriptions`,
`dirty`, `stopping` are the attributes of these names; `listens` is what PostgreSQL has
registered for the connection. `ClearDirty`, `ReadSubscriptions`, `Unlisten` and each
`Listen` are steps of their own, since `subscribe` may run between any two of them:
`dirty` is cleared outside the lock. A process has one consumer per queue, so a queue
stands for its channel and its one event, and `Subscribe` of a rebuilt consumer starts
with a clear event. `Wait` returns at any time (event or poll interval); what `wakeup`
holds matters as soon as something else is waited for, which is what the fault
`WaitForEvent` shows. `Delivery` leaves all of this to its `Idle`, which
`MissedNotifyHarmless` justifies: a consumer that waits looks again.

### Results and the code

`listens` and `inbox` are what PostgreSQL keeps per connection; `conn` the
connection a getter took from the pool. `Open` is `transaction(listen=...)`, `Get`
the look into the table, `Receive` and `TimeOut` the two ends of
`wait_for_notifies`, `Fetch` the second look after an empty payload, `Release` the
end of the transaction (`unlisten_all`, `putconn`), `ConnError` a broken connection
under `retry_pg`. Results of all messages are numbered by STORE, so the properties
can say which result a call returned. `Receive` covers that psycopg's `notifies`
with `stop_after=1` yields every notification of the batch it received.

### Admin and the code

Every submitted action is a request of its own (`Requests`), with its own queryset
(`jobs[r]`) and its own job between delete and enqueue (`removed[r]`): requests interleave
with each other as web processes do. `RequeueSelect` evaluates the queryset; `RequeueSkip`,
`RequeueDelete` and `RequeueEnqueue` handle one job each from the row read then;
`RequeueAbort` is the end of the request anywhere, by a crash or because enqueue gives up.
`dropped` remembers what it had deleted. `Discard` is one DELETE with its condition: `Job`
has no relations and no signal receivers, so Django deletes without reading first.
`RequeuePage` and `DiscardPage` are the states the changelist shows.

Two things that the code leaves to its users are assumptions here. `CautiousUser`: nobody
requeues from a page that lists queued jobs; without it, `admin_requeue`. `NoOverlap`: no
job is in the hands of two requests at a time. `AdminSpec` is the code without
`NoOverlap`, `CarefulSpec` with it, and only the latter keeps workers and admin apart
(section 4).

### LeaseClock and the code

`Delivery` assumes that the heartbeat of a live process stays fresh; `LeaseClock` says
when it does. Time is counted in units; `Turn` is the longest time between two calls
of `__next__` in a thread (its transactions, the wait of `poll_interval`, a rebuilt
consumer), which the code does not bound itself: `Tick` waits for who is due. `sinceMark` is
now minus `_heartbeat_at`, `due` is `_maintenance_at` minus now, `age` the age of the
row's `heartbeat_at`. `HeartbeatCommit` lets NOW() lie anywhere between the mark and the
commit; `lock` and `sinceLock` are the maintenance transaction with the NOW() it
compares. Messages are reduced to `holders`, the workers with consumed rows. One thread
is followed per process. The others share its marks and can only look at them more often;
what they claim meanwhile, on the mark of a first heartbeat that is under way or has
failed even, is `ClaimBeside`. `HeartbeatFails` may hit any heartbeat, the first included.

### Deployments and the code

`pc` goes through `schema.init` statement by statement: `Lock`, `Check`, `LookForSchema` and
`InsertSchema` (the two halves of CREATE SCHEMA IF NOT EXISTS), `CreateTables`, `Commit`;
`Exit` ends a process and its transaction anywhere, by its own will, an error or a kill.
What a transaction has created blocks another one that creates the same thing until it
ends (`Contested`), and makes it fail if it commits (`Duplicate`). `names` is the
deployment (schema and prefix) that the query texts of a module and Django's models
name, `wanted` for which they were configured, a history value. `Built` is
`build_queries` with its early return, `Ready` is `AppConfig.ready`, `MigrationTarget` the
migration's reading of the settings. `LockKey` is any function of names: hashes may collide.

## 3. Runs

Actors and data are model values. Two workers suffice for every interaction of a
holder of a message and somebody else (the third process is the client, the
operator or the admin); one message suffices where a property speaks of one
message, as statements touch rows independently and the only coupling between
messages is capacity.

| Run | Instance | Checks |
|---|---|---|
| `delivery_timely` | 2 workers (1 mortal), 1 message, both queues, prefetch 1, 1 delayed retry, crash and stop, fairness, `PunctualSpec` | `TypeOK`, `HeldWhileConsumed`, `OwnerKnownSoon`, `LeaseValid`, `NoDoubleExecution`, `NoLoss`, `LeaseInv`, `RetriesNeverReset`, `ImplementsAtLeastOnce`, `EventuallySettled`, `CrashRecovery` |
| `delivery_reconnect` | 1 mortal worker, 1 message, both queues, all retry delays; connection errors, recover, flush, purge, stop | `CapacityComesBack` |
| `lease_clock` | 3 processes (2 mortal; the third's heartbeats may fail, the first included), interval 1, turn 1, ttl 5, maintenance 1 | `ClockInv`, `LeaseKept`, `ListedInTime`, `RecoveredInTime`, `LosesOnlyUnlisted` |
| `deployments` | 3 processes that initialise 3 deployments (2 of one schema, 2 with one lock), 1 that constructs brokers, 3 settings | `InitInv`, `WaitsEnd`, `OnlyOthersClash`, `OwnTables`, `MigratedTablesFound` |
| `notifier` | 2 queues, 2 consumers built in all, 2 failures of a connection, fairness | `TypeOK`, `CleanMeansListening`, `SubscriptionHeard`, `MissedNotifyHarmless`, `StopEnds` |
| `results` | 2 getters, 1 connection, 2 messages, 2 results, 2 attempts, connection errors, fairness | `TypeOK`, `WaiterInformed`, `PoolClean`, `OwnChannel`, `AnswersCall`, `CallReturns` |
| `admin_actions` | 2 mortal workers, 2 messages, 1 queue, prefetch, batches and threads 2, crash and purge; 2 requests, `CarefulSpec` | `AdminInv`, `LeaseValid`, `NoDoubleExecution`, `LostInBetween`, `PrefetchRespected`, `ActionsTouchIdle` |
| `heartbeat_race` | 2 workers, both queues, nothing goes wrong | violates `OwnerKnown` |
| `orphaned_buffer` | 1 queue, connection errors | violates `HeldWhileConsumed` |
| `ack_deletes_retry` | 2 workers, late acks | violates `NoLoss` |
| `results_siblings` | 1 message stored twice | violates `SiblingsAccepted` |
| `admin_requeue` | requeue of what the page showed as queued | violates `NoDoubleExecution` |

**Bounds.** `MaxClaims` bounds the claims of a message, `MaxRetries` its retries,
`MaxStores` the results stored, `MaxAttempts` the attempts of `retry_pg` (10 in the code),
`Requests` the admin actions. In `delivery_timely` `MaxClaims` (8) is never reached: a
message is claimed once per queue, retry and crash. In `delivery_reconnect` it cuts
behaviours after the third claim, and so it does in `admin_actions`, enough for a message
to be taken from its holder, retried and released again, or rejected, requeued and
rejected again; both were also checked once with a larger bound (4). `admin_actions` has
one queue, where a requeue and the workers meet; with both queues, a delayed retry and one
mortal worker it was checked once (788,000 states). With two messages and a prefetch of
two what can break `PrefetchRespected` there is two deliveries of one message in a
consumer, the case that a set of ids hides. `MaxSubscribes` bounds the consumers that are
built: two are one that is rebuilt, or two that subscribe at a time, on which every change
of subscriptions in the midst of `ensure_conn` shows; `MaxBreaks` bounds the failures of
the notifier's connection, so that one may strike again while the first is being repaired.
Two attempts of `retry_pg` show the three cases first, repeated and last. In `lease_clock`
the units are chosen so that the assumption on `Ttl` holds with equality, `MaxAge` lies
above every age that anything is compared with, and two mortal processes are what it takes
for one to die holding the lock that the other's messages wait for; it was also checked
once with maintenance 2, and once with heartbeats of all three that may fail (3.8 million
states each). In `deployments` `MaxBuilt` lets a process be configured for one deployment
any number of times and then for a second one. Liveness with several messages (two
messages, one queue, prefetch 2, crash and stop) and `PrefetchRespected` with two messages
in both queues, prefetch 2, crash, flush and purge (275,000 states) were checked once on
larger instances. Without connection errors a worker process gets to the end of its
shutdown; only one of two workers is mortal so that liveness has somebody to rely on.

**Environment.** `Env` names what may go wrong. Which property holds under which
environment is the main result:

| Property | Holds | Fails with |
|---|---|---|
| `TypeOK` | always (proved) | |
| `HeldWhileConsumed` | unless `conn_error` (proved) | `conn_error`: `orphaned_buffer` |
| `OwnerKnown` | never (with two queues) | nothing: `heartbeat_race` |
| `OwnerKnownSoon` | while leases last (proved) | `conn_error`: the first heartbeat fails; `stall`: CLEAN_WORKERS drops the row |
| `NoDoubleExecution` | while leases last, punctual (proved) | `stall`, `recover`, `conn_error`, an unpunctual first heartbeat: by design, at least once |
| `RetriesNeverReset` | while leases last, punctual (proved) | the same: who was the holder enqueues its retry with the counter it knew |
| `NoLoss` | acks in time, punctual (proved) | `slow_ack`, immediate retries, `conn_error`: `ack_deletes_retry`; `recover` and `stall`, after several claims, in the same way; `conn_error` also because the enqueue of a retry may give up (`RetryLost`) |
| `LeaseValid` | timely, punctual (proved) | as `NoDoubleExecution`, and `flush`, `slow_ack`, immediate retries: the row of a holder is deleted |
| `ImplementsAtLeastOnce` | timely, punctual (proved) | whatever breaks `LeaseValid`: a flush decides and settles in one step, and who executes a message without its row decides on one that is not pending any more |
| `CapacityComesBack` | always (proved) | |
| `PrefetchRespected` | acks in time, punctual (proved) | `stall`, `recover`, late acks, immediate retries, an unpunctual first heartbeat: the consumer claims a message of which it still has an earlier delivery, and `in_processing` has one id for both, which the first ack takes out; `conn_error`: a rebuilt consumer counts from nothing, while deliveries of its predecessor are still in the work queue |
| `EventuallySettled`, `CrashRecovery` | timely, punctual (checked) | |

*Punctual* is an assumption on timing that nothing in the code enforces: a REAP does not
run between the claim of one thread and the commit of the first heartbeat that another
thread of the same process has noted. `PunctualSpec` is `Spec` with it. No action of
`Delivery` is guarded by it; the race itself (note, claim, commit) happens in every run.

The three environments are nested. *Leases last* (`LeasesLast`): connections hold and a live
process sends its heartbeats within `heartbeat_ttl`; processes may crash or be stopped at any
moment, `purge` and `flush` may run, acks may be late and retries immediate. *Acks in
time* (`AcksInTime`): moreover an ack arrives before the retry that precedes it is due,
and retries have a delay (dramatiq's default minimum is 15 s). *Timely* (`Timely`):
moreover nobody runs `flush`. So a flush costs no more than what it says, and neither it
nor a late ack ever makes a message run twice at a time.

The runs check the invariants in a timely environment, where `LeaseInv` contains the
other two. In the larger ones TLC checked them once on instances with two workers and one
message: `ExclusiveInv`, `NoDoubleExecution` and `RetriesNeverReset` with `flush`,
`slow_ack` and any retry delay (701,000 states), and `SafeInv` with `flush` (303,000 states).

**Fairness.** `Delivery!Fairness`: consumer threads, worker threads, and the steps of a
process that starts or shuts down go on when they can (weak); so does the clock, for a
row that is not yet due and a heartbeat of a dead process. Strong fairness is used for what
is one branch of a loop: some process' maintenance (the code tests a timer in every turn
and the advisory lock is held for one transaction), the release of a delayed message
(the consumer thread looks in every turn), and the stop of a consumer thread (it tests a
flag in every turn). No fairness is assumed of clients, crashes, signals, operators, of the
heartbeat's early return or of the outcome of an execution. `Notifier!Fairness`:
the notifier thread and the consumers go on (weak), and `conn.notifies(timeout=2)` ends
although notifications keep arriving (strong). `Results!Fairness`: a
thread in `get_result` goes on (weak), and one that waits for a connection gets one
that is free again and again (strong: psycopg_pool serves its waiters first come,
first served).

## 4. Findings

- **`heartbeat_race`**: `maybe_heartbeat` notes the heartbeat before it commits. The
  process' other consumer thread reads the note, returns early and claims: the messages
  are owned by a worker the reaper does not know (comment at `broker.py:240-241`), with no
  error at all. If the first heartbeat fails, that lasts a `heartbeat_interval` and more
  (`ListedInTime` has the bound). What is true is `OwnerKnownSoon`: while connections
  hold, the heartbeat is on its way.
- **`orphaned_buffer`**: a connection error between CLAIM and hand-out leaves rows
  consumed by a living worker that has forgotten them; they come back when that
  process ends, or by `recover` (`django/admin.py:3-4`: a consumed job "is held by a
  worker right now").
- **`ack_deletes_retry`**: ACK compares the state and not the owner; a late ack of the
  failed delivery deletes the retry that is being executed (comment at
  `broker.py:342-344`).
- **`results_siblings`**: `wait_for_notifies` says it may return siblings;
  `get_result` unpacks exactly one.
- **`admin_requeue`**: "Both skip consumed jobs" (`README.md:117-119`), but Requeue
  looks at the state it read, not at the state it deletes.

What else the models show, without a run of its own:

- **Recovery time.** A killed worker's messages are back
  `heartbeat_ttl + n * (1.5 * maintenance_interval + (f + 3) * turn)` after its last heartbeat at
  the latest, where n counts the processes that may die and f the heartbeats that may fail
  in a row: the row must expire, then somebody's timer must run out (`RecoveryTime`). With
  the defaults, one death and turns of a second that is some 108 s, not "within
  `heartbeat_ttl` seconds" (`README.md:212-213`); every process
  that dies while it holds the maintenance lock costs another round, because those
  that found the lock taken have armed their timers again (`broker.py:262`).
- **The intervals must fit.** `heartbeat_ttl` has to be at least
  `(f + 1) * (heartbeat_interval + turn) + turn` for a process to survive f failed
  heartbeats in a row (`LongestGap`): the defaults allow for two, with turns of up to 3.75 s.
  With less, living workers are reaped; nothing in the code checks the options.
- **Two deployments of one schema** initialised at a time take different locks
  (`schema.py:59`): both may find the schema missing, and one init then raises a duplicate.
  A second attempt succeeds. For one deployment `init` is what its docstring says.
- **Two deployments in one process** share the query texts: the second broker redirects
  the first one, unless it has neither schema nor prefix; then it uses the first one's
  tables (`utils.py:190`).
- **Two requests that requeue one rejected job** and overlap break what `admin_requeue`
  breaks: both have read it as rejected, and the second deletes and enqueues what the
  first has put back and a worker has claimed since, so it is executed twice at a time and
  the row of a holder is deleted. TLC shows it for `AdminSpec` with two requests and a page
  of rejected jobs (29 states). Nothing at `admin.py:388-417` keeps requests apart;
  `CarefulSpec` assumes that users do (`NoOverlap`).
- The delete and the enqueue of a requeue are separate transactions, so a request that
  ends in between loses the job (`RequeueAbort`). `LostInBetween` says that it is the
  only way to lose one. It contradicts `README.md:122-124`, where rejected messages stay until
  `purge_maxage`.
- **`in_processing` is a set of ids.** A consumer that claims a message of which it still
  has an earlier delivery (after `recover`, say, or an immediate retry) counts the two as
  one, and the ack of the first takes the id of the second out (`broker.py:354`): it then
  claims beyond its prefetch. TLC shows it with prefetch 2 (17 states).
- `retry_pg` around `enqueue` may take a message away from the worker that claimed its
  first, committed insert (`SendAgain`): with it a message may be executed twice.
- **The pool** must have more connections than its long-term users: two consumers per
  queue (with its delay queue) and the notifier keep one each, so that from eight queues
  on the default of 16 leaves none for `ack`, `enqueue` and `get_result`. The notifier's
  is one of these 16, not one more (`README.md:248-249`).

## 5. Proofs

For any sets of messages and workers and any value of the bounds:

| Theorem | States | Assumes |
|---|---|---|
| `TypeCorrect` | `Spec => []TypeOK` | the constants' assumptions |
| `HeldInvariant`, `ConsumedIsHeld` | `Spec => []HeldInv`, `[]HeldWhileConsumed` | no `conn_error` |
| `CapacityReturns` | `Spec => []CapacityComesBack` | finitely many messages; any `Env` |
| `OwnersBecomeKnown` | `Spec => []OwnerKnownSoon` | `LeasesLast` |
| `ExclusiveInvariant`, `ExecutedOnceAtATime` | `PunctualSpec => []ExclusiveInv`, `[]NoDoubleExecution` | `LeasesLast` |
| `RetriesCount` | `PunctualSpec => RetriesNeverReset` | `LeasesLast` |
| `NothingLost` | `PunctualSpec => []NoLoss` | `AcksInTime` |
| `PrefetchBounds` | `PunctualSpec => []PrefetchRespected` | `AcksInTime`; finitely many messages |
| `LeaseInvariant`, `LeaseHolds` | `PunctualSpec => []LeaseInv`, `[]LeaseValid` | `Timely` |
| `KeepsPromise` | `PunctualSpec => ImplementsAtLeastOnce` | `Timely` |
| `AdminTypeCorrect` | `AdminSpec => []AdminTypeOK` | the constants' assumptions; any `Env` |
| `AdminExcludes`, `AdminExecutedOnce`, `OnlyIdleJobs` | `CarefulSpec => []AdminExclusive`, `[]NoDoubleExecution`, `ActionsTouchIdle` | `LeasesLast`, `CautiousUser` |
| `LostOnlyInBetween` | `CarefulSpec => []LostInBetween` | `AcksInTime`, `CautiousUser` |
| `AdminInvariant`, `AdminLeaseHolds` | `CarefulSpec => []AdminInv`, `[]LeaseValid` | `Timely`, `CautiousUser` |
| `ClockIsRight`, `LeaseIsKept`, `EveryoneIsListed`, `OnlyTheUnlistedAreReaped` | `Spec => []ClockInv`, `[]LeaseKept`, `[]ListedInTime`, `LosesOnlyUnlisted` of `LeaseClock` | `Ttl >= LongestGap`; `Interval` and `Turn` at least 1 |
| `RecoveryIsInTime` | `Spec => []RecoveredInTime` of `LeaseClock` | the same; finitely many mortal processes and one that is not |
| `InitIsSafe`, `InitsDoNotDeadlock`, `ClashesAreOfOthers` | `Spec => []InitInv`, `[]WaitsEnd`, `[]OnlyOthersClash` of `Deployments` | any hash of lock names |
| `NamesAreOwn`, `MigrationServesAll` | `Spec => []OwnTables`, `[]MigratedTablesFound` of `Deployments` | |
| `ResultsTyped`, `NothingMissed`, `NothingCarriedOver`, `ChannelIsOwn`, `AnswersAreRight` | `Spec => []TypeOK`, `[]WaiterInformed`, `[]PoolClean`, `[]OwnChannel`, `[]AnswersCall` of `Results` | any `Env` |
| `NotifierTyped`, `ListensToSubscribers` | `Spec => []TypeOK`, `[]CleanMeansListening` of `Notifier` | |

The assumptions on constants are `NoWorkerAssumption`, `DeliveryAssumption`,
`AdminAssumption`, `LeaseClockAssumption`, `DeploymentsAssumption`, `ResultsAssumption` and
`NotifierAssumption`.

*HeldWhileConsumed* is not inductive: an ack might remove the copy of one
claim and leave a row of another. `HeldInv` adds that a claim determines the queue it
was made in, that claims are numbered upwards, so a new claim is not an old copy's,
and that a process that has not started owns nothing.

*OwnerKnownSoon* holds because whoever noted the first heartbeat of a process commits it or
dies (`HeartbeatFirst`), and whoever owns a row has that note or is dead (`OwnersMarked`).
Until the commit REAP takes the owner for dead, so all that follows is about
`PunctualSpec`, where it does not run then.

The lease argument has three layers, one for each environment; a step is shown to keep
the lower layer once, and the layers above cite it.

*ExclusiveInv* says that one delivery at a time has to deal with a message. Who
holds a delivery has noted a heartbeat (`HoldersAlive`); it is fresh, or has not committed
yet and REAP waits for it, so REAP leaves the holder alone; each claim is one
delivery (`DeliveriesDistinct`). `LeaseValid` is not needed for it and is not inductive
here, since a flush or a late ack deletes the row of a holder: `OneHolder` says that the
row is its own or gone. Then nobody claims the message again before the holder has
enqueued it, and then the holder is no longer one. `NoDoubleExecution` follows, since who
executes is a holder. So does `RetriesNeverReset`: the row of a holder, if it is there,
has the counter the delivery carries, which is what a retry or a release writes
(`NextCounter`).

*SafeInv* adds `NoLoss` and what an ack must not meet: while a requeued delivery waits for
its ack the message is where that ack cannot delete it, in the other queue, not yet due,
or gone, and after a retry nobody else has it (`RequeuedElsewhere`; this is where timely
acks and delayed retries are needed); what is about to be settled has been decided on
(`DecidedFirst`). The first three parts (`AckInv`) are kept without `NoLoss`, for
`Admin_proofs`, where a job may be lost between delete and enqueue. A flush counts as an
outcome (`outcome` in the model), so it does not disturb this layer.

*LeaseInv* adds `LeaseValid`: no step of another process deletes the row of a holder
(`StaysInTable`).

For the capacity of a consumer (`Sound`), CLAIM runs only when the buffer is empty and
asks for what `in_processing` leaves of the prefetch; what is in `in_processing` is a
delivery that some thread still has to settle, until the process shuts down. A
connection error starts both from nothing, so no environment is excluded. That bounds ids.
*PrefetchRespected* bounds deliveries: of a message a consumer has one at most (`OneOfEach`,
from `OneHolder` and `RequeuedElsewhere`: whoever waits for the ack of a retry does not
get the message back first), and every delivery it was handed is in `in_processing`
(`HandedCounted`), so there are as many deliveries as ids.

*KeepsPromise* maps `pending` to the queued and consumed rows and `decided` to the
messages with an outcome: a send is Accept, the end of an execution Decide, an ack or
nack Settle if it is the one that takes the row away, everything else a stutter. It
needs `LeaseInv` for acks (what they remove was decided), and for retries and
releases (the row they enqueue again was still pending).

*LeaseKept* needs the bookkeeping of a process that looks at its mark only now and then:
the mark is less than an interval and a turn old (`TurnsTaken`), and the age of the row
exceeds it by an interval and a turn for every heartbeat that failed since
(`GapBounded`); the products of two parameters in it are why the lemmas `Periods` and
`MorePeriods` are there. Before the first heartbeat commits, `age` is the time since the
start, so the same bound says when the process is listed at the latest (`ListedInTime`);
`MarkedFirst` says that it notes that heartbeat in its first turn. From then on the row is
younger than `heartbeat_ttl`, and REAP spares the process (`MaintainSpares`).

*RecoveredInTime* counts down. For a dead process whose row has expired (`Overdue`) the
age of the row, plus the time until any survivor's next try for the lock (`UntilTry`: its
timer, the turn under way, a turn for each heartbeat that may still fail), plus a round
for each process that may still die, stays below `RecoveryTime` (`InTime`). A survivor that
finds the lock taken sets its timer again; if the holder looked at the heartbeats too
early, that is no loss, because the row has not been expired for longer than the lock has
been held; if the holder looked late enough (`Reaping`), either it lives and commits before
its turn is over, or it is mortal and dies, and its death pays for the round with one of
`DeathsLeft`. The proof corrected the model: an earlier formula charged the lock's turn once
and not once per death and left out the turn in which the timer is found run out, and TLC
then showed it violated with two deaths and turns of two units.

*AdminInv* has the same three layers, each with what is true of the idle jobs that
requests have read or deleted and have not put back (`Handled`). While leases last they are
`Unheld`: the row is rejected or was deleted since, and no thread has to deal with the
message (`AdminExclusive`), so the enqueue that follows the delete, or does not, gives a
message to nobody who has it already. No step of a worker, client or operator changes that
(lemma `WorkersSpare`), though a purge or a flush may delete the row in between; and no step
of another request does, since it works on other jobs (`OthersWork`, from `NoOverlap`).
When acks are in time they are `Finished` (`AdminSafe`): the only delivery that may be left
is the ack of the release from the delay queue, which cannot delete the row the requeue
makes in the base queue. Only executions are rejected, hence every rejected job is of the
base queue (`RejectedInDefault`). A requeued job starts with no outcome, so `Lost` speaks of
its new life, and `LostInBetween` names whoever lost it: a request that has it deleted, or
had when it ended. For a queued job nothing of the kind is true, which is the finding
`admin_requeue`. What an action does to rows and jobs is stated once (`Effect`) and used by
all three layers.

*InitInv* says who holds which lock (`LocksHeld`); hence the transactions past the lock
of a deployment are one (lemma `OneHolder`), and what a creator commits is new to every
other (`CommitSafe`). `SchemasFirst` tracks the schema, which the lock does not protect:
whoever finds it missing holds a lock that no later creator of it has. For the names,
`Asked` ties what a Django process initialises to its settings.

In `Results` a connection has one owner (`ConnOwned`), the row of a message holds the
last result stored (`RowIsLast`), and a notification in an owner's queue is of a result
no older than its call and no newer than the last one (`NewsOnly`); who waits with an
empty queue has therefore missed nothing. In `Notifier` the subscriptions are followed
through `ensure_conn` (`Followed`): unless they changed since the mark was cleared, what
is listened to and what is still to be listened to are all of them.

Only model-checked: liveness (`EventuallySettled`, `CrashRecovery`, `CallReturns`,
`SubscriptionHeard`, `MissedNotifyHarmless`, `StopEnds`), which under fairness is beyond
the proof system (its maintenance is that which `PunctualNext` allows: a first heartbeat
that is under way commits, so some maintenance is allowed again and again). Every other
property that a run finds to hold is proved.

## 6. Not modelled

The size of the pool against its users (see above); argument parsing, `stats`, the
rendering of the admin and its filters, Django's own database connections and the
middleware that closes them (no state the properties speak of); contents of
messages and results, encodings, dramatiq's middleware other than Retries and Results;
FIFO order of `available_at, position`; which database an alias points to; the durations
of `poll_interval` and `timeout // 1000`, which decide when and not whether a step
happens. A `heartbeat_at` is written and compared by one database server's clock; the
worker page of the admin compares it with the web server's, whose skew is not modelled.

## 7. Plan

Done: the queue (`QueueTable`, `Delivery`), its promise (`AtLeastOnce`) and their proofs;
`Results`, `Notifier`, `LeaseClock`, `Deployments` and `Admin` with theirs. Next:

1. What can be said with `stall` and `recover`, where a message may be executed twice:
   that no claim is executed twice, say, for which `DeliveriesDistinct` has to be had
   from weaker facts.
2. `ConnPool`: consumers and the Notifier that keep a connection each against the
   size of the pool, and what waits for the rest.
