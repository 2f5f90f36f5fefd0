----------------------------- MODULE Deployments -----------------------------
(***************************************************************************)
(* Which tables a process works on, and how they come to be.  A deployment *)
(* is a schema and a prefix of table names.  schema.init creates its       *)
(* tables, for the command line and for Django's migration, in one         *)
(* transaction that starts with an advisory lock; any number of processes  *)
(* may do so at a time, and may fail or die at any step.                   *)
(*                                                                         *)
(* The texts of the queries are globals of the Python process: every       *)
(* broker and every result backend that is constructed rewrites them, but  *)
(* leaves them alone when it is given neither a schema nor a prefix.       *)
(* Django's models are retargeted by a function of their own, and the      *)
(* migration resolves the same settings by a third.                        *)
(***************************************************************************)
EXTENDS Naturals, FiniteSets

CONSTANTS Processes,
          Nobody,         \* the holder of a free lock
          Schemas,
          DefaultSchema,  \* 'dramatiq'
          Prefixes,
          NoPrefix,       \* '', and None: the code does not tell them apart
          NotSet,         \* no schema among the options: None or ''
          LockKeys,
          LockKey,        \* hashtext of a deployment's name; may collide
          Offered,        \* bound: the options that brokers and Django are given
          MaxBuilt,       \* bound: a process with so many deployments builds one more
          Apps            \* bound: the processes that construct brokers and do not initialise

Deployments == Schemas \X Prefixes

(* What a broker, or OPTIONS of the setting DRAMATIQ_BROKER, is given. *)
Options == [schema : Schemas \cup {NotSet}, prefix : Prefixes, results : BOOLEAN]

ASSUME DeploymentsAssumption ==
  /\ DefaultSchema \in Schemas /\ NotSet \notin Schemas
  /\ NoPrefix \in Prefixes
  /\ LockKey \in [Deployments -> LockKeys]
  /\ Nobody \notin Processes
  /\ Offered \subseteq Options /\ Apps \subseteq Processes

VARIABLES
  settings,   \* Django's options, the same in each of its processes
  schemas,    \* committed schemas
  installed,  \* deployments with committed tables
  holder,     \* who holds each advisory lock
  pc,         \* where each process is in init
  target,     \* the deployment it initialises
  made,       \* the processes that created a schema in their transaction
  created,    \* the processes whose init found no tables, and will return True
  names,      \* the deployment that each group of query texts of a process names
  wanted      \* the deployments that it was configured for

catalog == <<schemas, installed>>
transactions == <<holder, pc, target, made, created>>
python == <<names, wanted>>
vars == <<settings, catalog, transactions, python>>

(* The three QueryManagers, and the table names of the models. *)
Managers == {"broker", "results", "cli", "models"}

Locked == {"check", "schema", "insert", "tables", "commit"}
Running == {"lock"} \cup Locked

TypeOK ==
  /\ settings \in Offered
  /\ schemas \subseteq Schemas
  /\ installed \subseteq Deployments
  /\ holder \in [LockKeys -> Processes \cup {Nobody}]
  /\ pc \in [Processes -> Running \cup {"idle", "done"}]
  /\ target \in [Processes -> Deployments]
  /\ made \subseteq Processes
  /\ created \subseteq Processes
  /\ names \in [Processes -> [Managers -> Deployments]]
  /\ wanted \in [Processes -> [Managers -> SUBSET Deployments]]

Default == <<DefaultSchema, NoPrefix>>

(* A process that has just imported the modules. *)
Imported == [m \in Managers |-> Default]
Unasked == [m \in Managers |-> {}]

Init ==
  /\ settings \in Offered
  /\ schemas = {}
  /\ installed = {}
  /\ holder = [k \in LockKeys |-> Nobody]
  /\ pc = [p \in Processes |-> "idle"]
  /\ target = [p \in Processes |-> Default]
  /\ made = {}
  /\ created = {}
  /\ names = [p \in Processes |-> Imported]
  /\ wanted = [p \in Processes |-> Unasked]

-----------------------------------------------------------------------------
(* Names. *)

(* schema or "dramatiq", prefix or "". *)
Resolved(o) == <<IF o.schema = NotSet THEN DefaultSchema ELSE o.schema, o.prefix>>

(* What the migration makes of the settings.  Fault: the prefix is forgotten. *)
MigrationWithoutPrefix(o) == <<Resolved(o)[1], NoPrefix>>
MigrationTarget(o) == Resolved(o)

(* build_queries: without a schema and a prefix the names stay what they are.  Fault:
   the schema alone decides. *)
BuiltForSchema(old, o) == IF o.schema = NotSet THEN old ELSE Resolved(o)
Built(old, o) == IF o.schema = NotSet /\ o.prefix = NoPrefix THEN old ELSE Resolved(o)

(* Process p is configured with options o for each group of names in ms. *)
Configure(p, ms, o) ==
  /\ names' = [names EXCEPT ![p] =
       [m \in Managers |-> IF m \in ms THEN Built(@[m], o) ELSE @[m]]]
  /\ wanted' = [wanted EXCEPT ![p] =
       [m \in Managers |-> IF m \in ms THEN @[m] \cup {Resolved(o)} ELSE @[m]]]

(* A process is the command line, a process of Django, or any other program. *)
IsCli(p) == wanted[p]["cli"] # {}
IsDjango(p) == wanted[p]["models"] # {}

-----------------------------------------------------------------------------
(* Processes. *)

(* The bound. *)
MayBuild(p) == Cardinality(UNION {wanted[p][m] : m \in Managers}) <= MaxBuilt

(* The broker builds the texts of its result backend first, if it has one. *)
BrokerOwn(o) == {"broker"} \cup IF o.results THEN {"results"} ELSE {}

NewBroker(p, o) ==
  /\ p \in Apps /\ MayBuild(p)
  /\ Configure(p, BrokerOwn(o), o)
  /\ UNCHANGED <<settings, catalog, transactions>>

NewBackend(p, o) ==
  /\ p \in Apps /\ MayBuild(p)
  /\ Configure(p, {"results"}, o)
  /\ UNCHANGED <<settings, catalog, transactions>>

(* AppConfig.ready, once in a process: the models, then the broker. *)
Ready(p) ==
  /\ ~IsCli(p) /\ ~IsDjango(p)
  /\ Configure(p, {"models"} \cup BrokerOwn(settings), settings)
  /\ UNCHANGED <<settings, catalog, transactions>>

BeginInit(p, d) ==
  /\ pc[p] = "idle"
  /\ pc' = [pc EXCEPT ![p] = "lock"]
  /\ target' = [target EXCEPT ![p] = d]
  /\ UNCHANGED <<settings, catalog, holder, made, created>>

Migrate(p) ==
  /\ p \notin Apps /\ IsDjango(p)
  /\ BeginInit(p, MigrationTarget(settings))
  /\ UNCHANGED python

(* main gives both QueryManagers the arguments, whose default is the stock name. *)
CliInit(p, d) ==
  /\ p \notin Apps /\ wanted[p] = Unasked
  /\ Configure(p, {"broker", "cli"}, [schema |-> d[1], prefix |-> d[2], results |-> FALSE])
  /\ BeginInit(p, d)

-----------------------------------------------------------------------------
(* schema.init, step by step. *)

Goto(p, label) == pc' = [pc EXCEPT ![p] = label]

(* The advisory lock of a transaction goes with it, however it ends.  Fault: a lock
   of the session, which a process that goes on keeps. *)
UnlockAtExit(p) ==
  holder' = [k \in LockKeys |-> IF holder[k] = p /\ pc'[p] = "idle" THEN Nobody ELSE holder[k]]
Unlock(p) == holder' = [k \in LockKeys |-> IF holder[k] = p THEN Nobody ELSE holder[k]]

(* The process ends, and its transaction with it: the command line and the migration
   do so when init raises.  Another process may take its place. *)
End(p) ==
  /\ Goto(p, "idle")
  /\ Unlock(p)
  /\ made' = made \ {p}
  /\ created' = created \ {p}
  /\ target' = [target EXCEPT ![p] = Default]
  /\ names' = [names EXCEPT ![p] = Imported]
  /\ wanted' = [wanted EXCEPT ![p] = Unasked]
  /\ UNCHANGED <<settings, catalog>>

(* Fault: pg_try_advisory_xact_lock, its answer ignored. *)
LockTried(p) ==
  /\ pc[p] = "lock"
  /\ holder' = [holder EXCEPT ![LockKey[target[p]]] = IF @ = Nobody THEN p ELSE @]
  /\ Goto(p, "check")
  /\ UNCHANGED <<settings, catalog, target, made, created, python>>

Lock(p) ==
  /\ pc[p] = "lock"
  /\ holder[LockKey[target[p]]] = Nobody
  /\ holder' = [holder EXCEPT ![LockKey[target[p]]] = p]
  /\ Goto(p, "check")
  /\ UNCHANGED <<settings, catalog, target, made, created, python>>

(* What schema_exists answers.  Fault: it asks for the schema only. *)
SchemaThere(d) == d[1] \in schemas
TablesThere(d) == d \in installed

Check(p) ==
  /\ pc[p] = "check"
  /\ IF TablesThere(target[p])
     THEN Goto(p, "commit") /\ UNCHANGED created
     ELSE Goto(p, "schema") /\ created' = created \cup {p}
  /\ UNCHANGED <<settings, catalog, holder, target, made, python>>

(* CREATE SCHEMA IF NOT EXISTS looks first. *)
LookForSchema(p) ==
  /\ pc[p] = "schema"
  /\ Goto(p, IF target[p][1] \in schemas THEN "tables" ELSE "insert")
  /\ UNCHANGED <<settings, catalog, holder, target, made, created, python>>

(* The unique indexes of the catalog make a statement wait for a transaction that
   created the same schema, or the same type and tables. *)
Contested(p) ==
  IF pc[p] = "insert"
  THEN \E q \in made \ {p} : target[q][1] = target[p][1]
  ELSE \E q \in created \ {p} : pc[q] = "commit" /\ target[q] = target[p]

Exists(p) == IF pc[p] = "insert" THEN target[p][1] \in schemas ELSE target[p] \in installed

InsertSchema(p) ==
  /\ pc[p] = "insert"
  /\ ~Contested(p) /\ ~Exists(p)
  /\ made' = made \cup {p}
  /\ Goto(p, "tables")
  /\ UNCHANGED <<settings, catalog, holder, target, created, python>>

CreateTables(p) ==
  /\ pc[p] = "tables"
  /\ ~Contested(p) /\ ~Exists(p)
  /\ Goto(p, "commit")
  /\ UNCHANGED <<settings, catalog, holder, target, made, created, python>>

(* The other transaction has committed: duplicate key, and init raises. *)
Duplicate(p) ==
  /\ pc[p] \in {"insert", "tables"}
  /\ ~Contested(p) /\ Exists(p)
  /\ End(p)

Commit(p) ==
  /\ pc[p] = "commit"
  /\ schemas' = IF p \in made THEN schemas \cup {target[p][1]} ELSE schemas
  /\ installed' = IF p \in created THEN installed \cup {target[p]} ELSE installed
  /\ made' = made \ {p}
  /\ created' = created \ {p}
  /\ Goto(p, "done")
  /\ Unlock(p)
  /\ UNCHANGED <<settings, target, python>>

(* The process has finished, or is killed; a statement fails; the connection is lost. *)
Exit(p) == wanted[p] # Unasked /\ End(p)

Step(p) ==
  \/ Lock(p) \/ Check(p) \/ LookForSchema(p) \/ InsertSchema(p) \/ CreateTables(p)
  \/ Duplicate(p) \/ Commit(p)

Next ==
  \E p \in Processes :
    \/ Ready(p) \/ Migrate(p) \/ Step(p) \/ Exit(p)
    \/ \E o \in Offered : NewBroker(p, o) \/ NewBackend(p, o) \/ CliInit(p, Resolved(o))

Spec == Init /\ [][Next]_vars

-----------------------------------------------------------------------------
(* Properties. *)

(* Who is past the advisory lock holds it, and nobody else does. *)
LocksHeld ==
  /\ \A p \in Processes : pc[p] \in Locked => holder[LockKey[target[p]]] = p
  /\ \A k \in LockKeys, p \in Processes :
       holder[k] = p => pc[p] \in Locked /\ LockKey[target[p]] = k

(* A transaction that creates a deployment is the only one, and what it creates is not
   there; what it does not create is. *)
CreatedOnce ==
  \A p \in Processes :
    /\ pc[p] \in {"schema", "insert", "tables"} => p \in created
    /\ pc[p] \in {"idle", "lock", "check"} => p \notin created
    /\ p \in created /\ pc[p] \in Locked => target[p] \notin installed
    /\ p \notin created /\ pc[p] = "commit" => target[p] \in installed
    /\ pc[p] = "done" => target[p] \in installed

(* Tables have a schema, of one transaction or of all; a schema that appeared while a
   transaction was about to create it is that of a deployment with another lock. *)
SchemasFirst ==
  /\ \A d \in installed : d[1] \in schemas
  /\ \A s \in schemas : \E d \in installed : d[1] = s
  /\ \A p \in Processes, d \in installed :
       pc[p] = "insert" /\ d[1] = target[p][1] => LockKey[d] # LockKey[target[p]]
  /\ \A p \in made : pc[p] \in {"tables", "commit"} /\ p \in created /\ target[p][1] \notin schemas
  /\ \A p, q \in made : target[p][1] = target[q][1] => p = q
  /\ \A p \in created : pc[p] \in {"tables", "commit"} => p \in made \/ target[p][1] \in schemas

(* schema.init is what its docstring calls idempotent and concurrency-safe, for one
   deployment: processes that initialise it at a time create it once and all of them
   return with its tables in place, whoever fails or dies on the way. *)
InitInv == TypeOK /\ LocksHeld /\ CreatedOnce /\ SchemasFirst

(* No init waits for ever: whoever waits, for the lock or for the transaction that
   created the same schema, waits for a process in its own transaction, and the last
   one it waits for waits for nobody. *)
WaitsEnd ==
  \A p \in Processes :
    /\ pc[p] = "lock" /\ holder[LockKey[target[p]]] # Nobody =>
         pc[holder[LockKey[target[p]]]] \in Locked
    /\ pc[p] = "insert" /\ Contested(p) =>
         \E q \in made \ {p} :
           target[q][1] = target[p][1] /\ pc[q] \in Locked \ {"insert"} /\ ~Contested(q)

(* init raises a duplicate only when another deployment of the same schema was being
   created, which has another lock: never because of its own deployment. *)
OnlyOthersClash ==
  \A p \in Processes :
    pc[p] \in {"insert", "tables"} /\ Exists(p) =>
      /\ target[p] \notin installed
      /\ \E d \in installed : d[1] = target[p][1] /\ LockKey[d] # LockKey[target[p]]

(* The brokers, backends and models of a process name the tables of the deployment it
   was configured for, as long as that is one: whichever of them is constructed first,
   and although options that are left out do not rewrite the module's globals. *)
OwnTables ==
  \A p \in Processes, m \in Managers :
    /\ wanted[p][m] = {} => names[p][m] = Default
    /\ \A d \in Deployments : wanted[p][m] = {d} => names[p][m] = d

(* Once a process of Django has migrated, the models, the broker and the result backend
   of every process of Django find their tables: the migration, the queries and the
   models resolve the settings alike. *)
MigratedTablesFound ==
  \A p, q \in Processes :
    IsDjango(p) /\ pc[p] = "done" /\ IsDjango(q) =>
      \A m \in Managers : wanted[q][m] = {Resolved(settings)} => names[q][m] \in installed
==============================================================================
