-------------------------- MODULE Deployments_proofs --------------------------
(***************************************************************************)
(* Theorems about Deployments: for every number of processes, schemas and  *)
(* prefixes, and however the names of the advisory locks hash, processes   *)
(* that initialise one deployment at a time never get in each other's way, *)
(* and what is configured for a deployment names its tables.               *)
(***************************************************************************)
EXTENDS Deployments, TLAPS

LEMMA Types ==
  /\ Default \in Deployments
  /\ MigrationTarget(settings) = Resolved(settings)
  /\ \A o \in Offered : Resolved(o) \in Deployments
  /\ \A o \in Offered, d \in Deployments : Built(d, o) \in {d, Resolved(o)}
  /\ \A o \in Offered : Built(Default, o) = Resolved(o)
  /\ \A o \in Offered : Built(Resolved(o), o) = Resolved(o)
  /\ \A d \in Deployments :
       LockKey[d] \in LockKeys /\ d[1] \in Schemas /\ d[2] \in Prefixes /\ d = <<d[1], d[2]>>
  /\ Nobody \notin Processes
BY DeploymentsAssumption
   DEF Default, Deployments, Resolved, Built, Options, MigrationTarget

(* What a configuration writes. *)
LEMMA ConfigureType ==
  ASSUME TypeOK, NEW p \in Processes, NEW ms, NEW o,
         Resolved(o) \in Deployments, \A d \in Deployments : Built(d, o) \in Deployments,
         Configure(p, ms, o)
  PROVE  /\ names' \in [Processes -> [Managers -> Deployments]]
         /\ wanted' \in [Processes -> [Managers -> SUBSET Deployments]]
         /\ \A q \in Processes \ {p} : names'[q] = names[q] /\ wanted'[q] = wanted[q]
         /\ \A m \in Managers :
              /\ names'[p][m] = IF m \in ms THEN Built(names[p][m], o) ELSE names[p][m]
              /\ wanted'[p][m] = IF m \in ms THEN wanted[p][m] \cup {Resolved(o)} ELSE wanted[p][m]
<1> DEFINE n == [m \in Managers |-> IF m \in ms THEN Built(names[p][m], o) ELSE names[p][m]]
           w == [m \in Managers |-> IF m \in ms THEN wanted[p][m] \cup {Resolved(o)} ELSE wanted[p][m]]
<1>1. names' = [names EXCEPT ![p] = n] /\ wanted' = [wanted EXCEPT ![p] = w]
  BY DEF Configure
<1>2. n \in [Managers -> Deployments] /\ w \in [Managers -> SUBSET Deployments]
  BY DEF TypeOK
<1>3. /\ \A m \in Managers : n[m] = IF m \in ms THEN Built(names[p][m], o) ELSE names[p][m]
      /\ \A m \in Managers :
           w[m] = IF m \in ms THEN wanted[p][m] \cup {Resolved(o)} ELSE wanted[p][m]
  OBVIOUS
<1> HIDE DEF n, w
<1> QED BY <1>1, <1>2, <1>3 DEF TypeOK

(* The command line's options are never left out. *)
LEMMA CliOptions ==
  ASSUME NEW d \in Deployments
  PROVE  LET o == [schema |-> d[1], prefix |-> d[2], results |-> FALSE]
         IN  Resolved(o) = d /\ \A old : Built(old, o) = d
BY DeploymentsAssumption, Types DEF Resolved, Built

LEMMA ImportedType ==
  /\ Imported \in [Managers -> Deployments]
  /\ Unasked \in [Managers -> SUBSET Deployments]
  /\ \A m \in Managers : Imported[m] = Default /\ Unasked[m] = {}
BY Types DEF Imported, Unasked

-----------------------------------------------------------------------------
LEMMA TypeInit == Init => TypeOK
BY Types, ImportedType, DeploymentsAssumption DEF Init, TypeOK, Running

LEMMA UnlockType ==
  ASSUME TypeOK, NEW p \in Processes, Unlock(p)
  PROVE  /\ holder' \in [LockKeys -> Processes \cup {Nobody}]
         /\ \A k \in LockKeys : holder'[k] = IF holder[k] = p THEN Nobody ELSE holder[k]
BY DEF TypeOK, Unlock

LEMMA EndType == ASSUME TypeOK, NEW p \in Processes, End(p) PROVE TypeOK'
BY Types, ImportedType, UnlockType DEF TypeOK, End, Goto, catalog

LEMMA TypeStep == ASSUME TypeOK, [Next]_vars PROVE TypeOK'
<1> USE DEF catalog, transactions, python
<1>1. CASE UNCHANGED vars
  BY <1>1 DEF vars, TypeOK
<1>2. ASSUME NEW p \in Processes, Ready(p) PROVE TypeOK'
  <2>1. settings \in Offered /\ Configure(p, {"models"} \cup BrokerOwn(settings), settings)
    BY <1>2 DEF Ready, TypeOK
  <2>2. \A d \in Deployments : Built(d, settings) \in Deployments
    BY <2>1, Types
  <2>3. Resolved(settings) \in Deployments
    BY <2>1, Types
  <2>4. /\ names' \in [Processes -> [Managers -> Deployments]]
        /\ wanted' \in [Processes -> [Managers -> SUBSET Deployments]]
    BY <2>1, <2>2, <2>3, ConfigureType
  <2> QED BY <1>2, <2>4 DEF Ready, TypeOK
<1>3. ASSUME NEW p \in Processes, Migrate(p) PROVE TypeOK'
  <2>1. Resolved(settings) \in Deployments
    BY Types DEF TypeOK
  <2> QED BY <1>3, <2>1, Types DEF Migrate, BeginInit, TypeOK, Running
<1>4. ASSUME NEW p \in Processes, NEW o \in Offered, CliInit(p, Resolved(o)) PROVE TypeOK'
  <2> DEFINE d == Resolved(o)
             a == [schema |-> d[1], prefix |-> d[2], results |-> FALSE]
  <2>1. d \in Deployments
    BY Types
  <2>2. Configure(p, {"broker", "cli"}, a) /\ BeginInit(p, d)
    BY <1>4 DEF CliInit
  <2>3. Resolved(a) = d /\ \A old : Built(old, a) = d
    BY <2>1, CliOptions
  <2> HIDE DEF d, a
  <2>4. /\ names' \in [Processes -> [Managers -> Deployments]]
        /\ wanted' \in [Processes -> [Managers -> SUBSET Deployments]]
    BY <2>1, <2>2, <2>3, ConfigureType
  <2> QED BY <2>1, <2>2, <2>4 DEF BeginInit, TypeOK, Running
<1>5. ASSUME NEW p \in Processes, NEW o \in Offered, NewBroker(p, o) \/ NewBackend(p, o)
      PROVE  TypeOK'
  <2>1. PICK ms : Configure(p, ms, o)
    BY <1>5 DEF NewBroker, NewBackend
  <2>2. Resolved(o) \in Deployments /\ \A d \in Deployments : Built(d, o) \in Deployments
    BY Types
  <2>3. /\ names' \in [Processes -> [Managers -> Deployments]]
        /\ wanted' \in [Processes -> [Managers -> SUBSET Deployments]]
    BY <2>1, <2>2, ConfigureType
  <2> QED BY <1>5, <2>3 DEF NewBroker, NewBackend, TypeOK
<1>6. ASSUME NEW p \in Processes, End(p) PROVE TypeOK'
  BY <1>6, EndType
<1>7. ASSUME NEW p \in Processes,
             Lock(p) \/ Check(p) \/ LookForSchema(p) \/ InsertSchema(p) \/ CreateTables(p)
      PROVE  TypeOK'
  <2>1. /\ UNCHANGED <<settings, schemas, installed, target, names, wanted>>
        /\ pc' \in [Processes -> Running \cup {"idle", "done"}]
        /\ made' \subseteq Processes /\ created' \subseteq Processes
    BY <1>7 DEF Lock, Check, LookForSchema, InsertSchema, CreateTables, Goto, TypeOK, Running, Locked
  <2>2. holder' \in [LockKeys -> Processes \cup {Nobody}]
    BY <1>7 DEF Lock, Check, LookForSchema, InsertSchema, CreateTables, TypeOK
  <2> QED BY <2>1, <2>2 DEF TypeOK
<1>8. ASSUME NEW p \in Processes, Commit(p) PROVE TypeOK'
  <2>1. target[p] \in Deployments /\ target[p][1] \in Schemas
    BY Types DEF TypeOK
  <2>2. holder' \in [LockKeys -> Processes \cup {Nobody}]
    BY <1>8, UnlockType DEF Commit
  <2> QED BY <1>8, <2>1, <2>2 DEF Commit, Goto, TypeOK
<1> QED
  BY <1>1, <1>2, <1>3, <1>4, <1>5, <1>6, <1>7, <1>8 DEF Next, Step, Exit, Duplicate

-----------------------------------------------------------------------------
(* The catalog and its transactions. *)

LEMMA InitSafe == Init => InitInv
<1> SUFFICES ASSUME Init PROVE InitInv
  OBVIOUS
<1>1. TypeOK
  BY TypeInit
<1>2. LocksHeld /\ CreatedOnce /\ SchemasFirst
  BY Types DEF Init, LocksHeld, CreatedOnce, SchemasFirst, Locked
<1> QED BY <1>1, <1>2 DEF InitInv

(* Two transactions past the lock of a deployment are one. *)
LEMMA OneHolder ==
  ASSUME InitInv, NEW p \in Processes, NEW q \in Processes,
         pc[p] \in Locked, pc[q] \in Locked, LockKey[target[p]] = LockKey[target[q]]
  PROVE  p = q
BY DEF InitInv, LocksHeld

(* A transaction that ends, by COMMIT or not, gives its lock back. *)
LEMMA UnlockKeeps ==
  ASSUME InitInv, TypeOK', NEW p \in Processes, Unlock(p),
         pc'[p] \notin Locked,
         \A q \in Processes \ {p} : pc'[q] = pc[q] /\ target'[q] = target[q]
  PROVE  LocksHeld'
<1>1. \A k \in LockKeys : holder'[k] = IF holder[k] = p THEN Nobody ELSE holder[k]
  BY UnlockType DEF InitInv
<1>2. \A q \in Processes : LockKey[target[q]] \in LockKeys
  BY Types DEF InitInv, TypeOK
<1>3. \A q \in Processes : LockKey[target'[q]] \in LockKeys
  BY Types DEF TypeOK
<1> QED BY <1>1, <1>2, <1>3, Types DEF InitInv, LocksHeld

LEMMA Members ==
  ASSUME InitInv
  PROVE  SchemasFirst /\ made \subseteq Processes /\ created \subseteq Processes
BY DEF InitInv, TypeOK

LEMMA EndSafe == ASSUME InitInv, NEW p \in Processes, End(p) PROVE InitInv'
<1>1. TypeOK'
  BY EndType DEF InitInv
<1>2. /\ pc'[p] = "idle" /\ p \notin created' /\ p \notin made'
      /\ \A q \in Processes \ {p} :
           /\ pc'[q] = pc[q] /\ target'[q] = target[q]
           /\ (q \in created' <=> q \in created) /\ (q \in made' <=> q \in made)
      /\ made' \subseteq made /\ created' \subseteq created
      /\ schemas' = schemas /\ installed' = installed
  BY DEF End, Goto, InitInv, TypeOK, catalog
<1>3. LocksHeld'
  BY <1>1, <1>2, UnlockKeeps DEF End, Locked
<1>4. CreatedOnce'
  BY <1>2 DEF CreatedOnce, InitInv, Locked
<1>5. SchemasFirst'
  BY <1>2, Members DEF SchemasFirst
<1> QED BY <1>1, <1>3, <1>4, <1>5 DEF InitInv

LEMMA BeginSafe ==
  ASSUME InitInv, TypeOK', NEW p \in Processes, NEW d, BeginInit(p, d) PROVE InitInv'
<1>1. /\ pc[p] = "idle" /\ pc'[p] = "lock" /\ p \notin created /\ p \notin made
      /\ \A q \in Processes \ {p} : pc'[q] = pc[q] /\ target'[q] = target[q]
      /\ UNCHANGED <<holder, created, made, schemas, installed>>
  BY DEF BeginInit, InitInv, TypeOK, CreatedOnce, SchemasFirst, catalog
<1>2. LocksHeld'
  BY <1>1 DEF LocksHeld, InitInv, Locked
<1>3. CreatedOnce'
  BY <1>1 DEF CreatedOnce, InitInv, Locked
<1>4. SchemasFirst'
  BY <1>1, Members DEF SchemasFirst
<1> QED BY <1>2, <1>3, <1>4 DEF InitInv

LEMMA LockSafe == ASSUME InitInv, TypeOK', NEW p \in Processes, Lock(p) PROVE InitInv'
<1>1. /\ pc[p] = "lock" /\ pc'[p] = "check" /\ p \notin created /\ p \notin made
      /\ \A q \in Processes \ {p} : pc'[q] = pc[q]
      /\ UNCHANGED <<target, created, made, schemas, installed>>
      /\ LockKey[target[p]] \in LockKeys
      /\ holder[LockKey[target[p]]] = Nobody
      /\ holder' = [holder EXCEPT ![LockKey[target[p]]] = p]
  BY Types DEF Lock, Goto, InitInv, TypeOK, CreatedOnce, SchemasFirst, catalog
<1>2. LocksHeld'
  <2>1. \A q \in Processes \ {p} : pc[q] \in Locked => LockKey[target[q]] # LockKey[target[p]]
    BY <1>1, Types DEF LocksHeld, InitInv
  <2>2. \A k \in LockKeys : holder'[k] = IF k = LockKey[target[p]] THEN p ELSE holder[k]
    BY <1>1 DEF InitInv, TypeOK
  <2>3. \A q \in Processes : LockKey[target[q]] \in LockKeys
    BY Types DEF InitInv, TypeOK
  <2> QED BY <1>1, <2>1, <2>2, <2>3, Types DEF LocksHeld, InitInv, Locked
<1>3. CreatedOnce'
  BY <1>1 DEF CreatedOnce, InitInv, Locked
<1>4. SchemasFirst'
  BY <1>1, Members DEF SchemasFirst
<1> QED BY <1>2, <1>3, <1>4 DEF InitInv

(* The steps that stay past the lock. *)
LEMMA CheckSafe == ASSUME InitInv, TypeOK', NEW p \in Processes, Check(p) PROVE InitInv'
<1>1. /\ pc[p] = "check" /\ p \notin created /\ p \notin made
      /\ \A q \in Processes \ {p} : pc'[q] = pc[q] /\ (q \in created' <=> q \in created)
      /\ UNCHANGED <<target, made, schemas, installed, holder>>
      /\ IF target[p] \in installed THEN pc'[p] = "commit" /\ created' = created
                                    ELSE pc'[p] = "schema" /\ created' = created \cup {p}
  BY DEF Check, TablesThere, Goto, InitInv, TypeOK, CreatedOnce, SchemasFirst, catalog
<1>2. LocksHeld'
  BY <1>1 DEF LocksHeld, InitInv, Locked
<1>3. CreatedOnce'
  BY <1>1 DEF CreatedOnce, InitInv, Locked
<1>4. SchemasFirst'
  BY <1>1, Members DEF SchemasFirst
<1> QED BY <1>2, <1>3, <1>4 DEF InitInv

LEMMA LookSafe == ASSUME InitInv, TypeOK', NEW p \in Processes, LookForSchema(p) PROVE InitInv'
<1>1. /\ pc[p] = "schema" /\ p \in created /\ p \notin made
      /\ \A q \in Processes \ {p} : pc'[q] = pc[q]
      /\ UNCHANGED <<target, created, made, schemas, installed, holder>>
      /\ pc'[p] = IF target[p][1] \in schemas THEN "tables" ELSE "insert"
  BY DEF LookForSchema, Goto, InitInv, TypeOK, CreatedOnce, SchemasFirst, catalog
<1>2. LocksHeld'
  BY <1>1 DEF LocksHeld, InitInv, Locked
<1>3. CreatedOnce'
  BY <1>1 DEF CreatedOnce, InitInv, Locked
<1>4. SchemasFirst'
  BY <1>1, Members DEF SchemasFirst
<1> QED BY <1>2, <1>3, <1>4 DEF InitInv

LEMMA InsertSafe == ASSUME InitInv, TypeOK', NEW p \in Processes, InsertSchema(p) PROVE InitInv'
<1>1. /\ pc[p] = "insert" /\ pc'[p] = "tables" /\ p \in created
      /\ \A q \in Processes \ {p} : pc'[q] = pc[q]
      /\ UNCHANGED <<target, created, schemas, installed, holder>>
      /\ made' = made \cup {p}
      /\ target[p][1] \notin schemas
      /\ \A q \in made \ {p} : target[q][1] # target[p][1]
  BY DEF InsertSchema, Contested, Exists, Goto, InitInv, TypeOK, CreatedOnce, catalog
<1>2. LocksHeld'
  BY <1>1 DEF LocksHeld, InitInv, Locked
<1>3. CreatedOnce'
  BY <1>1 DEF CreatedOnce, InitInv, Locked
<1>4. SchemasFirst'
  BY <1>1, Members DEF SchemasFirst
<1> QED BY <1>2, <1>3, <1>4 DEF InitInv

LEMMA TablesSafe == ASSUME InitInv, TypeOK', NEW p \in Processes, CreateTables(p) PROVE InitInv'
<1>1. /\ pc[p] = "tables" /\ pc'[p] = "commit" /\ p \in created
      /\ \A q \in Processes \ {p} : pc'[q] = pc[q]
      /\ UNCHANGED <<target, created, made, schemas, installed, holder>>
  BY DEF CreateTables, Goto, InitInv, TypeOK, CreatedOnce, catalog
<1>2. LocksHeld'
  BY <1>1 DEF LocksHeld, InitInv, Locked
<1>3. CreatedOnce'
  BY <1>1 DEF CreatedOnce, InitInv, Locked
<1>4. SchemasFirst'
  BY <1>1, Members DEF SchemasFirst
<1> QED BY <1>2, <1>3, <1>4 DEF InitInv

(* What a creator commits is new to the others: they hold other locks. *)
LEMMA CommitSafe == ASSUME InitInv, TypeOK', NEW p \in Processes, Commit(p) PROVE InitInv'
<1> DEFINE d == target[p]
<1>1. /\ pc[p] = "commit" /\ pc'[p] = "done" /\ p \notin created' /\ p \notin made'
      /\ \A q \in Processes \ {p} :
           /\ pc'[q] = pc[q]
           /\ (q \in created' <=> q \in created) /\ (q \in made' <=> q \in made)
      /\ made' \subseteq made /\ created' \subseteq created
      /\ target' = target
      /\ schemas' = IF p \in made THEN schemas \cup {d[1]} ELSE schemas
      /\ installed' = IF p \in created THEN installed \cup {d} ELSE installed
  BY DEF Commit, Goto, InitInv, TypeOK
<1>2. \A q \in Processes \ {p} : pc[q] \in Locked => LockKey[target[q]] # LockKey[d]
  BY <1>1, OneHolder DEF Locked
<1>3. LocksHeld'
  BY <1>1, UnlockKeeps DEF Commit, Locked
<1>4. CreatedOnce'
  <2>1. \A q \in Processes \ {p} : pc[q] \in Locked => target[q] # d
    BY <1>2
  <2>2. d \in installed'
    BY <1>1 DEF InitInv, CreatedOnce
  <2> QED BY <1>1, <2>1, <2>2 DEF CreatedOnce, InitInv, Locked
<1>5. SchemasFirst'
  <2>1. p \in made => p \in created
    BY DEF InitInv, SchemasFirst
  <2>2. p \in created => d[1] \in schemas'
    BY <1>1 DEF InitInv, SchemasFirst
  <2>3. /\ \A e \in installed' : e[1] \in schemas'
        /\ \A s \in schemas' : \E e \in installed' : e[1] = s
    BY <1>1, <2>1, <2>2 DEF InitInv, SchemasFirst
  <2>4. \A q \in Processes, e \in installed' :
           pc'[q] = "insert" /\ e[1] = target[q][1] => LockKey[e] # LockKey[target[q]]
    BY <1>1, <1>2 DEF InitInv, SchemasFirst, Locked
  <2>5. \A q \in made' : pc'[q] \in {"tables", "commit"} /\ q \in created' /\ target[q][1] \notin schemas'
    BY <1>1 DEF InitInv, SchemasFirst, TypeOK
  <2>6. \A q, r \in made' : target[q][1] = target[r][1] => q = r
    BY <1>1 DEF InitInv, SchemasFirst
  <2>7. \A q \in created' : pc'[q] \in {"tables", "commit"} => q \in made' \/ target[q][1] \in schemas'
    BY <1>1 DEF InitInv, SchemasFirst, TypeOK
  <2> QED BY <1>1, <2>3, <2>4, <2>5, <2>6, <2>7 DEF SchemasFirst
<1> QED BY <1>3, <1>4, <1>5 DEF InitInv

LEMMA InitSafeStep == InitInv /\ [Next]_vars => InitInv'
<1> SUFFICES ASSUME InitInv, [Next]_vars PROVE InitInv'
  OBVIOUS
<1>t. TypeOK'
  BY TypeStep DEF InitInv
<1>1. CASE UNCHANGED <<catalog, transactions>>
  BY <1>1, <1>t DEF catalog, transactions, InitInv, LocksHeld, CreatedOnce, SchemasFirst
<1>2. ASSUME NEW p \in Processes, NEW d, BeginInit(p, d) PROVE InitInv'
  BY <1>2, <1>t, BeginSafe
<1>3. ASSUME NEW p \in Processes, Step(p) PROVE InitInv'
  BY <1>3, <1>t, LockSafe, CheckSafe, LookSafe, InsertSafe, TablesSafe, CommitSafe, EndSafe
     DEF Step, Duplicate
<1>4. ASSUME NEW p \in Processes, Exit(p) PROVE InitInv'
  BY <1>4, EndSafe DEF Exit
<1> QED
  BY <1>1, <1>2, <1>3, <1>4 DEF Next, vars, Ready, Migrate, CliInit, NewBroker, NewBackend

(* InitInv: processes that initialise the schema at a time take turns for one
   deployment, create it once, and return only when its tables are in place; the
   docstring of schema.init. *)
THEOREM InitIsSafe == Spec => []InitInv
BY InitSafe, InitSafeStep, PTL DEF Spec

(* WaitsEnd: no init waits in a circle, nor for a process that is not initialising. *)
THEOREM InitsDoNotDeadlock == Spec => []WaitsEnd
<1>1. ASSUME InitInv PROVE WaitsEnd
  <2>1. ASSUME NEW p \in Processes, pc[p] = "lock", holder[LockKey[target[p]]] # Nobody
        PROVE  pc[holder[LockKey[target[p]]]] \in Locked
    <3>1. LockKey[target[p]] \in LockKeys
      BY <1>1, Types DEF InitInv, TypeOK
    <3>2. holder[LockKey[target[p]]] \in Processes
      BY <1>1, <2>1, <3>1 DEF InitInv, TypeOK
    <3> QED BY <1>1, <3>1, <3>2 DEF InitInv, LocksHeld
  <2>2. ASSUME NEW p \in Processes, pc[p] = "insert", Contested(p)
        PROVE  \E q \in made \ {p} :
                 target[q][1] = target[p][1] /\ pc[q] \in Locked \ {"insert"} /\ ~Contested(q)
    <3>1. PICK q \in made \ {p} : target[q][1] = target[p][1]
      BY <2>2 DEF Contested
    <3>2. q \in Processes /\ pc[q] \in {"tables", "commit"}
      BY <1>1 DEF InitInv, TypeOK, SchemasFirst
    <3>3. ~Contested(q)
      <4>1. \A r \in created \ {q} : ~(pc[r] = "commit" /\ target[r] = target[q])
        BY <1>1, <3>2, OneHolder DEF InitInv, TypeOK, Locked
      <4> QED BY <3>2, <4>1 DEF Contested
    <3> QED BY <3>1, <3>2, <3>3 DEF Locked
  <2> QED BY <2>1, <2>2 DEF WaitsEnd
<1> QED BY <1>1, InitIsSafe, PTL

(* OnlyOthersClash: a duplicate can only come from another deployment of the schema. *)
THEOREM ClashesAreOfOthers == Spec => []OnlyOthersClash
<1>1. ASSUME InitInv PROVE OnlyOthersClash
  <2> SUFFICES ASSUME NEW p \in Processes, pc[p] \in {"insert", "tables"}, Exists(p)
               PROVE  /\ target[p] \notin installed
                      /\ \E d \in installed :
                           d[1] = target[p][1] /\ LockKey[d] # LockKey[target[p]]
    BY DEF OnlyOthersClash
  <2>1. target[p] \notin installed
    BY <1>1 DEF InitInv, CreatedOnce, Locked
  <2>2. pc[p] = "insert" /\ target[p][1] \in schemas
    BY <2>1 DEF Exists
  <2>3. PICK d \in installed : d[1] = target[p][1]
    BY <1>1, <2>2 DEF InitInv, SchemasFirst
  <2> QED BY <1>1, <2>1, <2>2, <2>3 DEF InitInv, SchemasFirst
<1> QED BY <1>1, InitIsSafe, PTL

-----------------------------------------------------------------------------
(* Names. *)

(* What a process was asked to initialise, and for what it was configured. *)
Asked ==
  /\ \A p \in Processes : IsDjango(p) => wanted[p]["cli"] = {} /\ wanted[p]["models"] = {Resolved(settings)}
  /\ \A p \in Processes :
       pc[p] # "idle" => IsCli(p) \/ (IsDjango(p) /\ target[p] = Resolved(settings))

NamesInv == InitInv /\ OwnTables /\ Asked

LEMMA NamesInit == Init => NamesInv
BY InitSafe, ImportedType DEF Init, NamesInv, OwnTables, Asked, IsDjango, IsCli, Managers

(* A configuration that rewrites what was named for the same deployment, or for none. *)
LEMMA ConfigureNames ==
  ASSUME InitInv, OwnTables, NEW p \in Processes, NEW ms, NEW o,
         Resolved(o) \in Deployments,
         \A d \in Deployments : Built(d, o) \in {d, Resolved(o)},
         Built(Default, o) = Resolved(o), Built(Resolved(o), o) = Resolved(o),
         Configure(p, ms, o)
  PROVE  OwnTables'
<1>1. /\ \A q \in Processes \ {p} : names'[q] = names[q] /\ wanted'[q] = wanted[q]
      /\ \A m \in Managers :
           /\ names'[p][m] = IF m \in ms THEN Built(names[p][m], o) ELSE names[p][m]
           /\ wanted'[p][m] = IF m \in ms THEN wanted[p][m] \cup {Resolved(o)} ELSE wanted[p][m]
  <2>1. TypeOK /\ \A d \in Deployments : Built(d, o) \in Deployments
    BY DEF InitInv
  <2> QED BY <2>1, ConfigureType
<1>2. ASSUME NEW m \in Managers, m \in ms, NEW d \in Deployments, wanted'[p][m] = {d}
      PROVE  names'[p][m] = d
  <2>1. d = Resolved(o) /\ wanted[p][m] \in {{}, {d}}
    BY <1>1, <1>2
  <2>2. names[p][m] \in {Default, Resolved(o)}
    BY <2>1 DEF OwnTables
  <2> QED BY <1>1, <1>2, <2>1, <2>2
<1>3. ASSUME NEW m \in Managers, m \notin ms
      PROVE  names'[p][m] = names[p][m] /\ wanted'[p][m] = wanted[p][m]
  BY <1>1, <1>3
<1>4. \A m \in Managers : m \in ms => wanted'[p][m] # {}
  BY <1>1
<1>5. ASSUME NEW m \in Managers
      PROVE  /\ wanted'[p][m] = {} => names'[p][m] = Default
             /\ \A d \in Deployments : wanted'[p][m] = {d} => names'[p][m] = d
  BY <1>2, <1>3, <1>4 DEF OwnTables
<1> QED BY <1>1, <1>5 DEF OwnTables

LEMMA EndNames ==
  ASSUME NamesInv, NEW p \in Processes, End(p) PROVE OwnTables' /\ Asked'
<1>1. /\ names'[p] = Imported /\ wanted'[p] = Unasked /\ pc'[p] = "idle"
      /\ \A q \in Processes \ {p} :
           names'[q] = names[q] /\ wanted'[q] = wanted[q] /\ pc'[q] = pc[q] /\ target'[q] = target[q]
      /\ settings' = settings
  BY DEF End, Goto, NamesInv, InitInv, TypeOK
<1> QED BY <1>1, ImportedType DEF NamesInv, OwnTables, Asked, IsDjango, IsCli, Managers

LEMMA NamesStep == NamesInv /\ [Next]_vars => NamesInv'
<1> SUFFICES ASSUME NamesInv, [Next]_vars PROVE OwnTables' /\ Asked'
  BY InitSafeStep DEF NamesInv
<1> USE DEF catalog, transactions, python
<1>0. settings \in Offered
  BY DEF NamesInv, InitInv, TypeOK
<1>1. CASE UNCHANGED vars
  BY <1>1 DEF vars, NamesInv, OwnTables, Asked, IsDjango, IsCli
<1>2. ASSUME NEW p \in Processes, Ready(p) PROVE OwnTables' /\ Asked'
  <2> DEFINE ms == {"models"} \cup BrokerOwn(settings)
  <2>1. Configure(p, ms, settings) /\ ~IsCli(p) /\ ~IsDjango(p) /\ UNCHANGED <<settings, pc, target>>
    BY <1>2 DEF Ready
  <2>2. OwnTables'
    BY <1>0, <2>1, Types, ConfigureNames DEF NamesInv
  <2>3. /\ \A q \in Processes \ {p} : wanted'[q] = wanted[q]
        /\ \A m \in Managers :
             wanted'[p][m] = IF m \in ms THEN wanted[p][m] \cup {Resolved(settings)} ELSE wanted[p][m]
    <3>1. Resolved(settings) \in Deployments /\ \A d \in Deployments : Built(d, settings) \in Deployments
      BY <1>0, Types
    <3>2. TypeOK
      BY DEF NamesInv, InitInv
    <3> HIDE DEF ms
    <3> QED BY <2>1, <3>1, <3>2, ConfigureType
  <2>4. wanted'[p]["cli"] = {} /\ wanted'[p]["models"] = {Resolved(settings)} /\ pc[p] = "idle"
    BY <2>1, <2>3 DEF IsCli, IsDjango, Managers, BrokerOwn, NamesInv, Asked
  <2> QED BY <2>1, <2>2, <2>3, <2>4 DEF NamesInv, Asked, IsCli, IsDjango
<1>3. ASSUME NEW p \in Processes, Migrate(p) PROVE OwnTables' /\ Asked'
  <2>1. /\ IsDjango(p) /\ UNCHANGED <<settings, names, wanted>>
        /\ target'[p] = Resolved(settings)
        /\ \A q \in Processes \ {p} : pc'[q] = pc[q] /\ target'[q] = target[q]
    BY <1>3, Types DEF Migrate, BeginInit, NamesInv, InitInv, TypeOK
  <2> QED BY <2>1 DEF NamesInv, OwnTables, Asked, IsDjango, IsCli
<1>4. ASSUME NEW p \in Processes, NEW o \in Offered, CliInit(p, Resolved(o))
      PROVE  OwnTables' /\ Asked'
  <2> DEFINE d == Resolved(o)
             a == [schema |-> d[1], prefix |-> d[2], results |-> FALSE]
  <2>1. d \in Deployments
    BY Types
  <2>2. Configure(p, {"broker", "cli"}, a) /\ BeginInit(p, d) /\ wanted[p] = Unasked
    BY <1>4 DEF CliInit
  <2>3. Resolved(a) = d /\ \A old : Built(old, a) = d
    BY <2>1, CliOptions
  <2> HIDE DEF d, a
  <2>4. OwnTables'
    BY <2>1, <2>2, <2>3, ConfigureNames DEF NamesInv
  <2>5. /\ \A q \in Processes \ {p} : wanted'[q] = wanted[q]
        /\ \A m \in Managers :
             wanted'[p][m] = IF m \in {"broker", "cli"} THEN wanted[p][m] \cup {d} ELSE wanted[p][m]
    <3>1. TypeOK
      BY DEF NamesInv, InitInv
    <3> DEFINE ms == {"broker", "cli"}
    <3>3. \A m \in Managers : m \in ms <=> m \in {"broker", "cli"}
      OBVIOUS
    <3>4. Configure(p, ms, a)
      BY <2>2
    <3> HIDE DEF ms
    <3>5. /\ \A q \in Processes \ {p} : wanted'[q] = wanted[q]
          /\ \A m \in Managers :
               wanted'[p][m] = IF m \in ms THEN wanted[p][m] \cup {Resolved(a)} ELSE wanted[p][m]
      <4>1. Resolved(a) \in Deployments /\ \A e \in Deployments : Built(e, a) \in Deployments
        BY <2>1, <2>3
      <4> QED BY <3>1, <3>4, <4>1, ConfigureType
    <3> QED BY <2>3, <3>3, <3>5
  <2>6. wanted'[p]["cli"] # {} /\ wanted'[p]["models"] = {}
    BY <2>2, <2>5, ImportedType DEF Managers
  <2>7. /\ \A q \in Processes \ {p} : pc'[q] = pc[q] /\ target'[q] = target[q]
        /\ settings' = settings
    BY <2>2 DEF BeginInit, NamesInv, InitInv, TypeOK
  <2>8. Asked'
    <3>1. \A q \in Processes \ {p} : wanted'[q] = wanted[q]
      BY <2>5
    <3>2. Resolved(settings') = Resolved(settings)
      BY <2>7
    <3>3. ASSUME NEW q \in Processes \ {p}
          PROVE  /\ IsDjango(q)' => wanted'[q]["cli"] = {} /\ wanted'[q]["models"] = {Resolved(settings)}
                 /\ pc'[q] # "idle" => IsCli(q)' \/ (IsDjango(q)' /\ target'[q] = Resolved(settings))
      BY <2>7, <3>1 DEF NamesInv, Asked, IsCli, IsDjango
    <3>4. IsCli(p)' /\ ~IsDjango(p)'
      BY <2>6 DEF IsCli, IsDjango
    <3> QED BY <3>2, <3>3, <3>4 DEF Asked, IsCli, IsDjango
  <2> QED BY <2>4, <2>8
<1>5. ASSUME NEW p \in Processes, NEW o \in Offered, NewBroker(p, o) \/ NewBackend(p, o)
      PROVE  OwnTables' /\ Asked'
  <2>1. PICK ms \in {BrokerOwn(o), {"results"}} : Configure(p, ms, o)
    BY <1>5 DEF NewBroker, NewBackend
  <2>2. OwnTables'
    BY <2>1, Types, ConfigureNames DEF NamesInv
  <2>3. /\ \A q \in Processes \ {p} : wanted'[q] = wanted[q]
        /\ \A m \in Managers :
             wanted'[p][m] = IF m \in ms THEN wanted[p][m] \cup {Resolved(o)} ELSE wanted[p][m]
    <3>1. Resolved(o) \in Deployments /\ \A d \in Deployments : Built(d, o) \in Deployments
      BY Types
    <3>2. TypeOK
      BY DEF NamesInv, InitInv
    <3> QED BY <2>1, <3>1, <3>2, ConfigureType
  <2>4. wanted'[p]["cli"] = wanted[p]["cli"] /\ wanted'[p]["models"] = wanted[p]["models"]
    BY <2>1, <2>3 DEF Managers, BrokerOwn
  <2>5. UNCHANGED <<settings, pc, target>>
    BY <1>5 DEF NewBroker, NewBackend
  <2> QED BY <2>2, <2>3, <2>4, <2>5 DEF NamesInv, Asked, IsCli, IsDjango
<1>6. ASSUME NEW p \in Processes, End(p) PROVE OwnTables' /\ Asked'
  BY <1>6, EndNames
<1>7. ASSUME NEW p \in Processes,
             \/ Lock(p) \/ Check(p) \/ LookForSchema(p) \/ InsertSchema(p)
             \/ CreateTables(p) \/ Commit(p)
      PROVE  OwnTables' /\ Asked'
  <2>1. /\ UNCHANGED <<settings, target, names, wanted>>
        /\ pc[p] # "idle"
        /\ \A q \in Processes \ {p} : pc'[q] = pc[q]
    BY <1>7 DEF Lock, Check, LookForSchema, InsertSchema, CreateTables, Commit, Goto,
                NamesInv, InitInv, TypeOK
  <2> QED BY <2>1 DEF NamesInv, OwnTables, Asked, IsDjango, IsCli
<1> QED
  BY <1>1, <1>2, <1>3, <1>4, <1>5, <1>6, <1>7 DEF Next, Step, Exit, Duplicate

(* OwnTables: one deployment configured, one deployment named, in every process. *)
THEOREM NamesAreOwn == Spec => []OwnTables
<1>1. NamesInv => OwnTables
  BY DEF NamesInv
<1> QED BY <1>1, NamesInit, NamesStep, PTL DEF Spec

(* MigratedTablesFound: what the migration created is what models and queries name. *)
THEOREM MigrationServesAll == Spec => []MigratedTablesFound
<1>1. ASSUME NamesInv PROVE MigratedTablesFound
  <2> SUFFICES ASSUME NEW p \in Processes, NEW q \in Processes, IsDjango(p), pc[p] = "done",
                      NEW m \in Managers, wanted[q][m] = {Resolved(settings)}
               PROVE  names[q][m] \in installed
    BY DEF MigratedTablesFound
  <2>1. target[p] = Resolved(settings) /\ target[p] \in installed
    BY <1>1 DEF NamesInv, Asked, IsCli, InitInv, CreatedOnce
  <2>2. Resolved(settings) \in Deployments
    BY <1>1, Types DEF NamesInv, InitInv, TypeOK
  <2> QED BY <1>1, <2>1, <2>2 DEF NamesInv, OwnTables
<1> QED BY <1>1, NamesInit, NamesStep, PTL DEF Spec
===============================================================================
