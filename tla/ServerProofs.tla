----------------------------- MODULE ServerProofs -----------------------------
(***************************************************************************)
(* Proofs about Server and its Migrations, for any LFS objects and front   *)
(* ends, every database that may be found, and any number of crashes,      *)
(* signals and rollbacks; and about MirrorJob, the job of its scheduler,   *)
(* for any mirrors, any number of overlapping runs and processors, and     *)
(* remotes that change without bound.                                      *)
(***************************************************************************)
EXTENDS Server, MirrorJob, FiniteSetTheorems, TLAPS

-----------------------------------------------------------------------------
(* The inductive invariant                                                 *)

Transactions == [next : 1..4, left : SUBSET Objects, tx : Databases]

Typed ==
    /\ db \in Databases
    /\ files \in [Objects -> {"old", "new"}]
    /\ stuck \in SUBSET Objects
    /\ boot \in {NoBoot} \cup Transactions

\* Objects that some first or later run of the third migration has moved.
Moved(S) == \A o \in S : files[o] = "new"

\* The version recorded stands for its tables and files.
Committed == Recorded(db) /\ (db.version = Latest => Moved(Rows(db) \ stuck))

\* Within the transaction every version up to the next was run, starting from
\* one that is committed.
InOrder ==
    boot # NoBoot =>
        /\ Recorded(boot.tx) /\ "migrations" \in boot.tx.tables
        /\ boot.tx.version = boot.next - 1 /\ db.version < boot.next
        /\ boot.tx.repos = db.repos
        /\ boot.next < 3 => boot.left = Rows(db)
        /\ boot.next = 3 => Moved(Rows(db) \ (stuck \cup boot.left))
        /\ boot.next = 4 => Moved(Rows(db) \ stuck)

\* Only a process that starts has a transaction, and one that serves is done.
Booting ==
    /\ boot # NoBoot => proc = "migrating"
    /\ proc \in {"up", "stopping"} => db.version = Latest

Inv == Typed /\ Committed /\ InOrder /\ Booting

-----------------------------------------------------------------------------
(* Lemmas                                                                  *)

LEMMA NoBootIsNone == NoBoot \notin Transactions /\ NoBoot.next = 0
  BY DEF NoBoot, Transactions

\* A transaction is under way when its next version is one.
LEMMA BootHas ==
    ASSUME Typed, boot.next > 0
    PROVE  boot # NoBoot /\ boot \in Transactions /\ boot.tx \in Databases
  BY NoBootIsNone DEF Typed, Transactions

\* What the process does apart from the database.
LEMMA ProcessStep ==
    ASSUME Inv, UNCHANGED migrateVars,
           \/ proc' = proc
           \/ proc \in {"up", "stopping"} /\ proc' \in {"down", "stopping"}
    PROVE  Inv'
<1>1. Typed' /\ Committed' /\ InOrder'
  BY DEF Inv, Typed, Committed, InOrder, Moved, Rows, Recorded, migrateVars
<1>2. Booting'
  BY DEF Inv, Booting, migrateVars
<1>3. QED
  BY <1>1, <1>2 DEF Inv

\* A transaction that ends without a commit, with its process.
LEMMA AbortedDown ==
    ASSUME Inv, AbortMigrate, proc' = "down" PROVE Inv'
<1>1. UNCHANGED <<db, files, stuck>> /\ boot' = NoBoot
  BY DEF AbortMigrate
<1>2. Typed' /\ Committed' /\ InOrder' /\ Booting'
  BY <1>1 DEF Inv, Typed, Committed, InOrder, Booting, Moved, Rows, Recorded
<1>3. QED
  BY <1>2 DEF Inv

-----------------------------------------------------------------------------
(* The transaction of Migrate                                              *)

LEMMA InitInv == Init => Inv
<1> SUFFICES ASSUME Init PROVE Inv
  OBVIOUS
<1>1. db \in Databases /\ Recorded(db) /\ db.version < Latest
  BY StartAssumption DEF Init, MigrateInit
<1>2. /\ files \in [Objects -> {"old", "new"}] /\ stuck \in SUBSET Objects
      /\ boot = NoBoot /\ proc = "down"
  BY DEF Init, MigrateInit
<1>3. QED
  BY <1>1, <1>2 DEF Inv, Typed, Committed, InOrder, Booting, Latest

LEMMA ServeInv == ASSUME Inv, Serve PROVE Inv'
<1> DEFINE tx == [db EXCEPT !.tables = @ \cup {"migrations"}]
           t == [next |-> db.version + 1, left |-> Rows(db), tx |-> tx]
<1>1. /\ boot' = t /\ UNCHANGED <<db, files, stuck>> /\ proc' = "migrating"
  BY DEF Serve, BeginMigrate, FirstDue
<1>2. /\ db \in Databases /\ db.version \in 0..3 /\ Recorded(db)
      /\ (db.version = 3 => Moved(Rows(db) \ stuck)) /\ Rows(db) \subseteq Objects
  BY DEF Inv, Typed, Committed, Databases, Latest, Rows
<1>3. /\ tx \in Databases /\ tx.version = db.version /\ tx.filled = db.filled
      /\ tx.carried = db.carried /\ tx.tables = db.tables \cup {"migrations"}
      /\ tx.repos = db.repos
  BY <1>2 DEF Databases
<1>4. t \in Transactions /\ t # NoBoot
  BY <1>2, <1>3, NoBootIsNone DEF Transactions
<1>5. Recorded(tx)
  BY <1>2, <1>3 DEF Recorded
<1>6. Typed' /\ Committed'
  BY <1>1, <1>4 DEF Inv, Typed, Committed, Moved, Rows, Recorded
<1>7. InOrder'
  <2>1. boot'.next = db.version + 1 /\ boot'.left = Rows(db) /\ boot'.tx = tx
    BY <1>1
  <2>2. /\ Recorded(tx) /\ "migrations" \in tx.tables
        /\ tx.version = (db.version + 1) - 1 /\ db.version < db.version + 1
        /\ tx.repos = db.repos
        /\ db.version + 1 = 4 => db.version = 3
    BY <1>2, <1>3, <1>5
  <2>3. Rows(db) \ (stuck \cup boot'.left) = {}
    BY <2>1
  <2>4. QED
    BY <1>1, <1>2, <2>1, <2>2, <2>3 DEF InOrder, Moved, Rows, Recorded
<1>8. Booting'
  BY <1>1 DEF Booting
<1>9. QED
  BY <1>6, <1>7, <1>8 DEF Inv

\* Running a migration of tables records one more version with its tables.
LEMMA RunMigrationInv ==
    ASSUME Inv, proc = "migrating", RunMigration, proc' = proc PROVE Inv'
<1> DEFINE t == IF boot.next = 1 THEN createTables(boot.tx) ELSE webhooks(boot.tx)
           tx == [t EXCEPT !.version = boot.next]
<1>1. /\ boot \in Transactions /\ boot # NoBoot /\ boot.tx \in Databases
      /\ boot.next \in {1, 2}
  BY BootHas DEF Inv, RunMigration
<1>2. /\ Recorded(boot.tx) /\ "migrations" \in boot.tx.tables
      /\ boot.tx.version = boot.next - 1 /\ db.version < boot.next
      /\ boot.left = Rows(db) /\ boot.tx.repos = db.repos
  BY <1>1 DEF Inv, InOrder
<1>3. /\ boot' = [boot EXCEPT !.next = boot.next + 1, !.tx = tx]
      /\ UNCHANGED <<db, files, stuck>>
  BY <1>1 DEF RunMigration, Transactions
<1>4. /\ tx \in Databases /\ tx.version = boot.next
      /\ "migrations" \in tx.tables /\ Recorded(tx) /\ tx.repos = db.repos
  <2>1. CASE boot.next = 1
    <3>1. t = createTables(boot.tx)
      BY <2>1
    <3>2. t \in Databases
      BY <1>1, <3>1 DEF createTables, Databases
    <3>3. /\ t.filled = TRUE /\ t.tables = boot.tx.tables \cup {"base"}
          /\ t.repos = boot.tx.repos /\ ("old" \in t.tables => t.carried)
      <4>1. /\ t.filled = TRUE /\ t.tables = boot.tx.tables \cup {"base"}
            /\ t.repos = boot.tx.repos
            /\ t.carried = (boot.tx.carried \/ "old" \in boot.tx.tables)
        BY <1>1, <3>1 DEF createTables, Databases
      <4>2. "old" \in t.tables => "old" \in boot.tx.tables
        BY <4>1
      <4>3. QED
        BY <4>1, <4>2, Zenon
    <3>4. /\ tx \in Databases /\ tx.version = 1 /\ tx.filled = t.filled
          /\ tx.carried = t.carried /\ tx.tables = t.tables /\ tx.repos = t.repos
      BY <2>1, <3>2 DEF Databases
    <3>5. QED
      BY <1>2, <2>1, <3>3, <3>4 DEF Recorded, TablesOf
  <2>2. CASE boot.next = 2
    <3>1. t = webhooks(boot.tx)
      BY <2>2
    <3>2. t \in Databases
      BY <1>1, <3>1 DEF webhooks, Databases
    <3>3. /\ t.filled = boot.tx.filled /\ t.carried = boot.tx.carried
          /\ t.tables = boot.tx.tables \cup {"webhooks"} /\ t.repos = boot.tx.repos
      BY <1>1, <3>1 DEF webhooks, Databases
    <3>4. /\ tx \in Databases /\ tx.version = 2 /\ tx.filled = t.filled
          /\ tx.carried = t.carried /\ tx.tables = t.tables /\ tx.repos = t.repos
      BY <2>2, <3>2 DEF Databases
    <3>5. QED
      BY <1>2, <2>2, <3>3, <3>4 DEF Recorded, TablesOf
  <2>3. QED
    BY <1>1, <2>1, <2>2
<1>5. /\ boot' \in Transactions /\ boot'.next = boot.next + 1 /\ boot'.tx = tx
      /\ boot'.left = Rows(db)
  <2>1. boot.next + 1 \in 1..4
    BY <1>1
  <2>2. QED
    BY <1>1, <1>2, <1>3, <1>4, <2>1 DEF Transactions
<1>6. Typed' /\ Committed'
  BY <1>3, <1>5 DEF Inv, Typed, Committed, Moved, Rows, Recorded
<1>7. InOrder'
  <2>1. Rows(db) \ (stuck \cup boot'.left) = {}
    BY <1>5
  <2>2. /\ Recorded(tx) /\ "migrations" \in tx.tables /\ db.version < boot.next + 1
        /\ tx.version = (boot.next + 1) - 1 /\ boot.next + 1 # 4
        /\ tx.repos = db.repos
    <3>1. db.version \in 0..3
      BY DEF Inv, Typed, Databases
    <3>2. QED
      BY <1>1, <1>2, <1>4, <3>1
  <2>3. QED
    BY <1>3, <1>5, <2>1, <2>2 DEF InOrder, Moved, Rows, Recorded
<1>8. Booting'
  BY <1>3 DEF Inv, Booting
<1>9. QED
  BY <1>6, <1>7, <1>8 DEF Inv

LEMMA MoveObjectInv ==
    ASSUME Inv, proc = "migrating", MoveObject, proc' = proc PROVE Inv'
<1>1. /\ boot \in Transactions /\ boot # NoBoot /\ boot.next = 3
      /\ Recorded(boot.tx) /\ "migrations" \in boot.tx.tables
      /\ boot.tx.version = boot.next - 1 /\ db.version < boot.next
      /\ Moved(Rows(db) \ (stuck \cup boot.left)) /\ boot.tx.repos = db.repos
      /\ Rows(db) \subseteq Objects
  BY BootHas DEF Inv, InOrder, MoveObject, Rows
<1>2. PICK o \in boot.left :
         /\ boot' = [boot EXCEPT !.left = @ \ {o}]
         /\ \/ files' = [files EXCEPT ![o] = "new"] /\ stuck' = stuck \ {o}
            \/ files' = files /\ stuck' = stuck \cup {o}
  BY DEF MoveObject
<1>3. db' = db /\ o \in Objects
  BY <1>1, <1>2 DEF MoveObject, Transactions
<1>4. /\ boot' \in Transactions /\ boot' # NoBoot /\ boot'.next = 3
      /\ boot'.tx = boot.tx /\ boot'.left = boot.left \ {o}
  BY <1>1, <1>2, NoBootIsNone DEF Transactions
<1>5. /\ files' \in [Objects -> {"old", "new"}] /\ stuck' \in SUBSET Objects
      /\ \A p \in Rows(db) \ (stuck' \cup boot'.left) : files'[p] = "new"
  BY <1>1, <1>2, <1>3, <1>4 DEF Inv, Typed, Moved
<1>6. Typed' /\ Committed'
  BY <1>1, <1>3, <1>4, <1>5 DEF Inv, Typed, Committed, Recorded, Latest, Databases, Rows
<1>7. InOrder'
  BY <1>1, <1>3, <1>4, <1>5 DEF InOrder, Moved, Rows, Recorded
<1>8. Booting'
  BY <1>3 DEF Inv, Booting
<1>9. QED
  BY <1>6, <1>7, <1>8 DEF Inv

LEMMA ObjectsMovedInv ==
    ASSUME Inv, proc = "migrating", ObjectsMoved, proc' = proc PROVE Inv'
<1>1. /\ boot \in Transactions /\ boot # NoBoot /\ boot.next = 3
      /\ Recorded(boot.tx) /\ "migrations" \in boot.tx.tables
      /\ boot.tx.version = 2 /\ db.version < boot.next
      /\ boot.left = {} /\ Moved(Rows(db) \ stuck) /\ boot.tx \in Databases
      /\ boot.tx.repos = db.repos
  BY BootHas DEF Inv, InOrder, ObjectsMoved
<1> DEFINE tx == [boot.tx EXCEPT !.version = 3]
<1>2. /\ boot' = [boot EXCEPT !.next = 4, !.tx = tx]
      /\ UNCHANGED <<db, files, stuck>>
  BY <1>1 DEF ObjectsMoved, Transactions
<1>3. /\ tx \in Databases /\ tx.version = 3 /\ tx.tables = boot.tx.tables
      /\ tx.filled = boot.tx.filled /\ tx.carried = boot.tx.carried
      /\ tx.repos = db.repos
  BY <1>1 DEF Databases
<1>4. Recorded(tx)
  BY <1>1, <1>3 DEF Recorded, TablesOf
<1> HIDE DEF tx
<1>5. /\ boot' \in Transactions /\ boot' # NoBoot /\ boot'.next = 4 /\ boot'.tx = tx
  <2>1. boot \in Transactions /\ tx \in Databases
    BY <1>1, <1>3
  <2> DEFINE last == [boot EXCEPT !.next = 4]
  <2>2. last \in Transactions /\ last.next = 4
    BY <2>1 DEF Transactions
  <2>3. boot' = [last EXCEPT !.tx = tx]
    BY <1>2
  <2> HIDE DEF last
  <2>4. boot' \in Transactions /\ boot'.next = 4 /\ boot'.tx = tx
    BY <2>1, <2>2, <2>3 DEF Transactions
  <2>5. QED
    BY <2>4, NoBootIsNone
<1>6. Typed' /\ Committed'
  BY <1>2, <1>5 DEF Inv, Typed, Committed, Moved, Rows, Recorded
<1>7. InOrder'
  <2>1. db.version < 4
    BY <1>1 DEF Inv, Typed, Databases
  <2>2. QED
    <3>1. /\ Recorded(boot'.tx) /\ "migrations" \in boot'.tx.tables
          /\ boot'.tx.version = boot'.next - 1 /\ db'.version < boot'.next
          /\ boot'.next = 4 /\ boot'.tx.repos = db'.repos
      BY <1>1, <1>2, <1>3, <1>4, <1>5, <2>1
    <3>2. Moved(Rows(db) \ stuck)'
      BY <1>1, <1>2 DEF Moved, Rows
    <3>3. QED
      BY <3>1, <3>2 DEF InOrder, Recorded
<1>8. Booting'
  BY <1>2 DEF Inv, Booting
<1>9. QED
  BY <1>6, <1>7, <1>8 DEF Inv

LEMMA CommitInv ==
    ASSUME Inv, proc = "migrating", CommitMigrate, UNCHANGED <<files, stuck>>,
           proc' \in {"up", "down"}
    PROVE  Inv'
<1>1. /\ boot \in Transactions /\ boot # NoBoot /\ boot.next = 4
  BY NoBootIsNone DEF Inv, CommitMigrate, Latest, Typed, Transactions
<1>2. /\ Recorded(boot.tx) /\ boot.tx.version = 3 /\ boot.tx \in Databases
      /\ Moved(Rows(db) \ stuck) /\ boot.tx.repos = db.repos
  BY <1>1, BootHas DEF Inv, InOrder
<1>3. db' = boot.tx /\ boot' = NoBoot
  BY DEF CommitMigrate
<1>4. Typed' /\ Committed'
  BY <1>2, <1>3 DEF Inv, Typed, Committed, Moved, Rows, Recorded
<1>5. InOrder' /\ Booting'
  BY <1>2, <1>3 DEF InOrder, Booting, Latest
<1>6. QED
  BY <1>4, <1>5 DEF Inv

\* The first repository's objects are where the server looks for them.
LEMMA RequestInv == ASSUME Inv, NEW f \in Fronts, Request(f) PROVE Inv'
<1>1. /\ proc \in {"up", "stopping"} /\ proc' = proc /\ boot = NoBoot
      /\ UNCHANGED <<boot, stuck>>
  BY DEF Request, Inv, Booting
<1>2. CASE UNCHANGED <<db, files>>
  BY <1>1, <1>2 DEF Inv, Typed, Committed, InOrder, Booting, Moved, Rows, Recorded
<1>3. CASE /\ db' = [db EXCEPT !.repos = TRUE]
           /\ files' = [o \in Objects |-> "new"]
  <2>1. /\ db' \in Databases /\ db'.version = db.version /\ db'.tables = db.tables
        /\ db'.filled = db.filled /\ db'.carried = db.carried
    BY <1>3 DEF Inv, Typed, Databases
  <2>2. Recorded(db)' /\ Moved(Rows(db) \ stuck)'
    BY <1>3, <2>1 DEF Inv, Committed, Recorded, TablesOf, Moved, Rows
  <2>3. Typed' /\ Committed'
    BY <1>1, <1>3, <2>1, <2>2 DEF Inv, Typed, Committed
  <2>4. InOrder' /\ Booting'
    BY <1>1, <2>1 DEF Inv, InOrder, Booting
  <2>5. QED
    BY <2>3, <2>4 DEF Inv
<1>4. QED
  BY <1>2, <1>3 DEF Request

LEMMA RollbackInv == ASSUME Inv, AdminRollback PROVE Inv'
<1>1. /\ proc = "down" /\ proc' = proc /\ db \in Databases /\ Recorded(db)
      /\ db.version \in 1..3 /\ db' = [db EXCEPT !.version = @ - 1]
      /\ UNCHANGED <<files, stuck, boot>>
  BY DEF AdminRollback, Rollback, Inv, Typed, Committed, Latest
<1>2. /\ db' \in Databases /\ db'.version = db.version - 1
      /\ db'.tables = db.tables /\ db'.filled = db.filled
      /\ db'.carried = db.carried
  BY <1>1 DEF Databases
<1>3. Recorded(db')
  BY <1>1, <1>2 DEF Recorded, TablesOf
<1>4. boot = NoBoot
  BY <1>1 DEF Inv, Booting
<1>5. Typed' /\ Committed'
  BY <1>1, <1>2, <1>3 DEF Inv, Typed, Committed, Recorded, Latest
<1>6. InOrder' /\ Booting'
  BY <1>1, <1>4 DEF InOrder, Booting
<1>7. QED
  BY <1>5, <1>6 DEF Inv

-----------------------------------------------------------------------------
(* Every step                                                              *)

LEMMA NextInv == Inv /\ [Next]_serverVars => Inv'
<1> SUFFICES ASSUME Inv, [Next]_serverVars PROVE Inv'
  OBVIOUS
<1>1. CASE UNCHANGED serverVars
  BY <1>1, ProcessStep DEF serverVars
<1>2. CASE Serve
  BY <1>2, ServeInv
<1>3. CASE Migrating
  BY <1>3, RunMigrationInv, MoveObjectInv, ObjectsMovedInv DEF Migrating
<1>4. CASE MigrationError \/ Crash
  BY <1>4, AbortedDown DEF MigrationError, Crash, Down
<1>5. CASE StartServer \/ MigrateOnly
  BY <1>5, CommitInv DEF StartServer, MigrateOnly, Down
<1>6. CASE AdminRollback
  BY <1>6, RollbackInv
<1>7. CASE StartReturns \/ StartError
  BY <1>7, ProcessStep DEF StartReturns, StartError, Down
<1>8. ASSUME NEW f \in Fronts,
             \/ Listen(f) \/ Request(f) \/ Answer(f)
             \/ CloseFront(f) \/ ShutdownReturns(f)
      PROVE  Inv'
  <2>1. CASE Request(f)
    BY <2>1, RequestInv
  <2>2. CASE Listen(f) \/ Answer(f) \/ CloseFront(f) \/ ShutdownReturns(f)
    BY <2>2, ProcessStep DEF Listen, Answer, CloseFront, ShutdownReturns
  <2>3. QED
    BY <1>8, <2>1, <2>2
<1>9. ASSUME NEW s \in {"TERM", "HUP"}, Signal(s) PROVE Inv'
  BY <1>9, ProcessStep DEF Signal, Down
<1>10. CASE Reload \/ BeginShutdown \/ Deadline \/ Exit
  BY <1>10, ProcessStep DEF Reload, BeginShutdown, Deadline, Exit, Down
<1>11. QED
  BY <1>1, <1>2, <1>3, <1>4, <1>5, <1>6, <1>7, <1>8, <1>9, <1>10 DEF Next

-----------------------------------------------------------------------------
(* The theorem                                                             *)

\* Whatever crashes, fails or is rolled back, and however often: the version
\* recorded has its tables and the rows of version 0.6, and a server that
\* serves has every version, with each object's file at its new path but for
\* those that could not be looked at or renamed.
THEOREM UpgradesKeepData == Spec => []UpgradeKeepsData
<1>1. Spec => []Inv
  BY InitInv, NextInv, PTL DEF Spec
<1>2. Inv => UpgradeKeepsData
  BY DEF Inv, Committed, Booting, Moved, UpgradeKeepsData
<1>3. QED
  BY <1>1, <1>2, PTL

-----------------------------------------------------------------------------
(* The mirror job: its inductive invariant                                 *)

Command ==
    {Free} \cup [cmd : 1..Commands, phase : {"advertised"}]
    \cup [cmd : 1..Commands, phase : {"compared"}, seen : Nat]
    \cup [cmd : 1..Commands, phase : {"moved"}, seen : Nat, had : Nat]

Run ==
    [phase : {"run"}, opened : SUBSET Mirrors, todo : SUBSET Mirrors,
     done : SUBSET Mirrors, failed : SUBSET Mirrors,
     work : [Mirrors -> Command], base : [Mirrors -> Nat], alone : BOOLEAN]

JobTyped ==
    /\ runs \in [Ticks -> {Idle} \cup Run]
    /\ remote \in [Mirrors -> Nat] /\ local \in [Mirrors -> Nat]
    /\ visited = TRUE

\* A run that has been the only one since its tick knows more than its base
\* from the moment its first command on the mirror has compared.
Fresh(r, m, near) ==
    /\ m \in r.done \/ r.work[m].cmd = Commands => near[m] >= r.base[m]
    /\ r.work[m].cmd > 0 /\ r.work[m].phase \in {"compared", "moved"}
          => r.work[m].seen >= r.base[m]
    /\ r.work[m].cmd > 0 /\ r.work[m].phase = "moved" => r.work[m].had = near[m]

BusyOf(r) == {m \in Mirrors : r.work[m].cmd > 0}

\* A run whose remotes and mirrors have the changes far and near: no mirror
\* it opened gets lost between its list, its pool and those it is done with.
Sound(r, far, near) ==
    /\ r.opened \subseteq r.todo \cup BusyOf(r) \cup r.done
    /\ IsFiniteSet(BusyOf(r)) /\ Cardinality(BusyOf(r)) <= PoolSize
    /\ \A m \in Mirrors : r.base[m] <= far[m]
    /\ r.alone => \A m \in Mirrors \ r.failed : Fresh(r, m, near)

Sole == \A i, j \in Running : runs[i].alone => i = j

JobInv == JobTyped /\ Sole /\ \A i \in Running : Sound(runs[i], remote, local)

-----------------------------------------------------------------------------
(* The mirror job: lemmas                                                  *)

LEMMA PoolIsNat == PoolSize \in Nat \ {0}
  BY WorkersAssumption DEF PoolSize

LEMMA IdleIsNoRun == Idle \notin Run
  BY DEF Idle, Run

LEMMA RunningRun == JobTyped => \A i \in Ticks : i \in Running <=> runs[i] \in Run
  BY IdleIsNoRun DEF JobTyped, Running

\* What a run owes does not grow with its remotes.
LEMMA SoundFar ==
    ASSUME NEW r \in Run, NEW far \in [Mirrors -> Nat],
           NEW farther \in [Mirrors -> Nat], NEW near \in [Mirrors -> Nat],
           \A m \in Mirrors : far[m] <= farther[m], Sound(r, far, near)
    PROVE  Sound(r, farther, near)
  BY DEF Sound, Run

\* A step of one run, which may move its mirrors: the others keep what they
\* had, for either they or this one are not alone.
LEMMA OneRunSteps ==
    ASSUME JobInv, NEW i \in Running, NEW r \in Run, r.alone = runs[i].alone,
           runs' = [runs EXCEPT ![i] = r], UNCHANGED <<remote, visited>>,
           local' \in [Mirrors -> Nat], Sound(r, remote', local')
    PROVE  JobInv'
<1>1. i \in Ticks /\ runs \in [Ticks -> {Idle} \cup Run]
  BY DEF Running, JobInv, JobTyped
<1>2. JobTyped'
  BY <1>1 DEF JobInv, JobTyped
<1>3. Running' = Running
  BY <1>1, IdleIsNoRun DEF Running
<1>4. Sole'
  BY <1>1, <1>3 DEF JobInv, Sole, Running
<1>5. ASSUME NEW j \in Running PROVE Sound(runs'[j], remote', local')
  <2>1. CASE j = i
    BY <2>1, <1>1
  <2>2. CASE j # i
    <3>1. runs'[j] = runs[j] /\ ~runs[j].alone /\ Sound(runs[j], remote, local)
      BY <2>2, <1>1 DEF JobInv, Sole, Running
    <3>2. QED
      BY <3>1 DEF Sound
  <2>3. QED
    BY <2>1, <2>2
<1>6. QED
  BY <1>2, <1>3, <1>4, <1>5 DEF JobInv

-----------------------------------------------------------------------------
(* The mirror job: every step keeps the invariant                          *)

LEMMA JobInitInv == JobInit => JobInv
  BY DEF JobInit, JobInv, JobTyped, Sole, Running

LEMMA TickInv == ASSUME JobInv, NEW i \in Ticks, Tick(i) PROVE JobInv'
<1>1. PICK opened \in SUBSET Mirrors :
        runs' = [j \in Ticks |->
                    IF j = i THEN [phase |-> "run", opened |-> opened, todo |-> opened,
                                   done |-> {}, failed |-> {},
                                   work |-> [m \in Mirrors |-> Free],
                                   base |-> remote, alone |-> Running = {}]
                    ELSE IF j \in Running THEN [runs[j] EXCEPT !.alone = FALSE]
                    ELSE Idle]
  BY DEF Tick
<1>2. /\ runs[i] = Idle /\ i \notin Running
      /\ UNCHANGED <<remote, local, visited>>
      /\ runs \in [Ticks -> {Idle} \cup Run] /\ remote \in [Mirrors -> Nat]
      /\ \A j \in Running : j \in Ticks /\ runs[j] \in Run
  BY RunningRun DEF Tick, Running, JobInv, JobTyped
<1> DEFINE new == [phase |-> "run", opened |-> opened, todo |-> opened,
                   done |-> {}, failed |-> {},
                   work |-> [m \in Mirrors |-> Free],
                   base |-> remote, alone |-> Running = {}]
<1>3. new \in Run /\ new.alone = (Running = {})
  BY <1>2 DEF Run, Command
<1>4. \A j \in Running :
         /\ runs'[j] = [runs[j] EXCEPT !.alone = FALSE]
         /\ runs'[j] \in Run /\ runs'[j].alone = FALSE
  <2>1. ASSUME NEW j \in Running PROVE runs'[j] = [runs[j] EXCEPT !.alone = FALSE]
    BY <1>1, <1>2
  <2>2. ASSUME NEW j \in Running
        PROVE  LET r == [runs[j] EXCEPT !.alone = FALSE] IN r \in Run /\ r.alone = FALSE
    BY <1>2 DEF Run
  <2>3. QED
    BY <2>1, <2>2
<1>5. runs'[i] = new
  BY <1>1
<1>6. \A j \in Ticks : j # i /\ j \notin Running => runs'[j] = Idle
  BY <1>1
<1>7. JobTyped'
  <2>1. \A j \in Ticks : runs'[j] \in {Idle} \cup Run
    BY <1>3, <1>4, <1>5, <1>6
  <2>2. QED
    BY <2>1, <1>1, <1>2 DEF JobInv, JobTyped
<1>8. Running' = Running \cup {i}
  BY <1>2, <1>3, <1>4, <1>5, <1>6, IdleIsNoRun DEF Running
<1>9. Sole'
  BY <1>3, <1>4, <1>5, <1>8 DEF Sole
<1>10. Sound(new, remote, local)
  <2>1. BusyOf(new) = {}
    BY DEF BusyOf, Free
  <2>2. \A m \in Mirrors : new.work[m].cmd = 0
    BY DEF Free
  <2>3. \A m \in Mirrors : Fresh(new, m, local)
    BY <2>2 DEF Fresh, Commands
  <2>4. \A m \in Mirrors : remote[m] <= remote[m]
    BY <1>2
  <2>5. QED
    BY <2>1, <2>3, <2>4, FS_EmptySet, PoolIsNat DEF Sound
<1>11. ASSUME NEW j \in Running PROVE Sound(runs'[j], remote, local)
  <2>1. Sound(runs[j], remote, local)
    BY DEF JobInv
  <2>2. /\ runs'[j].opened = runs[j].opened /\ runs'[j].todo = runs[j].todo
        /\ runs'[j].done = runs[j].done /\ runs'[j].work = runs[j].work
        /\ runs'[j].base = runs[j].base /\ ~runs'[j].alone
    <3>1. runs[j] \in Run /\ runs'[j] = [runs[j] EXCEPT !.alone = FALSE]
      BY <1>2, <1>4
    <3>2. QED
      BY <3>1 DEF Run
  <2>3. BusyOf(runs'[j]) = BusyOf(runs[j])
    BY <2>2 DEF BusyOf
  <2>4. QED
    BY <2>1, <2>2, <2>3 DEF Sound
<1>12. QED
  BY <1>2, <1>5, <1>7, <1>8, <1>9, <1>10, <1>11 DEF JobInv

\* What a worker that takes or gives back a place does to their number.
PlaceTaken(S, m) ==
    /\ IsFiniteSet(S \cup {m}) /\ Cardinality(S \cup {m}) \in Nat
    /\ Cardinality(S \cup {m}) <= Cardinality(S) + 1
PlaceFreed(S, m) ==
    /\ IsFiniteSet(S \ {m}) /\ Cardinality(S \ {m}) \in Nat
    /\ Cardinality(S \ {m}) <= Cardinality(S)

LEMMA PlacesCounted ==
    ASSUME NEW S, IsFiniteSet(S), NEW m
    PROVE  PlaceTaken(S, m) /\ PlaceFreed(S, m)
<1>1. Cardinality(S) \in Nat
  BY FS_CardinalityType
<1>2. /\ IsFiniteSet(S \cup {m})
      /\ Cardinality(S \cup {m}) = IF m \in S THEN Cardinality(S)
                                   ELSE Cardinality(S) + 1
  BY FS_AddElement
<1>3. /\ IsFiniteSet(S \ {m})
      /\ Cardinality(S \ {m}) = IF m \in S THEN Cardinality(S) - 1
                                ELSE Cardinality(S)
  BY FS_RemoveElement
<1>4. Cardinality(S \cup {m}) \in Nat /\ Cardinality(S \ {m}) \in Nat
  BY <1>2, <1>3, FS_CardinalityType
<1>5. QED
  BY <1>1, <1>2, <1>3, <1>4 DEF PlaceTaken, PlaceFreed

\* The places a run's step leaves alone: only mirror m's place changes.
LEMMA BusyGrows ==
    ASSUME NEW r \in Run, NEW m \in Mirrors, NEW w \in Command,
           IsFiniteSet(BusyOf(r)), Cardinality(BusyOf(r)) < PoolSize,
           NEW q \in Run, q.work = [r.work EXCEPT ![m] = w]
    PROVE  IsFiniteSet(BusyOf(q)) /\ Cardinality(BusyOf(q)) <= PoolSize
<1>1. BusyOf(q) = BusyOf(r) \cup {m} \/ BusyOf(q) = BusyOf(r) \ {m}
  BY DEF BusyOf, Run
<1>2. PlaceTaken(BusyOf(r), m) /\ PlaceFreed(BusyOf(r), m)
  BY PlacesCounted
<1>3. Cardinality(BusyOf(r)) \in Nat
  BY FS_CardinalityType
<1>4. CASE BusyOf(q) = BusyOf(r) \cup {m}
  BY <1>2, <1>3, <1>4, PoolIsNat DEF PlaceTaken
<1>5. CASE BusyOf(q) = BusyOf(r) \ {m}
  BY <1>2, <1>3, <1>5, PoolIsNat DEF PlaceFreed
<1>6. QED
  BY <1>1, <1>4, <1>5

LEMMA BusyKept ==
    ASSUME NEW r \in Run, NEW m \in BusyOf(r), NEW w \in Command,
           IsFiniteSet(BusyOf(r)), Cardinality(BusyOf(r)) <= PoolSize,
           NEW q \in Run, q.work = [r.work EXCEPT ![m] = w]
    PROVE  IsFiniteSet(BusyOf(q)) /\ Cardinality(BusyOf(q)) <= PoolSize
<1>1. BusyOf(q) = BusyOf(r) \/ BusyOf(q) = BusyOf(r) \ {m}
  BY DEF BusyOf, Run
<1>2. PlaceFreed(BusyOf(r), m)
  BY PlacesCounted
<1>3. Cardinality(BusyOf(r)) \in Nat
  BY FS_CardinalityType
<1>4. QED
  BY <1>1, <1>2, <1>3, PoolIsNat DEF PlaceFreed

LEMMA AcquireInv ==
    ASSUME JobInv, NEW i \in Ticks, NEW m \in Mirrors, Acquire(i, m) PROVE JobInv'
<1> DEFINE r == runs[i]
           w == [cmd |-> 1, phase |-> "advertised"]
           q == [r EXCEPT !.todo = @ \ {m}, !.work[m] = w]
<1>1. r.phase = "run" /\ m \in r.todo /\ Cardinality(BusyOf(r)) < PoolSize
  BY DEF Acquire, Busy, BusyOf
<1>2. r \in Run /\ i \in Running /\ Sound(r, remote, local)
  BY <1>1, RunningRun DEF JobInv, JobTyped, Idle
<1>3. w \in Command
  BY DEF Command, Commands
<1>4. q \in Run /\ q.work = [r.work EXCEPT ![m] = w] /\ q.alone = r.alone
  BY <1>2, <1>3 DEF Run
<1>5. runs' = [runs EXCEPT ![i] = q] /\ UNCHANGED <<remote, local, visited>>
  BY <1>2 DEF Acquire, JobInv, JobTyped, Run
<1>6. IsFiniteSet(BusyOf(q)) /\ Cardinality(BusyOf(q)) <= PoolSize
  BY <1>1, <1>2, <1>3, <1>4, BusyGrows DEF Sound
<1>7. /\ q.opened = r.opened /\ q.todo = r.todo \ {m} /\ q.done = r.done
      /\ q.base = r.base /\ q.failed = r.failed
      /\ q.work[m] = w /\ \A n \in Mirrors : n # m => q.work[n] = r.work[n]
  BY <1>2 DEF Run
<1>8. q.opened \subseteq q.todo \cup BusyOf(q) \cup q.done
  BY <1>2, <1>7 DEF Sound, BusyOf, Run
<1>9. q.alone => \A n \in Mirrors \ q.failed : Fresh(q, n, local)
  BY <1>2, <1>4, <1>7 DEF Sound, Fresh, Commands
<1>10. Sound(q, remote, local)
  BY <1>2, <1>6, <1>7, <1>8, <1>9 DEF Sound
<1>11. QED
  BY <1>2, <1>4, <1>5, <1>10, OneRunSteps DEF JobInv, JobTyped

\* What a run of mirror m has while its command is at a phase.
LEMMA AtRun ==
    ASSUME JobInv, NEW i \in Ticks, NEW m \in Mirrors, NEW phase, At(i, m, phase)
    PROVE  /\ runs[i] \in Run /\ i \in Running
           /\ Sound(runs[i], remote, local)
           /\ m \in BusyOf(runs[i])
           /\ runs[i].work[m] \in Command /\ runs[i].work[m].phase = phase
           /\ runs[i].work[m].cmd \in 1..Commands
<1>1. runs[i] \in Run /\ i \in Running
  BY RunningRun DEF At, JobInv, JobTyped, Idle
<1>2. runs[i].work[m] \in Command /\ runs[i].work[m] # Free
  BY <1>1 DEF At, Run, Free
<1>3. runs[i].work[m].cmd \in 1..Commands
  BY <1>2 DEF Command
<1>4. QED
  BY <1>1, <1>2, <1>3 DEF At, JobInv, BusyOf

\* The records a run goes through between two phases of a command: Sound again
\* if what it knows of m is.
LEMMA CommandGoesOn ==
    ASSUME NEW r \in Run, NEW m \in BusyOf(r), NEW w \in Command, w.cmd > 0,
           NEW far \in [Mirrors -> Nat], NEW near \in [Mirrors -> Nat],
           Sound(r, far, near),
           (r.alone /\ m \notin r.failed)
              => Fresh([r EXCEPT !.work[m] = w], m, near)
    PROVE  /\ [r EXCEPT !.work[m] = w] \in Run
           /\ Sound([r EXCEPT !.work[m] = w], far, near)
<1> DEFINE q == [r EXCEPT !.work[m] = w]
<1>1. m \in Mirrors
  BY DEF BusyOf
<1>2. q \in Run /\ q.work = [r.work EXCEPT ![m] = w]
  BY DEF Run
<1>3. /\ q.opened = r.opened /\ q.todo = r.todo /\ q.done = r.done
      /\ q.base = r.base /\ q.failed = r.failed /\ q.alone = r.alone
      /\ q.work[m] = w /\ \A n \in Mirrors : n # m => q.work[n] = r.work[n]
  BY <1>1 DEF Run
<1>4. IsFiniteSet(BusyOf(q)) /\ Cardinality(BusyOf(q)) <= PoolSize
  BY <1>2, BusyKept DEF Sound
<1>5. BusyOf(q) = BusyOf(r)
  BY <1>3 DEF BusyOf
<1>6. ASSUME r.alone, NEW n \in Mirrors \ r.failed PROVE Fresh(q, n, near)
  <2>1. CASE n = m
    BY <1>6, <2>1
  <2>2. CASE n # m
    BY <1>3, <1>6, <2>2 DEF Sound, Fresh
  <2>3. QED
    BY <2>1, <2>2
<1>7. QED
  BY <1>2, <1>3, <1>4, <1>5, <1>6 DEF Sound

LEMMA ReadRemoteInv ==
    ASSUME JobInv, NEW i \in Ticks, NEW m \in Mirrors, ReadRemote(i, m) PROVE JobInv'
<1> DEFINE r == runs[i]
           w == [cmd |-> r.work[m].cmd, phase |-> "compared", seen |-> remote[m]]
           q == [r EXCEPT !.work[m] = w]
<1>1. /\ r \in Run /\ i \in Running /\ Sound(r, remote, local)
      /\ m \in BusyOf(r) /\ r.work[m].cmd \in 1..Commands
  BY AtRun DEF ReadRemote
<1>2. w \in Command /\ w.cmd > 0
  BY <1>1 DEF Command, JobInv, JobTyped, Commands
<1>3. /\ q.work[m] = w /\ q.done = r.done /\ q.base = r.base
      /\ q.alone = r.alone
  BY <1>1 DEF Run
<1>4. (r.alone /\ m \notin r.failed) => Fresh(q, m, local)
  BY <1>1, <1>3 DEF Sound, Fresh
<1>5. q \in Run /\ Sound(q, remote, local)
  <2>1. remote \in [Mirrors -> Nat] /\ local \in [Mirrors -> Nat]
    BY DEF JobInv, JobTyped
  <2>2. QED
    BY <1>1, <1>2, <1>4, <2>1, CommandGoesOn
<1>6. runs' = [runs EXCEPT ![i] = q] /\ UNCHANGED <<remote, local, visited>>
  BY <1>1 DEF ReadRemote, JobInv, JobTyped, Run
<1>7. QED
  BY <1>1, <1>3, <1>5, <1>6, OneRunSteps DEF JobInv, JobTyped

LEMMA ReadLocalInv ==
    ASSUME JobInv, NEW i \in Ticks, NEW m \in Mirrors, ReadLocal(i, m) PROVE JobInv'
<1> DEFINE r == runs[i]
           w == [cmd |-> r.work[m].cmd, phase |-> "moved",
                 seen |-> r.work[m].seen, had |-> local[m]]
           q == [r EXCEPT !.work[m] = w]
<1>1. /\ r \in Run /\ i \in Running /\ Sound(r, remote, local)
      /\ m \in BusyOf(r) /\ r.work[m].cmd \in 1..Commands
      /\ r.work[m] \in Command /\ r.work[m].phase = "compared"
  BY AtRun DEF ReadLocal
<1>2. w \in Command /\ w.cmd > 0
  BY <1>1 DEF Command, JobInv, JobTyped, Commands, Free
<1>3. /\ q.work[m] = w /\ q.done = r.done /\ q.base = r.base
      /\ q.alone = r.alone
  BY <1>1 DEF Run
<1>4. (r.alone /\ m \notin r.failed) => Fresh(q, m, local)
  BY <1>1, <1>3 DEF Sound, Fresh, Commands
<1>5. q \in Run /\ Sound(q, remote, local)
  <2>1. remote \in [Mirrors -> Nat] /\ local \in [Mirrors -> Nat]
    BY DEF JobInv, JobTyped
  <2>2. QED
    BY <1>1, <1>2, <1>4, <2>1, CommandGoesOn
<1>6. runs' = [runs EXCEPT ![i] = q] /\ UNCHANGED <<remote, local, visited>>
  BY <1>1 DEF ReadLocal, JobInv, JobTyped, Run
<1>7. QED
  BY <1>1, <1>3, <1>5, <1>6, OneRunSteps DEF JobInv, JobTyped

\* A command that is over leaves the mirror at its base if it was to.
LEMMA CommandOver ==
    ASSUME NEW r \in Run, NEW m \in BusyOf(r), r.work[m].cmd \in 1..Commands,
           NEW far \in [Mirrors -> Nat], NEW near \in [Mirrors -> Nat],
           NEW old \in [Mirrors -> Nat], Sound(r, far, old),
           \A n \in Mirrors : n # m => near[n] = old[n],
           (r.alone /\ m \notin r.failed) => near[m] >= r.base[m]
    PROVE  /\ AfterCommand(r, m) \in Run /\ AfterCommand(r, m).alone = r.alone
           /\ Sound(AfterCommand(r, m), far, near)
<1> DEFINE q == AfterCommand(r, m)
<1>1. m \in Mirrors
  BY DEF BusyOf
<1>2. CASE r.work[m].cmd = Commands
  <2>1. q = [r EXCEPT !.work[m] = Free, !.done = @ \cup {m}]
    BY <1>2 DEF AfterCommand
  <2>2. Free \in Command /\ Free.cmd = 0
    BY DEF Command, Free
  <2>3. q \in Run /\ q.work = [r.work EXCEPT ![m] = Free]
    <3>1. /\ [r.work EXCEPT ![m] = Free] \in [Mirrors -> Command]
          /\ r.done \cup {m} \in SUBSET Mirrors
      BY <1>1, <2>2 DEF Run
    <3>2. QED
      BY <2>1, <3>1 DEF Run
  <2>4. /\ q.opened = r.opened /\ q.todo = r.todo /\ q.done = r.done \cup {m}
        /\ q.base = r.base /\ q.failed = r.failed /\ q.alone = r.alone
        /\ q.work[m] = Free /\ \A n \in Mirrors : n # m => q.work[n] = r.work[n]
    BY <1>1, <2>1 DEF Run
  <2>5. IsFiniteSet(BusyOf(q)) /\ Cardinality(BusyOf(q)) <= PoolSize
    BY <2>2, <2>3, BusyKept DEF Sound
  <2>6. q.opened \subseteq q.todo \cup BusyOf(q) \cup q.done
    BY <2>4 DEF Sound, BusyOf, Run
  <2>7. ASSUME r.alone, NEW n \in Mirrors \ r.failed PROVE Fresh(q, n, near)
    <3>1. CASE n = m
      BY <2>2, <2>4, <2>7, <3>1 DEF Fresh, Commands
    <3>2. CASE n # m
      BY <2>4, <2>7, <3>2 DEF Sound, Fresh
    <3>3. QED
      BY <3>1, <3>2
  <2>8. QED
    BY <2>3, <2>4, <2>5, <2>6, <2>7 DEF Sound
<1>3. CASE r.work[m].cmd # Commands
  <2> DEFINE w == [cmd |-> r.work[m].cmd + 1, phase |-> "advertised"]
  <2>1. q = [r EXCEPT !.work[m] = w]
    BY <1>3 DEF AfterCommand, Run
  <2>2. w \in Command /\ w.cmd > 0
    BY <1>3 DEF Command, Commands
  <2>3. /\ q.work[m] = w /\ q.base = r.base /\ q.done = r.done
        /\ q.alone = r.alone /\ q.opened = r.opened /\ q.todo = r.todo
        /\ q.failed = r.failed
        /\ \A n \in Mirrors : n # m => q.work[n] = r.work[n]
    BY <1>1, <2>1 DEF Run
  <2>4. (r.alone /\ m \notin r.failed) => Fresh(q, m, near)
    BY <2>3 DEF Fresh
  <2>5. Sound(r, far, old) /\ q \in Run
    BY <1>1, <2>1, <2>2 DEF Run
  <2>6. q.work = [r.work EXCEPT ![m] = w]
    BY <2>1 DEF Run
  <2>7. IsFiniteSet(BusyOf(q)) /\ Cardinality(BusyOf(q)) <= PoolSize
    BY <2>2, <2>5, <2>6, BusyKept DEF Sound
  <2>8. BusyOf(q) = BusyOf(r)
    BY <2>2, <2>3 DEF BusyOf
  <2>9. ASSUME r.alone, NEW n \in Mirrors \ r.failed PROVE Fresh(q, n, near)
    <3>1. CASE n = m
      BY <2>4, <2>9, <3>1
    <3>2. CASE n # m
      BY <2>3, <2>9, <3>2 DEF Sound, Fresh
    <3>3. QED
      BY <3>1, <3>2
  <2>10. QED
    BY <2>3, <2>5, <2>7, <2>8, <2>9 DEF Sound
<1>4. QED
  BY <1>2, <1>3

LEMMA MoveInv ==
    ASSUME JobInv, NEW i \in Ticks, NEW m \in Mirrors, Move(i, m) PROVE JobInv'
<1> DEFINE r == runs[i]
           q == AfterCommand(r, m)
<1>1. /\ r \in Run /\ i \in Running /\ Sound(r, remote, local)
      /\ m \in BusyOf(r) /\ r.work[m].cmd \in 1..Commands
      /\ r.work[m] \in Command /\ r.work[m].phase = "moved"
  BY AtRun DEF Move
<1>2. m \in Mirrors /\ remote \in [Mirrors -> Nat] /\ local \in [Mirrors -> Nat]
  BY DEF JobInv, JobTyped
<1>3. r.work[m].seen \in Nat
  BY <1>1 DEF Command, Free, Commands
<1>4. /\ local' \in [Mirrors -> Nat]
      /\ \A n \in Mirrors : n # m => local'[n] = local[n]
      /\ local[m] = r.work[m].had => local'[m] = r.work[m].seen
  BY <1>2, <1>3 DEF Move
<1>5. (r.alone /\ m \notin r.failed) => local'[m] >= r.base[m]
  BY <1>1, <1>2, <1>4 DEF Sound, Fresh
<1>6. q \in Run /\ q.alone = r.alone /\ Sound(q, remote, local')
  BY <1>1, <1>2, <1>4, <1>5, CommandOver
<1>7. runs' = [runs EXCEPT ![i] = q] /\ UNCHANGED <<remote, visited>>
  BY DEF Move
<1>8. QED
  BY <1>1, <1>4, <1>6, <1>7, OneRunSteps

LEMMA CommandFailsInv ==
    ASSUME JobInv, NEW i \in Ticks, NEW m \in Mirrors, CommandFails(i, m) PROVE JobInv'
<1> DEFINE r == runs[i]
           f == [r EXCEPT !.failed = @ \cup {m}]
           q == AfterCommand(f, m)
<1>1. /\ r \in Run /\ i \in Running /\ Sound(r, remote, local)
      /\ m \in BusyOf(r) /\ r.work[m].cmd \in 1..Commands
  BY AtRun DEF CommandFails
<1>2. remote \in [Mirrors -> Nat] /\ local \in [Mirrors -> Nat]
  BY DEF JobInv, JobTyped
<1>3. f \in Run /\ m \in f.failed
  BY <1>1 DEF Run
<1>4. /\ f.opened = r.opened /\ f.todo = r.todo /\ f.done = r.done
      /\ f.work = r.work /\ f.base = r.base /\ f.alone = r.alone
      /\ f.failed = r.failed \cup {m}
  BY <1>1 DEF Run
<1>5. BusyOf(f) = BusyOf(r)
  BY <1>4 DEF BusyOf
<1>6. Sound(f, remote, local)
  BY <1>1, <1>4, <1>5 DEF Sound, Fresh
<1>7. q \in Run /\ q.alone = r.alone /\ Sound(q, remote, local)
  BY <1>1, <1>2, <1>3, <1>4, <1>5, <1>6, CommandOver
<1>8. runs' = [runs EXCEPT ![i] = q] /\ UNCHANGED <<remote, local, visited>>
  BY DEF CommandFails
<1>9. QED
  BY <1>1, <1>2, <1>7, <1>8, OneRunSteps

LEMMA OverInv == ASSUME JobInv, NEW i \in Ticks, Over(i) PROVE JobInv'
<1> DEFINE r == runs[i]
<1>1. /\ r \in Run /\ i \in Running /\ Sound(r, remote, local)
      /\ r.todo = {} /\ BusyOf(r) = {}
  BY RunningRun DEF Over, Waited, Busy, BusyOf, JobInv, JobTyped, Idle
<1>2. r.opened \subseteq r.done
  BY <1>1 DEF Sound
<1>3. Done(r)
  BY <1>1, <1>2 DEF Done, Sound, Fresh, Run
<1>4. visited' = TRUE
  BY <1>3 DEF Over, JobInv, JobTyped
<1>5. runs' = [runs EXCEPT ![i] = Idle] /\ UNCHANGED <<remote, local>>
  BY DEF Over
<1>6. JobTyped'
  BY <1>4, <1>5 DEF JobInv, JobTyped
<1>7. Running' = Running \ {i} /\ \A j \in Running \ {i} : runs'[j] = runs[j]
  BY <1>5 DEF Running, JobInv, JobTyped
<1>8. QED
  BY <1>5, <1>6, <1>7 DEF JobInv, Sole

LEMMA RemoteMovesInv == ASSUME JobInv, RemoteMoves PROVE JobInv'
<1>1. UNCHANGED <<runs, local, visited>> /\ Running' = Running
  BY DEF RemoteMoves, Running
<1>2. /\ remote \in [Mirrors -> Nat] /\ remote' \in [Mirrors -> Nat]
      /\ local \in [Mirrors -> Nat] /\ \A m \in Mirrors : remote[m] <= remote'[m]
  BY DEF RemoteMoves, JobInv, JobTyped
<1>3. \A i \in Running : runs[i] \in Run /\ Sound(runs[i], remote, local)
  BY RunningRun DEF JobInv, Running
<1>4. \A i \in Running : Sound(runs[i], remote', local)
  BY <1>2, <1>3, SoundFar
<1>5. QED
  BY <1>1, <1>2, <1>4 DEF JobInv, JobTyped, Sole

LEMMA JobCrashInv == ASSUME JobInv, JobCrash PROVE JobInv'
<1>1. Running' = {} /\ JobTyped'
  BY DEF JobCrash, Running, JobInv, JobTyped
<1>2. QED
  BY <1>1 DEF JobInv, Sole

LEMMA JobNextInv == JobInv /\ [JobNext]_jobVars => JobInv'
<1> SUFFICES ASSUME JobInv, [JobNext]_jobVars PROVE JobInv'
  OBVIOUS
<1>1. CASE UNCHANGED jobVars
  BY <1>1 DEF jobVars, JobInv, JobTyped, Sole, Running
<1>2. ASSUME NEW i \in Ticks, Tick(i) \/ Step(i) PROVE JobInv'
  BY <1>2, TickInv, AcquireInv, ReadRemoteInv, ReadLocalInv, MoveInv,
     CommandFailsInv, OverInv DEF Step
<1>3. QED
  BY <1>1, <1>2, RemoteMovesInv, JobCrashInv DEF JobNext

-----------------------------------------------------------------------------
(* The mirror job: the theorem                                             *)

LEMMA InvVisits == JobInv => MirrorsVisited
<1> SUFFICES ASSUME JobInv, NEW i \in Running
             PROVE  \/ Busy(i) = {} \/ Cardinality(Busy(i)) <= Workers
                    \/ Workers = 0 /\ Cardinality(Busy(i)) = 1
  BY DEF MirrorsVisited, JobInv, JobTyped
<1>1. /\ IsFiniteSet(Busy(i)) /\ Cardinality(Busy(i)) <= PoolSize
  BY DEF JobInv, Sound, Busy, BusyOf
<1>2. Cardinality(Busy(i)) \in Nat
  BY <1>1, FS_CardinalityType
<1>3. QED
  BY <1>1, <1>2, WorkersAssumption DEF PoolSize

\* A run of the mirror job is over only when every mirror that opened went
\* through both commands; one that was alone, with no failure, has then at
\* least what the remote had at its tick; and no pool has more workers than
\* it was made for.
THEOREM MirrorsAreVisited == JobSpec => []MirrorsVisited
<1>1. JobSpec => []JobInv
  BY JobInitInv, JobNextInv, PTL DEF JobSpec
<1>2. QED
  BY <1>1, InvVisits, PTL
=============================================================================
