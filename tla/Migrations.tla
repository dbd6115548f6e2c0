----------------------------- MODULE Migrations -----------------------------
(***************************************************************************)
(* The database's migrations (pkg/db/migrate): all that are due run in one *)
(* transaction, but the third also renames the files of LFS objects, which *)
(* no transaction takes back.                                              *)
(*                                                                         *)
(* db is what is committed: the version recorded, the tables, whether the  *)
(* rows of version 0.6 were carried over and the default rows inserted,    *)
(* and whether there is a repository: objects have rows only then.         *)
(* A rollback runs empty files: it only forgets a version.                 *)
(***************************************************************************)
EXTENDS Naturals, FiniteSets

CONSTANTS
    Objects,       \* LFS objects of the repositories
    StartDB,       \* the databases a server may find, with their driver
    MaxRollbacks   \* uses of soft admin rollback

VARIABLES
    db,        \* what is committed
    files,     \* [Objects -> where the object's file is, "old" or "new" path]
    boot,      \* the transaction of Migrate, NoBoot when there is none
    stuck,     \* objects whose rename failed
    rollbacks

\* What is committed of a database.
Databases ==
    [driver : {"sqlite", "postgres"}, version : 0..3,
     tables : SUBSET {"migrations", "base", "webhooks", "old"},
     filled : BOOLEAN, carried : BOOLEAN, duplicates : BOOLEAN, repos : BOOLEAN]

migrateVars == <<db, files, boot, stuck, rollbacks>>

Latest == 3
NoBoot == [next |-> 0]
TablesOf(version) ==
    (IF version > 0 THEN {"migrations", "base"} ELSE {})
        \cup (IF version > 1 THEN {"webhooks"} ELSE {})

\* The objects that have rows.
Rows(d) == IF d.repos THEN Objects ELSE {}

\* A version stands for its tables, the rows of version 0.6 and the defaults.
Recorded(d) ==
    /\ TablesOf(d.version) \subseteq d.tables
    /\ d.version > 0 => d.filled /\ ("old" \in d.tables => d.carried)

\* A database is new, of version 0.6, or an earlier release's.
ASSUME StartAssumption ==
    StartDB \subseteq {d \in Databases : Recorded(d) /\ d.version < Latest}

MigrateInit ==
    /\ db \in StartDB
    /\ files = [o \in Objects |-> "old"]
    /\ boot = NoBoot /\ stuck = {} /\ rollbacks = 0

\* (The version is taken for the place in the list of the last one run.)
FirstDueBug(version) == version + 2

\* Migrate skips the versions up to the one recorded.
FirstDue(version) == version + 1

BeginMigrate ==
    boot' = [next |-> FirstDue(db.version), left |-> Rows(db),
             tx |-> [db EXCEPT !.tables = @ \cup {"migrations"}]]

\* The rows of version 0.6 are inserted anew, which they can be once, and
\* with duplicate keys not at all; PostgreSQL does not ignore a second admin.
createTablesFails(tx) ==
    \/ "old" \in tx.tables /\ (tx.duplicates \/ tx.carried)
    \/ tx.driver = "postgres" /\ tx.filled

\* Old tables are renamed and kept.
createTables(tx) ==
    [tx EXCEPT !.tables = @ \cup {"base"}, !.filled = TRUE,
               !.carried = @ \/ "old" \in tx.tables]

webhooks(tx) == [tx EXCEPT !.tables = @ \cup {"webhooks"}]

\* The query for a repository's objects, whether it has any or not, has a
\* placeholder only SQLite takes.
migrateLfsObjectsFails(tx) == tx.driver = "postgres" /\ tx.repos

MigrationFails(m) ==
    \/ m = 1 /\ createTablesFails(boot.tx)
    \/ m = 3 /\ migrateLfsObjectsFails(boot.tx)

\* A migration of tables, and the row that records it.
RunMigration ==
    /\ boot.next \in {1, 2} /\ ~MigrationFails(boot.next)
    /\ LET tx == IF boot.next = 1 THEN createTables(boot.tx) ELSE webhooks(boot.tx) IN
       boot' = [boot EXCEPT !.next = @ + 1, !.tx = [tx EXCEPT !.version = boot.next]]
    /\ UNCHANGED <<db, files, stuck, rollbacks>>

\* One object: a file that is not at the old path is passed over, and so is
\* one that Stat, for whatever error, does not find there; one that cannot be
\* renamed is left as well.
MoveObject ==
    /\ boot.next = 3 /\ ~MigrationFails(3)
    /\ \E o \in boot.left :
         /\ boot' = [boot EXCEPT !.left = @ \ {o}]
         /\ \/ /\ files' = [files EXCEPT ![o] = "new"]
               /\ stuck' = stuck \ {o}
            \/ /\ files[o] = "old"
               /\ stuck' = stuck \cup {o}
               /\ UNCHANGED files
    /\ UNCHANGED <<db, rollbacks>>

ObjectsMoved ==
    /\ boot.next = 3 /\ ~MigrationFails(3) /\ boot.left = {}
    /\ boot' = [boot EXCEPT !.next = 4, !.tx.version = 3]
    /\ UNCHANGED <<db, files, stuck, rollbacks>>

CommitMigrate ==
    /\ boot.next > Latest
    /\ db' = boot.tx /\ boot' = NoBoot

\* The transaction is rolled back; the files stay where they are.
AbortMigrate ==
    /\ boot' = NoBoot
    /\ UNCHANGED <<db, files, stuck, rollbacks>>

\* soft admin rollback, while no server runs.
Rollback ==
    /\ rollbacks < MaxRollbacks
    /\ db.version \in 1..Latest
    /\ db' = [db EXCEPT !.version = @ - 1]
    /\ rollbacks' = rollbacks + 1
    /\ UNCHANGED <<files, boot, stuck>>
=============================================================================
