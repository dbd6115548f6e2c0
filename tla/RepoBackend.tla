----------------------------- MODULE RepoBackend -----------------------------
(***************************************************************************)
(* The repository half of pkg/backend: CreateRepository, DeleteRepository, *)
(* RenameRepository, SetPrivate, Repository and Repositories, run by any   *)
(* number of concurrent callers (SSH sessions, HTTP requests, gRPC calls,  *)
(* cron jobs), over three stores that no lock ties together:               *)
(*                                                                         *)
(*   db     the committed rows of the repos table;                         *)
(*   disk   the bare repositories below <data>/repos;                      *)
(*   cache  the LRU of pkg/backend/cache.go, name -> *repo.                *)
(*                                                                         *)
(* One action is one step another caller can get in between: a cache call, *)
(* a stat, a change of a directory, a statement that takes the write lock  *)
(* of the database, a commit.  `tx` is the working copy of the rows of the *)
(* one open write transaction (SQLite, the default database, has one       *)
(* writer); everyone else reads the committed rows.                        *)
(*                                                                         *)
(* A row is its id and its private flag.  The owner never changes while    *)
(* the row lives, so the id stands for it.  SetHidden, SetDescription and  *)
(* SetProjectName have SetPrivate's shape: they drop the cache entry, then *)
(* update one column.                                                      *)
(***************************************************************************)
EXTENDS Naturals, FiniteSets

CONSTANTS Procs,      \* concurrent callers of the backend
          Names,      \* repository names, after SanitizeRepo
          None,       \* no caller, no name, no row, no directory
          MaxRepos,   \* bound: repositories ever created
          MaxFaults   \* bound: crashes and I/O errors

VARIABLES
    db,       \* [Names -> Row or None], committed
    tx,       \* the same, as the open write transaction sees it
    writer,   \* the caller whose write transaction is open, or None
    issued,   \* the greatest id of a committed insert (AUTOINCREMENT)
    disk,     \* [Names -> Dir or None]
    cache,    \* [Names -> Row or None]
    call,     \* [Procs -> what the caller is doing]
    faults,   \* crashes and I/O errors so far
    strays,   \* directories DeleteRepository's orphan branch removed
    past      \* history: the <<name, id>> pairs that were ever committed

vars == <<db, tx, writer, issued, disk, cache, call, faults, strays, past>>

-----------------------------------------------------------------------------
Row == [id : 1 .. MaxRepos, private : BOOLEAN]

\* A directory holds the pushes of the row `data` (0: an empty repository)
\* and may have the file git-daemon-export-ok.
Dir == [data : 0 .. MaxRepos, export : BOOLEAN]

ASSUME ConstantsOK ==
    /\ MaxRepos \in Nat
    /\ MaxFaults \in Nat
    /\ None \notin Procs \cup Names
    /\ None \notin Row \cup Dir

PC == {"idle", "get", "stat", "query", "fill",           \* Repository
       "insert", "initdir",                              \* CreateRepository
       "remove", "rmdir",                                \* DeleteRepository
       "check", "move", "mvdir",                         \* RenameRepository
       "drop", "export", "update",                       \* SetPrivate
       "uncache", "commit"}

Op == {"none", "create", "delete", "rename", "private", "read"}

Result == {"none", "ok", "notfound", "exist", "error"}

Call == [pc : PC, op : Op, name : Names \cup {None}, new : Names \cup {None},
         private : BOOLEAN, row : Row \cup {None}, res : Result]

Idle == [pc |-> "idle", op |-> "none", name |-> None, new |-> None,
         private |-> FALSE, row |-> None, res |-> "none"]

Init ==
    /\ db = [n \in Names |-> None]
    /\ tx = [n \in Names |-> None]
    /\ writer = None
    /\ issued = 0
    /\ disk = [n \in Names |-> None]
    /\ cache = [n \in Names |-> None]
    /\ call = [p \in Procs |-> Idle]
    /\ faults = 0
    /\ strays = 0
    /\ past = {}

-----------------------------------------------------------------------------
(* Steps shared by the operations.                                         *)

At(p, pc) == call[p].pc = pc

Goto(p, pc) == call' = [call EXCEPT ![p].pc = pc]

\* The caller's operation is over; its result stays until the next one.
Finish(p, res) == call' = [call EXCEPT ![p] = [Idle EXCEPT !.res = res]]

Rows == <<db, tx, writer, issued, past>>
Bounds == <<faults, strays>>

\* cache.Delete
Uncached(n) == [cache EXCEPT ![n] = None]

Fault == /\ faults < MaxFaults
         /\ faults' = faults + 1
         /\ UNCHANGED strays

\* The first write statement of a transaction: it takes the write lock.
OpenTx(p, rows) ==
    /\ writer = None
    /\ writer' = p
    /\ tx' = rows
    /\ UNCHANGED <<db, issued, past>>

\* The transaction function returned an error: TransactionContext rolls back.
RollbackBug == UNCHANGED <<db, tx, writer, issued, past>>
Rollback ==
    /\ writer' = None
    /\ tx' = db
    /\ UNCHANGED <<db, issued, past>>

Start(p, op, pc, n, m, b) ==
    call' = [call EXCEPT ![p] = [Idle EXCEPT !.op = op, !.pc = pc, !.name = n,
                                             !.new = m, !.private = b]]

Begin(p) ==
    /\ At(p, "idle")
    /\ \E n \in Names :
          \/ \E b \in BOOLEAN : \/ Start(p, "create", "insert", n, None, b)
                               \/ Start(p, "private", "drop", n, None, b)
          \/ Start(p, "delete", "get", n, None, FALSE)
          \/ Start(p, "read", "get", n, None, FALSE)
          \/ \E m \in Names \ {n} : Start(p, "rename", "check", n, m, FALSE)
    /\ UNCHANGED <<Rows, disk, cache, Bounds>>

-----------------------------------------------------------------------------
(* Repository: its own operation, the head of DeleteRepository and the     *)
(* tail of CreateRepository, RenameRepository and SetPrivate.              *)

Target(p) == IF call[p].op = "rename" THEN call[p].new ELSE call[p].name

\* The lookup succeeded: DeleteRepository goes on, the others end.
Found(p) ==
    IF call[p].op = "delete"
    THEN call' = [call EXCEPT ![p] = [@ EXCEPT !.pc = "remove", !.row = None]]
    ELSE Finish(p, "ok")

CacheHit(p) ==
    /\ At(p, "get")
    /\ cache[Target(p)] # None
    /\ Found(p)
    /\ UNCHANGED <<Rows, disk, cache, Bounds>>

CacheMiss(p) ==
    /\ At(p, "get")
    /\ cache[Target(p)] = None
    /\ Goto(p, "stat")
    /\ UNCHANGED <<Rows, disk, cache, Bounds>>

StatDir(p) ==
    /\ At(p, "stat")
    /\ IF disk[Target(p)] = None THEN Finish(p, "notfound") ELSE Goto(p, "query")
    /\ UNCHANGED <<Rows, disk, cache, Bounds>>

\* What GetRepoByName finds: a transaction reads the committed rows.
FoundRowBug(n) == tx[n]
FoundRow(n) == db[n]

QueryRow(p) ==
    /\ At(p, "query")
    /\ IF FoundRow(Target(p)) = None
       THEN Finish(p, "notfound")
       ELSE call' = [call EXCEPT ![p] = [@ EXCEPT !.pc = "fill",
                                                  !.row = FoundRow(Target(p))]]
    /\ UNCHANGED <<Rows, disk, cache, Bounds>>

FillCache(p) ==
    /\ At(p, "fill")
    /\ cache' = [cache EXCEPT ![Target(p)] = call[p].row]
    /\ Found(p)
    /\ UNCHANGED <<Rows, disk, Bounds>>

\* Repositories: cache.Set for every row, inside the read transaction, which
\* keeps a writer from committing until it ends.
ListAll(p) ==
    /\ At(p, "idle")
    /\ cache' = [n \in Names |-> IF db[n] # None THEN db[n] ELSE cache[n]]
    /\ UNCHANGED <<Rows, disk, call, Bounds>>

\* The LRU holds 1000 entries: any entry may be pushed out by others.
Evict(n) ==
    /\ cache[n] # None
    /\ cache' = Uncached(n)
    /\ UNCHANGED <<Rows, disk, call, Bounds>>

-----------------------------------------------------------------------------
(* CreateRepository                                                        *)

Inserted(n, private) ==
    [db EXCEPT ![n] = [id |-> issued + 1, private |-> private]]

InsertRow(p) ==
    /\ At(p, "insert")
    /\ writer = None
    /\ \/ /\ db[call[p].name] # None            \* UNIQUE(name)
          /\ Finish(p, "exist")
          /\ UNCHANGED Rows
       \/ /\ db[call[p].name] = None
          /\ issued < MaxRepos
          /\ OpenTx(p, Inserted(call[p].name, call[p].private))
          /\ Goto(p, "initdir")
       \/ /\ db[call[p].name] = None
          /\ issued = MaxRepos                     \* bound
          /\ Finish(p, "error")
          /\ UNCHANGED Rows
    /\ UNCHANGED <<disk, cache, Bounds>>

\* git.Init keeps what an existing repository holds; the export file is only
\* ever written here, never removed.
InitializedDirBug(d, private) ==
    IF d = None THEN [data |-> 0, export |-> TRUE] ELSE d
InitializedDir(d, private) ==
    IF d = None THEN [data |-> 0, export |-> ~private]
                ELSE [d EXCEPT !.export = @ \/ ~private]

InitDir(p) ==
    /\ At(p, "initdir")
    /\ disk' = [disk EXCEPT ![call[p].name] = InitializedDir(@, call[p].private)]
    /\ Goto(p, "commit")
    /\ UNCHANGED <<Rows, cache, Bounds>>

\* git.Init, one of the files or GenerateHooks fails: the row is rolled back,
\* what was made of the directory stays.
InitDirFails(p) ==
    /\ At(p, "initdir")
    /\ Fault
    /\ \/ UNCHANGED disk
       \/ \E private \in {TRUE, call[p].private} :
             disk' = [disk EXCEPT ![call[p].name] = InitializedDir(@, private)]
    /\ Rollback
    /\ Finish(p, "error")
    /\ UNCHANGED cache

-----------------------------------------------------------------------------
(* DeleteRepository, after the lookup                                      *)

\* The row and the directory are read before anything takes the write lock.
\* A row that cannot be read (a failed or cancelled query) is one that is
\* not there.
RemoveNothing(p) ==
    /\ At(p, "remove")
    /\ \/ db[call[p].name] = None /\ UNCHANGED Bounds
       \/ Fault
    /\ disk[call[p].name] = None
    /\ cache' = Uncached(call[p].name)
    /\ Finish(p, "notfound")
    /\ UNCHANGED <<Rows, disk>>

\* "If the repo is not in the database but the directory exists, remove it"
RemoveOrphan(p) ==
    /\ At(p, "remove")
    /\ \/ /\ db[call[p].name] = None
          /\ strays' = strays + 1
          /\ UNCHANGED faults
       \/ Fault
    /\ disk[call[p].name] # None
    /\ disk' = [disk EXCEPT ![call[p].name] = None]
    /\ cache' = Uncached(call[p].name)
    /\ Finish(p, "ok")
    /\ UNCHANGED Rows

RemoveRow(p) ==
    /\ At(p, "remove")
    /\ db[call[p].name] # None
    /\ OpenTx(p, [db EXCEPT ![call[p].name] = None])
    /\ Goto(p, "rmdir")
    /\ UNCHANGED <<disk, cache, Bounds>>

RemoveDirBug(p) ==
    /\ At(p, "rmdir")
    /\ Goto(p, "uncache")
    /\ UNCHANGED <<Rows, disk, cache, Bounds>>
RemoveDir(p) ==
    /\ At(p, "rmdir")
    /\ disk' = [disk EXCEPT ![call[p].name] = None]
    /\ Goto(p, "uncache")
    /\ UNCHANGED <<Rows, cache, Bounds>>

RemoveDirFails(p) ==
    /\ At(p, "rmdir")
    /\ Fault
    /\ cache' = Uncached(call[p].name)
    /\ Rollback
    /\ Finish(p, "error")
    /\ UNCHANGED disk

-----------------------------------------------------------------------------
(* RenameRepository                                                        *)

CheckDirs(p) ==
    /\ At(p, "check")
    /\ IF disk[call[p].name] = None THEN Finish(p, "notfound")
       ELSE IF disk[call[p].new] # None THEN Finish(p, "exist")
       ELSE Goto(p, "move")
    /\ UNCHANGED <<Rows, disk, cache, Bounds>>

\* UPDATE repos SET name: no row of the old name is no error.
Renamed(old, new) ==
    IF db[old] = None THEN db ELSE [db EXCEPT ![old] = None, ![new] = db[old]]

MoveRow(p) ==
    LET old == call[p].name
        new == call[p].new
    IN  /\ At(p, "move")
        /\ writer = None
        /\ \/ /\ db[old] # None /\ db[new] # None   \* UNIQUE(name)
              /\ cache' = Uncached(old)
              /\ Finish(p, "exist")
              /\ UNCHANGED Rows
           \/ /\ db[old] = None \/ db[new] = None
              /\ OpenTx(p, Renamed(old, new))
              /\ Goto(p, "mvdir")
              /\ UNCHANGED cache
        /\ UNCHANGED <<disk, Bounds>>

MoveDir(p) ==
    LET old == call[p].name
        new == call[p].new
    IN  /\ At(p, "mvdir")
        /\ disk[old] # None
        /\ disk[new] = None
        /\ disk' = [disk EXCEPT ![old] = None, ![new] = disk[old]]
        /\ Goto(p, "uncache")
        /\ UNCHANGED <<Rows, cache, Bounds>>

\* os.Rename fails without a source and on a target that is not empty.
MoveDirFails(p) ==
    /\ At(p, "mvdir")
    /\ \/ /\ disk[call[p].name] = None \/ disk[call[p].new] # None
          /\ UNCHANGED Bounds
       \/ Fault
    /\ cache' = Uncached(call[p].name)
    /\ Rollback
    /\ Finish(p, "error")
    /\ UNCHANGED disk

-----------------------------------------------------------------------------
(* SetPrivate                                                              *)

DropCacheBug(p) ==
    /\ At(p, "drop")
    /\ Goto(p, "export")
    /\ UNCHANGED <<Rows, disk, cache, Bounds>>
DropCache(p) ==
    /\ At(p, "drop")
    /\ cache' = Uncached(call[p].name)
    /\ Goto(p, "export")
    /\ UNCHANGED <<Rows, disk, Bounds>>

\* The export file changes before the UPDATE takes the write lock.
SetExport(p) ==
    LET n == call[p].name
    IN  /\ At(p, "export")
        /\ IF disk[n] = None
           THEN /\ IF call[p].private THEN Goto(p, "update")
                                     ELSE Finish(p, "error")
                /\ UNCHANGED disk
           ELSE /\ disk' = [disk EXCEPT ![n].export = ~call[p].private]
                /\ Goto(p, "update")
        /\ UNCHANGED <<Rows, cache, Bounds>>

\* os.WriteFile or os.Remove fails: nothing has taken the write lock yet.
SetExportFails(p) ==
    /\ At(p, "export")
    /\ Fault
    /\ Finish(p, "error")
    /\ UNCHANGED <<Rows, disk, cache>>

\* UPDATE repos SET private: no row is no error.
UpdatedBug(n, private) ==
    [m \in Names |-> IF db[m] = None THEN None ELSE [db[m] EXCEPT !.private = private]]
Updated(n, private) ==
    IF db[n] = None THEN db ELSE [db EXCEPT ![n].private = private]

UpdateRow(p) ==
    /\ At(p, "update")
    /\ OpenTx(p, Updated(call[p].name, call[p].private))
    /\ Goto(p, "commit")
    /\ UNCHANGED <<disk, cache, Bounds>>

-----------------------------------------------------------------------------
(* The end of a write transaction                                          *)

\* The deferred cache.Delete of DeleteRepository and RenameRepository runs
\* when the transaction function returns, which is before the commit.
DeferredDelete(p) ==
    /\ At(p, "uncache")
    /\ cache' = Uncached(call[p].name)
    /\ Goto(p, "commit")
    /\ UNCHANGED <<Rows, disk, Bounds>>

\* From its commit on, a new repository's directory receives its pushes.
Claimed(p) ==
    LET n == call[p].name
    IN  IF /\ call[p].op = "create"
           /\ disk[n] # None
           /\ disk[n].data = 0
        THEN [disk EXCEPT ![n].data = tx[n].id]
        ELSE disk

\* AUTOINCREMENT: an id is used up when its insert commits.
IssuedAfterBug(p) == issued
IssuedAfter(p) == IF call[p].op = "create" THEN issued + 1 ELSE issued

Commit(p) ==
    /\ At(p, "commit")
    /\ db' = tx
    /\ writer' = None
    /\ issued' = IssuedAfter(p)
    /\ past' = past \cup {<<n, tx[n].id>> : n \in {m \in Names : tx[m] # None}}
    /\ disk' = Claimed(p)
    /\ IF call[p].op = "delete" THEN Finish(p, "ok")
       ELSE call' = [call EXCEPT ![p] = [@ EXCEPT !.pc = "get", !.private = FALSE]]
    /\ UNCHANGED <<tx, cache, Bounds>>

\* A context that was cancelled has rolled the transaction back, and that is
\* no error (sql.ErrTxDone): the method goes on and queries with the same
\* context, so that it reports success only when the cache answers.
CommitFails(p) ==
    /\ At(p, "commit")
    /\ Fault
    /\ Rollback
    /\ \/ Finish(p, "error")
       \/ /\ call[p].op \in {"create", "private"}
          /\ cache[Target(p)] # None
          /\ call[p].op = "private" => cache[Target(p)].private # call[p].private
          /\ Finish(p, "ok")
    /\ UNCHANGED <<disk, cache>>

\* busy_timeout: the write lock was not free for five seconds.  The deferred
\* cache.Delete of DeleteRepository and RenameRepository still runs.
BusyTimeout(p) ==
    /\ writer # None
    /\ \/ At(p, "insert") \/ At(p, "move") \/ At(p, "update")
       \/ At(p, "remove") /\ db[call[p].name] # None
    /\ cache' = IF At(p, "remove") \/ At(p, "move")
                THEN Uncached(call[p].name) ELSE cache
    /\ Finish(p, "error")
    /\ UNCHANGED <<Rows, disk, Bounds>>

\* The process dies and is started again: SQLite rolls the open transaction
\* back, the cache is empty, the directories are as they were left.
Crash ==
    /\ Fault
    /\ Rollback
    /\ cache' = [n \in Names |-> None]
    /\ call' = [p \in Procs |-> Idle]
    /\ UNCHANGED disk

-----------------------------------------------------------------------------
Lookup(p) == CacheHit(p) \/ CacheMiss(p) \/ StatDir(p) \/ QueryRow(p) \/ FillCache(p)
Creating(p) == InsertRow(p) \/ InitDir(p) \/ InitDirFails(p)
Deleting(p) == \/ RemoveNothing(p) \/ RemoveOrphan(p) \/ RemoveRow(p)
               \/ RemoveDir(p) \/ RemoveDirFails(p)
Renaming(p) == CheckDirs(p) \/ MoveRow(p) \/ MoveDir(p) \/ MoveDirFails(p)
Setting(p) == DropCache(p) \/ SetExport(p) \/ SetExportFails(p) \/ UpdateRow(p)
Ending(p) == DeferredDelete(p) \/ Commit(p) \/ CommitFails(p) \/ BusyTimeout(p)

Next ==
    \/ \E p \in Procs :
          \/ Begin(p) \/ ListAll(p) \/ Lookup(p) \/ Creating(p) \/ Deleting(p)
          \/ Renaming(p) \/ Setting(p) \/ Ending(p)
    \/ \E n \in Names : Evict(n)
    \/ Crash

Spec == Init /\ [][Next]_vars

-----------------------------------------------------------------------------
(* Properties                                                              *)

Typed ==
    /\ db \in [Names -> Row \cup {None}]
    /\ tx \in [Names -> Row \cup {None}]
    /\ writer \in Procs \cup {None}
    /\ issued \in 0 .. MaxRepos
    /\ disk \in [Names -> Dir \cup {None}]
    /\ cache \in [Names -> Row \cup {None}]
    /\ call \in [Procs -> Call]
    /\ faults \in 0 .. MaxFaults
    /\ strays \in Nat
    /\ past \subseteq Names \X (1 .. MaxRepos)

\* Beside the types: the write lock is held by the caller that has written and
\* not yet ended its transaction, and by nobody else.
InTx == {"initdir", "rmdir", "mvdir", "uncache", "commit"}
TypeOK == Typed /\ \A p \in Procs : writer = p <=> call[p].pc \in InTx

AllIdle == \A p \in Procs : call[p].pc = "idle"

\* The rows the directories should follow: those of the open transaction once
\* its own change of the directories is done, the committed ones before.
FollowedRows ==
    IF writer # None /\ call[writer].pc \in {"uncache", "commit"} THEN tx ELSE db

\* Whatever the callers interleave, a repository has a directory exactly while
\* it has a row, and the directory holds no other repository's pushes; what
\* can break it is a crash or an I/O error between a change of the directory
\* and the commit (faults), or DeleteRepository's orphan branch, reached
\* through a stale cache entry while a CreateRepository is under way (strays).
InStep ==
    faults = 0 /\ strays = 0 =>
        \A n \in Names :
            /\ (FollowedRows[n] = None) <=> (disk[n] = None)
            /\ FollowedRows[n] # None => disk[n].data \in {0, FollowedRows[n].id}

\* The cache never serves a repository under a name it was never committed
\* under: no caller sees another's uncommitted insert or rename.
CacheFromPast ==
    /\ \A n \in Names : cache[n] # None => <<n, cache[n].id>> \in past
    /\ \A p \in Procs : call[p].row # None => <<Target(p), call[p].row.id>> \in past

\* No two names share a repository, committed or not, and what a transaction
\* inserts has an id no repository ever had, those that are gone included.
UniqueIds ==
    /\ \A rows \in {db, tx} : \A m, n \in Names :
          rows[m] # None /\ rows[n] # None /\ m # n => rows[m].id # rows[n].id
    /\ \A n \in Names :
          tx[n] # None /\ (\A m \in Names : db[m] # None => db[m].id # tx[n].id)
              => \A old \in past : old[2] # tx[n].id

\* The committed rows change only by whole operations, whatever else fails.
Registry == INSTANCE RepoRegistry WITH registry <- db
RegistrySpec == Registry!Spec

OneCaller == \A p, q \in Procs : p = q

\* With one caller at a time the cache is exact: the entry of a name is its
\* committed row, so that answering from it without a stat is right.
SequentialCoherence ==
    OneCaller =>
        \A n \in Names : cache[n] # None =>
            /\ cache[n] = db[n]
            /\ AllIdle /\ faults = 0 => disk[n] # None

Missing == {n \in Names : db[n] # None /\ disk[n] = None}
Orphans == {n \in Names : db[n] = None /\ disk[n] # None}
Adopted == {n \in Names \ (Missing \cup Orphans) :
               db[n] # None /\ disk[n].data \notin {0, db[n].id}}

\* Every crash or failure (a DeleteRepository that cannot read the row removes
\* the directory all the same), and every directory the orphan branch removes
\* under a CreateRepository, leaves at most one repository without a directory
\* and at most one directory without its repository, and no later sequence of
\* operations, of however many callers, multiplies the damage.
DamageBounded ==
    AllIdle => /\ Cardinality(Missing) <= faults + strays
               /\ Cardinality(Orphans \cup Adopted) <= faults + strays

\* With one caller and no fault, the export file follows the private flag.
ExportFollowsPrivate ==
    OneCaller /\ AllIdle /\ faults = 0 =>
        \A n \in Names : db[n] # None => disk[n].export = ~db[n].private

\* README.md:632: "To make a repository private, use `repo private <repo>
\* [true|false]`. Private repos can only be accessed by admins and
\* collaborators."  AccessLevelForUser reads the flag from the cached row.
PrivateIsEnforced ==
    AllIdle => \A n \in Names :
        cache[n] # None /\ db[n] # None /\ db[n].private => cache[n].private

\* repo.go:240: "If the repo is not in the database but the directory exists,
\* remove it": a DeleteRepository that reports ErrRepoNotFound leaves none.
OrphanIsRemoved ==
    [][\A p \in Procs :
         call[p].op = "delete" /\ call'[p].pc = "idle" /\ call'[p].res = "notfound"
            => disk'[call[p].name] = None]_vars
=============================================================================
