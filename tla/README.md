# TLA+ models and proofs of soft-serve

Soft Serve is a Git server. One process serves Git repositories over SSH, HTTP,
the git protocol and gRPC, keeps its metadata in SQLite (or PostgreSQL) and the
repositories as bare directories. This directory holds TLA+ modules of its
parts, the TLC runs that check them on small instances, and TLAPS proofs for
any instance. Paths below are relative to the repository (`src/` in
`PROJECT.json`).

## The system

| Part | State it keeps | Operations | Modules |
| --- | --- | --- | --- |
| Repository backend, `pkg/backend/repo.go` | rows of `repos`; bare directories; the repository cache | create, import, delete, rename, set private, look up, list | `RepoBackend`, `RepoRegistry`, `Import` |
| Repository cache, `pkg/backend/cache.go` | LRU of 1000 entries, name to row | get, set, delete | in `RepoBackend` |
| Transactions, `pkg/db` | the open transaction | begin, commit, roll back | in `RepoBackend` |
| Task manager, `pkg/task` | map from id to task; each task's flags, error and context | add, run, exists | `TaskManager` |
| Accounts and access, `pkg/backend/user.go`, `collab.go`, `access_token.go`, `settings.go` | users, keys, tokens, collaborators, settings | every change of them; access levels | `Accounts` |
| Front ends, `pkg/ssh`, `pkg/web`, `pkg/grpc` | the session or request: its user, what it was cleared for | authenticate, check access, act | `Requests`, `SshCommands`, `GrpcAccounts`, `LfsLocks`; together `FrontEnds` |
| LFS objects, `pkg/web/git_lfs.go`, `pkg/backend/lfs.go`, `pkg/lfs`, `pkg/storage` | table `lfs_objects`; object files | batch, upload, verify, mirror download, the search for pointers | `LfsObjects`, `PointerSearch` |
| LFS locks, `pkg/web/git_lfs.go`, `pkg/git/lfs.go` | table `lfs_locks` | create, list, verify, unlock | `LfsLocks` |
| Pushes and references, `pkg/ssh/cmd`, `pkg/web/git.go`, `pkg/grpc/server.go`, `git`, `pkg/git` | references, HEAD | push, merge, branch and tag commands, listings | `Refs`, `Pushes`, `RefCommands`, `Lookups`; together `Content` |
| Webhooks, `pkg/webhook`, `pkg/backend/webhooks.go` | hooks, their events, deliveries | create, update, delete, send, redeliver | `Webhooks`, `HookCommands` |
| Git daemon, `pkg/daemon` | listeners, connection table, wait group, done flag | serve, handle a client, close, shut down | `GitDaemon` |
| Terminal UI, `pkg/ui`, `pkg/ssh/ui.go`, `cmd/soft/browse` | the page, its panes, commands and messages under way | keys, messages, commands | `Panes`, `Browser` |
| Migrations, `pkg/db/migrate` | table `migrations`, the tables, object files | migrate, roll back | `Migrations` |
| Server life cycle, `cmd/soft/serve` | the servers, the channel of signals | start, reload, shut down | `Server` |
| Work pool, cron, mirror job, `pkg/sync`, `pkg/cron`, `pkg/jobs` | work map, semaphore | tick, run | `MirrorJob` |

How they interact. Every front end authenticates (gRPC does not), asks
`AccessLevelForUser` and calls the backend from a goroutine of its own; nothing
serialises two calls on one repository. The backend relates three stores (rows,
directories, cache) that share no lock, and the access check reads the
repository through the cache. `ImportRepository` runs in a goroutine of the task
manager and calls `CreateRepository` and `DeleteRepository` of the same backend.
A push runs git, which runs hooks, which are processes that open the database
again and call the webhooks before the reference moves. Webhooks are sent from
within the call that caused them. The mirror job lists the repositories, which
fills the cache, and runs git beside whatever else does.

What is hard, and where (`PROJECT.json` lists each hazard at its line):

- **interleaving**: two callers on one name; a lookup across another's commit;
  two imports; a client accepted while the daemon closes; two uploads of one
  object; two pushes, or a push and a merge; overlapping ticks of the mirror job;
- **stale state**: the cache entry that outlives a change; the session whose
  user was read long ago; the answer to a key pressed on another page;
- **partial failure and crashes**: a directory changed and a transaction not
  committed, or the other way round; an import that fails at any step; files
  renamed inside a migration that is rolled back; hooks that fail in a row;
- **waiting**: channels of capacity one in the task manager, the import, the
  daemon and the server; the pipes between goroutines and git processes of the
  search for LFS pointers; nested transactions on one write lock; the wait
  group of a shutdown;
- **limits**: the connection limit; LFS batches of twenty; pages of locks and
  commits that shift while they are read; the size of a work pool.

What makes each part correct:

- *repositories*: a name has a row exactly while it has a directory; ids are
  never shared or reused; the rows change by whole operations; the cache never
  shows what was not committed; a fault damages one repository and no more;
- *import*: all or nothing; a caller whose repository was offered gets both answers;
  the name is given back;
- *accounts*: rows refer to rows; who has proved to be somebody is him;
  whatever path a request takes, it had a reason to do what it did;
- *LFS*: an object with a row has its whole file, whatever was cut short; what
  a client was told is backed by a row; the search for pointers finds them all
  or somebody failed, and comes to an end; a lock ends only by those who may;
- *content*: a commit that was accepted is not lost; HEAD names a branch;
  hooks are told before a reference moves; a reader misses nothing;
- *daemon*: a graceful shutdown waits for every client; places, sockets and
  goroutines are given back; a silent client is let go;
- *terminal UI*: what is shown is what was asked for, in whatever order the
  answers come;
- *upgrades*: a recorded version has its tables, rows and files; a server that
  is told to stop does;
- *mirrors*: a run reaches every mirror and leaves it as new as its remote.

## Modules

### RepoRegistry and RepoBackend

`RepoRegistry` is the promise: a table of names that changes by whole operations
(create, remove, rename, set private), in which a new repository gets an id
never used before. `RepoBackend` is `pkg/backend/repo.go`, `cache.go` and the
transactions of `pkg/db/db.go`. State: `db` (committed rows), `tx` and `writer`
(the one open write transaction: the default database is SQLite, which has one
writer, and readers see committed rows), `disk` (directories, each with whose
pushes it holds and whether it has `git-daemon-export-ok`), `cache`, and `call`,
one record per concurrent caller with its place in the operation. An action is
what happens between two points where another caller can get in:

| Operation | Actions, in the order of the code |
| --- | --- |
| `Repository` | `CacheHit` or `CacheMiss`, `StatDir`, `QueryRow`, `FillCache` |
| `CreateRepository` | `InsertRow`, `InitDir` (or `InitDirFails`), `Commit` (or `CommitFails`), then `Repository` |
| `DeleteRepository` | `Repository`, then `RemoveNothing`, `RemoveOrphan`, or `RemoveRow`, `RemoveDir` (or `RemoveDirFails`), `DeferredDelete`, `Commit` |
| `RenameRepository` | `CheckDirs`, `MoveRow`, `MoveDir` (or `MoveDirFails`), `DeferredDelete`, `Commit`, then `Repository` |
| `SetPrivate` | `DropCache`, `SetExport` (or `SetExportFails`), `UpdateRow`, `Commit`, then `Repository` |
| `Repositories` | `ListAll` |

A statement that needs the write lock may also end in `BusyTimeout`; `Evict` is
the LRU; `Crash` ends every call, rolls the open transaction back and empties
the cache. A failing step (I/O error, failed commit, crash) counts as a fault.
The deferred `cache.Delete` of delete and rename runs when the transaction
function returns, before the commit: `DeferredDelete` precedes `Commit`.
`DeleteRepository` treats every error of reading the row as a missing one, so a
fault at "remove" lets `RemoveOrphan` take the directory of a repository that is
there. A commit whose context was cancelled has been rolled back, and
`TransactionContext` returns nil for it (`db.go:70`): `CommitFails` may end in
"ok". `strays` counts the directories that the orphan branch removed because
the row was really missing.

Abstractions: names are what `SanitizeRepo` returns; the owner never changes
while a row lives, so the id stands for it; pushes into a directory are the
id of the repository that received them; webhooks and LFS files belong to
other modules. `SetHidden`, `SetDescription` and `SetProjectName` have the
shape of `SetPrivate` without its file and no action of their own.

### TaskManager and Import

`TaskManager` is `pkg/task/manager.go` for one id (ids do not interact): each
`Load`, `Store` and `Delete` of the `sync.Map` is an action, and so is each
access to the task and to the caller's `done` channel. What a task's function
does is left open. `Import` extends it: the callers of `ImportRepository`, the
function as each `Run` executes it, with every failure the code handles, and
others that create or delete the same repository. The clone (`CloneBegins`,
`CloneEnds`) and the download of LFS objects (`FetchEnds`) wait for the remote, and
a task that is run again has a cancelled context, with which git does not start.
`overlap` is history: another operation on the name ran at the same time. `RepoBackend` has create and delete
in full; here they are one step each.

### PointerSearch

`SearchPointerBlobs` (`pkg/lfs/scanner.go`) with the loop of
`StoreRepoMissingLFSObjects` that takes what it finds: six goroutines in a row,
three of them around a git process. State: `stage` and `line` (where each stage
is, and the object whose line it has written and nobody has read: an `io.Pipe`
holds nothing), `errs` and `closed` (the two channels), `cancelled` and `loop`.

| Code | Actions |
| --- | --- |
| `SearchPointerBlobs` and the loop | `SearchBegins`, `Looks`, `LoopEnds`, `Closes` |
| `revListAllObjects`, the filters, `catFileBatchCheck`, `catFileBatch`, `createPointerResultsFromCatFileBatch` | `Lists`, `Passes`, `StageEnds`, `WriteFails`, `PointersStop` |
| `os/exec` and git (external) | `GitDies`, `GitWaited` |
| a cancelled context, the end of the process | `SearchCancelled`, `SearchGone` |

The import's step that configures the repository runs this search, so `MCImport`
checks the two in one run: a behaviour plays imports or searches.

### Accounts, Requests, SshCommands, GrpcAccounts, LfsLocks, FrontEnds

`Accounts` has the tables as one record `db` and each transaction of the backend
as an operator from a database to the one it commits, or to `None` when it ends
in an error. Ids are never used twice, names are unique and rows go with the
rows they refer to, as the migrations declare. `AccessLevelOn` is the decision
of `AccessLevelForUser`, in its order.

`Requests` has `call`, one record per request: the place it is at (`pc`, named
after the check it has passed), the user it read (`who`), whom its credential
was issued to (`cred`), the repository in its context (`repo`), what it was
asked for (`name`), the service its form named (`form`), the lock and the listing
under way, and `overtaken`, history:
another request has changed the tables since this one came in. `subjects` are
the signed tokens in circulation and `up` says the process runs.

| Code | Actions |
| --- | --- |
| public key and keyboard-interactive login (`pkg/ssh/ssh.go`, `session.go`, `middleware.go`) | `Login`, `SessionHandler` |
| `PersistentPreRunE` of the commands (`pkg/ssh/cmd/cmd.go`) | `checkIfReadable`, `checkIfCollab`, `checkIfReadableAndCollab`, `checkIfAdmin`, `SetterCheck` |
| `authenticate`, `withAccess` (`pkg/web/auth.go`, `git.go`) | `withAccess`, `BadCredentials`, `HttpCreates`, `HttpServes`; `TokenExpires` |
| `user`, `settings`, `token`, `jwt`, `pubkey`, `set-username` | `UserCreate` to `UserList`, `SettingsAnonAccess`, `SettingsAllowKeyless`, `TokenCreate`, `TokenDelete`, `TokenList`, `Jwt`, `PubkeyAdd`, `PubkeyRemove`, `PubkeyList`, `InfoCommand`, `SetMyUsername` |
| `repo ...`, `repo collab ...` | `RepoCreate` to `RepoList`, `CollabAdd`, `CollabRemove`, `CollabList` |
| gRPC methods that change tables | `Grpc...`; a method of several transactions is several steps and stops at the first that fails |
| a panic in gRPC, and the restart | `ProcessDies`, `Restart` |
| LFS locks over HTTP | `LocksCreate`, `LocksDelete` then `LocksDeleted`, `LocksGet` / `LocksVerify` then a `ListPage` for each page, `FromPath` |
| LFS locks over SSH (`git-lfs-transfer`) | `LFSTransfer`, `LockCreate`, `LockFromID` then `LockUnlock`, `LockRange` |

`FrontEnds` puts them together. A behaviour plays in one scene, chosen at the
start: accounts, repositories (with collaborators and settings) or locks; all
scenes share the tables and the properties. A user's password, once set, is
accepted for the user who set it: passwords and keys are who they were issued
to, and nobody guesses one. The gRPC server has no user in its context and
checks no access: it is what `pkg/grpc/README.md` calls a management plane,
and the model takes it as one. `withAccess` asks for what the service requires that a
request is taken for (`ServiceOf`, `Need`): the form's if it names one, also on the
routes of LFS; a service that writes makes a repository that is missing, in a step
of its own (`HttpCreates`). The repository row is read from the table: the
cache in front of it is `RepoBackend`'s.

### LfsObjects

The objects of one repository: `file` (what is on disk under the object's
name), `row` (the committed rows of `lfs_objects`) and `repo`. No lock ties
file and row together, and a file is written in place: `CreateFile` truncates
what another may be writing, and each `WriteChunk` goes where the writer's own
offset is. A file that was removed while it was being written is `live` for no
one.

| Operation | Actions |
| --- | --- |
| upload (`serviceLfsBasicUpload`) | `Upload`, `CreateFile`, `WriteChunk`, `UploadRow` |
| batch download (`serviceLfsBatch`) | `Batch`, `BatchRow`, `BatchAdopt` |
| verify (`serviceLfsBasicVerify`) | `Verify`, `VerifyRow` |
| `StoreRepoMissingLFSObjects` | `MirrorStarts`, then per pointer `Look`, `LookFile`, `MirrorAdopts`, and per full batch `Fetch` (the remote answers), `MirrorInserts`, `CreateFile`, `WriteChunk`, `Commit`, `BatchDone`; `SearchEnds` |
| `DeleteRepository` | `DeleteFiles`, `DeleteCommits` or `DeleteFails` |

`RequestFails`, `MirrorFails` and `Crash` can come after any step. The mirror's
transaction holds the write lock (`tx`) while the content comes from the
remote. A delete that has read the rows keeps others from committing until it
ends, as SQLite's rollback journal does. `hurt` is history: the object's file
was truncated while another wrote it or after its row was made, was adopted by
the mirror job before it was whole, or was removed by a delete. Clients are
honest: they ask for an object under its true size and send a prefix of its
bytes. A batch for upload and a GET change nothing and are no actions.

Two behaviours are in the model as they are in the code: a batch download
adopts a file without a row only when the object is empty, because a missing
row counts as size zero and fails the comparison at `git_lfs.go:133`; and verify
says yes to a file of the wrong size, because no branch answers for it
(`git_lfs.go:427`).

### Refs, Webhooks, Pushes, RefCommands, Lookups, HookCommands, Content

One repository from the inside: `there`, `ref` (branches and tags), `head`, the
hooks and their recorded deliveries, and one record per request. A commit is the
set of changes in its history, so an ancestor is a subset. git itself is
external: `Receive`, `RefMoves` and `RevParse` say what the code relies on (a
push is refused when the reference is no longer what the client was told).

| Code | Actions |
| --- | --- |
| a push (`gitRunE`, `serviceRpc`) | `PushBegins`, `PushCreates`, `Receive`, `Update` and `UpdatePush` (the update hook, with its webhooks), `notifyGytBackend`, `RefMoves` or `GitFails`, then over SSH `Undo` when it made the repository and failed, `EnsureDefaultBranch`, `DefaultBranchSet`; over HTTP `ServiceRpc` |
| `branch default`, `branch delete`, `tag delete` (`pkg/ssh/cmd`) | `BranchDefault`, `BranchDefaultSet`, `BranchDefaultTold`; `BranchDelete`, `TagDelete`, `RefDeleted`, `RefDeletedTold` |
| gRPC `CreateBranch`, `DeleteBranch`, `SetDefaultBranch`, `MergeBranches` | the same names; a merge lands in a step of its own, `MergeLands` |
| `SendEvent` and its loop (`pkg/webhook/webhook.go`) | `SendEvent` within the step that causes it, then `SendWebhook` for each hook, or `AnswerBreaks` |
| webhook commands and methods | `CreateWebhook`, `Webhook` then `UpdateWebhook`, `DeleteWebhook`, `RedeliverWebhookDelivery`; gRPC reads the hook again in `GrpcCreatedWebhook`, `GrpcUpdatedWebhook` |
| readers over gRPC and SSH | operators, one per method, in `Lookups`; reading page after page is `LogStarts` and `LogPage` |

Each method of `Lookups` resolves its revision the way its code does (git's
rules, a search of the references, a prefix tried first); that they agree is not
assumed, and not so (`NamesAgree`, `StartsWhereAsked`). `quiet` is history: no other
request changed anything since this one came in; `broken`: an answer ended the
loop; `grown`: each page of a history was of a branch that had the commits of the
page before it.

### GitDaemon

`pkg/daemon`: `Serve` (`Listen` to `Admit`), each client's handler (`AddConn`
to `HandlerDone`), the goroutine that scans its request (`ScanLine`,
`ScanFails`, `SendError`, `SendNil`) with its channel of capacity one, and
`Close` / `Shutdown`. `late` is history: `Serve` had passed its check of `done`
when the daemon was closed, and counted itself in the wait group afterwards.

### Panes and Browser

The terminal interface is one loop over messages. `Panes` has the `Update` of
each pane (readme, files, commits, references, stash) as an operator from the
pane and a message to the pane and the commands it issues; `Browser` has the
pages around them (`RepoUpdate`, `UICmds`), the commands and what they send. A
command (`RunCommand`, `CommandFails`, `CommandPanics`) runs in a goroutine of
its own and reads the pane as it is when it runs; its message is handled
later, in any order (`DeliverAnswer`, `DeliverSent`). `Press` is a key or click
when nothing is under way, `PressEarly` one that comes before. What is shown is
the place it was read from: repository, reference, path and page. A layout
chosen at the start says which front (SSH or `soft browse`) and which tabs.

### Migrations and Server

`Migrations` has `db` (what is committed: driver, version, tables, whether the
rows of version 0.6 were carried over), `boot` (the transaction of `Migrate`),
`files` (where each LFS object's file is) and `stuck` (whose rename failed).
`BeginMigrate`, `RunMigration` for each version due, `MoveObject` and
`ObjectsMoved` within the third, `CommitMigrate` or `AbortMigrate`; `Rollback`
forgets a version, because the files for going down are empty.

`Server` composes it with the process: `Serve`, `MigrateOnly` (`soft admin
migrate`), `StartServer`, `Listen` (or its failure) per front end, `Request` and
`Answer`, `Signal` and `Reload`, `BeginShutdown`, `StartReturns` and `StartError`;
`Crash` at any point and `AdminRollback` while the server is down. `Shutdown` is a
goroutine per front: `CloseFront` closes what listens, `ShutdownReturns` when the
requests are answered (`Drained`) or the context is over (`late`): after five
seconds (`Deadline`), or when another front's listener returned an error, because
`errgroup.WithContext` cancels what the others wait on (`server.go:184`). `Exit`
follows when all have returned. The channel of signals holds one and is closed when
`Start` returns, gRPC takes no part in `Shutdown`, and a front that is not in
`Guarded` may open after its own: the git daemon when it was past its checks of `done`
(`daemon.go:79`, `92`), SSH always, since its library does not look. `db.repos`:
there is a repository, without which no object has a row (`Rows`) and PostgreSQL
does not meet the query that fails there; a request may make the first one.

### MirrorJob

`pkg/jobs/mirror.go` on the pool of `pkg/sync/workqueue.go`: `Tick` lists the
mirrors and fills a pool; `Acquire` takes a place for a mirror; each of its two
git commands is `ReadRemote` (what the remote advertises), `ReadLocal` (what it
is compared with) and `Move`, or `CommandFails`; `Over` when the pool has taken
its places back (`Waited`). `RemoteMoves` is somebody's push to the remote, and
`JobCrash` the end of the process. A run that has been the only one since its tick
is `alone`.

### MC modules and proofs

`MCRepoBackend`, `MCImport`, `MCGitDaemon`, `MCLfsObjects`, `MCFrontEnds`,
`MCContent`, `MCBrowser`, `MCServer` and `MCMirrorJob` are what TLC runs.
The theorems are in `RepoBackendProofs`, `FrontEndsProofs` (first a
lemma for each transaction of `Accounts`), `ImportProofs` (with those of
`PointerSearch`), `GitDaemonProofs`, `LfsObjectsProofs`, `ServerProofs` (with
those of `MirrorJob`), `ContentProofs` and `BrowserProofs`. An operator whose name ends in `Bug` is a plausible mistake in the definition after
it; only the mutants of `PROJECT.json` use it.

## Runs

| Run | Instance | Shows | States |
| --- | --- | --- | --- |
| `RepoConcurrent` | 2 callers, 2 names, 2 repositories, no fault; symmetric | `TypeOK`, with who holds the write lock; `InStep`: row and directory go together; `DamageBounded`: each directory that the orphan branch removes under a create costs one repository; `CacheFromPast`: the cache and every lookup show committed rows of that name; `UniqueIds`: no id is shared or used again; `RegistrySpec`: `RepoBackend` implements `RepoRegistry` | 1,923,910 |
| `RepoFaults` | 1 caller, 2 names, 3 repositories, 2 faults; symmetric | `SequentialCoherence`: without concurrency the cache is exact; `DamageBounded`: n faults (a failed read of a row before a delete among them) leave at most n repositories without directory and n directories without their repository; `ExportFollowsPrivate` | 387,444 |
| `ImportSteps` | 2 callers, 2 tasks; a search over one object of each of 8 kinds, 2 failures | `AllOrNothing`, `SuccessIsThere`, `PointersFound`, and under fairness, imports of one name overlapping or not, `NameFreed`: the id is given back; `CallerReturns`: `ImportRepository` returns; `SearchReturns` | 158,059 |
| `ImportRerun` | the same | violation of `WaitersOnlyWait` | |
| `DaemonStops` | 2 clients, a Close, a Shutdown, limit 2 | `TypeOK`, `ShutdownIsGraceful`, `PlacesAreFreed`, and under fairness `SilentClientsEnd`, `ServeReturns`, `ScannersEnd` | 300,931 |
| `LfsTransfers` | any two of 2 requests and 2 mirror runs with an object of 2 chunks and an empty one, 2 requests and a run with the larger one, batches of 1 | `StoredIsWhole`, `AnswersAreKept`, and under fairness `MirrorReturns`: a run whose own remote answers comes to its end, though another's remote is silent and the write lock taken | 572,249 |
| `Accounts` | 2 requests at a time, up to 3 (4 in the scene of accounts); 3 user ids, 1 token, 2 repositories, 3 locks, pages of 1; symmetric | `RowsReferToRows`: no row refers to a row that is gone, whatever is deleted in between; `IdentityHolds`: a request acts as whom its credential was issued to; `Authorised`: whatever path a request took, it had a reason to do what it did; `OwnRepository`: it changed no repository but the one it was let in for; `LocksEndProperly`; `ListingComplete`: pages that shift, in one order, lose no lock unless one was removed | 378,315 |
| `DeleteUser` | 1 request at a time | violation of `UserDeletionWorks` | |
| `Content` | 2 requests at a time, up to 3 (2 with hooks), 2 branches and a tag that shares a name, 4 changes, 3 hooks, pages of 1 | `TypeOK`; `PushesKept`: an accepted commit stays; `HeadStands`; `Announced`: hooks are told before a reference moves; `HookAsAsked`; `HistoryComplete`: pages lose no commit while the branch grows | 647,638 |
| `Browser` | 3 repositories, one of them empty, 4 layouts, 1 failure of git | `ShownIsCurrent`: the page shows what was asked for, however answers overtake each other | 938,302 |
| `Server` | SSH, HTTP and gRPC, 2 LFS objects, 3 rollbacks, 2 crashes or failures besides fronts that cannot listen, 2 signals, eight databases a server may find | `UpgradeKeepsData`: a recorded version has its tables, rows and files; under fairness `StopsWhenTold`: a signal ends it, and requests that were being served first | 738,253 |
| `Mirrors` | 2 mirrors, 2 overlapping runs, 1 worker, 1 change of each remote; symmetric | `MirrorsVisited`: a run reaches every mirror, within its pool, and alone leaves it as new as its remote was | 208,775 |

Why the bounds are enough.

- *Repositories*: an operation touches at most two names, and every conflict in
  the code is between two callers; two names give rename onto a free and onto a
  taken name, and two repositories give deletion followed by re-creation under a
  stale cache entry. Three repositories and two faults, with one caller, let the
  damage of the first fault meet a second one and a repository created over it.
  Concurrency together with faults is left to the proofs of `UniqueIds`,
  `CacheFromPast`, `DamageBounded` and the refinement, which bound neither.
- *Import*: two callers suffice for one to overwrite the other's task, to run it
  and to wait for it; two tasks for an id used twice. *Search*: eight objects
  keep every stage of six busy at once and contain each kind a stage tells
  apart; with two failures one can meet what the other left half done.
- *Daemon*: two clients, so that one is in the table while the other is
  accepted, refused at the limit, or still to be added.
- *LFS*: an object is damaged by two writers; two requests and two mirror runs give
  every pair, and a run that holds the write lock needs another to keep waiting. Two chunks let a write be cut and leave a hole; batches of one let
  a batch be full with a pointer still to come.
- *Accounts*: a hazard here is a decision made before another's commit, so two
  requests at once and one more to prepare or use the damage. Three user ids let
  a name be freed and taken by another user; two repository ids do the same for
  repositories; three locks and pages of one let a lock be made or removed
  between two pages. A fourth request matters to accounts, where a name is freed,
  taken and used; the scene of locks starts with a writer, a reader and a lock made.
  The second and the third lock share a second, the first has its own: two orders.
- *Content*: two pushes that cross, and one that follows them. Three starting
  points: nothing; two branches of which one contains the other, with a tag of
  the same name; and two that diverged. Four changes let both requests add
  commits to those.
- *Browser*: two branches and two repositories, so that an answer can be for the
  wrong one of either; an empty one, which sends no reference; the layouts
  group the tabs that exchange messages. Two layouts have early keys: opening,
  going back and changing tabs while something is under way.
- *Server*: two objects let a crash fall between two renames; three rollbacks go
  from the last version to none; two crashes let the second meet what the first
  left; two fronts besides gRPC let the error of one end the other's wait, and two
  signals let one find the channel full.
- *Mirrors*: one worker makes two mirrors wait for each other; two runs are one
  more than the code expects. The proofs bound none of these.

Deadlock is checked in the repository, LFS, browser, server and mirror runs (in
`LfsObjects`, `Server` and `MirrorJob` a crash or a next tick is nearly always
possible, and the check shows little). Import, daemon, accounts and content come
to rest by design (all tasks or requests used, a caller that waits for ever, a
server that has stopped), so their configurations turn the check off.

Fairness. None is assumed of the repository backend, the accounts, the content,
the browser and the mirrors: what is checked of them is safety. In `Import`
every goroutine is scheduled, but a clone need not end (its timeout is -1,
`repo.go:121`), nor need the download of LFS objects (`repo.go:194`, by a client
without a timeout, `pkg/lfs/http_client.go:26`), and nobody has to start an import. In `PointerSearch` the
goroutines and git's processes are scheduled and a look-up returns. In
`GitDaemon` every goroutine is scheduled; a scan ends because the idle timeout is
positive by default and each read has a deadline; git ends once its client's
context is cancelled (`exec.CommandContext` kills it) and not before: with
`MaxTimeout` 0, the default, a busy client is served for ever. `Shutdown` ends
because its caller gives it a context of five seconds
(`cmd/soft/serve/serve.go:133`). In `LfsObjects` a mirror run's own steps
(`MirrorLocal`) are scheduled and the busy timeout ends its waits for other
transactions (`AtLock`). Nothing makes the remote answer a request (`Fetch`) or send
the content (`WriteChunk`), nor fail (`MirrorFails`), since the client has no timeout
(`pkg/lfs/http_client.go:26`, `basic_transfer.go:89`): `MirrorReturns` speaks of a run
that does not wait there for ever (`AtRemote`). In `Server` the process takes its own steps (`StartReturns`, `StartError`,
`Reload`, `BeginShutdown`, `Exit`), the five seconds pass (`Deadline`), and
each goroutine of `Shutdown` runs and returns at the latest with its context
(`CloseFront`, `ShutdownReturns`; `daemon.go:357`). Nothing makes a client come, a
front listen or a request end.

### Where the code does not do what it says

`PROJECT.json` has two findings, each a violation that TLC shows:

- `ImportRerun` (`WaitersOnlyWait`): `pkg/task/manager.go:78` says a second `Run`
  waits; it waits, then runs the task again (line 95), and the second clone's
  clean-up removes the repository that was imported.
- `DeleteUser` (`UserDeletionWorks`): `pkg/backend/user.go:300`; deleting a user
  who owns a repository waits for a lock its own transaction holds, and fails.

Eleven more properties are violated. Two have configurations of their own; the others
are shown by that of a run with the property in place of the run's:

| Property | Module and configuration | What the code does |
| --- | --- | --- |
| `PrivateIsEnforced` | `MCRepoBackend`, `RepoConcurrent` | README.md:632; a lookup that read the old row puts it back into the cache after `SetPrivate` dropped it (`repo.go:571`, `439`) |
| `OrphanIsRemoved` | `MCRepoBackend`, `RepoConcurrent` with one caller and `MaxFaults` 1 | `repo.go:240` "If the repo is not in the database but the directory exists, remove it": `Repository` at line 218 needs the row, so the branch is reached only by a stale cache entry |
| `LimitIsKept` | `MCGitDaemon`, `DaemonLimit` | `config.go:60`; a connection enters the table in a goroutine of its own (`daemon.go:128`, `162`), so more than `MaxConnections` can be served (one after the other, at most one less) |
| `MissingAreStored` | `MCLfsObjects`, `LfsLastBatch` | `backend/lfs.go:19`; the last batch of fewer than twenty pointers is dropped |
| `GrpcSurvives` | `MCFrontEnds`, `DeleteUser` with the scene "repositories" | `pkg/grpc/README.md:38`; a change of a repository over gRPC builds a webhook for a sender that is nil (`pkg/webhook/repository.go:58`) |
| `UpdateTakesEffect` | `MCContent`, `Content` with the scene "hooks" alone | README.md:696; `backend/webhooks.go:158` deletes the events that are gone with an empty list when there are none, and the query fails |
| `HistoryIsTheFiles` | `MCContent`, `Content` | `pkg/grpc/README.md:461` "Get file history (commits that modified a file)"; the path is not used (`server.go:1624`) |
| `StartsWhereAsked` | `MCContent`, `Content` | `pkg/grpc/README.md:354` "Branch, tag, or commit SHA to start from"; a SHA no reference names is answered with HEAD's history (`server.go:1076`) |
| `NamesAgree` | `MCContent`, `Content` | a branch and a tag of one name: `ListCommits` and `SearchCommits` read the branch, `CompareBranches` and SSH `commit` the tag (`server.go:1048`) |
| `PathIsChecked` | `MCContent`, `Content` | `pkg/grpc/README.md:69`; `CheckPath` of a path that is not there looks it up in a nil tree and panics (`server.go:1775`) |
| `TermIsHeard` | `MCServer`, `Server` | a signal to stop that comes while the channel of one (`serve.go:90`) holds another is lost, and the server goes on |

Exceptions built into properties that hold are behaviours of the code too:

- `InStep`: a `DeleteRepository` that takes a repository under creation, or one
  whose row it could not read, for an orphan removes its directory (`repo.go:241`);
  `DamageBounded` has no such exception.
- `CallerReturns`: an import that fails before it offers its repository leaves
  its caller waiting on `repoc` (`repo.go:207`), and so does a `Run` that executed
  the task of another caller or found none (`task/manager.go:45`). With
  `NameFreed`: a remote that falls silent keeps caller and id.
- `NameFreed`: a `Run` that executed a task a second time blocks in its second
  send before it gives the id back, when its caller has no repository
  (`task/manager.go:98`, `114`).
- `ScannersEnd`: a scanner whose error nobody received (`daemon.go:179`).
- `SearchReturns`: a loop that returns early leaves the last stage, and those
  before it, waiting on a channel (`backend/lfs.go:63`). `PointersFound`: a stage
  after `rev-list` that fails is told to nobody.
- `PushesKept`: a branch or tag deleted over SSH goes with what was pushed to it
  since the command looked (`git branch -D` does not name the commit), a merge sets
  the branch without its old value, a branch deleted over gRPC is kept in HEAD's
  history only, and a push that made the repository removes it when it fails
  (`pkg/ssh/cmd/git.go:251`), with what others have pushed meanwhile. When nobody
  came in between, none of them takes anything its caller had not seen.
- `Authorised`: a request that another one overtook acts on the user, level and
  repository it read before. A lock request over HTTP that names a service in its form is
  asked for what that service needs (`git.go:239`, `277`), so reading suffices for one
  that says `git-upload-pack`, while the comments at `git.go:303` and `306` say that
  these routes "require write access".
- `ListingComplete`: locks are listed by `updated_at`, which is a second
  (`pkg/store/database/lfs.go:49`). Those of the same second may come in another
  order with every page, and then one is shown twice and another left out.
- `HeadStands`: SSH looks after HEAD; gRPC and overlapping commands do not.
- `Announced`: an answer that cannot be read ends the loop over the hooks, so
  later hooks are not called (`webhook.go:176`).
- `ShownIsCurrent`: keys pressed while something is under way, failures of git,
  and `soft browse` told HEAD before its repository; an empty repository leaves
  the readme and the stash loading.
- `MirrorsVisited`: overlapping runs may take a mirror back to what the slower
  one had seen.
- `UpgradeKeepsData`: an object whose file could not be renamed, or for which `Stat`
  returned any error (`0003_migrate_lfs_objects.go:43`), stays where the server no
  longer looks.
- `StopsWhenTold`: after the deadline, after another front's error, or at a front
  that opened after its `Shutdown`, requests are cut off; gRPC's always are.

## Proofs

| Theorem | Module | Statement |
| --- | --- | --- |
| `TypeCorrect` | `RepoBackendProofs` | `Spec => []TypeOK` |
| `IdsAreUnique` | `RepoBackendProofs` | `Spec => []UniqueIds` |
| `CacheIsCommitted` | `RepoBackendProofs` | `Spec => []CacheFromPast` |
| `RowsAndDirectoriesInStep` | `RepoBackendProofs` | `Spec => []InStep` |
| `RegistryImplemented` | `RepoBackendProofs` | `Spec => RegistrySpec` |
| `DamageIsBounded` | `RepoBackendProofs` | `Spec => []DamageBounded` |
| `CacheIsCoherent` | `RepoBackendProofs` | `Spec => []SequentialCoherence` |
| `ExportFollows` | `RepoBackendProofs` | `Spec => []ExportFollowsPrivate` |
| `Types` | `FrontEndsProofs` | `Spec => []TypeOK` |
| `TablesStayConsistent` | `FrontEndsProofs` | `Spec => []RowsReferToRows` |
| `RightUser` | `FrontEndsProofs` | `Spec => []IdentityHolds` |
| `NobodyOversteps` | `FrontEndsProofs` | `Spec => Authorised` |
| `OthersLeftAlone` | `FrontEndsProofs` | `Spec => OwnRepository` |
| `NoLockIsTaken` | `FrontEndsProofs` | `Spec => LocksEndProperly` |
| `WholeListing` | `FrontEndsProofs` | `Spec => ListingComplete` |
| `ImportTypes` | `ImportProofs` | `Spec => []TypeOK` |
| `ImportIsAllOrNothing` | `ImportProofs` | `Spec => []AllOrNothing` |
| `SuccessMeansThere` | `ImportProofs` | `Spec => []SuccessIsThere` |
| `SearchFindsPointers` | `ImportProofs` | `SearchSpec => []PointersFound` |
| `Types` | `GitDaemonProofs` | `Spec => []TypeOK` |
| `GroupIsExact` | `GitDaemonProofs` | `Spec => []GroupCounts` |
| `Graceful` | `GitDaemonProofs` | `Spec => []ShutdownIsGraceful` |
| `PlacesFreed` | `GitDaemonProofs` | `Spec => []PlacesAreFreed` |
| `ObjectsTypeCorrect` | `LfsObjectsProofs` | `Spec => []TypeOK` |
| `ObjectsAreWhole` | `LfsObjectsProofs` | `Spec => []StoredIsWhole` |
| `AnswersHaveRows` | `LfsObjectsProofs` | `Spec => []AnswersAreKept` |
| `UpgradesKeepData` | `ServerProofs` | `Spec => []UpgradeKeepsData` |
| `MirrorsAreVisited` | `ServerProofs` | `JobSpec => []MirrorsVisited` |
| `ContentTypes` | `ContentProofs` | `Spec => []TypeOK` |
| `PushesStay` | `ContentProofs` | `Spec => PushesKept` |
| `HeadStays` | `ContentProofs` | `Spec => HeadStands` |
| `AnnouncedBefore` | `ContentProofs` | `Spec => Announced` |
| `HooksAsAsked` | `ContentProofs` | `Spec => HookAsAsked` |
| `HistoryCompleteAlways` | `ContentProofs` | `Spec => HistoryComplete` |
| `ShownAlways` | `BrowserProofs` | `Spec => []ShownIsCurrent` |

**Repositories**, for any sets of callers and names and any bounds, assuming
`ConstantsOK`: the bounds are naturals and `None` is none of the other values.
All rest on one inductive invariant, `Core`, with six parts:

- `TypeOK`;
- `Shapes`: a caller's record fits its place in the operation (a caller at
  "rmdir" is deleting, one at "fill" holds a row, ...);
- `Locked`: a caller past its first write statement is the `writer`, and only
  that one is;
- `TxFollowsOp`: `tx` differs from `db` exactly by what the writer's operation
  has done so far. Without it `Commit`, which copies `tx`, could install
  anything: this is what makes the refinement and the uniqueness of ids
  inductive;
- `IdsIssued`: no id in `db` or `past` exceeds `issued`, and ids in `db` are
  unique; that what is inserted is new to `past` follows (`NewIds`);
- `PastCovers`: every committed row is in the history.

`CacheFromPast` and `InStep` are then inductive relative to `Core`. `InStep`
needs the writer's place because directories are changed before the commit:
`FollowedRows` switches from `db` to `tx` at the moment the directory changes.
For the refinement, each step maps to one registry operation (`Commit`) or to a
stutter (all others).

`DamageBounded` speaks of states in which nobody is at work; `Damage` says the
same of every state, with `FollowedRows` in the place of the committed rows. A step
adds a name to `Lost` or to `Littered` only if it is a fault, and a rollback, which
moves `FollowedRows` back to `db`, is always one; a step that moves a directory
takes a name out where it puts one in, because of `MovedAway`: nothing comes to
the old place of a directory before the commit of its rename. `DeleteRepository`
removes a directory without having changed the row in one place, `RemoveOrphan`:
it is a fault or a stray (`Harm`). The theorem is for any number of callers and of
faults, while one run has no fault and the other one caller.

`CacheIsCoherent` and `ExportFollows` are for one caller, with any faults and
with none. `Sequential` says that every entry is the committed row, that a
name is not cached between the step that drops it and the commit (`Dropped`), and
that the export file is the row's but between the two steps of `SetPrivate`.

**LFS objects**, for any objects of any sizes, requests, mirror runs and batch
size, assuming `LfsAssumption`. `Inv` adds two parts to the properties: `Shaped`
says of each process that what it has sent fits its place (`Fits`), and that the
file it writes, unless hurt, is still under its name and holds exactly what it
has sent (`Intact`); `Alone` says that an object with two writers is hurt. So a
process that comes to its row has a whole file, one that still writes has no
row, and one that truncates a file under another's hands leaves it hurt. The
only adoption that does not look, a batch's, is of an empty object.

**Upgrades**, for any LFS objects, front ends, databases found (`StartAssumption`
says what those are) and any number of crashes, signals and rollbacks. `Inv` has
four parts: `Typed`; `Committed`, what a recorded version has, its files
included; `InOrder`, that the open transaction's tables are those of the
migrations it has run and that files have moved exactly as far as it has come;
and `Booting`, that it is open only while the process migrates, and that a
process that serves has the last version. Files are renamed before the commit
and stay renamed when it fails: the invariant holds because a file that was
moved is left alone the next time.

**Mirrors**, for any mirrors, runs, changes of remotes and pool size (`Workers`
is a natural; zero gives one worker). `Inv` says of each run (`Sound`) that every
mirror it opened is to do, under way or done, that no more are under way than the
pool holds (by the library's lemmas on cardinality), and, of a run that is
`alone`, that what its commands have seen is no older than the remote was at the
tick (`Fresh`); `Sole` says only one run is alone. Without `Sole`, another run's
`Move` could undo what `Fresh` says.

**Accounts and front ends**, for any tables to start with, any scenes and any
number of requests at once. The assumptions: the bounds are naturals
(`AccountsAssumption`, `RequestsAssumption`), `None` is no value of a column, a row
or what a request keeps of one (`NoneAssumption`), a page has a place and a later
lock is not made in an earlier second (`LfsLocksAssumption`), and the tables to start with are
tables whose rows refer to rows (`FrontEndsAssumption`, which is what the schema's
foreign keys and unique indexes say). Each transaction of `Accounts` is
shown to fail or to leave such tables, in which locks are gone only with their user or
repository (`Sound`). `Inv` adds to `TypeOK` and `RowsReferToRows` what each
request knows, in two parts. The first holds whatever others do: it acts for the
user its credential was issued to (`Identified`), and a lock whose owner it has
compared is still that owner's, since ids are never handed out twice (`Unlocks`).
The second holds until another request commits (`Cleared`): what it has read is as
it is, and the reason it was let through for is there; a request that made its
repository has its owner's reason (`OwnerHasReason`). `Authorised` follows from
`Cleared` and from which requests may change anything (`ActsWrite`); `OwnRepository`,
of requests overtaken or not, from what each kind of request changes;
`LocksEndProperly` from `LocksCarriedOver` and `Unlocks`.

`ListingComplete` needs an invariant of its own, `ListInv`, over the pages read so
far, while they were all given in one order: if nothing was removed, every lock of
the first moment that has not been seen has at least as many locks before it as were
read, and, if nothing was added, every lock that has been seen has fewer
(`PagesRead`). Of the orders it uses only that no two locks share a place. An
addition pushes locks to later pages and a removal pulls them to earlier ones, which
is why each half has the exception it has. Ranks are cardinalities: `RankFacts` and
the library's lemmas. The types of these tables and requests are proved (`Types`) and
in no run.

**Imports**, for any callers and any number of tasks, assuming `TaskAssumption`
(a natural number of tasks, and `None` is not one). `Inv` has three parts: `Typed`;
`Shapes`, that the task's function is under way exactly while its `Run` waits for
it; and `Undisturbed`: as long as no two operations on the name have overlapped,
one `Run` at most is active and the map's entry is its unstarted or own task
(`Alone`), and what is on disk and in the database is exactly what that `Run` has
come to (`MadeSoFar`). `Store` of `Add` makes a `Run` active; unless it overlaps
something it finds no entry and no directory, hence nothing. When nobody is active
the repository is there, is not, or is a clone whose row failed (`broken`).

**The search for pointers**, for any list of objects and number of failures,
assuming `SearchAssumption`. `SearchInv`: `Sifted`, what has come to a stage has
passed every filter before it; `InOrder`, without a failure a stage ends only after
those before it, having passed on what it kept, so that a pointer that was printed
is in a stage or has been looked at; `Silent` and `Told`, which failures the loop
hears of. Six stages run at once, and no bound on the list is needed, as the
invariant is about single lines and not about what a prefix of the list computes.

**The daemon**, for any finite set of clients (`DaemonAssumption`; without it the
WaitGroup is no number), any limit, and any calls of `Close` and `Shutdown`. `Inv`
has `GroupCounts` at its centre: the WaitGroup is the number of clients admitted
and not over, plus one while `Serve` counts itself. `OneAccepted` makes each
connection counted once, `Places` ties a connection's entry in the table and its
socket to where its handler is, and `Stopped` says that a `Shutdown` past its wait
has seen the group at zero and that nobody has been counted since, but for a
`Serve` past its check (`late`).

**References and hooks**, for any branches, tags, commits, hooks, scenes, page size
and number of requests at once. The assumptions: the bounds are naturals, every
branch's name is a reference's (`RefsAssumption`), `None` is no commit, row, name or
list of commits (`NoneAssumption`, `LookupsAssumption`), what is asked of hooks is
rows (`HooksAssumption`), no file is a directory (`LookupsAssumption`), and the
repository starts with commits and with hooks whose ids count from 1 and whose
addresses differ, as the table's unique index says (`ContentAssumption`). `Inv` has
five parts:

- `World`: types, no references without the repository, no hook with an id beyond
  the last, no two with one address;
- `Shape`: what a request's record holds at its place (a merge's new commit has its
  old one, a request that sends an event has hooks to call, ...);
- `Sees`: until somebody else changes something, what it has looked at is so: a
  push that deletes does not delete HEAD's branch, the branch chosen for HEAD is
  there, a merge's base and a command's branch are what they were, the repository
  an unfinished push has made is empty, a hook that was made has the
  greatest id. An overtaken request loses this and nothing else (`OvertakenFine`),
  which is why one lemma, `OvertakeKeeps`, serves all that change something;
- `Told`: of the events a push has come past, every hook subscribed has its delivery
  or is still to be called. A hook's subscription changes only by a step that
  overtakes the push, so the list that was read stays right;
- `Read`: what has not been seen of a growing history lies behind the pages read.

The action properties follow from `Inv` and from two lemmas on steps: `Sorts`, which
steps may change references or hooks at all, and `Places`, what a request does next
where it is. `HistoryComplete` needs one fact more, `PageFull`: a page with anything
behind it has exactly as many commits as fit, so that a reader goes on. Its core is
`NewestCount`, on finite sets of numbers: if one of them has k greater ones, exactly
k have fewer; by the least and the greatest element, without induction.

Proving `HistoryComplete` for any bound showed that its first form, which looked
only at the first and the last page, was false beyond the run's bounds: a branch that is
deleted between two pages and comes back before the last one shows the reader
other pages. Hence `grown`.

**The terminal interface**, for any repositories, branches, trees of files, stashes,
tabs in any order, and any number of faults. The assumptions: `None` is neither a
repository nor a reference, every path is a sequence whose directory is one, a
repository with a branch has commits (`PanesAssumption`); there is a tab, and the
tabs are among the five (`BrowserAssumption`). `Inv` is `World` (the shape of the
state) and, unless a key was pressed early or HEAD was heard first, that nothing
panicked but the copy of no stash, and `Stage`: one of thirteen descriptions of what
is under way. Most stages have one command or one message under way (`UnderWay`), and
what the panes have come to by then: `Filing`, for a file that was picked, says
which of the file, its directory and the list the pane already has.

`Reloading` is the one in which answers overtake each other. It says of each pane
that it shows what it is to (`Done`), or that a load of it or the answer is under
way (`Due`), and of each message that it is of the page's repository and reference
and, where the pane has a path or a page, of those (`Rightly`). That no message says
what it is about does no harm for two reasons the invariant makes explicit: a pane's
path and page change only when nothing else is under way, and a reference is told to
every pane only after the last one's answers are in. A failure of git leaves only what
the page needs to go on (`Reloads`), and a repository that is opened anew starts from
nothing (`OpensAfresh`). Each stage has a lemma for the steps from it, `Proceeds` and
`Presses` put them together, and `QuietReloads` with `AtRest` gives what is shown when
nothing is under way. The update of a page is a bag sum over the five panes
(`RepoUpdate`), each told once or twice (`Twice`: the second time changes nothing).

The proof found `Init` ambiguous: its `CASE` had two guards that could both hold, of
which TLC takes the first and the prover neither.

Only model-checked: liveness (`NameFreed`, `CallerReturns`, `SearchReturns`,
`SilentClientsEnd`, `ServeReturns`, `ScannersEnd`, `MirrorReturns`, `StopsWhenTold`),
since fairness and `ENABLED` are outside the prover's reach.

## Not modelled

- Configuration, logging, statistics, utilities: read once at the start, or
  pure input and output. `SanitizeRepo` and `ValidateRepo` are assumed wherever
  there are repository names. (`.env` is read after the configuration it is to
  change; the initial keys are made before the servers start.)
- Generated protocol code, the gRPC client, completion, man pages.
- `SetHidden`, `SetDescription`, `SetProjectName` (the shape of `SetPrivate`).
- A context cancelled in the middle of a transaction is modelled where it matters,
  at the commit and at the read of `DeleteRepository`; elsewhere a failed read
  ends its call and changes nothing.
- PostgreSQL's concurrent writers: transactions are modelled as SQLite runs
  them, one writer at a time. Migrations are modelled for both.
- `Manager.Stop`, which nothing calls.
- LFS transfers over SSH (`pkg/git/lfs.go`): an upload goes to a temporary file
  that is renamed after its row is made, and the row is removed when the rename
  fails. What of a cut upload reaches it is decided by the git-lfs-transfer
  library, which is not in the repository. Locks over SSH are modelled. The
  object client's HTTP protocol.
- The hook scripts and custom hooks (a custom hook's failure is only logged).
- gRPC readers that copy rows or list references (branches, tags, the default branch,
  statistics, trees) and SSH `blob`; `go-get`, health checks and CORS: no state.
- What a reload does to the certificate; repositories deleted between upgrades.
- Patches, attributes and files of the git wrapper; styles, layout and keys'
  help of the terminal interface; the text a code pane wraps.
- An administrator's rollback while a server is running.

Observed while modelling, and kept in the models as they are: a lock request over
SSH compares a lock with its own owner (`pkg/git/lfs.go`); a lock is read by id
whatever its repository (`git_lfs.go:612`); `CreateWebhook` over gRPC answers the
last hook of the list; `ListUsers` skips a user renamed in between; the
migrations' files for going down are empty, so a SQLite database of version 0.6
that was rolled back to the start cannot be migrated again, nor one of PostgreSQL
whose tables are there; the server's channel of signals is closed once `Start`
has returned, and a signal after that ends the process; a front end that fails to
listen is not reported while another serves; gRPC takes no part in `Shutdown`; a
message of the terminal interface says neither which repository nor which
reference it is for.

## Plan

1. LFS transfers over SSH beside those over HTTP.
2. Access decided over the repository cache, composing `RepoBackend` with `Accounts`.
