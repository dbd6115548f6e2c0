-------------------------------- MODULE Import --------------------------------
(***************************************************************************)
(* ImportRepository of pkg/backend/repo.go over the task manager: callers  *)
(* import a remote under one and the same name while others create and     *)
(* delete the repository of that name.                                     *)
(*                                                                         *)
(* `dir` is the directory of the name and `row` its row in the database.   *)
(* CreateRepository and DeleteRepository are single steps here;            *)
(* RepoBackend has them in full.                                           *)
(***************************************************************************)
EXTENDS TaskManager

VARIABLES
    caller,    \* [Callers -> where in ImportRepository]
    repoc,     \* [Callers -> does the caller's repoc hold a repository]
    dir,       \* "none", "partial" (being cloned), "full"
    row,       \* is there a row for the name
    overlap,   \* have two operations on the name overlapped
    broken     \* has CreateRepository failed half-way

importVars == <<caller, repoc, dir, row, overlap, broken>>
vars == <<tmVars, importVars>>

CallerPC == {"idle", "stat", "add", "store", "repo", "done"}
FnPC == {"none", "called", "cloning", "cleanup", "create", "open", "offer",
         "config", "fetching", "undo", "ok", "failed"}

Init ==
    /\ TMInit
    /\ caller = [c \in Callers |-> "idle"]
    /\ repoc = [c \in Callers |-> FALSE]
    /\ dir = "none"
    /\ row = FALSE
    /\ overlap = FALSE
    /\ broken = FALSE

-----------------------------------------------------------------------------
(* The caller                                                              *)

CallerAt(c, pc) == caller[c] = pc
CallerTo(c, pc) == caller' = [caller EXCEPT ![c] = pc]
Return(c) == CallerTo(c, "idle")

\* A goroutine that leaves the map to another: the caller's Run has ended.
Unused(c) == RunAt(c, "off") /\ fn[c] \in {"none", "ok", "failed"}

\* No call of the function is under way.
Quiet == \A c \in Callers : fn[c] \in {"none", "ok", "failed"}

\* Another's Run still executes the function of a task that c has made.
RunElsewhere(c) ==
    \E d \in Callers : runner[d].task # None /\ tasks[runner[d].task].owner = c

Begin(c) ==
    /\ CallerAt(c, "idle")
    /\ Unused(c)
    /\ ~RunElsewhere(c)                        \* bound: c stands for one call at a time
    /\ Tasks # Made                                      \* bound
    /\ runner' = [runner EXCEPT ![c] = Off]
    /\ fn' = [fn EXCEPT ![c] = "none"]
    /\ repoc' = [repoc EXCEPT ![c] = FALSE]
    /\ IF Exists THEN UNCHANGED caller            \* ErrAlreadyStarted
                 ELSE CallerTo(c, "stat")
    /\ UNCHANGED <<entry, tasks, dir, row, overlap, broken>>

StatDir(c) ==
    /\ CallerAt(c, "stat")
    /\ IF dir # "none" THEN Return(c)             \* ErrRepoExist
                       ELSE CallerTo(c, "add")
    /\ UNCHANGED <<tmVars, repoc, dir, row, overlap, broken>>

\* Add checks again; on an entry it is a no-op, and the caller runs that task.
AddCheck(c) ==
    /\ CallerAt(c, "add")
    /\ IF Exists
       THEN /\ CallerTo(c, "repo")
            /\ RunTo(c, "load")
            /\ overlap' = TRUE
       ELSE /\ CallerTo(c, "store")
            /\ UNCHANGED <<runner, overlap>>
    /\ UNCHANGED <<entry, tasks, fn, repoc, dir, row, broken>>

AddStore(c) ==
    /\ CallerAt(c, "store")
    /\ StoreNew(c)
    /\ CallerTo(c, "repo")
    /\ RunTo(c, "load")
    /\ overlap' = (overlap \/ Exists \/ dir # "none" \/ ~Quiet)
    /\ UNCHANGED <<fn, repoc, dir, row, broken>>

\* return <-repoc, <-done: the repository first.
AwaitRepo(c) ==
    /\ CallerAt(c, "repo")
    /\ repoc[c]
    /\ repoc' = [repoc EXCEPT ![c] = FALSE]
    /\ CallerTo(c, "done")
    /\ UNCHANGED <<tmVars, dir, row, overlap, broken>>

AwaitDone(c) ==
    /\ CallerAt(c, "done")
    /\ runner[c].done # "none"
    /\ runner' = [runner EXCEPT ![c].done = "none"]
    /\ Return(c)
    /\ UNCHANGED <<entry, tasks, fn, repoc, dir, row, overlap, broken>>

-----------------------------------------------------------------------------
(* The task's function, as called by c's Run                               *)

FnAt(c, pc) == fn[c] = pc
FnTo(c, pc) == fn' = [fn EXCEPT ![c] = pc]
Rest == <<entry, tasks, runner, caller>>
Stores == <<repoc, dir, row, overlap, broken>>

\* git clone refuses a destination that is there, and git does not start when the
\* context is cancelled: that of a task which is run again is.
CloneBegins(c) ==
    /\ FnAt(c, "called")
    /\ IF dir = "none" /\ ~tasks[runner[c].task].cancelled
       THEN FnTo(c, "cloning") /\ dir' = "partial"
       ELSE FnTo(c, "cleanup") /\ UNCHANGED dir
    /\ UNCHANGED <<Rest, repoc, row, overlap, broken>>

CloneEnds(c) ==
    /\ FnAt(c, "cloning")
    /\ \/ /\ dir' = "full"
          /\ FnTo(c, "create")
       \/ /\ FnTo(c, "cleanup")
          /\ UNCHANGED dir
    /\ UNCHANGED <<Rest, repoc, row, overlap, broken>>

\* "Cleanup the mess!"
CleanupBug(c) ==
    /\ FnAt(c, "cleanup")
    /\ FnTo(c, "failed")
    /\ UNCHANGED <<Rest, repoc, dir, row, overlap, broken>>
Cleanup(c) ==
    /\ FnAt(c, "cleanup")
    /\ dir' = "none"
    /\ FnTo(c, "failed")
    /\ UNCHANGED <<Rest, repoc, row, overlap, broken>>

\* CreateRepository: a row of the name makes it fail; so does an I/O error,
\* which rolls the row back and leaves the clone.
CreateRow(c) ==
    /\ FnAt(c, "create")
    /\ \/ /\ ~row
          /\ row' = TRUE
          /\ dir' = IF dir = "none" THEN "full" ELSE dir
          /\ FnTo(c, "open")
          /\ UNCHANGED broken
       \/ /\ row
          /\ FnTo(c, "failed")
          /\ UNCHANGED <<dir, row, broken>>
       \/ /\ ~row
          /\ broken' = TRUE
          /\ FnTo(c, "failed")
          /\ UNCHANGED <<dir, row>>
    /\ UNCHANGED <<Rest, repoc, overlap>>

OpenRepo(c) ==
    /\ FnAt(c, "open")
    /\ \/ dir = "full" /\ FnTo(c, "offer")
       \/ FnTo(c, "undo")
    /\ UNCHANGED <<Rest, Stores>>

\* repoc <- r, of the caller that made the task; its capacity is one.
OfferRepoBug(c) ==
    /\ FnAt(c, "offer")
    /\ FnTo(c, "config")
    /\ UNCHANGED <<Rest, Stores>>
OfferRepo(c) ==
    LET o == tasks[runner[c].task].owner
    IN  /\ FnAt(c, "offer")
        /\ ~repoc[o]
        /\ repoc' = [repoc EXCEPT ![o] = TRUE]
        /\ FnTo(c, "config")
        /\ UNCHANGED <<Rest, dir, row, overlap, broken>>

\* The LFS section of the configuration and the endpoint; only HTTP has a client.
Configure(c) ==
    /\ FnAt(c, "config")
    /\ FnTo(c, "fetching") \/ FnTo(c, "ok") \/ FnTo(c, "undo")
    /\ UNCHANGED <<Rest, Stores>>

\* StoreRepoMissingLFSObjects, from a remote that may fall silent: its client has
\* no timeout.  LfsObjects and PointerSearch have it in full.
FetchEnds(c) ==
    /\ FnAt(c, "fetching")
    /\ FnTo(c, "ok") \/ FnTo(c, "undo")
    /\ UNCHANGED <<Rest, Stores>>

\* The deferred DeleteRepository, when it finds the repository.
Undo(c) ==
    /\ FnAt(c, "undo")
    /\ FnTo(c, "failed")
    /\ IF row /\ dir # "none" THEN row' = FALSE /\ dir' = "none"
                              ELSE UNCHANGED <<row, dir>>
    /\ UNCHANGED <<Rest, repoc, overlap, broken>>

ImportFn(c) == \/ CloneBegins(c) \/ CloneEnds(c) \/ Cleanup(c) \/ CreateRow(c)
               \/ OpenRepo(c) \/ OfferRepo(c) \/ Configure(c) \/ FetchEnds(c)
               \/ Undo(c)

-----------------------------------------------------------------------------
(* Others, through the same backend                                        *)

Busy == \E c \in Callers : caller[c] \in {"add", "store"} \/ ~Unused(c)

OtherCreates ==
    /\ ~row
    /\ row' = TRUE
    /\ dir' = IF dir = "none" THEN "full" ELSE dir
    /\ overlap' = (overlap \/ Busy)
    /\ UNCHANGED <<tmVars, caller, repoc, broken>>

OtherDeletes ==
    /\ row
    /\ dir # "none"
    /\ row' = FALSE
    /\ dir' = "none"
    /\ overlap' = (overlap \/ Busy)
    /\ UNCHANGED <<tmVars, caller, repoc, broken>>

Calling(c) == Begin(c) \/ StatDir(c) \/ AddCheck(c) \/ AddStore(c)
              \/ AwaitRepo(c) \/ AwaitDone(c)

Next == \/ \E c \in Callers : \/ Calling(c)
                              \/ Run(c) /\ UNCHANGED importVars
                              \/ ImportFn(c)
        \/ OtherCreates
        \/ OtherDeletes

\* Every goroutine is scheduled.  What waits for the remote need not end: neither
\* the clone nor the LFS client has a timeout.
Fairness == \A c \in Callers :
    /\ WF_vars(StatDir(c) \/ AddCheck(c) \/ AddStore(c) \/ AwaitRepo(c) \/ AwaitDone(c))
    /\ WF_vars(Run(c) /\ UNCHANGED importVars)
    /\ WF_vars(CloneBegins(c) \/ Cleanup(c) \/ CreateRow(c) \/ OpenRepo(c)
               \/ OfferRepo(c) \/ Configure(c) \/ Undo(c))

Spec == Init /\ [][Next]_vars /\ Fairness

-----------------------------------------------------------------------------
(* Properties                                                              *)

TypeOK ==
    /\ entry \in Tasks \cup {None}
    /\ tasks \in [Tasks -> Task \cup {None}]
    /\ runner \in [Callers -> Runner]
    /\ fn \in [Callers -> FnPC]
    /\ caller \in [Callers -> CallerPC]
    /\ repoc \in [Callers -> BOOLEAN]
    /\ dir \in {"none", "partial", "full"}
    /\ {row, overlap, broken} \subseteq BOOLEAN
    /\ \A c \in Callers : ~RunAt(c, "off") /\ ~RunAt(c, "load") =>
          runner[c].task \in Made

\* ImportRepository leaves the whole repository or nothing of it, whichever of
\* its steps fails, as long as nothing else touched the name meanwhile and
\* CreateRepository did not fail half-way.
AllOrNothing ==
    Quiet /\ ~overlap /\ ~broken =>
        /\ dir # "partial"
        /\ row <=> (dir = "full")

\* Run reports success only while the imported repository is there.
SuccessIsThere ==
    \A c \in Callers :
        RunAt(c, "send") /\ runner[c].err = "nil" /\ ~overlap => row /\ dir = "full"

\* An import waits for its remote.
AtRemote == \E c \in Callers : fn[c] \in {"cloning", "fetching"}

\* A Run that has sent the context's error of the task it waited for cannot send
\* the outcome of executing it again: its caller waits for a repository first.
Blocked(c) == /\ RunAt(c, "send") /\ runner[c].waited /\ runner[c].done # "none"
              /\ CallerAt(c, "repo") /\ ~repoc[c]

\* However imports of a name overlap, its id is given back and the name can be
\* imported again, unless one waits for its remote for ever or blocks after it
\* has executed a task a second time.
NameFreed == Exists ~> (~Exists \/ AtRemote \/ \E c \in Callers : Blocked(c))

\* ImportRepository waits for the repository first: when its Run has failed or
\* found no task before that was sent, or has executed another caller's task, it
\* never comes.
NeverOffered(c) ==
    /\ CallerAt(c, "repo")
    /\ ~repoc[c]
    /\ \/ runner[c].done \in {"failed", "cancelled", "notfound"}
       \/ runner[c].done = "nil" /\ overlap

\* ImportRepository returns, through both its channels, whoever runs its task,
\* unless a remote keeps an import waiting for ever or its own Run is over
\* without a repository for it.
CallerReturns ==
    \A c \in Callers :
        caller[c] \in {"repo", "done"} ~> \/ CallerAt(c, "idle")
                                          \/ AtRemote
                                          \/ NeverOffered(c)

\* manager.go:78: "Run starts the task if it exists. Otherwise, it waits for
\* the process to finish": a Run that has waited starts nothing.
WaitersOnlyWait == \A c \in Callers : runner[c].waited => ~RunAt(c, "select")
=============================================================================
