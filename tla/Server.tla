------------------------------- MODULE Server -------------------------------
(***************************************************************************)
(* The life of soft serve: the process migrates the database, starts its   *)
(* front ends and the job scheduler, is told by signals to reload its      *)
(* certificate or to stop, shuts down within five seconds, and may crash   *)
(* and be started again at any point.                                      *)
(***************************************************************************)
EXTENDS Migrations, Sequences

CONSTANTS
    Fronts,       \* front ends that are enabled, among them maybe "grpc"
    Guarded,      \* those that cannot open once they are shut down
    MaxCrashes,   \* crashes of the process, and migrations or closes that fail
    MaxSignals    \* signals sent

VARIABLES
    proc,      \* "down", "migrating", "up" or "stopping"
    front,     \* [Fronts -> "off", "open", "closed" or "failed"]
    shut,      \* [Fronts -> its Shutdown: "no", "waiting" or "returned"]
    serving,   \* fronts with a request under way
    start,     \* what Start has returned: "no", "nil" or "error"
    done,      \* the channel of signals, and whether it is closed
    cron,      \* the scheduler ticks
    late,      \* the context of Shutdown is over: the deadline, or an error
    told,      \* a signal to stop is in the channel, or has been read
    counts     \* crashes and signals so far

serverVars ==
    <<migrateVars, proc, front, shut, serving, start, done, cron, late, told, counts>>

NoChannel == [closed |-> FALSE, buffer |-> <<>>]
Closing == Fronts \ {"grpc"}

\* net/http refuses a listener after Shutdown.  The git daemon looks at done
\* before it adds its own, and the SSH library does not look.
ASSUME GuardedAssumption == Guarded \subseteq Closing

Init ==
    /\ MigrateInit
    /\ proc = "down"
    /\ front = [f \in Fronts |-> "off"] /\ shut = [f \in Fronts |-> "no"]
    /\ serving = {} /\ start = "no" /\ done = NoChannel
    /\ cron = FALSE /\ late = FALSE /\ told = FALSE
    /\ counts = [crashes |-> 0, signals |-> 0]

\* What ends with the process.
Down ==
    /\ proc' = "down"
    /\ front' = [f \in Fronts |-> "off"] /\ shut' = [f \in Fronts |-> "no"]
    /\ serving' = {} /\ start' = "no" /\ done' = NoChannel
    /\ cron' = FALSE /\ late' = FALSE /\ told' = FALSE

-----------------------------------------------------------------------------
(* Start                                                                   *)

Serve ==
    /\ proc = "down" /\ proc' = "migrating"
    /\ BeginMigrate
    /\ UNCHANGED <<db, files, stuck, rollbacks, front, shut, serving, start,
                   done, cron, late, told, counts>>

Migrating ==
    /\ proc = "migrating"
    /\ RunMigration \/ MoveObject \/ ObjectsMoved
    /\ UNCHANGED <<proc, front, shut, serving, start, done, cron, late, told, counts>>

\* The migration's error, or any statement's, ends the command.
MigrationError ==
    /\ proc = "migrating"
    /\ \/ MigrationFails(boot.next) /\ UNCHANGED counts
       \/ /\ counts.crashes < MaxCrashes
          /\ counts' = [counts EXCEPT !.crashes = @ + 1]
    /\ AbortMigrate /\ Down

\* NewServer and Start: each front is a goroutine of a group, and so is the
\* start of the scheduler.
StartServer ==
    /\ proc = "migrating" /\ CommitMigrate
    /\ proc' = "up" /\ cron' = TRUE
    /\ UNCHANGED <<files, stuck, rollbacks, front, shut, serving, start, done,
                   late, told, counts>>

\* soft admin migrate, or a server whose parts cannot be made.
MigrateOnly ==
    /\ proc = "migrating" /\ CommitMigrate
    /\ Down /\ UNCHANGED <<files, stuck, rollbacks, counts>>

Listen(f) ==
    /\ proc \in {"up", "stopping"}
    /\ front[f] = "off"
    /\ \E to \in {"open", "failed"} : front' = [front EXCEPT ![f] = to]
    /\ UNCHANGED <<migrateVars, proc, shut, serving, start, done, cron, late,
                   told, counts>>

\* The group waits for every goroutine: a front that fails does not stop the
\* others, and nobody hears of it while one serves.
StartReturns ==
    /\ proc \in {"up", "stopping"} /\ start = "no"
    /\ \A f \in Fronts : front[f] \in {"closed", "failed"}
    /\ start' = IF \E f \in Fronts : front[f] = "failed" THEN "error" ELSE "nil"
    /\ done' = [done EXCEPT !.closed = TRUE]
    /\ UNCHANGED <<migrateVars, proc, front, shut, serving, cron, late, told, counts>>

\* A request may make the first repository, whose objects go to the new paths.
Request(f) ==
    /\ proc \in {"up", "stopping"} /\ front[f] = "open" /\ f \notin serving
    /\ serving' = serving \cup {f}
    /\ \/ UNCHANGED <<db, files>>
       \/ /\ ~db.repos /\ db' = [db EXCEPT !.repos = TRUE]
          /\ files' = [o \in Objects |-> "new"]
    /\ UNCHANGED <<boot, stuck, rollbacks, proc, front, shut, start, done, cron, late,
                   told, counts>>

Answer(f) ==
    /\ f \in serving
    /\ serving' = serving \ {f}
    /\ UNCHANGED <<migrateVars, proc, front, shut, start, done, cron, late,
                   told, counts>>

-----------------------------------------------------------------------------
(* Signals                                                                 *)

\* The channel holds one signal: another is lost until it is read.  A signal
\* for a closed channel ends the process.
Signal(s) ==
    /\ proc \in {"up", "stopping"} /\ counts.signals < MaxSignals
    /\ counts' = [counts EXCEPT !.signals = @ + 1]
    /\ IF done.closed THEN Down /\ UNCHANGED migrateVars
       ELSE /\ IF done.buffer = <<>>
               THEN /\ done' = [done EXCEPT !.buffer = <<s>>]
                    /\ told' = (told \/ s = "TERM")
               ELSE UNCHANGED <<done, told>>
            /\ UNCHANGED <<migrateVars, proc, front, shut, serving, start, cron,
                           late>>

\* The loop of serve: SIGHUP reloads the certificate, and whether it could be
\* read or not the loop waits again.
Reload ==
    /\ proc = "up" /\ done.buffer = <<"HUP">>
    /\ done' = [done EXCEPT !.buffer = <<>>]
    /\ UNCHANGED <<migrateVars, proc, front, shut, serving, start, cron, late,
                   told, counts>>

\* A signal to stop, or the channel closed after a Start without an error.
\* The scheduler stops; a run of the job goes on.
BeginShutdown ==
    /\ proc = "up"
    /\ \/ done.buffer = <<"TERM">> \/ (done.closed /\ done.buffer = <<>>)
       \/ start = "nil"
    /\ proc' = "stopping" /\ cron' = FALSE
    /\ done' = [done EXCEPT !.buffer = <<>>]
    /\ UNCHANGED <<migrateVars, front, shut, serving, start, late, told,
                   counts>>

\* The error of Start ends the command, without a Shutdown.
StartError ==
    /\ proc = "up" /\ start = "error"
    /\ Down /\ UNCHANGED <<migrateVars, counts>>

-----------------------------------------------------------------------------
(* Shutdown                                                                *)

\* Every front but gRPC, which waits for a context that is never cancelled,
\* stops listening, each in a goroutine of its own.  One that has not begun to
\* listen may do so later, unless it is guarded.
CloseFront(f) ==
    /\ proc = "stopping" /\ f \in Closing /\ shut[f] = "no"
    /\ shut' = [shut EXCEPT ![f] = "waiting"]
    /\ \/ front[f] \in {"off", "open"} /\ front' = [front EXCEPT ![f] = "closed"]
       \/ /\ front[f] = "failed" \/ (front[f] = "off" /\ f \notin Guarded)
          /\ UNCHANGED front
    /\ UNCHANGED <<migrateVars, proc, serving, start, done, cron, late, told, counts>>

\* (The front is closed and not drained, as Close does.)
DrainedBug(f) == shut[f] = "waiting"

Drained(f) == shut[f] = "waiting" /\ f \notin serving

\* It waits for its requests, and then returns the error of the listener it
\* closed, if any, which ends the context of the other fronts; or for the
\* context.
ShutdownReturns(f) ==
    /\ proc = "stopping" /\ shut[f] = "waiting"
    /\ \/ (late \/ Drained(f)) /\ UNCHANGED <<late, counts>>
       \/ /\ Drained(f) /\ late' = TRUE
          /\ counts.crashes < MaxCrashes
          /\ counts' = [counts EXCEPT !.crashes = @ + 1]
    /\ shut' = [shut EXCEPT ![f] = "returned"]
    /\ UNCHANGED <<migrateVars, proc, front, serving, start, done, cron, told>>

Deadline ==
    /\ proc = "stopping" /\ ~late /\ late' = TRUE
    /\ UNCHANGED <<migrateVars, proc, front, shut, serving, start, done, cron,
                   told, counts>>

\* The group has waited for all of them.
Exit ==
    /\ proc = "stopping" /\ \A f \in Closing : shut[f] = "returned"
    /\ Down /\ UNCHANGED <<migrateVars, counts>>

-----------------------------------------------------------------------------
(* Everything else                                                         *)

Crash ==
    /\ proc # "down" /\ counts.crashes < MaxCrashes
    /\ counts' = [counts EXCEPT !.crashes = @ + 1]
    /\ AbortMigrate /\ Down

AdminRollback ==
    /\ proc = "down" /\ Rollback
    /\ UNCHANGED <<proc, front, shut, serving, start, done, cron, late, told, counts>>

Next ==
    \/ Serve \/ Migrating \/ MigrationError \/ StartServer \/ MigrateOnly
    \/ StartReturns \/ StartError
    \/ \E f \in Fronts : \/ Listen(f) \/ Request(f) \/ Answer(f)
                         \/ CloseFront(f) \/ ShutdownReturns(f)
    \/ \E s \in {"TERM", "HUP"} : Signal(s)
    \/ Reload \/ BeginShutdown \/ Deadline \/ Exit
    \/ Crash \/ AdminRollback

\* The process takes its own steps, its loop hears a signal however often Start
\* or another are chosen first, each goroutine of Shutdown runs, and the five
\* seconds pass.
Fairness ==
    /\ WF_serverVars(StartReturns) /\ WF_serverVars(StartError)
    /\ WF_serverVars(Reload) /\ WF_serverVars(BeginShutdown)
    /\ \A f \in Fronts :
          WF_serverVars(CloseFront(f)) /\ WF_serverVars(ShutdownReturns(f))
    /\ WF_serverVars(Deadline) /\ WF_serverVars(Exit)

Spec == Init /\ [][Next]_serverVars /\ Fairness

-----------------------------------------------------------------------------
\* Whatever crashes between the renames and the commit, and however often the
\* database is rolled back and migrated again: a version is recorded with its
\* tables, with the rows of version 0.6 and the defaults, and a server serves
\* only with all versions and every object's file where it looks for it, those
\* left out that could not be looked at or renamed.
UpgradeKeepsData ==
    /\ Recorded(db)
    /\ proc \in {"up", "stopping"} =>
         db.version = Latest /\ \A o \in Rows(db) \ stuck : files[o] = "new"

\* A signal to stop that entered the channel ends the process, and so do the
\* errors of all fronts.  A process whose Shutdown had its time, since neither
\* the deadline nor the error of a front ended it early, leaves requests only
\* at fronts that still listen: gRPC, and one that opened after its Shutdown.
StopsWhenTold ==
    /\ told ~> proc = "down"
    /\ (proc = "up" /\ \A f \in Fronts : front[f] = "failed") ~> proc = "down"
    /\ [][(proc = "stopping" /\ Exit /\ ~late)
          => \A f \in serving : front[f] = "open"]_serverVars

\* Every signal to stop is heard, which a channel of one
\* (cmd/soft/serve/serve.go:90) does not see to.
TermIsHeard == [][Signal("TERM") => told' \/ proc' = "down"]_serverVars
=============================================================================
