----------------------------- MODULE MirrorJob ------------------------------
(***************************************************************************)
(* The job that updates mirrors (pkg/jobs/mirror.go) on the work pool      *)
(* (pkg/sync/workqueue.go).  Every tick of cron starts a run, whether or   *)
(* not the one before is over, each with a pool of its own.  A run updates *)
(* every mirror with two git commands, whose failures are logged.          *)
(*                                                                         *)
(* git is external: a fetch reads the remote, then moves the references    *)
(* it found, and fails when they have moved meanwhile.                     *)
(***************************************************************************)
EXTENDS Naturals, FiniteSets

CONSTANTS
    Mirrors,     \* repositories that are mirrors
    Workers,     \* processors: the size of a pool
    Ticks,       \* runs that may be under way at once
    MaxRemote    \* changes of a remote

ASSUME WorkersAssumption == Workers \in Nat

VARIABLES
    runs,      \* [Ticks -> the run, Idle before it and after it]
    remote,    \* [Mirrors -> changes of its remote]
    local,     \* [Mirrors -> those the mirror has]
    visited    \* every run that is over did what its last step asks

jobVars == <<runs, remote, local, visited>>

Idle == [phase |-> "idle"]
Free == [cmd |-> 0]

JobInit ==
    /\ runs = [i \in Ticks |-> Idle]
    /\ remote = [m \in Mirrors |-> 0] /\ local = remote
    /\ visited = TRUE

\* NewWorkPool: at least one worker.
PoolSize == IF Workers = 0 THEN 1 ELSE Workers

Running == {i \in Ticks : runs[i] # Idle}
Busy(i) == {m \in Mirrors : runs[i].work[m].cmd > 0}

\* A tick: repositories are listed, and the mirrors that open are added to
\* a pool.  Nobody asks whether a run is under way.
Tick(i) ==
    /\ runs[i] = Idle
    /\ \E opened \in SUBSET Mirrors :
         runs' = [j \in Ticks |->
                    IF j = i THEN [phase |-> "run", opened |-> opened, todo |-> opened,
                                   done |-> {}, failed |-> {},
                                   work |-> [m \in Mirrors |-> Free],
                                   base |-> remote, alone |-> Running = {}]
                    ELSE IF j \in Running THEN [runs[j] EXCEPT !.alone = FALSE]
                    ELSE Idle]
    /\ UNCHANGED <<remote, local, visited>>

\* WorkPool.Run: a mirror is taken when the semaphore has a place.
Acquire(i, m) ==
    /\ runs[i].phase = "run" /\ m \in runs[i].todo
    /\ Cardinality(Busy(i)) < PoolSize
    /\ runs' = [runs EXCEPT ![i].todo = @ \ {m},
                            ![i].work[m] = [cmd |-> 1, phase |-> "advertised"]]
    /\ UNCHANGED <<remote, local, visited>>

At(i, m, phase) ==
    /\ runs[i].phase = "run" /\ runs[i].work[m].cmd > 0
    /\ runs[i].work[m].phase = phase

\* A git command: what the remote advertises, then what the mirror has.
ReadRemote(i, m) ==
    /\ At(i, m, "advertised")
    /\ runs' = [runs EXCEPT ![i].work[m] =
                  [cmd |-> @.cmd, phase |-> "compared", seen |-> remote[m]]]
    /\ UNCHANGED <<remote, local, visited>>

ReadLocal(i, m) ==
    /\ At(i, m, "compared")
    /\ runs' = [runs EXCEPT ![i].work[m] =
                  [cmd |-> @.cmd, phase |-> "moved", seen |-> @.seen, had |-> local[m]]]
    /\ UNCHANGED <<remote, local, visited>>

\* fetch --prune, then remote update --prune.
Commands == 2

\* The worker's function ends after the second, and its place is free.
AfterCommand(run, m) ==
    IF run.work[m].cmd = Commands
    THEN [run EXCEPT !.work[m] = Free, !.done = @ \cup {m}]
    ELSE [run EXCEPT !.work[m] = [cmd |-> @.cmd + 1, phase |-> "advertised"]]

\* References are moved, by force, unless they have moved since.
Move(i, m) ==
    LET w == runs[i].work[m] IN
    /\ At(i, m, "moved")
    /\ local' = IF local[m] = w.had THEN [local EXCEPT ![m] = w.seen] ELSE local
    /\ runs' = [runs EXCEPT ![i] = AfterCommand(@, m)]
    /\ UNCHANGED <<remote, visited>>

\* The remote does not answer, or the repository is gone: logged.
CommandFails(i, m) ==
    LET run == [runs[i] EXCEPT !.failed = @ \cup {m}] IN
    /\ At(i, m, "advertised")
    /\ runs' = [runs EXCEPT ![i] = AfterCommand(run, m)]
    /\ UNCHANGED <<remote, local, visited>>

\* (The list is at its end: Run does not wait for its workers.)
WaitedBug(i) == runs[i].todo = {}

\* Run ends when it gets the whole semaphore.
Waited(i) == runs[i].todo = {} /\ Busy(i) = {}

\* What a run is for: every mirror went through the commands, and with no
\* failure and no other run has at least what its remote had at the tick.
Done(run) ==
    \A m \in run.opened :
        /\ m \in run.done
        /\ (run.alone /\ m \notin run.failed) => local[m] >= run.base[m]

Over(i) ==
    /\ runs[i].phase = "run" /\ Waited(i)
    /\ visited' = (visited /\ Done(runs[i]))
    /\ runs' = [runs EXCEPT ![i] = Idle]
    /\ UNCHANGED <<remote, local>>

\* Somebody pushes to the remote.
RemoteMoves ==
    \E m \in Mirrors :
        /\ remote[m] < MaxRemote
        /\ remote' = [remote EXCEPT ![m] = @ + 1]
        /\ UNCHANGED <<runs, local, visited>>

\* The process ends, which Cron.Stop does not make wait for a run, and its git
\* commands with it.
JobCrash ==
    /\ Running # {}
    /\ runs' = [i \in Ticks |-> Idle] /\ UNCHANGED <<remote, local, visited>>

Step(i) ==
    \/ \E m \in Mirrors : \/ Acquire(i, m) \/ ReadRemote(i, m) \/ ReadLocal(i, m)
                          \/ Move(i, m) \/ CommandFails(i, m)
    \/ Over(i)

JobNext == (\E i \in Ticks : Tick(i) \/ Step(i)) \/ RemoteMoves \/ JobCrash

JobSpec == JobInit /\ [][JobNext]_jobVars

-----------------------------------------------------------------------------
\* A run takes every mirror that opened through both commands before it is
\* over, with never more of them under way than there are workers, and when it
\* is the only one it brings them up to the tick.
MirrorsVisited ==
    /\ visited
    /\ \A i \in Running : Busy(i) = {} \/ Cardinality(Busy(i)) <= Workers
                                       \/ (Workers = 0 /\ Cardinality(Busy(i)) = 1)
=============================================================================
