----------------------------- MODULE TaskManager -----------------------------
(***************************************************************************)
(* pkg/task: a map from a task id to a task, and Run, which executes the   *)
(* task's function or waits for another Run to do it.  The map is a        *)
(* sync.Map: each Load, Store and Delete is atomic, no two of them are.    *)
(*                                                                         *)
(* Ids do not interact, so the module follows one of them: `entry` is what *)
(* the map holds for it.  Every caller has one Run at a time, with a done  *)
(* channel of capacity one.  What a task's function does is left to the    *)
(* module that uses this one: it moves `fn` from "called" to "ok" or       *)
(* "failed".  Nothing in the repository calls Stop, and nothing cancels    *)
(* the manager's context, which is main's: neither is modelled, and Run's  *)
(* select has one branch that is ever ready.                               *)
(***************************************************************************)
EXTENDS Naturals

CONSTANTS Callers,    \* goroutines that call Run
          None,       \* no task
          MaxTasks    \* bound: Task objects ever made

VARIABLES
    entry,    \* the task the map holds for the id, or None
    tasks,    \* [1 .. MaxTasks -> Task or None]
    runner,   \* [Callers -> the state of Run]
    fn        \* [Callers -> the function that caller's Run has called]

tmVars == <<entry, tasks, runner, fn>>

Tasks == 1 .. MaxTasks
Task == [owner : Callers, started : BOOLEAN, cancelled : BOOLEAN, failed : BOOLEAN]

ASSUME TaskAssumption == MaxTasks \in Nat /\ None \notin Tasks \cup Task

RunPC == {"off", "load", "check", "wait", "start", "select", "save", "send",
          "forget", "cancel"}

\* What the done channel carries; "nil" is success.
Outcome == {"none", "notfound", "nil", "failed", "cancelled"}

Runner == [pc : RunPC, task : Tasks \cup {None}, waited : BOOLEAN,
           err : Outcome, done : Outcome]

Off == [pc |-> "off", task |-> None, waited |-> FALSE, err |-> "none", done |-> "none"]

\* Run has returned; its done channel keeps what it sent.
Ended(done) == [Off EXCEPT !.done = done]

TMInit ==
    /\ entry = None
    /\ tasks = [t \in Tasks |-> None]
    /\ runner = [c \in Callers |-> Off]
    /\ fn = [c \in Callers |-> "none"]

-----------------------------------------------------------------------------
Exists == entry # None

Made == {t \in Tasks : tasks[t] # None}

\* The Store of Add: a new task, not started, in place of what was there.
StoreNew(c) ==
    \E t \in Tasks \ Made :
        /\ \A u \in Tasks : u < t => u \in Made
        /\ tasks' = [tasks EXCEPT ![t] = [owner |-> c, started |-> FALSE,
                                          cancelled |-> FALSE, failed |-> FALSE]]
        /\ entry' = t

RunAt(c, pc) == runner[c].pc = pc
RunTo(c, pc) == runner' = [runner EXCEPT ![c].pc = pc]

Load(c) ==
    /\ RunAt(c, "load")
    /\ runner' = [runner EXCEPT ![c] =
           IF entry = None THEN Ended("notfound")
                           ELSE [@ EXCEPT !.pc = "check", !.task = entry]]
    /\ UNCHANGED <<entry, tasks, fn>>

CheckStarted(c) ==
    /\ RunAt(c, "check")
    /\ RunTo(c, IF tasks[runner[c].task].started THEN "wait" ELSE "start")
    /\ UNCHANGED <<entry, tasks, fn>>

\* The task is over: a failure is passed on; otherwise the context's error is,
\* and Run goes on to execute the function again.
WaitDone(c) ==
    LET t == runner[c].task
    IN  /\ RunAt(c, "wait")
        /\ tasks[t].cancelled              \* <-p.ctx.Done()
        /\ runner' = [runner EXCEPT ![c] =
               IF tasks[t].failed
               THEN Ended("failed")
               ELSE [@ EXCEPT !.pc = "start", !.done = "cancelled", !.waited = TRUE]]
        /\ UNCHANGED <<entry, tasks, fn>>

StartTask(c) ==
    LET t == runner[c].task
    IN  /\ RunAt(c, "start")
        /\ tasks' = [tasks EXCEPT ![t].started = TRUE]
        /\ entry' = t
        /\ fn' = [fn EXCEPT ![c] = "called"]
        /\ RunTo(c, "select")

SelectResultBug(c) ==
    /\ RunAt(c, "select")
    /\ fn[c] \in {"ok", "failed"}
    /\ runner' = [runner EXCEPT ![c].pc = "save", ![c].err = "nil"]
    /\ fn' = [fn EXCEPT ![c] = "none"]
    /\ UNCHANGED <<entry, tasks>>
SelectResult(c) ==
    /\ RunAt(c, "select")
    /\ fn[c] \in {"ok", "failed"}
    /\ runner' = [runner EXCEPT ![c].pc = "save",
                                ![c].err = IF fn[c] = "ok" THEN "nil" ELSE "failed"]
    /\ fn' = [fn EXCEPT ![c] = "none"]
    /\ UNCHANGED <<entry, tasks>>

SaveError(c) ==
    LET t == runner[c].task
    IN  /\ RunAt(c, "save")
        /\ tasks' = [tasks EXCEPT ![t].failed = (runner[c].err = "failed")]
        /\ entry' = t
        /\ RunTo(c, "send")
        /\ UNCHANGED <<fn>>

\* done <- err blocks while the channel still holds an earlier value.
SendDone(c) ==
    /\ RunAt(c, "send")
    /\ runner[c].done = "none"
    /\ runner' = [runner EXCEPT ![c].pc = "forget", ![c].done = runner[c].err]
    /\ UNCHANGED <<entry, tasks, fn>>

\* The deferred calls: the map's entry, whatever it is by now, then the context.
ForgetBug(c) ==
    /\ RunAt(c, "forget")
    /\ RunTo(c, "cancel")
    /\ UNCHANGED <<entry, tasks, fn>>
Forget(c) ==
    /\ RunAt(c, "forget")
    /\ entry' = None
    /\ RunTo(c, "cancel")
    /\ UNCHANGED <<tasks, fn>>

CancelTask(c) ==
    /\ RunAt(c, "cancel")
    /\ tasks' = [tasks EXCEPT ![runner[c].task].cancelled = TRUE]
    /\ runner' = [runner EXCEPT ![c] = Ended(@.done)]
    /\ UNCHANGED <<entry, fn>>

Run(c) == \/ Load(c) \/ CheckStarted(c) \/ WaitDone(c) \/ StartTask(c)
          \/ SelectResult(c) \/ SaveError(c) \/ SendDone(c)
          \/ Forget(c) \/ CancelTask(c)
=============================================================================
