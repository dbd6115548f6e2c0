---------------------------- MODULE PointerSearch ----------------------------
(***************************************************************************)
(* The search for LFS pointers in a repository (pkg/lfs/scanner.go) and    *)
(* the loop of StoreRepoMissingLFSObjects that takes what it finds.  Six   *)
(* goroutines pass lines along, three of them through a git process:       *)
(*                                                                         *)
(*   rev-list -> names -> cat-file --batch-check -> sizes ->               *)
(*   cat-file --batch -> pointers -> the loop                              *)
(*                                                                         *)
(* A pipe holds nothing (io.Pipe, an unbuffered channel): a writer waits   *)
(* until its line is taken or the reader has closed.  What LfsObjects does *)
(* with a pointer is left out: it returns, with an error or without.       *)
(***************************************************************************)
EXTENDS Naturals, Sequences, FiniteSets

CONSTANTS
    Listed,       \* the objects rev-list prints, in its order
    MaxFailures   \* processes that fail, answers that cannot be read

\* What an object is to the search.  A commit has no name, the root has an
\* empty one; "cutoff" is a pointer of exactly 1024 bytes, "large" a longer blob.
ObjectKinds ==
    {"commit", "root", "tree", "tag", "text", "pointer", "cutoff", "large"}

ASSUME SearchAssumption ==
    Listed \in Seq(ObjectKinds) /\ MaxFailures \in Nat

VARIABLES
    stage,      \* [Stages -> "off", "run", "dead" (its git is), "over"]
    line,       \* [Stages -> the object whose line it is writing, 0 if none]
    printed,    \* lines rev-list has begun
    failed,     \* stages whose process failed or whose input was no answer
    cancelled,  \* the context
    errs,       \* errChan holds an error
    closed,     \* pointerChan and errChan are closed
    loop,       \* "off", "range", or how it ended: "left", "error", "nil"
    looked      \* objects the loop was given

searchVars ==
    <<stage, line, printed, failed, cancelled, errs, closed, loop, looked>>

Stages == 1..6
RevList == 1
CatFileCheck == 3
CatFileBatch == 5
Results == 6
Gits == {RevList, CatFileCheck, CatFileBatch}
Readers == Stages \ {RevList}

SearchInit ==
    /\ stage = [s \in Stages |-> "off"]
    /\ line = [s \in Stages |-> 0]
    /\ printed = 0 /\ failed = {} /\ cancelled = FALSE
    /\ errs = FALSE /\ closed = FALSE
    /\ loop = "off" /\ looked = {}

-----------------------------------------------------------------------------
(* What a stage lets through                                               *)

Named(kind) == kind \notin {"commit", "root"}
\* (A blob of 1024 bytes is left out.)
SmallBug(kind) == kind \in {"text", "pointer"}
Small(kind) == kind \in {"text", "pointer", "cutoff"}

\* ReadPointerFromBuffer and IsValid.
IsPointer(kind) == kind \in {"pointer", "cutoff", "large"}

Keeps(s, kind) ==
    CASE s = 2 -> Named(kind)
      [] s = 4 -> Small(kind)
      [] s = Results -> IsPointer(kind)
      [] OTHER -> TRUE

-----------------------------------------------------------------------------
(* The stages                                                              *)

Running(s) == stage[s] = "run" /\ line[s] = 0
\* Nobody writes to what s reads, and nobody will.
EndOfInput(s) == stage[s - 1] = "over"
\* (The last stage does not close what it reads.)
ReaderClosedBug(s) == s + 1 \in Stages \ {Results} /\ stage[s + 1] = "over"
ReaderClosed(s) == s + 1 \in Stages /\ stage[s + 1] = "over"

\* Stage s goes on in place, writing object i; with a reader's line taken.
Becomes(s, place, i) ==
    /\ stage' = [stage EXCEPT ![s] = place]
    /\ line' = [t \in Stages |->
                  CASE t = s -> i
                    [] t + 1 = s /\ line[t] # 0 -> 0
                    [] OTHER -> line[t]]

Lists ==
    /\ Running(RevList) /\ printed < Len(Listed)
    /\ printed' = printed + 1
    /\ Becomes(RevList, "run", printed')
    /\ UNCHANGED <<failed, cancelled, errs, closed, loop, looked>>

\* A line is read, and written or thrown away.
Passes(s) ==
    /\ s \in Readers /\ Running(s) /\ line[s - 1] # 0
    /\ Becomes(s, "run", IF Keeps(s, Listed[line[s - 1]]) THEN line[s - 1] ELSE 0)
    /\ UNCHANGED <<printed, failed, cancelled, errs, closed, loop, looked>>

\* The deferred calls close what the stage read and what it wrote.
StageEnds(s) ==
    /\ Running(s)
    /\ IF s = RevList THEN printed = Len(Listed) ELSE EndOfInput(s)
    /\ Becomes(s, "over", 0)
    /\ UNCHANGED <<printed, failed, cancelled, errs, closed, loop, looked>>

\* A filter gives up when its reader is gone; a git process is killed by the
\* broken pipe.
WriteFails(s) ==
    /\ stage[s] \in {"run", "dead"} /\ line[s] # 0 /\ ReaderClosed(s)
    /\ stage' = [stage EXCEPT ![s] = IF s \in Gits THEN "dead" ELSE "over"]
    /\ line' = [line EXCEPT ![s] = 0]
    /\ UNCHANGED <<printed, failed, cancelled, errs, closed, loop, looked>>

\* External: git fails, or is killed when the context is cancelled.  The line
\* it has written is still copied.
GitDies(s) ==
    /\ s \in Gits /\ stage[s] = "run"
    /\ stage' = [stage EXCEPT ![s] = "dead"]
    /\ failed' = failed \cup {s}
    /\ UNCHANGED <<line, printed, cancelled, errs, closed, loop, looked>>

\* Wait returns when what was written is copied and the goroutine that copies
\* its input has failed on one more line or come to the end.  Only rev-list's
\* error is told.
GitWaited(s) ==
    /\ s \in Gits /\ stage[s] = "dead" /\ line[s] = 0
    /\ s \in Readers => line[s - 1] # 0 \/ EndOfInput(s)
    /\ Becomes(s, "over", 0)
    /\ errs' = (errs \/ s = RevList)
    /\ UNCHANGED <<printed, failed, cancelled, closed, loop, looked>>

\* The last stage reads no answer of cat-file's, or sees the context's end.
PointersStop ==
    /\ Running(Results)
    /\ stage' = [stage EXCEPT ![Results] = "over"]
    /\ failed' = failed \cup {Results}
    /\ UNCHANGED <<line, printed, cancelled, errs, closed, loop, looked>>

\* SearchPointerBlobs, after its wait.
Closes ==
    /\ \A s \in Stages : stage[s] = "over"
    /\ ~closed /\ closed' = TRUE
    /\ UNCHANGED <<stage, line, printed, failed, cancelled, errs, loop, looked>>

-----------------------------------------------------------------------------
(* The loop                                                                *)

SearchBegins ==
    /\ loop = "off" /\ loop' = "range"
    /\ stage' = [s \in Stages |-> "run"]
    /\ UNCHANGED <<line, printed, failed, cancelled, errs, closed, looked>>

\* Each pointer is looked up; an error returns from the loop.
Looks ==
    /\ loop = "range" /\ line[Results] # 0
    /\ loop' \in {"range", "left"}
    /\ looked' = looked \cup {line[Results]}
    /\ line' = [line EXCEPT ![Results] = 0]
    /\ UNCHANGED <<stage, printed, failed, cancelled, errs, closed>>

\* Both channels are closed, and errChan has been read.
LoopEnds ==
    /\ loop = "range" /\ closed
    /\ loop' = IF errs THEN "error" ELSE "nil"
    /\ UNCHANGED <<stage, line, printed, failed, cancelled, errs, closed, looked>>

-----------------------------------------------------------------------------
(* Everything else                                                         *)

SearchCancelled ==
    /\ loop # "off" /\ ~cancelled /\ cancelled' = TRUE
    /\ UNCHANGED <<stage, line, printed, failed, errs, closed, loop, looked>>

\* The server's process ends.
SearchGone ==
    /\ loop # "off" /\ loop' = "off" /\ looked' = {}
    /\ stage' = [s \in Stages |-> "off"]
    /\ line' = [s \in Stages |-> 0]
    /\ printed' = 0 /\ failed' = {} /\ cancelled' = FALSE
    /\ errs' = FALSE /\ closed' = FALSE

SearchFails ==
    /\ cancelled \/ Cardinality(failed) < MaxFailures
    /\ PointersStop \/ \E s \in Stages : GitDies(s)

SearchLocal ==
    \/ Lists \/ Closes \/ Looks \/ LoopEnds
    \/ \E s \in Stages : Passes(s) \/ StageEnds(s) \/ WriteFails(s) \/ GitWaited(s)

SearchNext ==
    SearchBegins \/ SearchLocal \/ SearchFails \/ SearchCancelled \/ SearchGone

\* Goroutines and git's processes are scheduled, and a look-up returns: what it
\* waits for is LfsObjects's.
SearchFairness == WF_searchVars(SearchLocal)

SearchSpec == SearchInit /\ [][SearchNext]_searchVars /\ SearchFairness

-----------------------------------------------------------------------------
(* Properties                                                              *)

\* A search that is not told of an error has given the loop every pointer of
\* at most 1024 bytes, unless a stage after rev-list failed, which nobody is
\* told; and an error was somebody's failure.
PointersFound ==
    /\ (loop = "nil" /\ failed = {}) =>
          looked = {i \in 1..Len(Listed) : Listed[i] \in {"pointer", "cutoff"}}
    /\ loop = "nil" => RevList \notin failed
    /\ loop = "error" => failed # {}

\* Whatever fails wherever, the loop comes to an end, and with it all six
\* goroutines and their three processes; but a loop that returns early
\* (pkg/backend/lfs.go:63) leaves the last stage, and those before it, waiting
\* for somebody to take one more pointer, whether or not the context ends.
SearchReturns ==
    (loop # "off") ~> \/ closed /\ loop # "range"
                      \/ loop = "off"
                      \/ loop = "left" /\ line[Results] # 0
=============================================================================
