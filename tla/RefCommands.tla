---------------------------- MODULE RefCommands -----------------------------
(***************************************************************************)
(* What changes references without a push: the branch and tag commands of  *)
(* SSH (pkg/ssh/cmd), which announce what they did, and the gRPC methods   *)
(* (pkg/grpc/server.go), which do not.  Each looks before it acts, with    *)
(* git run once for the look and once for the act.                         *)
(***************************************************************************)
EXTENDS Pushes

\* A command that has checked its argument goes on at place.
Chosen(p, place, r, old, new, known) ==
    Starts(p, [Idle EXCEPT !.pc = place, !.via = "ssh", !.known = known,
                           !.ref = r, !.old = old, !.new = new])

-----------------------------------------------------------------------------
(* SSH                                                                     *)

\* branch default REPOSITORY BRANCH: only a branch that exists.
BranchDefault(p, n, known) ==
    there /\ n \in Branches /\ Chosen(p, "default2", Branch(n), None, n, known)

BranchDefaultSet(p) ==
    /\ At(p, "default2")
    /\ UNCHANGED requests
    /\ IF there THEN SymbolicRef(p, call[p].new, [call[p] EXCEPT !.pc = "chosen"])
       ELSE Step(p, Idle)

\* NewRepositoryEvent; without a user it panics, and the session ends.
BranchDefaultTold(p) ==
    /\ At(p, "chosen")
    /\ UNCHANGED requests
    /\ Step(p, IF ~call[p].known THEN Idle
               ELSE SendEvent(call[p], Notice("repository", None, None), "idle"))

\* branch delete: not the branch HEAD refers to, and not when HEAD dangles.
BranchDeleteBug(p, n, known) ==
    /\ there /\ n \in Branches
    /\ Chosen(p, "delete", Branch(n), Tip(n), None, known)
BranchDelete(p, n, known) ==
    /\ there /\ n \in Branches
    /\ HEAD # None /\ head # n
    /\ Chosen(p, "delete", Branch(n), Tip(n), None, known)

\* tag delete.
TagDelete(p, n, known) ==
    /\ there /\ n \in TagsThere
    /\ Chosen(p, "delete", Tag(n), ref[Tag(n)], None, known)

\* git branch -D, git tag -d: whatever it names by now.
RefDeleted(p) ==
    /\ At(p, "delete")
    /\ UNCHANGED <<requests, last>>
    /\ LET c == call[p] IN
       IF there /\ ref[c.ref] # None
       THEN Sets(p, c.ref, None, [c EXCEPT !.pc = "deleted"])
       ELSE Step(p, Idle)

RefDeletedTold(p) ==
    /\ At(p, "deleted")
    /\ UNCHANGED requests
    /\ LET c == call[p] IN
       Step(p, IF ~c.known THEN Idle
               ELSE SendEvent(c, Notice("branch_tag_delete", c.ref, None), "idle"))

-----------------------------------------------------------------------------
(* gRPC                                                                    *)

\* CreateBranch: git branch does it all; the name must be free.
CreateBranch(p, n, c) ==
    /\ StartsAndEnds(p)
    /\ there /\ Tip(n) = None
    /\ c # None
    /\ Sets(p, Branch(n), c, Idle)
    /\ UNCHANGED last

\* DeleteBranch: git branch -d, which wants the branch merged into HEAD.
DeleteBranchBug(p, n) ==
    /\ StartsAndEnds(p)
    /\ there /\ Tip(n) # None
    /\ HEAD # None /\ head # n
    /\ Sets(p, Branch(n), None, Idle)
    /\ UNCHANGED last
DeleteBranch(p, n) ==
    /\ StartsAndEnds(p)
    /\ there /\ Tip(n) # None
    /\ HEAD # None /\ Tip(n) \subseteq HEAD
    /\ Sets(p, Branch(n), None, Idle)
    /\ UNCHANGED last

\* SetDefaultBranch: any name.
SetDefaultBranch(p, n) ==
    StartsAndEnds(p) /\ there /\ SymbolicRef(p, n, Idle)

\* What MergeBranches makes of the tips it has read, base first: None when
\* there is nothing to do or the histories have nothing in common.  A squash
\* has only base's history.
Merged(base, tip, squash) ==
    IF base \cap tip = {} \/ tip \subseteq base THEN None
    ELSE IF base \subseteq tip THEN tip
    ELSE IF squash THEN base \cup {last + 1}
    ELSE base \cup tip \cup {last + 1}

\* MergeBranches up to the commit; with conflicts there is none.
MergeBranches(p, base, tip, squash) ==
    /\ there /\ base \in Branches /\ tip \in Branches
    /\ At(p, "idle") /\ requests < MaxRequests[scene]
    /\ LET new == Merged(Tip(base), Tip(tip), squash) IN
       /\ new # None
       /\ new # Tip(tip) => last < MaxChanges
       /\ last' = IF new = Tip(tip) THEN last ELSE last + 1
       /\ call' = [call EXCEPT ![p] =
                     [Idle EXCEPT !.pc = "merge", !.via = "grpc",
                                  !.ref = Branch(base), !.old = Tip(base),
                                  !.new = new]]
    /\ requests' = requests + 1
    /\ UNCHANGED <<there, ref, head, hookTables, scene>>

\* git update-ref, without the old value: the branch may name another commit
\* by now, or be gone.
MergeLands(p) ==
    /\ At(p, "merge")
    /\ UNCHANGED <<requests, last>>
    /\ IF there /\ ~call[p].lost
       THEN Sets(p, call[p].ref, call[p].new, Idle)
       ELSE Step(p, Idle)
=============================================================================
