------------------------------- MODULE Pushes -------------------------------
(***************************************************************************)
(* A push: gitRunE of the SSH server and serviceRpc of the HTTP server     *)
(* around git-receive-pack, which calls the update hook (a process of its  *)
(* own, cmd/soft/hook and pkg/backend/hooks.go) before it moves the        *)
(* reference.  A push here updates one reference.                          *)
(***************************************************************************)
EXTENDS Webhooks

\* gitRunE looks the repository up; a level that allows writing was found.
\* Over HTTP withAccess did both.
PushBegins(p, via, known) ==
    Starts(p, [Idle EXCEPT !.pc = IF there THEN "receive" ELSE "create",
                           !.via = IF there THEN "none" ELSE via,
                           !.known = known])

\* The push creates the repository, unless another request has meanwhile.
\* withAccess then fails for an owner it does not have.
PushCreates(p) ==
    /\ At(p, "create")
    /\ UNCHANGED requests
    /\ IF there THEN Step(p, Idle)
       ELSE CreateRepository(p, [call[p] EXCEPT !.pc = "receive",
                                                !.made = TRUE])

\* External: git-receive-pack has told the client what the references are,
\* and the client has sent a new commit, on top of what it was told or, when
\* it forces, on top of nothing; an existing one under a new name; or a
\* deletion, which git refuses for HEAD's branch.
Receive(p, r) ==
    /\ At(p, "receive") /\ there
    /\ UNCHANGED <<requests, there, ref, head, hookTables, scene>>
    /\ \E new \in Commits \cup {None} :
          /\ call' = [call EXCEPT ![p] = [@ EXCEPT !.pc = "hook", !.ref = r,
                                                  !.old = ref[r], !.new = new]]
          /\ \/ /\ last < MaxChanges /\ last' = last + 1
                /\ new \in {Onto(ref[r]), Onto(None)}
             \/ /\ UNCHANGED last
                /\ ref[r] = None /\ \E n \in Branches : new = Tip(n)
             \/ /\ UNCHANGED last
                /\ ref[r] # None /\ r # Branch(head) /\ new = None

\* The notice of an event about a reference; "after" is its new commit.
Notice(kind, r, new) == [kind |-> kind, ref |-> r, new |-> new]

\* NewBranchTagEvent.
BranchTagEvent(r, old, new) ==
    Notice(IF new = None THEN "branch_tag_delete" ELSE "branch_tag_create",
           r, new)

\* Update: the hook finds the user by key or name, or says nothing; a
\* reference that appears or disappears is announced first.
UpdateBug(p) ==
    /\ At(p, "hook")
    /\ UNCHANGED requests
    /\ LET c == call[p] IN
       Step(p, IF ~c.known THEN [c EXCEPT !.pc = "ran"]
               ELSE IF c.old = None
               THEN SendEvent(c, BranchTagEvent(c.ref, c.old, c.new), "push")
               ELSE [c EXCEPT !.pc = "push"])
Update(p) ==
    /\ At(p, "hook")
    /\ UNCHANGED requests
    /\ LET c == call[p] IN
       Step(p, IF ~c.known THEN [c EXCEPT !.pc = "ran"]
               ELSE IF c.old = None \/ c.new = None
               THEN SendEvent(c, BranchTagEvent(c.ref, c.old, c.new), "push")
               ELSE [c EXCEPT !.pc = "push"])

\* Then the push itself, whatever came of that; git log fails on a deletion,
\* so that there is no push event for one.
UpdatePush(p) ==
    /\ At(p, "push")
    /\ UNCHANGED requests
    /\ LET c == call[p] IN
       Step(p, IF c.new = None THEN [c EXCEPT !.pc = "ran"]
               ELSE SendEvent(c, Notice("push", c.ref, c.new),
                              IF c.ref[1] = "heads" THEN "notify" ELSE "ran"))

\* The gateway is told of a push to a branch, or cannot be reached: either
\* way before the reference moves, if it does.
notifyGytBackend(p) ==
    /\ At(p, "notify")
    /\ UNCHANGED requests
    /\ Step(p, [call[p] EXCEPT !.pc = "ran"])

\* External: git moves the reference if it still is what the client was
\* told; if not the client is told so and git ends well all the same.
RefMoves(p) ==
    /\ At(p, "ran") /\ there /\ ~call[p].lost
    /\ UNCHANGED <<last, requests>>
    /\ LET c == [call[p] EXCEPT !.pc = "ended", !.quiet = TRUE] IN
       IF ref[call[p].ref] = call[p].old
       THEN Sets(p, call[p].ref, call[p].new, c)
       ELSE Step(p, c)

\* git fails: the client goes away, the pack is bad, the repository is gone.
GitFails(p) ==
    /\ call[p].pc \in {"receive", "hook", "push", "notify", "ran"}
    /\ IF call[p].made /\ call[p].via = "ssh" THEN GoesOn(p, "undo") ELSE Ends(p)

\* gitRunE's deferred call: the push that created the repository deletes it.
\* It fails when the context has ended with the session.
Undo(p) ==
    /\ At(p, "undo")
    /\ \/ DeleteRepository(p, Idle) /\ UNCHANGED requests
       \/ Ends(p)

\* EnsureDefaultBranch lists the branches; without one it fails.
EnsureDefaultBranch(p) ==
    /\ At(p, "ended")
    /\ IF ~there \/ Branches = {} THEN Ends(p)
       ELSE \E n \in DefaultChoices :
              /\ Step(p, [call[p] EXCEPT !.pc = "default", !.new = n])
              /\ UNCHANGED requests

\* It reads HEAD, and makes it refer to the branch chosen if it dangles.
DefaultBranchSet(p) ==
    /\ At(p, "default")
    /\ UNCHANGED requests
    /\ IF there /\ HEAD = None THEN SymbolicRef(p, call[p].new, Idle)
       ELSE Step(p, Idle)

\* serviceRpc, and gitRunE from there on: git with its hook, and the default
\* branch when it ended well.
ServiceRpc(p) ==
    \/ Update(p) \/ UpdatePush(p) \/ notifyGytBackend(p)
    \/ RefMoves(p) \/ GitFails(p)
    \/ EnsureDefaultBranch(p) \/ DefaultBranchSet(p)
=============================================================================
