-------------------------------- MODULE Refs --------------------------------
(***************************************************************************)
(* The content of one repository: its branches and tags, HEAD, and the     *)
(* hooks called when they change, with what git (git/, pkg/git) does to    *)
(* them in one invocation.  Pushes, RefCommands, Webhooks and Lookups act  *)
(* on it as the handlers of the SSH, HTTP and gRPC servers do.             *)
(*                                                                         *)
(* A commit is the set of changes in its history, so that an ancestor is a *)
(* subset; every commit adds a change of its own, numbered in order.       *)
(***************************************************************************)
EXTENDS Naturals, FiniteSets

CONSTANTS
    None,         \* no commit, no hook, nothing asked
    Names,        \* short names of branches and tags
    Preferred,    \* main and master
    RefNames,     \* the references in play, <<"heads" or "tags", name>>
    MaxChanges,   \* bound on the changes committed
    MaxHookId,    \* bound on the hooks created
    Urls,         \* addresses of hooks
    HookRows,     \* what a hook may be asked to be
    Procs,        \* requests that are served at once
    Scenes,       \* what is asked of the repository
    MaxRequests   \* [Scenes -> bound on the requests of a behaviour]

Kinds == {"heads", "tags"}
Branch(n) == <<"heads", n>>
Tag(n) == <<"tags", n>>

ASSUME RefsAssumption ==
    /\ Preferred \subseteq Names
    /\ RefNames \subseteq Kinds \X Names
    /\ \A n \in Names : Branch(n) \in RefNames
    /\ MaxChanges \in Nat /\ MaxHookId \in Nat
    /\ MaxRequests \in [Scenes -> Nat]

Commits == (SUBSET (1..MaxChanges)) \ {{}}
HookIds == 1..MaxHookId
Events == {"push", "branch_tag_create", "branch_tag_delete", "repository"}

\* A row of a hook, with its events.
HookRow == [url : Urls, form : BOOLEAN, active : BOOLEAN, events : SUBSET Events]

ASSUME NoneAssumption ==
    /\ None \notin HookRow /\ None \notin Names /\ None \notin RefNames
    /\ \A c \in Commits : c # None
    /\ \A events \in SUBSET Events : events # None

ASSUME HooksAssumption == HookRows \subseteq HookRow

VARIABLES
    there,      \* the repository exists, row and directory
    ref,        \* [RefNames -> the commit it names, or None]
    head,       \* the branch HEAD refers to
    last,       \* changes so far
    hooks,      \* [HookIds -> the row, or None]
    lastHook,   \* the last id given to a hook
    records,    \* [HookIds -> recorded deliveries]
    call,       \* [Procs -> what the request in hand knows]
    requests,   \* requests so far
    scene       \* chosen at the start

repo == <<there, ref, head, last>>
hookTables == <<hooks, lastHook, records>>
contentVars ==
    <<there, ref, head, last, hooks, lastHook, records, call,
      requests, scene>>

Idle ==
    [pc |-> "idle",
     via |-> "none",      \* the front end
     known |-> FALSE,     \* a registered user asks
     made |-> FALSE,      \* the push created the repository
     ref |-> None,        \* the reference it is about
     old |-> None,        \* its commit when it was read
     new |-> None,        \* the commit it is to name
     quiet |-> TRUE,      \* history: nobody else changed anything since
     lost |-> FALSE,      \* the repository was deleted meanwhile
     notice |-> None,     \* the event that is being sent
     todo |-> {},         \* hooks still to be called
     next |-> "idle",     \* where the request goes on after sending
     broken |-> FALSE,    \* history: sending an event broke off
     hook |-> 0,          \* the hook of an update
     row |-> None,        \* what the update will write
     page |-> 0,          \* pages of a history read so far
     seen |-> {},         \* history: the changes on them
     grown |-> TRUE]      \* history: each page's branch had that of the one before

At(p, place) == call[p].pc = place
Active(p) == call[p] # Idle

\* Request p goes on as c without changing the repository or its hooks.
Step(p, c) ==
    /\ call' = [call EXCEPT ![p] = c]
    /\ UNCHANGED <<repo, hookTables, scene>>
Ends(p) == Step(p, Idle) /\ UNCHANGED requests
GoesOn(p, place) ==
    Step(p, [call[p] EXCEPT !.pc = place]) /\ UNCHANGED requests

Starts(p, c) ==
    /\ At(p, "idle")
    /\ requests < MaxRequests[scene]
    /\ requests' = requests + 1
    /\ Step(p, c)
   

\* Request p changes something and goes on as c; the others have not seen it.
Overtakes(p, c, gone) ==
    call' = [q \in Procs |->
               IF q = p THEN c
               ELSE IF Active(q)
               THEN [call[q] EXCEPT !.quiet = FALSE, !.lost = @ \/ gone]
               ELSE Idle]

\* A request that is over in one step and changes something.
StartsAndEnds(p) ==
    /\ At(p, "idle")
    /\ requests < MaxRequests[scene]
    /\ requests' = requests + 1

\* One invocation of git sets reference r.
Sets(p, r, new, c) ==
    /\ ref' = [ref EXCEPT ![r] = new]
    /\ Overtakes(p, c, FALSE)
    /\ UNCHANGED <<there, head, hookTables, scene>>

\* git symbolic-ref HEAD: the branch need not exist.
SymbolicRef(p, n, c) ==
    /\ head' = n
    /\ Overtakes(p, c, FALSE)
    /\ UNCHANGED <<there, ref, last, hookTables, scene>>

-----------------------------------------------------------------------------
(* What git tells                                                          *)

Tip(n) == ref[Branch(n)]
Branches == {n \in Names : Tip(n) # None}
TagsThere == {n \in Names : Tag(n) \in RefNames /\ ref[Tag(n)] # None}

\* HEAD's commit; None when it dangles, and HEAD() fails.
HEAD == Tip(head)

NoRefs == [r \in RefNames |-> None]

\* A commit made on top of c (None for a first one).
Onto(c) == (IF c = None THEN {} ELSE c) \cup {last + 1}

\* The branches EnsureDefaultBranch may choose: brs[0] is the first in git's
\* order, which is that of their names; any stands for it here.
DefaultChoices ==
    IF Branches \cap Preferred # {} THEN Branches \cap Preferred ELSE Branches

-----------------------------------------------------------------------------
(* Creating and deleting the repository, whose steps are in RepoBackend.   *)
(* The rows of its hooks and deliveries go with its row.                   *)

CreateRepository(p, c) ==
    /\ ~there
    /\ there' = TRUE /\ ref' = NoRefs
    /\ head' \in Preferred
    /\ Overtakes(p, c, FALSE)
    /\ UNCHANGED <<last, hookTables, scene>>

\* The event it sends last finds no hook any more.
DeleteRepository(p, c) ==
    /\ there
    /\ there' = FALSE /\ ref' = NoRefs
    /\ hooks' = [h \in HookIds |-> None]
    /\ records' = [h \in HookIds |-> {}]
    /\ Overtakes(p, c, TRUE)
    /\ UNCHANGED <<head, last, lastHook, scene>>
=============================================================================
