------------------------------ MODULE Lookups -------------------------------
(***************************************************************************)
(* What readers are shown of commits and files: gRPC methods, and the SSH  *)
(* commands beside them, over git's own answers (git/repo.go,              *)
(* git/tree.go).  Each method resolves the revision it is asked for with   *)
(* code of its own.                                                        *)
(***************************************************************************)
EXTENDS RefCommands

CONSTANTS
    Paths,        \* files and directories
    FileOf,       \* [1..MaxChanges -> the file a change writes]
    DirectoryOf,  \* [Paths -> the directory it is in, None at the top]
    PageSize      \* commits on a page

ASSUME LookupsAssumption ==
    /\ FileOf \in [1..MaxChanges -> Paths]
    /\ DirectoryOf \in [Paths -> Paths \cup {None}]
    /\ PageSize \in Nat \ {0}
    /\ None \notin Paths \cup {"blob", "tree"}
    /\ \A c \in SUBSET (1..MaxChanges), more \in BOOLEAN :
          [commits |-> c, hasMore |-> more] # None
    /\ \A x \in 1..MaxChanges, f \in Paths : DirectoryOf[f] # FileOf[x]

\* A revision: nothing, which means HEAD, a short name, or a commit: one that
\* a reference names, or the first one, which others are made on.
HeadRevision == [is |-> "HEAD", name |-> None, commit |-> None]
Revisions ==
    {HeadRevision}
    \cup {[is |-> "name", name |-> n, commit |-> None] : n \in Names}
    \cup {[is |-> "commit", name |-> None, commit |-> ref[r]] :
              r \in {x \in RefNames : ref[x] # None}}
    \cup {[is |-> "commit", name |-> None, commit |-> {1}] :
              r \in {x \in RefNames : ref[x] # None /\ 1 \in ref[x]}}

\* External: git rev-parse takes a tag before a branch.
RevParse(v) ==
    CASE v.is = "HEAD" -> HEAD
      [] v.is = "name" -> IF v.name \in TagsThere THEN ref[Tag(v.name)]
                          ELSE Tip(v.name)
      [] v.is = "commit" -> v.commit

-----------------------------------------------------------------------------
(* Commits                                                                 *)

\* The first reference, in git's order, of that short name: branches first.
ShortName(n) == IF Tip(n) # None THEN Tip(n)
                ELSE IF n \in TagsThere THEN ref[Tag(n)] ELSE None

\* Where the history shown by ListCommits starts.  A commit is looked for
\* among the references; one that is not there but exists shows HEAD's.
ListedFrom(v) ==
    CASE v.is = "HEAD" -> HEAD
      [] v.is = "name" -> ShortName(v.name)
      [] v.is = "commit" ->
            IF \E r \in RefNames : ref[r] = v.commit THEN v.commit ELSE HEAD

\* SearchCommits and GetFileHistory know no commits.
SearchedFrom(v) ==
    CASE v.is = "HEAD" -> HEAD
      [] v.is = "name" -> ShortName(v.name)
      [] v.is = "commit" -> None

\* CommitsByPage: the newest come first.
CommitsByPageBug(c, page, size) ==
    {x \in c : LET newer == Cardinality({y \in c : y > x}) IN
               (page - 1) * (size + 1) <= newer /\ newer < page * size}
CommitsByPage(c, page, size) ==
    {x \in c : LET newer == Cardinality({y \in c : y > x}) IN
               (page - 1) * size <= newer /\ newer < page * size}

\* ListCommits says that there is more when the page is full.
ListCommits(v, page, size) ==
    LET c == ListedFrom(v) IN
    IF c = None THEN None
    ELSE [commits |-> CommitsByPage(c, page, size),
          hasMore |-> Cardinality(CommitsByPage(c, page, size)) = size]

\* SearchCommits looks at five times as many commits as it may show; what
\* matches is a set of changes.
SearchCommits(v, matching, limit) ==
    LET c == SearchedFrom(v) IN
    IF c = None THEN None
    ELSE CommitsByPage(CommitsByPage(c, 1, 5 * limit) \cap matching, 1, limit)

\* GetFileHistory: the path is not looked at.
GetFileHistory(v, path, limit) ==
    LET c == SearchedFrom(v) IN
    IF c = None THEN None ELSE CommitsByPage(c, 1, limit)

\* GetCommit: the change a commit made itself, its patch, is its last.
GetCommit(v) ==
    LET c == RevParse(v) IN
    IF c = None THEN None ELSE CHOOSE x \in c : \A y \in c : y <= x

-----------------------------------------------------------------------------
(* Trees                                                                   *)

Files(c) == {FileOf[x] : x \in c}
Directories(c) == {DirectoryOf[f] : f \in Files(c)} \ {None}

\* TreeEntry: the type of what is at a path of a commit's tree.
TreeEntry(c, path) ==
    IF path \in Files(c) THEN "blob"
    ELSE IF path \in Directories(c) THEN "tree" ELSE None

\* The entries of a directory, None for the top.
Entries(c, dir) ==
    {x \in Files(c) \cup Directories(c) : DirectoryOf[x] = dir}

GetBlob(v, path) ==
    LET c == RevParse(v) IN
    IF c # None /\ TreeEntry(c, path) = "blob"
    THEN {x \in c : FileOf[x] = path} ELSE None

\* CheckPath: what is no subtree is looked up in the tree that was not
\* found, a nil pointer, and the process ends with the panic.
CheckPath(v, path) ==
    LET c == RevParse(v) IN
    IF c = None THEN "absent"
    ELSE IF TreeEntry(c, path) # None THEN "present" ELSE "panics"

\* The SSH commands tree, which shows a file as its only entry, and commit.
TreeCommand(v, path) ==
    LET c == RevParse(v) IN
    IF c = None THEN None
    ELSE IF path = None THEN Entries(c, None)
    ELSE CASE TreeEntry(c, path) = None -> None
           [] TreeEntry(c, path) = "tree" -> Entries(c, path)
           [] OTHER -> {path}
CommitCommand(v) == GetCommit(v)

\* The commits of the one that the other does not have, and the files that
\* differ between their trees.
compareCommits(a, b) ==
    [ahead |-> b \ a, files |-> {FileOf[x] : x \in (b \ a) \cup (a \ b)}]
Compare(base, tip) ==
    LET a == RevParse(base)
        b == RevParse(tip) IN
    IF a = None \/ b = None THEN None ELSE compareCommits(a, b)

-----------------------------------------------------------------------------
(* A client that reads a branch's history page by page, until one is not   *)
(* full.  Each page is a request of its own, and the branch is resolved    *)
(* anew.                                                                   *)

NameRevision(n) == [is |-> "name", name |-> n, commit |-> None]

LogStarts(p, n) ==
    /\ there /\ n \in Branches
    /\ Starts(p, [Idle EXCEPT !.pc = "log", !.ref = Branch(n), !.old = Tip(n),
                              !.new = Tip(n), !.page = 1])

LogPage(p) ==
    /\ At(p, "log")
    /\ UNCHANGED requests
    /\ LET c == call[p]
           got == IF there
                  THEN ListCommits(NameRevision(c.ref[2]), c.page, PageSize)
                  ELSE None IN
       Step(p, IF got # None /\ got.hasMore
               THEN [c EXCEPT !.page = @ + 1, !.seen = @ \cup got.commits,
                              !.new = ShortName(c.ref[2]),
                              !.grown = @ /\ c.new \subseteq ShortName(c.ref[2])]
               ELSE Idle)
=============================================================================
