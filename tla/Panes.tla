------------------------------- MODULE Panes --------------------------------
(***************************************************************************)
(* The panes of the terminal user interface (pkg/ui/pages/repo): readme,   *)
(* files, commits, references and stash.  A pane is a record, and its      *)
(* Update handles one message at a time: it leaves the pane changed and    *)
(* issues commands.  A command runs later, in a goroutine of its own,      *)
(* reads the pane as it is then, and sends one message.  No message says   *)
(* which repository, reference or directory it is about.                   *)
(*                                                                         *)
(* What is shown is abstracted to the place it was read from.              *)
(***************************************************************************)
EXTENDS Naturals, Sequences, Bags, SequencesExt

CONSTANTS
    None,
    Repos,
    BranchesOf,    \* [Repos -> the names of its branches]
    Directories,   \* paths of directories, as sequences of names
    Files,         \* paths of files
    Binary,        \* those that are binary
    Count,         \* [Repos -> commits of each branch]
    Stashes        \* how many changes a repository that is browsed may stash

Place(repo, ref, path, n) == [repo |-> repo, ref |-> ref, path |-> path, n |-> n]
Nowhere == Place(None, None, <<>>, 0)
Branch(repo, name) == <<repo, name>>

Msg(kind, of) == [kind |-> kind, of |-> of]
Cmd(kind, of) == [kind |-> kind, of |-> of]
Key(kind) == Msg(kind, Nowhere)

\* What Update returns.
After(pane, cmds) == [pane |-> pane, cmds |-> cmds]
Same(pane) == After(pane, EmptyBag)
Issues(pane, cmd) == After(pane, SetToBag({cmd}))
Load(kind) == Cmd(kind, Nowhere)

\* None is no repository and no reference; a path's directory is one; a branch
\* has a commit, and a repository some number of stashes.
ASSUME PanesAssumption ==
    /\ None \notin Repos
    /\ \A r \in Repos : \A b \in BranchesOf[r] : Branch(r, b) # None
    /\ <<>> \in Directories /\ Directories \cap Files = {}
    /\ \A p \in Directories \cup Files :
         p \in Seq(ToSet(p)) /\ (p # <<>> => Front(p) \in Directories)
    /\ \A r \in Repos : BranchesOf[r] # {} => Count[r] \in Nat \ {0}
    /\ Stashes \subseteq Nat /\ Stashes # {}

-----------------------------------------------------------------------------
(* Readme                                                                  *)

NewReadme == [repo |-> None, ref |-> None, loading |-> TRUE, shows |-> Nowhere]

\* An empty repository's quick start does not end the loading.
Readme(s, m) ==
    CASE m.kind = "repo" -> Same([s EXCEPT !.repo = m.of.repo])
      [] m.kind = "ref" ->
            Issues([s EXCEPT !.ref = m.of.ref, !.loading = TRUE], Load("readme"))
      [] m.kind = "empty" ->
            Same([s EXCEPT !.shows = Place(s.repo, None, <<>>, 0)])
      [] m.kind = "readme" ->
            Same([s EXCEPT !.loading = FALSE, !.shows = m.of])
      [] OTHER -> Same(s)

-----------------------------------------------------------------------------
(* Files                                                                   *)

NewFiles ==
    [repo |-> None, ref |-> None, view |-> "loading", path |-> <<>>,
     item |-> Nowhere, items |-> Nowhere, shows |-> Nowhere, blame |-> FALSE]

\* (The list is not read again.)
DeselectBug(s) ==
    Same([s EXCEPT !.path = IF s.path = <<>> THEN <<>> ELSE Front(s.path),
                   !.view = "files", !.blame = FALSE])

\* deselectItemCmd: one directory up, whatever is shown.
Deselect(s) ==
    Issues([s EXCEPT !.path = IF s.path = <<>> THEN <<>> ELSE Front(s.path),
                     !.view = "files", !.blame = FALSE], Load("files"))

\* The key b: the blame is fetched, or the view goes back to the content.
ToggleBlame(s) ==
    IF s.blame THEN Same([s EXCEPT !.blame = FALSE])
    ELSE Issues([s EXCEPT !.blame = TRUE, !.view = "loading"], Load("blame"))

FilesPane(s, m) ==
    CASE m.kind = "repo" -> Same([s EXCEPT !.repo = m.of.repo])
      [] m.kind = "ref" ->
            Issues([s EXCEPT !.ref = m.of.ref, !.path = <<>>, !.item = Nowhere,
                             !.view = "loading", !.blame = FALSE], Load("files"))
      [] m.kind = "files" -> Same([s EXCEPT !.items = m.of, !.view = "files"])
      [] m.kind = "content" -> Same([s EXCEPT !.shows = m.of, !.view = "content"])
      [] m.kind = "blame" -> Same([s EXCEPT !.view = "content"])
      [] m.kind = "select file" ->
            LET name == Last(m.of.path)
                tree == m.of.path \in Directories IN
            Issues([s EXCEPT !.item = m.of, !.path = Append(@, name)],
                   Load(IF tree THEN "tree" ELSE "file"))
      [] m.kind = "go back" /\ s.view # "loading" -> Deselect(s)
      [] m.kind = "back item" /\ s.view # "loading" -> Deselect(s)
      [] m.kind = "enter" /\ s.view = "files" -> Issues(s, Load("pick file"))
      [] m.kind = "b" /\ s.view = "content" -> ToggleBlame(s)
      [] m.kind = "resize" /\ s.view = "files" /\ s.repo # None ->
            Issues(s, Load("files"))
      [] m.kind = "empty" ->
            Issues([s EXCEPT !.ref = None, !.path = <<>>, !.item = Nowhere,
                             !.view = "files"], Cmd("send", Msg("files", Nowhere)))
      [] OTHER -> Same(s)

-----------------------------------------------------------------------------
(* Commits                                                                 *)

NewLog ==
    [repo |-> None, ref |-> None, view |-> "commits", count |-> 0, page |-> 0,
     selected |-> Nowhere, items |-> Nowhere, diff |-> Nowhere]

LogBack(s) ==
    Same(IF s.view = "diff"
         THEN [s EXCEPT !.view = "commits", !.selected = Nowhere] ELSE s)

\* A page of one commit; another page is loaded when it is turned to.
TurnPage(s) ==
    IF s.count > 1
    THEN Issues([s EXCEPT !.page = (@ + 1) % s.count, !.view = "loading"],
                Load("commits"))
    ELSE Same(s)

Reset(s) == [s EXCEPT !.count = 0, !.page = 0, !.selected = Nowhere]

Log(s, m) ==
    CASE m.kind = "repo" -> Same([s EXCEPT !.repo = m.of.repo])
      [] m.kind = "ref" ->
            Issues([Reset(s) EXCEPT !.ref = m.of.ref, !.view = "loading"],
                   Load("count"))
      [] m.kind = "count" ->
            Issues([s EXCEPT !.count = m.of.n, !.items = Nowhere], Load("commits"))
      [] m.kind = "commits" -> Same([s EXCEPT !.items = m.of, !.view = "commits"])
      [] m.kind = "enter" /\ s.view = "commits" -> Issues(s, Load("pick commit"))
      [] m.kind = "next page" /\ s.view = "commits" -> TurnPage(s)
      [] m.kind \in {"go back", "back item"} -> LogBack(s)
      [] m.kind = "select commit" ->
            Issues([s EXCEPT !.view = "loading"], Cmd("send", Msg("commit", m.of)))
      [] m.kind = "commit" -> Issues([s EXCEPT !.selected = m.of], Load("diff"))
      [] m.kind = "diff" -> Same([s EXCEPT !.diff = m.of, !.view = "diff"])
      [] m.kind = "footer" -> Issues(s, Load("commits"))
      [] m.kind = "resize" /\ s.repo # None /\ s.ref # None ->
            Issues([s EXCEPT !.view = "loading"], Load("commits"))
      [] m.kind = "empty" ->
            Issues([Reset(s) EXCEPT !.ref = None, !.view = "commits"],
                   Cmd("send", Msg("commits", Nowhere)))
      [] OTHER -> Same(s)

-----------------------------------------------------------------------------
(* References: branches stand for tags as well, which have a pane each.    *)

NewRefs == [repo |-> None, ref |-> None, loading |-> TRUE, items |-> Nowhere]

Refs(s, m) ==
    CASE m.kind = "repo" -> Same([s EXCEPT !.repo = m.of.repo])
      [] m.kind = "ref" ->
            Issues([s EXCEPT !.ref = m.of.ref, !.loading = TRUE], Load("refs"))
      [] m.kind = "refs" -> Same([s EXCEPT !.items = m.of, !.loading = FALSE])
      [] m.kind = "enter" -> Issues(s, Load("pick ref"))
      [] m.kind = "select ref" ->
            After(s, SetToBag({Cmd("send", Msg("ref", m.of)),
                               Cmd("send", Key("switch tab"))}))
      [] m.kind = "empty" ->
            Issues([s EXCEPT !.ref = None], Cmd("send", Msg("refs", Nowhere)))
      [] OTHER -> Same(s)

-----------------------------------------------------------------------------
(* Stash: only where a repository with a work tree is browsed.             *)

NewStash == [repo |-> None, view |-> "loading", items |-> Nowhere]

Stash(s, m) ==
    CASE m.kind = "repo" -> Same([s EXCEPT !.repo = m.of.repo])
      [] m.kind = "ref" -> Issues([s EXCEPT !.view = "loading"], Load("stash"))
      [] m.kind = "stash" -> Same([s EXCEPT !.items = m.of, !.view = "list"])
      [] m.kind = "patch" -> Same([s EXCEPT !.view = "patch"])
      [] m.kind = "enter" /\ s.view = "list" -> Issues(s, Load("pick stash"))
      [] m.kind = "select stash" -> Issues(s, Load("patch"))
      [] m.kind = "back item" /\ s.view # "loading" ->
            Issues(s, Cmd("send", Key("go back")))
      [] m.kind = "go back" -> Same([s EXCEPT !.view = "list"])
      [] OTHER -> Same(s)
=============================================================================
