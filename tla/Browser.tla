------------------------------ MODULE Browser -------------------------------
(***************************************************************************)
(* The terminal user interface: the page of repositories and the page of   *)
(* one repository over SSH (pkg/ssh/ui.go), and the same repository page   *)
(* over a local repository (soft browse).                                  *)
(*                                                                         *)
(* One loop handles keys and messages in turn; the commands they issue run *)
(* in goroutines, and their messages arrive in any order.  The selection   *)
(* page is its list of repositories: its filter and its readme are not     *)
(* modelled, nor is the cursor of a list (any entry may be picked).        *)
(***************************************************************************)
EXTENDS Panes, FiniteSets

CONSTANTS
    Layouts,   \* what runs: its front ("ssh", "browse"), its tabs,
               \* and the keys that are pressed early
    MaxFaults  \* keys pressed early and commands that fail

VARIABLES
    layout,    \* one of Layouts
    page,      \* "selection" or "repo"
    error,     \* the error page is shown
    repo,      \* the repository page
    panes,     \* the pane of each tab
    cmds,      \* commands that have not run (bag)
    msgs,      \* messages of commands, not handled (bag)
    dead,      \* what ended the program ("no": it runs)
    history    \* what was pressed and what failed

ASSUME BrowserAssumption ==
    /\ MaxFaults \in Nat
    /\ \A l \in Layouts :
         /\ l.front \in {"ssh", "browse"}
         /\ l.tabs \in Seq({"readme", "files", "log", "refs", "stash"}) \ {<<>>}

browserVars ==
    <<layout, page, error, repo, panes, cmds, msgs, dead, history>>

Tabs == layout.tabs
NewPane == [readme |-> NewReadme, files |-> NewFiles, log |-> NewLog,
            refs |-> NewRefs, stash |-> NewStash]
Error == Msg("error", Nowhere)
Of(r) == Place(r, None, <<>>, 0)
Send(m) == Cmd("send", m)
Bag(cs) == SetToBag(cs)

\* The UI's Init opens the repository named on the command line, if one is;
\* soft browse tells the page its repository and asks for HEAD at once.
Init ==
    /\ layout \in Layouts
    /\ page = IF layout.front = "ssh" THEN "selection" ELSE "repo"
    /\ error = FALSE /\ msgs = EmptyBag /\ dead = "no"
    /\ repo = [selected |-> None, ref |-> None, tab |-> 1, tabs |-> 1,
               ready |-> FALSE]
    /\ panes = [n \in ToSet(Tabs) |-> NewPane[n]]
    /\ \E r \in Repos \cup (IF layout.front = "ssh" THEN {None} ELSE {}) :
         /\ history = [faults |-> 0, hasty |-> FALSE, failed |-> FALSE,
                       early |-> FALSE, asked |-> r]
         /\ cmds = CASE r = None -> EmptyBag
                     [] r # None /\ layout.front = "ssh" ->
                                Bag({Cmd("open first", Of(r))})
                     [] OTHER -> Bag({Send(Msg("repo", Of(r))), Cmd("HEAD", Of(r))})

-----------------------------------------------------------------------------
(* Update                                                                  *)

UpdatePane(n, s, m) ==
    CASE n = "readme" -> Readme(s, m)
      [] n = "files" -> FilesPane(s, m)
      [] n = "log" -> Log(s, m)
      [] n = "refs" -> Refs(s, m)
      [] n = "stash" -> Stash(s, m)

\* The panes told beside the active one.  An answer goes to the pane it is
\* for, but for the blame and the commit, which the active pane is told.
Owned == [readme |-> {"readme"}, files |-> {"files", "content"},
          log |-> {"count", "commits", "diff"}, refs |-> {"refs"},
          stash |-> {"stash", "patch"}]
IsFor(n, m) == m.kind \in {"repo", "ref", "empty", "resize"} \cup Owned[n]

\* The active pane is told last, and so twice what is for it anyway.
Tell(n, s, m, active) ==
    LET once == IF IsFor(n, m) THEN UpdatePane(n, s, m) ELSE Same(s)
        again == UpdatePane(n, once.pane, m)
    IN IF n = active THEN After(again.pane, once.cmds (+) again.cmds) ELSE once

\* The page's own fields, the tab bar's among them.
RepoModel(r, m) ==
    CASE m.kind = "repo" ->
            [r EXCEPT !.selected = m.of.repo, !.ready = FALSE, !.tab = 1, !.tabs = 1]
      [] m.kind \in {"ref", "empty"} -> [r EXCEPT !.ref = m.of.ref, !.ready = TRUE]
      [] m.kind = "error" -> [r EXCEPT !.ready = TRUE]
      [] m.kind = "select tab" -> [r EXCEPT !.tab = m.of.n, !.tabs = m.of.n]
      [] m.kind = "active tab" -> [r EXCEPT !.tab = m.of.n]
      [] m.kind = "tab" -> [r EXCEPT !.tabs = (@ % Len(Tabs)) + 1]
      [] OTHER -> r

RepoCmds(m) ==
    CASE m.kind = "tab" -> Bag({Load("active tab")})
      [] m.kind = "back" -> Bag({Send(Key("go back"))})
      [] m.kind = "switch tab" ->
            Bag({Send(Msg("select tab", Place(None, None, <<>>, i))) :
                    i \in {j \in DOMAIN Tabs : Tabs[j] = "files"}})
      [] OTHER -> EmptyBag

\* The page with what its panes make of a message, no pane's Update looking
\* at another's.
Gather(st, r, m, told) ==
    LET by(n) == IF n \in DOMAIN told THEN told[n].cmds ELSE EmptyBag
    IN [repo |-> r, panes |-> [n \in DOMAIN told |-> told[n].pane],
        cmds |-> st.cmds (+) RepoCmds(m) (+) by("readme") (+) by("files")
                     (+) by("log") (+) by("refs") (+) by("stash")]

RepoUpdate(st, m) ==
    LET r == RepoModel(st.repo, m)
    IN Gather(st, r, m, [n \in DOMAIN st.panes |-> Tell(n, st.panes[n], m, Tabs[r.tab])])

\* Path of the active pane: nothing to go back to inside it when empty.
ActivePath ==
    CASE Tabs[repo.tab] = "files" -> panes["files"].path
      [] Tabs[repo.tab] = "log" ->
            IF panes["log"].view = "commits" THEN <<>> ELSE <<"diff">>
      [] OTHER -> <<>>

Leaves(m) ==
    /\ m.kind = "back" /\ ~error
    /\ layout.front = "ssh" /\ page = "repo" /\ ActivePath = <<>>

UICmds(m) ==
    CASE m.kind = "repo" /\ layout.front = "ssh" -> Bag({Cmd("HEAD", m.of)})
      [] m.kind = "open" -> Bag({Send(Msg("select repo", m.of))})
      [] m.kind = "select repo" /\ page = "selection" -> Bag({Cmd("open", m.of)})
      [] m.kind = "?" -> Bag({Send(Key("footer"))})
      [] OTHER -> EmptyBag

\* A nil commit is rendered, the quick start of no repository is, or the
\* message of no stash is copied or shown.
Panics(m, r) ==
    LET active == Tabs[r.tab] IN
    CASE m.kind = "diff" /\ "log" \in DOMAIN panes
             /\ panes["log"].selected = Nowhere -> "diff"
      [] m.kind = "empty" /\ "readme" \in DOMAIN panes
             /\ panes["readme"].repo = None -> "quick start"
      [] m.kind = "copy" /\ active = "stash"
             /\ panes["stash"].view = "list" /\ panes["stash"].items.n = 0 -> "copy"
      [] m.kind = "patch" /\ "stash" \in DOMAIN panes
             /\ panes["stash"].items.n = 0 -> "patch"
      [] OTHER -> "no"

\* UI.Update and browse's Update: the page shown, then its Update.  Over
\* SSH every page is told of a new size, and the one shown again.
Handle(m, left) ==
    LET ssh == layout.front = "ssh"
        shown == IF Leaves(m) THEN "selection"
                 ELSE IF m.kind = "repo" THEN "repo" ELSE page
        st == [repo |-> repo, panes |-> panes, cmds |-> left (+) UICmds(m)]
        once == IF shown = "repo" \/ m.kind = "resize" THEN RepoUpdate(st, m) ELSE st
        after == IF m.kind = "resize" /\ ssh /\ shown = "repo"
                 THEN RepoUpdate(once, m) ELSE once
    IN /\ page' = shown
       /\ error' = (m.kind = "error" \/ (error /\ m.kind # "back"))
       /\ dead' = IF shown = "repo" THEN Panics(m, repo) ELSE "no"
       /\ repo' = after.repo /\ panes' = after.panes /\ cmds' = after.cmds
       /\ UNCHANGED layout

-----------------------------------------------------------------------------
(* What a command answers                                                  *)

\* A reference of another repository names no object here.
Readable(s) == s.ref # None /\ s.ref \in {Branch(s.repo, b) : b \in BranchesOf[s.repo]}

Entries(dir) ==
    {p \in Directories \cup Files : Len(p) = Len(dir) + 1 /\ Front(p) = dir}

updateReadmeCmd(s) ==
    IF s.repo = None THEN {Error}
    ELSE IF ~Readable(s) THEN {Msg("readme", Nowhere)}
    ELSE {Msg("readme", Place(s.repo, s.ref, <<>>, 0))}

updateFilesCmd(f) ==
    IF Readable(f) /\ f.path \in Directories
    THEN {Msg("files", Place(f.repo, f.ref, f.path, 0))} ELSE {}
selectTreeCmd(f) ==
    IF f.item.path \in Directories \ {<<>>} THEN updateFilesCmd(f) ELSE {Error}
selectFileCmd(f) ==
    IF f.item.path \in Files \ Binary THEN {Msg("content", f.item)} ELSE {Error}
fetchBlame(f) == IF Readable(f) THEN {Msg("blame", f.item)} ELSE {Error}

\* The commits are asked for by the reference's name, whoever it was of.
ByName(l, kind, n) ==
    IF l.ref[2] \notin BranchesOf[l.repo] THEN {Error}
    ELSE {Msg(kind, Place(l.repo, Branch(l.repo, l.ref[2]), <<>>, n))}
countCommitsCmd(l) ==
    IF l.ref = None THEN {} ELSE ByName(l, "count", Count[l.repo])
updateCommitsCmd(l) ==
    IF l.ref = None THEN {}
    ELSE IF l.count = 0 THEN {Msg("commits", Nowhere)}
    ELSE ByName(l, "commits", l.page)
loadDiffCmd(l) ==
    IF l.selected = Nowhere THEN {}
    ELSE IF l.selected.repo # l.repo THEN {Error} ELSE {Msg("diff", l.selected)}

updateItemsCmd(r) == {Msg("refs", Of(r.repo))}
fetchStash(s) ==
    IF s.repo = None THEN {Msg("stash", Nowhere)}
    ELSE {Msg("stash", Place(s.repo, None, <<>>, n)) : n \in Stashes}
fetchStashPatch(s) == {Msg("patch", s.items)}

\* An entry of the list, if there is one.
SelectItemCmd(c) ==
    LET items == panes[CASE c.kind = "pick file" -> "files"
                         [] c.kind = "pick commit" -> "log"
                         [] c.kind = "pick ref" -> "refs"
                         [] OTHER -> "stash"].items IN
    IF items = Nowhere THEN {}
    ELSE
    CASE c.kind = "pick file" ->
            {Msg("select file", [items EXCEPT !.path = p]) : p \in Entries(items.path)}
      [] c.kind = "pick commit" -> {Msg("select commit", items)}
      [] c.kind = "pick ref" ->
            {Msg("select ref", Place(items.repo, Branch(items.repo, b), <<>>, 0)) :
                b \in BranchesOf[items.repo]}
      [] c.kind = "pick stash" ->
            IF items.n > 0 THEN {Msg("select stash", items)} ELSE {}

HeadOf(r) == Branch(r, CHOOSE b \in BranchesOf[r] : TRUE)
UpdateRefCmd(r) ==
    IF BranchesOf[r] = {} THEN {Msg("empty", Nowhere)}
    ELSE {Msg("ref", Place(r, HeadOf(r), <<>>, 0))}
activeTabCmd == {Msg("active tab", Place(None, None, <<>>, repo.tabs))}
setRepoCmd(of) == {Msg("repo", of)}

\* The answers of a command that does not fail: none, one, or one of these.
Answers(c) ==
    CASE c.kind \in {"open", "open first"} -> setRepoCmd(c.of)
      [] c.kind = "HEAD" -> UpdateRefCmd(c.of.repo)
      [] c.kind = "active tab" -> activeTabCmd
      [] c.kind = "readme" -> updateReadmeCmd(panes["readme"])
      [] c.kind = "files" -> updateFilesCmd(panes["files"])
      [] c.kind = "tree" -> selectTreeCmd(panes["files"])
      [] c.kind = "file" -> selectFileCmd(panes["files"])
      [] c.kind = "blame" -> fetchBlame(panes["files"])
      [] c.kind = "count" -> countCommitsCmd(panes["log"])
      [] c.kind = "commits" -> updateCommitsCmd(panes["log"])
      [] c.kind = "diff" -> loadDiffCmd(panes["log"])
      [] c.kind = "refs" -> updateItemsCmd(panes["refs"])
      [] c.kind = "stash" -> fetchStash(panes["stash"])
      [] c.kind = "patch" -> fetchStashPatch(panes["stash"])
      [] OTHER -> SelectItemCmd(c)

\* What becomes of a failure: the readme is empty without it, the error of a
\* listing is lost, as is that of the first repository.
Failure(c) ==
    CASE c.kind = "readme" -> {Msg("readme", Nowhere)}
      [] c.kind \in {"files", "tree", "open first"} -> {}
      [] OTHER -> {Error}

Gits == {"open", "open first", "HEAD", "readme", "files", "tree", "file", "blame",
         "count", "commits", "diff", "refs", "stash", "patch"}

\* Opens a repository that is not there yet, or blames without a file.
Nil(c) ==
    \/ c.kind \in {"files", "tree"} /\ panes["files"].ref # None
         /\ panes["files"].repo = None
    \/ c.kind = "blame" /\ (panes["files"].ref = None
                             \/ panes["files"].item = Nowhere)
    \/ c.kind \in {"count", "commits"} /\ panes["log"].ref # None
         /\ panes["log"].repo = None
    \/ c.kind = "refs" /\ panes["refs"].repo = None

-----------------------------------------------------------------------------
(* Steps                                                                   *)

Quiet == cmds = EmptyBag /\ msgs = EmptyBag
Ran(c, answers) ==
    /\ cmds' = cmds (-) Bag({c})
    /\ IF answers = {} THEN msgs' = msgs
       ELSE \E m \in answers : msgs' = msgs (+) Bag({m})
    /\ UNCHANGED <<layout, page, error, repo>>

\* A file that is not shown takes the path back.
NotShown(c, answers) ==
    panes' = IF c.kind = "file" /\ Error \in answers
             THEN [panes EXCEPT !["files"].path = Front(@)] ELSE panes

RunCommand ==
    \E c \in BagToSet(cmds) :
        /\ dead = "no" /\ c.kind # "send" /\ ~Nil(c)
        /\ LET answers == Answers(c) IN Ran(c, answers) /\ NotShown(c, answers)
        /\ UNCHANGED <<dead, history>>

CommandFails ==
    \E c \in BagToSet(cmds) :
        /\ dead = "no" /\ c.kind \in Gits /\ ~Nil(c)
        /\ history.faults < MaxFaults
        /\ LET answers == Failure(c) IN Ran(c, answers) /\ NotShown(c, answers)
        /\ history' = [history EXCEPT !.faults = @ + 1, !.failed = TRUE]
        /\ UNCHANGED dead

CommandPanics ==
    \E c \in BagToSet(cmds) :
        /\ dead = "no" /\ Nil(c)
        /\ dead' = c.kind
        /\ UNCHANGED <<layout, page, error, repo, panes, cmds, msgs, history>>

\* The message of a command, or the one a command has no work to do for.
Deliver(m, left) ==
    /\ dead = "no"
    /\ Handle(m, left)
    /\ history' = [history EXCEPT !.early =
          @ \/ (m.kind \in {"ref", "empty"} /\ repo.selected = None)]

DeliverAnswer ==
    \E m \in BagToSet(msgs) :
        /\ Deliver(m, cmds)
        /\ msgs' = msgs (-) Bag({m})
DeliverSent ==
    \E c \in BagToSet(cmds) :
        /\ c.kind = "send"
        /\ Deliver(c.of, cmds (-) Bag({c}))
        /\ UNCHANGED msgs

Keys ==
    IF page = "selection" THEN {Msg("open", Of(r)) : r \in Repos}
    ELSE {Key(k) : k \in {"enter", "back item", "back", "tab", "resize", "?"}
            \cup (CASE Tabs[repo.tab] = "files" -> {"b"}
                    [] Tabs[repo.tab] = "log" -> {"next page"}
                    [] Tabs[repo.tab] = "stash" -> {"copy"}
                    [] OTHER -> {})}

\* To open a repository when nothing is under way is a fresh start.  After a
\* failure, or a key pressed early, the keys are those that lead there (bound).
Press ==
    \E k \in Keys :
        /\ dead = "no" /\ Quiet
        /\ history.hasty \/ history.failed => k.kind \in {"back", "open"}
        /\ Handle(k, cmds)
        /\ history' =
              IF k.kind = "open"
              THEN [history EXCEPT !.asked = k.of.repo, !.hasty = FALSE,
                                   !.failed = FALSE]
              ELSE history
        /\ UNCHANGED msgs

PressEarly ==
    \E k \in Keys :
        /\ dead = "no" /\ ~Quiet /\ k.kind \in layout.early
        /\ history.faults < MaxFaults
        /\ Handle(k, cmds)
        /\ history' = [history EXCEPT !.faults = @ + 1, !.hasty = TRUE]
        /\ UNCHANGED msgs

\* The user looks at what is shown, or the program has ended.
Rest == (dead # "no" \/ Quiet) /\ UNCHANGED browserVars

Next ==
    \/ RunCommand \/ CommandFails \/ CommandPanics
    \/ DeliverAnswer \/ DeliverSent
    \/ Press \/ PressEarly
    \/ Rest

Spec == Init /\ [][Next]_browserVars

-----------------------------------------------------------------------------
(* Properties                                                              *)

\* What a pane shows when nothing is under way.
Current(n, s) ==
    LET here(path, k) == IF repo.ref = None THEN Nowhere
                         ELSE Place(repo.selected, repo.ref, path, k)
    IN CASE n = "readme" ->
              /\ s.shows = Place(repo.selected, repo.ref, <<>>, 0)
              /\ repo.ref # None => ~s.loading
         [] n = "files" ->
              CASE s.view = "files" -> s.items = here(s.path, 0)
                [] s.view = "content" -> s.shows = here(s.path, 0)
                [] OTHER -> FALSE
         [] n = "log" ->
              CASE s.view = "commits" -> s.items = here(<<>>, s.page)
                [] s.view = "diff" -> s.diff = s.items /\ s.selected = s.diff
                [] OTHER -> FALSE
         [] n = "refs" ->
              /\ ~s.loading
              /\ s.items = IF repo.ref = None THEN Nowhere ELSE Of(repo.selected)
         [] n = "stash" -> repo.ref # None => s.view # "loading"

\* Whatever order the goroutines of a key run and answer in, once they are
\* done the page shows what was asked for: every pane shows the selected
\* repository at the page's reference, the files pane the directory or file
\* of its path, the commits pane its page or the commit picked, the tab bar
\* the active pane; nothing still loads, and nothing panicked on the way but
\* the copy of a stash that is not there.  So it is again, whatever went
\* wrong before, once a repository is opened anew.  It is not so for a key
\* pressed while another's work is under way, after a failure of git, or when
\* soft browse is told HEAD before the repository; and an empty repository may
\* leave the readme and the stash loading, which no message ends.
ShownIsCurrent ==
    /\ dead \in {"no", "copy"} \/ history.hasty \/ history.early
    /\ (/\ Quiet /\ dead = "no" /\ page = "repo"
        /\ ~history.hasty /\ ~history.failed /\ ~history.early)
       => /\ repo.selected = history.asked /\ repo.ready
          /\ repo.tabs = repo.tab
          /\ repo.ref # None => repo.ref[1] = repo.selected
          /\ \A n \in DOMAIN panes : Current(n, panes[n])
=============================================================================
