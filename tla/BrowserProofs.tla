---------------------------- MODULE BrowserProofs ----------------------------
(***************************************************************************)
(* Proof that the terminal user interface shows what was asked for, for    *)
(* any repositories, branches, files, stashes and tabs, and any faults.    *)
(*                                                                         *)
(* What a key starts is a chain of commands and messages, and the stages   *)
(* below say, of each link, what is under way and what the panes have come *)
(* to.  Only a page that reloads has several loads under way at once, one  *)
(* of a pane overtaking another's; there every pane shows what it is to,   *)
(* or a load of it or its answer is under way, and no answer is of another *)
(* place than the page is at when it comes.                                *)
(***************************************************************************)
EXTENDS Browser, SequenceTheorems, TLAPS

-----------------------------------------------------------------------------
(* What is always so                                                       *)

RepoFields == {"selected", "ref", "tab", "tabs", "ready"}
PastFields == {"faults", "hasty", "failed", "early", "asked"}

World ==
    /\ layout \in Layouts
    /\ page \in {"selection", "repo"}
    /\ page = "selection" => layout.front = "ssh"
    /\ IsABag(cmds) /\ IsABag(msgs)
    /\ DOMAIN repo = RepoFields
    /\ DOMAIN panes = ToSet(Tabs)
    /\ \A n \in DOMAIN panes : DOMAIN panes[n] = DOMAIN NewPane[n]
    /\ DOMAIN history = PastFields
    /\ history.hasty \in BOOLEAN /\ history.early \in BOOLEAN
    /\ history.failed \in BOOLEAN
    /\ history.asked \in Repos \cup {None}

-----------------------------------------------------------------------------
(* What a pane has come to                                                 *)

R == history.asked
Ref(b) == Msg("ref", Place(R, Branch(R, b), <<>>, 0))
Here(path, k) == IF repo.ref = None THEN Nowhere ELSE Place(R, repo.ref, path, k)

\* The page has its reference: a branch of the repository, or none if it is empty.
AtRef ==
    /\ repo.ready
    /\ repo.ref = None => BranchesOf[R] = {}
    /\ repo.ref # None => \E b \in BranchesOf[R] : repo.ref = Branch(R, b)

\* How a pane stands to the page, whatever it still waits for.
Fits(n, s) ==
    CASE n = "readme" -> repo.ref # None => s.ref = repo.ref
      [] n = "files" -> s.ref = repo.ref /\ s.path \in Directories \cup Files
      [] n = "log" -> s.ref = repo.ref
      [] n = "refs" -> repo.ref # None => s.ref = repo.ref
      [] OTHER -> TRUE

Counted(s) == s.count = IF repo.ref = None THEN 0 ELSE Count[R]

\* The pane shows what it is to show.
Done(n, s) ==
    CASE n = "readme" ->
            /\ s.shows = Place(R, repo.ref, <<>>, 0)
            /\ repo.ref # None => ~s.loading
      [] n = "files" ->
            \/ /\ s.view = "files" /\ s.path \in Directories
               /\ s.items = Here(s.path, 0)
            \/ /\ s.view = "content" /\ s.path \in Files /\ repo.ref # None
               /\ s.shows = Here(s.path, 0) /\ s.item = Here(s.path, 0)
      [] n = "log" ->
            /\ Counted(s) /\ s.items = Here(<<>>, s.page)
            /\ \/ s.view = "commits"
               \/ s.view = "diff" /\ s.diff = s.items /\ s.selected = s.diff
      [] n = "refs" ->
            /\ ~s.loading
            /\ s.items = IF repo.ref = None THEN Nowhere ELSE Of(R)
      [] n = "stash" -> repo.ref # None => s.view # "loading"

\* The messages under way, and what the commands under way are for.
Sent(cs) == {c.of : c \in {d \in BagToSet(cs) : d.kind = "send"}}
Run(cs) == {c.kind : c \in {d \in BagToSet(cs) : d.kind # "send"}}
Awaited == BagToSet(msgs) \cup Sent(cmds)
Coming(kind) == \E m \in Awaited : m.kind = kind
Loading(kind) == kind \in Run(cmds)

\* After one of them the pane will.
Due(n, s) ==
    CASE n = "readme" -> repo.ref # None /\ (Loading("readme") \/ Coming("readme"))
      [] n = "files" ->
            /\ s.path \in Directories
            /\ (repo.ref # None /\ Loading("files")) \/ Coming("files")
      [] n = "log" ->
            \/ repo.ref # None /\ (Loading("count") \/ Coming("count"))
            \/ /\ Counted(s)
               /\ (repo.ref # None /\ Loading("commits")) \/ Coming("commits")
      [] n = "refs" -> Loading("refs") \/ Coming("refs")
      [] n = "stash" -> Loading("stash") \/ Coming("stash")

Settled(n) == Fits(n, panes[n]) /\ Done(n, panes[n])
Still(ns) == \A n \in DOMAIN panes \ ns : Settled(n)

-----------------------------------------------------------------------------
(* What may be under way together                                          *)

Only(cs, ms) == cmds = SetToBag(cs) /\ msgs = SetToBag(ms)
Ran1(c) == Only({c}, {})
Said1(m) == Only({}, {m})

Fine == ~history.hasty /\ ~history.early
Tab(i) == Msg("select tab", Place(None, None, <<>>, i))

Closed == page = "selection" /\ Only({}, {})

Opening ==
    /\ page = "selection" /\ layout.front = "ssh" /\ R \in Repos
    /\ \/ Ran1(Cmd("open first", Of(R)))
       \/ Ran1(Send(Msg("select repo", Of(R))))
       \/ Ran1(Cmd("open", Of(R)))
       \/ Said1(Msg("repo", Of(R)))
       \/ Said1(Error)

Starting ==
    /\ page = "repo" /\ layout.front = "browse" /\ R \in Repos
    /\ repo.selected = None /\ repo.tab = 1 /\ repo.tabs = 1
    /\ LET first == Send(Msg("repo", Of(R))) IN
       \/ Only({first, Cmd("HEAD", Of(R))}, {})
       \/ \E b \in BranchesOf[R] : Only({first}, {Ref(b)})
       \/ BranchesOf[R] = {} /\ Only({first}, {Msg("empty", Nowhere)})
       \/ history.failed /\ (Only({first}, {Error}) \/ Only({first}, {}))

Placed ==
    /\ page = "repo" /\ R \in Repos /\ repo.selected = R
    /\ repo.tab \in DOMAIN Tabs /\ repo.tabs \in DOMAIN Tabs
    /\ \A n \in DOMAIN panes : panes[n].repo = R

Heading ==
    /\ Placed /\ repo.tab = repo.tabs
    /\ \/ Ran1(Cmd("HEAD", Of(R)))
       \/ \E b \in BranchesOf[R] : Said1(Ref(b))
       \/ BranchesOf[R] = {} /\ Said1(Msg("empty", Nowhere))

\* Which pane each command of a reload is of, and the messages of one.
LoadOf == [readme |-> "readme", files |-> "files", count |-> "log",
           commits |-> "log", refs |-> "refs", stash |-> "stash"]
Reloads ==
    /\ Placed /\ repo.tab = repo.tabs
    /\ \A k \in Run(cmds) : k \in DOMAIN LoadOf /\ LoadOf[k] \in DOMAIN panes
    /\ \A m \in Awaited :
         /\ m.kind \in DOMAIN LoadOf \cup {"error", "switch tab", "select tab"}
         /\ m.kind = "select tab" => m.of.n \in DOMAIN Tabs

\* A message is of the page's repository, reference, path and page.
Rightly(m) ==
    CASE m.kind = "readme" -> repo.ref # None /\ m.of = Here(<<>>, 0)
      [] m.kind = "files" ->
            "files" \in DOMAIN panes =>
                /\ panes["files"].path \in Directories
                /\ m.of = Here(panes["files"].path, 0)
      [] m.kind = "count" -> repo.ref # None /\ m.of.n = Count[R]
      [] m.kind = "commits" -> "log" \in DOMAIN panes => m.of = Here(<<>>, panes["log"].page)
      [] m.kind = "refs" -> m.of = IF repo.ref = None THEN Nowhere ELSE Of(R)
      [] OTHER -> TRUE
Rights ==
    /\ AtRef
    /\ \A m \in Awaited : Rightly(m)
    /\ \A k \in Run(cmds) :
         /\ k \in {"readme", "count", "refs"} => repo.ref # None
         /\ k = "commits" => Counted(panes["log"])
         /\ k = "files" => panes["files"].path \in Directories
    /\ \A n \in DOMAIN panes :
         Fits(n, panes[n]) /\ (Done(n, panes[n]) \/ Due(n, panes[n]))
Reloading == Reloads /\ (~history.failed => Rights)

Steady(ns) == Placed /\ AtRef /\ Still(ns) /\ ~history.failed
On(n) == repo.tab = repo.tabs /\ Tabs[repo.tab] = n

GoingBack ==
    /\ Placed /\ repo.tab = repo.tabs /\ Ran1(Send(Key("go back")))
    /\ ~history.failed => Steady({})

Tabbing ==
    /\ Steady({})
    /\ \/ Ran1(Load("active tab"))
       \/ Said1(Msg("active tab", Place(None, None, <<>>, repo.tabs)))

Footing == Steady({}) /\ repo.tab = repo.tabs /\ Ran1(Send(Key("footer")))

Filing ==
    LET s == panes["files"] IN
    /\ Steady({"files"}) /\ On("files") /\ Fits("files", s)
    /\ \/ s.view = "files" /\ Done("files", s) /\ Ran1(Load("pick file"))
       \/ /\ repo.ref # None /\ s.view = "files" /\ Done("files", s)
          /\ \E p \in Entries(s.path) : Said1(Msg("select file", Here(p, 0)))
       \/ /\ repo.ref # None /\ s.item = Here(s.path, 0)
          /\ \/ s.path \in Directories \ {<<>>} /\ Ran1(Load("tree"))
             \/ /\ s.path \in Files /\ s.view = "files"
                /\ s.items = Here(Front(s.path), 0) /\ Ran1(Load("file"))
             \/ s.path \in Files /\ Said1(Msg("content", s.item))
             \/ /\ s.path \in Files /\ s.shows = s.item
                /\ Ran1(Load("blame")) \/ Said1(Msg("blame", s.item))

Logging ==
    LET s == panes["log"] IN
    /\ Steady({"log"}) /\ On("log") /\ Fits("log", s)
    /\ Counted(s) /\ s.items = Here(<<>>, s.page)
    /\ \/ s.view = "commits" /\ Ran1(Load("pick commit"))
       \/ /\ repo.ref # None
          /\ \/ s.view = "commits" /\ Said1(Msg("select commit", s.items))
             \/ Ran1(Send(Msg("commit", s.items)))
             \/ s.selected = s.items /\ (Ran1(Load("diff")) \/ Said1(Msg("diff", s.items)))

Choosing ==
    /\ Steady({}) /\ On("refs")
    /\ \/ Ran1(Load("pick ref"))
       \/ \E b \in BranchesOf[R] :
            Said1(Msg("select ref", Place(R, Branch(R, b), <<>>, 0)))

Moving ==
    /\ Placed /\ repo.tab = repo.tabs /\ ~history.failed
    /\ \E b \in BranchesOf[R] :
         \/ Only({Send(Ref(b)), Send(Key("switch tab"))}, {})
         \/ \E tabs \in SUBSET DOMAIN Tabs :
              Only({Send(Ref(b))} \cup {Send(Tab(i)) : i \in tabs}, {})

Stashing ==
    LET s == panes["stash"] IN
    /\ Steady({}) /\ On("stash")
    /\ \/ Ran1(Load("pick stash"))
       \/ /\ s.items.n # 0
          /\ \/ Said1(Msg("select stash", s.items))
             \/ Ran1(Load("patch"))
             \/ Said1(Msg("patch", s.items))

Stage ==
    \/ Closed \/ Opening \/ Starting \/ Heading \/ Reloading \/ GoingBack
    \/ Tabbing \/ Footing \/ Filing \/ Logging \/ Choosing \/ Moving \/ Stashing

Inv ==
    /\ World
    /\ Fine => dead \in {"no", "copy"} /\ Stage

-----------------------------------------------------------------------------
(* Bags                                                                    *)

LEMMA BagOfSet ==
    ASSUME NEW S
    PROVE  IsABag(SetToBag(S)) /\ BagToSet(SetToBag(S)) = S
BY DEF IsABag, SetToBag, BagToSet

LEMMA Adding ==
    ASSUME NEW B1, NEW B2, IsABag(B1), IsABag(B2)
    PROVE  /\ IsABag(B1 (+) B2)
           /\ BagToSet(B1 (+) B2) = BagToSet(B1) \cup BagToSet(B2)
BY DEF IsABag, (+), BagToSet

LEMMA AddingNothing ==
    ASSUME NEW B, IsABag(B)
    PROVE  B (+) EmptyBag = B /\ EmptyBag (+) B = B
BY DEF IsABag, (+), EmptyBag, SetToBag

LEMMA NoBag ==
    ASSUME NEW B, IsABag(B), BagToSet(B) = {}
    PROVE  B = EmptyBag
BY DEF IsABag, BagToSet, EmptyBag, SetToBag

LEMMA Taking ==
    ASSUME NEW B, IsABag(B), NEW c \in BagToSet(B)
    PROVE  /\ IsABag(B (-) SetToBag({c}))
           /\ BagToSet(B (-) SetToBag({c})) \subseteq BagToSet(B)
           /\ BagToSet(B) \ {c} \subseteq BagToSet(B (-) SetToBag({c}))
BY DEF IsABag, (-), SetToBag, BagToSet

LEMMA TakingOne ==
    ASSUME NEW S, NEW c \in S
    PROVE  SetToBag(S) (-) SetToBag({c}) = SetToBag(S \ {c})
BY DEF (-), SetToBag, BagToSet

LEMMA AddingSets ==
    ASSUME NEW S, NEW T, S \cap T = {}
    PROVE  SetToBag(S) (+) SetToBag(T) = SetToBag(S \cup T)
BY DEF (+), SetToBag, BagToSet

LEMMA SameSets ==
    ASSUME NEW S, NEW T, SetToBag(S) = SetToBag(T)
    PROVE  S = T
BY DEF SetToBag

-----------------------------------------------------------------------------
(* Panes                                                                   *)

PaneNames == {"readme", "files", "log", "refs", "stash"}

\* A pane keeps its fields, whatever it is told.
LEMMA Shapes ==
    ASSUME NEW n \in PaneNames, NEW s, DOMAIN s = DOMAIN NewPane[n], NEW m
    PROVE  LET u == UpdatePane(n, s, m) IN
           DOMAIN u.pane = DOMAIN NewPane[n] /\ IsABag(u.cmds)
<1> USE BagOfSet DEF After, Same, Issues, EmptyBag
<1>1. CASE n = "readme"
  BY <1>1 DEF UpdatePane, Readme, NewPane, NewReadme
<1>2. CASE n = "files"
  BY <1>2 DEF UpdatePane, FilesPane, Deselect, ToggleBlame, NewPane, NewFiles
<1>3. CASE n = "log"
  BY <1>3 DEF UpdatePane, Log, LogBack, TurnPage, Reset, NewPane, NewLog
<1>4. CASE n = "refs"
  BY <1>4 DEF UpdatePane, Refs, NewPane, NewRefs
<1>5. CASE n = "stash"
  BY <1>5 DEF UpdatePane, Stash, NewPane, NewStash
<1> QED BY <1>1, <1>2, <1>3, <1>4, <1>5 DEF PaneNames

\* The messages a pane does something with.
Heeds == [
    readme |-> {"repo", "ref", "empty", "readme"},
    files |-> {"repo", "ref", "empty", "files", "content", "blame",
               "select file", "go back", "back item", "enter", "b", "resize"},
    log |-> {"repo", "ref", "empty", "count", "commits", "enter", "next page",
             "go back", "back item", "select commit", "commit", "diff", "footer",
             "resize"},
    refs |-> {"repo", "ref", "empty", "refs", "enter", "select ref"},
    stash |-> {"repo", "ref", "stash", "patch", "enter", "select stash",
               "back item", "go back"}]

\* A message it does nothing with leaves a pane as it is.
LEMMA Ignores ==
    ASSUME NEW n \in PaneNames, NEW s, NEW m, m.kind \notin Heeds[n]
    PROVE  UpdatePane(n, s, m) = Same(s)
<1>1. CASE n = "readme"
  BY <1>1 DEF UpdatePane, Readme, Heeds
<1>2. CASE n = "files"
  BY <1>2 DEF UpdatePane, FilesPane, Heeds
<1>3. CASE n = "log"
  BY <1>3 DEF UpdatePane, Log, Heeds
<1>4. CASE n = "refs"
  BY <1>4 DEF UpdatePane, Refs, Heeds
<1>5. CASE n = "stash"
  BY <1>5 DEF UpdatePane, Stash, Heeds
<1> QED BY <1>1, <1>2, <1>3, <1>4, <1>5 DEF PaneNames

LEMMA OnceMore ==
    ASSUME NEW n, NEW s, NEW m, NEW t, NEW cs,
           UpdatePane(n, s, m) = After(t, cs), UpdatePane(n, t, m) = After(t, cs)
    PROVE  LET once == UpdatePane(n, s, m)
               again == UpdatePane(n, once.pane, m)
           IN /\ again.pane = once.pane
              /\ BagToSet(again.cmds) = BagToSet(once.cmds)
BY DEF After

\* To be told twice of what is for it changes a pane no further.
LEMMA Twice ==
    ASSUME NEW n \in PaneNames, NEW s, DOMAIN s = DOMAIN NewPane[n], NEW m,
           IsFor(n, m)
    PROVE  LET once == UpdatePane(n, s, m)
               again == UpdatePane(n, once.pane, m)
           IN /\ again.pane = once.pane
              /\ BagToSet(again.cmds) = BagToSet(once.cmds)
<1> USE BagOfSet DEF After, Same, Issues, EmptyBag
<1>1. CASE n = "readme"
  BY <1>1 DEF UpdatePane, Readme, NewPane, NewReadme
<1>2. CASE n = "files"
  <2>0. DOMAIN s =
           {"repo", "ref", "view", "path", "item", "items", "shows", "blame"}
    BY <1>2 DEF NewPane, NewFiles
  <2>1. CASE m.kind = "repo"
    <3> DEFINE t == [s EXCEPT !.repo = m.of.repo]
           cs == EmptyBag
    <3>1. \A x : UpdatePane(n, x, m) =
            After([x EXCEPT !.repo = m.of.repo], cs)
      BY <1>2, <2>1, Zenon DEF UpdatePane, FilesPane
    <3>2. [t EXCEPT !.repo = m.of.repo] = t
      BY <2>0
    <3>3. UpdatePane(n, s, m) = After(t, cs)
      BY <3>1
    <3>4. UpdatePane(n, t, m) = After(t, cs)
      BY <3>1, <3>2
    <3> QED BY <3>3, <3>4, OnceMore
  <2>2. CASE m.kind = "ref"
    <3> DEFINE t == [s EXCEPT !.ref = m.of.ref, !.path = <<>>, !.item = Nowhere,
                       !.view = "loading", !.blame = FALSE]
           cs == SetToBag({Load("files")})
    <3>1. \A x : UpdatePane(n, x, m) =
            After([x EXCEPT !.ref = m.of.ref, !.path = <<>>, !.item = Nowhere,
                       !.view = "loading", !.blame = FALSE], cs)
      BY <1>2, <2>2, Zenon DEF UpdatePane, FilesPane
    <3>2. [t EXCEPT !.ref = m.of.ref, !.path = <<>>, !.item = Nowhere,
                       !.view = "loading", !.blame = FALSE] = t
      BY <2>0
    <3>3. UpdatePane(n, s, m) = After(t, cs)
      BY <3>1
    <3>4. UpdatePane(n, t, m) = After(t, cs)
      BY <3>1, <3>2
    <3> QED BY <3>3, <3>4, OnceMore
  <2>3. CASE m.kind = "empty"
    <3> DEFINE t == [s EXCEPT !.ref = None, !.path = <<>>, !.item = Nowhere,
                       !.view = "files"]
           cs == SetToBag({Cmd("send", Msg("files", Nowhere))})
    <3>1. \A x : UpdatePane(n, x, m) =
            After([x EXCEPT !.ref = None, !.path = <<>>, !.item = Nowhere,
                       !.view = "files"], cs)
      BY <1>2, <2>3, Zenon DEF UpdatePane, FilesPane
    <3>2. [t EXCEPT !.ref = None, !.path = <<>>, !.item = Nowhere,
                       !.view = "files"] = t
      BY <2>0
    <3>3. UpdatePane(n, s, m) = After(t, cs)
      BY <3>1
    <3>4. UpdatePane(n, t, m) = After(t, cs)
      BY <3>1, <3>2
    <3> QED BY <3>3, <3>4, OnceMore
  <2>4. CASE m.kind = "resize"
    <3> DEFINE cs == IF s.view = "files" /\ s.repo # None
                     THEN SetToBag({Load("files")}) ELSE EmptyBag
    <3>1. UpdatePane(n, s, m) = After(s, cs)
      BY <1>2, <2>4 DEF UpdatePane, FilesPane
    <3> QED BY <3>1, OnceMore
  <2>5. CASE m.kind = "files"
    <3> DEFINE t == [s EXCEPT !.items = m.of, !.view = "files"]
           cs == EmptyBag
    <3>1. \A x : UpdatePane(n, x, m) =
            After([x EXCEPT !.items = m.of, !.view = "files"], cs)
      BY <1>2, <2>5, Zenon DEF UpdatePane, FilesPane
    <3>2. [t EXCEPT !.items = m.of, !.view = "files"] = t
      BY <2>0
    <3>3. UpdatePane(n, s, m) = After(t, cs)
      BY <3>1
    <3>4. UpdatePane(n, t, m) = After(t, cs)
      BY <3>1, <3>2
    <3> QED BY <3>3, <3>4, OnceMore
  <2>6. CASE m.kind = "content"
    <3> DEFINE t == [s EXCEPT !.shows = m.of, !.view = "content"]
           cs == EmptyBag
    <3>1. \A x : UpdatePane(n, x, m) =
            After([x EXCEPT !.shows = m.of, !.view = "content"], cs)
      BY <1>2, <2>6, Zenon DEF UpdatePane, FilesPane
    <3>2. [t EXCEPT !.shows = m.of, !.view = "content"] = t
      BY <2>0
    <3>3. UpdatePane(n, s, m) = After(t, cs)
      BY <3>1
    <3>4. UpdatePane(n, t, m) = After(t, cs)
      BY <3>1, <3>2
    <3> QED BY <3>3, <3>4, OnceMore
  <2> QED BY <1>2, <2>1, <2>2, <2>3, <2>4, <2>5, <2>6 DEF IsFor, Owned
<1>3. CASE n = "log"
  <2>0. DOMAIN s =
           {"repo", "ref", "view", "count", "page", "selected", "items", "diff"}
    BY <1>3 DEF NewPane, NewLog
  <2>1. CASE m.kind = "repo"
    <3> DEFINE t == [s EXCEPT !.repo = m.of.repo]
           cs == EmptyBag
    <3>1. \A x : UpdatePane(n, x, m) =
            After([x EXCEPT !.repo = m.of.repo], cs)
      BY <1>3, <2>1, Zenon DEF UpdatePane, Log, Reset
    <3>2. [t EXCEPT !.repo = m.of.repo] = t
      BY <2>0
    <3>3. UpdatePane(n, s, m) = After(t, cs)
      BY <3>1
    <3>4. UpdatePane(n, t, m) = After(t, cs)
      BY <3>1, <3>2
    <3> QED BY <3>3, <3>4, OnceMore
  <2>2. CASE m.kind = "ref"
    <3> DEFINE t == [s EXCEPT !.count = 0, !.page = 0, !.selected = Nowhere,
                       !.ref = m.of.ref, !.view = "loading"]
           cs == SetToBag({Load("count")})
    <3>1. \A x : UpdatePane(n, x, m) =
            After([x EXCEPT !.count = 0, !.page = 0, !.selected = Nowhere,
                       !.ref = m.of.ref, !.view = "loading"], cs)
      BY <1>3, <2>2, Zenon DEF UpdatePane, Log, Reset
    <3>2. [t EXCEPT !.count = 0, !.page = 0, !.selected = Nowhere,
                       !.ref = m.of.ref, !.view = "loading"] = t
      BY <2>0
    <3>3. UpdatePane(n, s, m) = After(t, cs)
      BY <3>1
    <3>4. UpdatePane(n, t, m) = After(t, cs)
      BY <3>1, <3>2
    <3> QED BY <3>3, <3>4, OnceMore
  <2>3. CASE m.kind = "empty"
    <3> DEFINE t == [s EXCEPT !.count = 0, !.page = 0, !.selected = Nowhere,
                       !.ref = None, !.view = "commits"]
           cs == SetToBag({Cmd("send", Msg("commits", Nowhere))})
    <3>1. \A x : UpdatePane(n, x, m) =
            After([x EXCEPT !.count = 0, !.page = 0, !.selected = Nowhere,
                       !.ref = None, !.view = "commits"], cs)
      BY <1>3, <2>3, Zenon DEF UpdatePane, Log, Reset
    <3>2. [t EXCEPT !.count = 0, !.page = 0, !.selected = Nowhere,
                       !.ref = None, !.view = "commits"] = t
      BY <2>0
    <3>3. UpdatePane(n, s, m) = After(t, cs)
      BY <3>1
    <3>4. UpdatePane(n, t, m) = After(t, cs)
      BY <3>1, <3>2
    <3> QED BY <3>3, <3>4, OnceMore
  <2>4. CASE m.kind = "resize"
    <3> DEFINE t == [s EXCEPT !.view = "loading"]
    <3>1. \A x : UpdatePane(n, x, m) = IF x.repo # None /\ x.ref # None
             THEN After([x EXCEPT !.view = "loading"], SetToBag({Load("commits")}))
             ELSE After(x, EmptyBag)
      BY <1>3, <2>4 DEF UpdatePane, Log
    <3> HIDE DEF After, Same, Issues, EmptyBag
    <3>2. CASE s.repo # None /\ s.ref # None
      <4>1. [t EXCEPT !.view = "loading"] = t /\ t.repo # None /\ t.ref # None
        BY <2>0, <3>2
      <4>2. UpdatePane(n, s, m) = After(t, SetToBag({Load("commits")}))
        BY <3>1, <3>2
      <4>3. UpdatePane(n, t, m) = After(t, SetToBag({Load("commits")}))
        BY <3>1, <4>1
      <4> QED BY <4>2, <4>3, OnceMore
    <3>3. CASE ~(s.repo # None /\ s.ref # None)
      <4>1. UpdatePane(n, s, m) = After(s, EmptyBag)
        BY <3>1, <3>3
      <4> QED BY <4>1, OnceMore
    <3> QED BY <3>2, <3>3
  <2>5. CASE m.kind = "count"
    <3> DEFINE t == [s EXCEPT !.count = m.of.n, !.items = Nowhere]
           cs == SetToBag({Load("commits")})
    <3>1. \A x : UpdatePane(n, x, m) =
            After([x EXCEPT !.count = m.of.n, !.items = Nowhere], cs)
      BY <1>3, <2>5, Zenon DEF UpdatePane, Log, Reset
    <3>2. [t EXCEPT !.count = m.of.n, !.items = Nowhere] = t
      BY <2>0
    <3>3. UpdatePane(n, s, m) = After(t, cs)
      BY <3>1
    <3>4. UpdatePane(n, t, m) = After(t, cs)
      BY <3>1, <3>2
    <3> QED BY <3>3, <3>4, OnceMore
  <2>6. CASE m.kind = "commits"
    <3> DEFINE t == [s EXCEPT !.items = m.of, !.view = "commits"]
           cs == EmptyBag
    <3>1. \A x : UpdatePane(n, x, m) =
            After([x EXCEPT !.items = m.of, !.view = "commits"], cs)
      BY <1>3, <2>6, Zenon DEF UpdatePane, Log, Reset
    <3>2. [t EXCEPT !.items = m.of, !.view = "commits"] = t
      BY <2>0
    <3>3. UpdatePane(n, s, m) = After(t, cs)
      BY <3>1
    <3>4. UpdatePane(n, t, m) = After(t, cs)
      BY <3>1, <3>2
    <3> QED BY <3>3, <3>4, OnceMore
  <2>7. CASE m.kind = "diff"
    <3> DEFINE t == [s EXCEPT !.diff = m.of, !.view = "diff"]
           cs == EmptyBag
    <3>1. \A x : UpdatePane(n, x, m) =
            After([x EXCEPT !.diff = m.of, !.view = "diff"], cs)
      BY <1>3, <2>7, Zenon DEF UpdatePane, Log, Reset
    <3>2. [t EXCEPT !.diff = m.of, !.view = "diff"] = t
      BY <2>0
    <3>3. UpdatePane(n, s, m) = After(t, cs)
      BY <3>1
    <3>4. UpdatePane(n, t, m) = After(t, cs)
      BY <3>1, <3>2
    <3> QED BY <3>3, <3>4, OnceMore
  <2> QED BY <1>3, <2>1, <2>2, <2>3, <2>4, <2>5, <2>6, <2>7 DEF IsFor, Owned
<1>4. CASE n = "refs"
  BY <1>4 DEF UpdatePane, Refs, NewPane, NewRefs
<1>5. CASE n = "stash"
  <2>0. DOMAIN s = {"repo", "view", "items"}
    BY <1>5 DEF NewPane, NewStash
  <2>1. CASE m.kind = "repo"
    <3> DEFINE t == [s EXCEPT !.repo = m.of.repo]
           cs == EmptyBag
    <3>1. \A x : UpdatePane(n, x, m) = After([x EXCEPT !.repo = m.of.repo], cs)
      BY <1>5, <2>1, Zenon DEF UpdatePane, Stash
    <3>2. [t EXCEPT !.repo = m.of.repo] = t
      BY <2>0
    <3>3. UpdatePane(n, s, m) = After(t, cs)
      BY <3>1
    <3>4. UpdatePane(n, t, m) = After(t, cs)
      BY <3>1, <3>2
    <3> QED BY <3>3, <3>4, OnceMore
  <2>2. CASE m.kind = "ref"
    <3> DEFINE t == [s EXCEPT !.view = "loading"]
           cs == SetToBag({Load("stash")})
    <3>1. \A x : UpdatePane(n, x, m) = After([x EXCEPT !.view = "loading"], cs)
      BY <1>5, <2>2, Zenon DEF UpdatePane, Stash
    <3>2. [t EXCEPT !.view = "loading"] = t
      BY <2>0
    <3>3. UpdatePane(n, s, m) = After(t, cs)
      BY <3>1
    <3>4. UpdatePane(n, t, m) = After(t, cs)
      BY <3>1, <3>2
    <3> QED BY <3>3, <3>4, OnceMore
  <2>3. CASE m.kind = "stash"
    <3> DEFINE t == [s EXCEPT !.items = m.of, !.view = "list"]
           cs == EmptyBag
    <3>1. \A x : UpdatePane(n, x, m) = After([x EXCEPT !.items = m.of, !.view = "list"], cs)
      BY <1>5, <2>3, Zenon DEF UpdatePane, Stash
    <3>2. [t EXCEPT !.items = m.of, !.view = "list"] = t
      BY <2>0
    <3>3. UpdatePane(n, s, m) = After(t, cs)
      BY <3>1
    <3>4. UpdatePane(n, t, m) = After(t, cs)
      BY <3>1, <3>2
    <3> QED BY <3>3, <3>4, OnceMore
  <2>4. CASE m.kind = "patch"
    <3> DEFINE t == [s EXCEPT !.view = "patch"]
           cs == EmptyBag
    <3>1. \A x : UpdatePane(n, x, m) = After([x EXCEPT !.view = "patch"], cs)
      BY <1>5, <2>4, Zenon DEF UpdatePane, Stash
    <3>2. [t EXCEPT !.view = "patch"] = t
      BY <2>0
    <3>3. UpdatePane(n, s, m) = After(t, cs)
      BY <3>1
    <3>4. UpdatePane(n, t, m) = After(t, cs)
      BY <3>1, <3>2
    <3> QED BY <3>3, <3>4, OnceMore
  <2>5. CASE m.kind \in {"empty", "resize"}
    <3>1. \A x : UpdatePane(n, x, m) = After(x, EmptyBag)
      BY <1>5, <2>5 DEF UpdatePane, Stash
    <3> QED BY <3>1, OnceMore
  <2> QED BY <1>5, <2>1, <2>2, <2>3, <2>4, <2>5 DEF IsFor, Owned
<1> QED BY <1>1, <1>2, <1>3, <1>4, <1>5 DEF PaneNames

-----------------------------------------------------------------------------
(* The page                                                                *)

\* Who is told of a message, and what each issues.
Told(rp, m) == {n \in ToSet(Tabs) : IsFor(n, m) \/ n = Tabs[RepoModel(rp, m).tab]}
Issued(ps, ns, m) == UNION {BagToSet(UpdatePane(n, ps[n], m).cmds) : n \in ns}

\* What Tell makes of a pane: told or not.
LEMMA Tells ==
    ASSUME NEW n \in PaneNames, NEW s, DOMAIN s = DOMAIN NewPane[n], NEW m, NEW active
    PROVE  LET t == Tell(n, s, m, active)
               u == UpdatePane(n, s, m)
               told == IsFor(n, m) \/ n = active
           IN /\ t.pane = IF told THEN u.pane ELSE s
              /\ IsABag(t.cmds)
              /\ BagToSet(t.cmds) = IF told THEN BagToSet(u.cmds) ELSE {}
              /\ ~IsFor(n, m) => t.cmds = IF n = active THEN u.cmds ELSE EmptyBag
<1> DEFINE u == UpdatePane(n, s, m)
           v == UpdatePane(n, u.pane, m)
<1>1. IsABag(EmptyBag) /\ BagToSet(EmptyBag) = {}
  BY BagOfSet DEF EmptyBag
<1>2. DOMAIN u.pane = DOMAIN NewPane[n] /\ IsABag(u.cmds)
  BY Shapes
<1>3. IsABag(v.cmds)
  BY <1>2, Shapes
<1>4. CASE IsFor(n, m)
  <2>1. v.pane = u.pane /\ BagToSet(v.cmds) = BagToSet(u.cmds)
    BY <1>4, Twice
  <2>2. /\ IsABag(u.cmds (+) v.cmds)
        /\ BagToSet(u.cmds (+) v.cmds) = BagToSet(u.cmds) \cup BagToSet(v.cmds)
    BY <1>2, <1>3, Adding
  <2> DEFINE both == u.cmds (+) v.cmds
  <2>3. Tell(n, s, m, active) = IF n = active THEN After(v.pane, both) ELSE u
    BY <1>4 DEF Tell
  <2>4. IsABag(both) /\ BagToSet(both) = BagToSet(u.cmds)
    BY <2>1, <2>2
  <2> HIDE DEF u, v, both
  <2> SUFFICES LET t == Tell(n, s, m, active) IN
               /\ t.pane = u.pane /\ IsABag(t.cmds)
               /\ BagToSet(t.cmds) = BagToSet(u.cmds)
    BY <1>4 DEF u
  <2> QED BY <1>2, <2>1, <2>3, <2>4 DEF After
<1>5. CASE ~IsFor(n, m)
  <2>1. EmptyBag (+) u.cmds = u.cmds
    BY <1>2, AddingNothing
  <2> HIDE DEF u, v
  <2>2. Tell(n, s, m, active) =
           IF n = active THEN After(u.pane, EmptyBag (+) u.cmds) ELSE Same(s)
    BY <1>5 DEF Tell, u, Same, After
  <2> QED BY <1>1, <1>2, <1>5, <2>1, <2>2 DEF After, Same, u
<1> QED BY <1>4, <1>5

\* What RepoUpdate makes of a page.
Updated(u, rp, ps, cs, m) ==
    /\ u.repo = RepoModel(rp, m)
    /\ u.panes = [n \in DOMAIN ps |-> IF n \in Told(rp, m)
                                    THEN UpdatePane(n, ps[n], m).pane ELSE ps[n]]
    /\ IsABag(u.cmds)
    /\ BagToSet(u.cmds) = BagToSet(cs) \cup BagToSet(RepoCmds(m))
                               \cup Issued(ps, Told(rp, m), m)
    /\ Issued(ps, Told(rp, m), m) = {} => u.cmds = cs (+) RepoCmds(m)
    /\ (\A n \in ToSet(Tabs) : ~IsFor(n, m)) =>
         LET active == Tabs[RepoModel(rp, m).tab] IN
         u.cmds = (cs (+) RepoCmds(m)) (+)
             (IF active \in ToSet(Tabs) THEN UpdatePane(active, ps[active], m).cmds
              ELSE EmptyBag)

\* RepoUpdate, of any page and message.
LEMMA Updates ==
    ASSUME NEW rp, NEW ps, NEW cs, NEW m, IsABag(cs),
           DOMAIN ps = ToSet(Tabs), ToSet(Tabs) \subseteq PaneNames,
           \A n \in DOMAIN ps : DOMAIN ps[n] = DOMAIN NewPane[n]
    PROVE  Updated(RepoUpdate([repo |-> rp, panes |-> ps, cmds |-> cs], m), rp, ps, cs, m)
<1> DEFINE active == Tabs[RepoModel(rp, m).tab]
           told == [n \in DOMAIN ps |-> Tell(n, ps[n], m, active)]
           by(n) == IF n \in DOMAIN told THEN told[n].cmds ELSE EmptyBag
           first == cs (+) RepoCmds(m)
           u == RepoUpdate([repo |-> rp, panes |-> ps, cmds |-> cs], m)
<1>1. /\ u.repo = RepoModel(rp, m)
      /\ u.panes = [n \in DOMAIN told |-> told[n].pane]
      /\ u.cmds = first (+) by("readme") (+) by("files") (+) by("log") (+) by("refs")
                      (+) by("stash")
  BY DEF RepoUpdate, Gather
<1>2. IsABag(EmptyBag) /\ BagToSet(EmptyBag) = {}
  BY BagOfSet DEF EmptyBag
<1>3. IsABag(RepoCmds(m))
  BY BagOfSet DEF RepoCmds, EmptyBag, Bag
<1>4. IsABag(first) /\ BagToSet(first) = BagToSet(cs) \cup BagToSet(RepoCmds(m))
  BY <1>3, Adding
<1>5. ASSUME NEW n \in DOMAIN ps
      PROVE  /\ told[n].pane = IF n \in Told(rp, m)
                               THEN UpdatePane(n, ps[n], m).pane ELSE ps[n]
             /\ IsABag(told[n].cmds)
             /\ BagToSet(told[n].cmds) =
                  IF n \in Told(rp, m) THEN BagToSet(UpdatePane(n, ps[n], m).cmds) ELSE {}
             /\ ~IsFor(n, m) => told[n].cmds = IF n = active THEN UpdatePane(n, ps[n], m).cmds
                                               ELSE EmptyBag
  <2>1. n \in PaneNames /\ DOMAIN ps[n] = DOMAIN NewPane[n] /\ told[n] = Tell(n, ps[n], m, active)
    OBVIOUS
  <2> HIDE DEF told
  <2> QED BY <2>1, Tells DEF Told
<1> HIDE DEF told, u
<1>6. \A n : IsABag(by(n))
  BY <1>2, <1>5 DEF told
<1>7. \A n \in PaneNames \ DOMAIN ps : by(n) = EmptyBag
  BY DEF told
<1>8. \A n \in DOMAIN ps : by(n) = told[n].cmds
  BY DEF told
<1> HIDE DEF by, first
<1>9. /\ IsABag(u.cmds)
      /\ BagToSet(u.cmds) = BagToSet(first) \cup BagToSet(by("readme"))
              \cup BagToSet(by("files")) \cup BagToSet(by("log"))
              \cup BagToSet(by("refs")) \cup BagToSet(by("stash"))
  <2> DEFINE b1 == first (+) by("readme")
             b2 == b1 (+) by("files")
             b3 == b2 (+) by("log")
             b4 == b3 (+) by("refs")
             b5 == b4 (+) by("stash")
  <2>1. IsABag(b1) /\ BagToSet(b1) = BagToSet(first) \cup BagToSet(by("readme"))
    BY <1>4, <1>6, Adding
  <2> HIDE DEF b1
  <2>2. IsABag(b2) /\ BagToSet(b2) = BagToSet(b1) \cup BagToSet(by("files"))
    BY <2>1, <1>6, Adding
  <2> HIDE DEF b2
  <2>3. IsABag(b3) /\ BagToSet(b3) = BagToSet(b2) \cup BagToSet(by("log"))
    BY <2>2, <1>6, Adding
  <2> HIDE DEF b3
  <2>4. IsABag(b4) /\ BagToSet(b4) = BagToSet(b3) \cup BagToSet(by("refs"))
    BY <2>3, <1>6, Adding
  <2> HIDE DEF b4
  <2>5. IsABag(b5) /\ BagToSet(b5) = BagToSet(b4) \cup BagToSet(by("stash"))
    BY <2>4, <1>6, Adding
  <2>6. u.cmds = b5
    BY <1>1 DEF b1, b2, b3, b4
  <2> HIDE DEF b5
  <2> QED BY <2>1, <2>2, <2>3, <2>4, <2>5, <2>6
<1>10. BagToSet(u.cmds) = BagToSet(first) \cup Issued(ps, Told(rp, m), m)
  <2>1. UNION {BagToSet(by(n)) : n \in PaneNames} = Issued(ps, Told(rp, m), m)
    <3>1. \A n \in PaneNames :
            BagToSet(by(n)) = IF n \in Told(rp, m)
                              THEN BagToSet(UpdatePane(n, ps[n], m).cmds) ELSE {}
      BY <1>2, <1>5, <1>7, <1>8 DEF Told
    <3>2. Told(rp, m) \subseteq PaneNames
      BY DEF Told
    <3> QED BY <3>1, <3>2 DEF Issued
  <2>2. UNION {BagToSet(by(n)) : n \in PaneNames} =
          BagToSet(by("readme")) \cup BagToSet(by("files")) \cup BagToSet(by("log"))
              \cup BagToSet(by("refs")) \cup BagToSet(by("stash"))
    BY DEF PaneNames
  <2> QED BY <1>9, <2>1, <2>2
<1>11. ASSUME \A n \in ToSet(Tabs) : ~IsFor(n, m)
       PROVE  u.cmds = first (+) (IF active \in ToSet(Tabs)
                                  THEN UpdatePane(active, ps[active], m).cmds ELSE EmptyBag)
  <2>1. \A n \in PaneNames \ {active} : by(n) = EmptyBag
    BY <1>5, <1>7, <1>8, <1>11
  <2>2. by(active) = IF active \in ToSet(Tabs)
                     THEN UpdatePane(active, ps[active], m).cmds ELSE EmptyBag
    BY <1>5, <1>8, <1>11 DEF by, told
  <2>3. \A b : IsABag(b) => b (+) EmptyBag = b
    BY AddingNothing
  <2>4. IsABag(first (+) by(active))
    BY <1>4, <1>6, Adding
  <2> HIDE DEF active
  <2>5. ASSUME active \in PaneNames
        PROVE  u.cmds = first (+) by(active)
    <3> DEFINE x == first (+) by(active)
    <3>6. x (+) EmptyBag = x
      BY <2>3, <2>4
    <3>7. first (+) EmptyBag = first
      BY <2>3, <1>4
    <3>1. CASE active = "readme"
      <4>1. by("files") = EmptyBag /\ by("log") = EmptyBag /\ by("refs") = EmptyBag /\ by("stash") = EmptyBag
        BY <2>1, <3>1 DEF PaneNames
      <4>2. u.cmds = first (+) by(active) (+) EmptyBag (+) EmptyBag (+) EmptyBag (+) EmptyBag
        BY <1>1, <3>1, <4>1, Zenon
      <4> QED BY <3>6, <3>7, <4>2, Zenon
    <3>2. CASE active = "files"
      <4>1. by("readme") = EmptyBag /\ by("log") = EmptyBag /\ by("refs") = EmptyBag /\ by("stash") = EmptyBag
        BY <2>1, <3>2 DEF PaneNames
      <4>2. u.cmds = first (+) EmptyBag (+) by(active) (+) EmptyBag (+) EmptyBag (+) EmptyBag
        BY <1>1, <3>2, <4>1, Zenon
      <4> QED BY <3>6, <3>7, <4>2, Zenon
    <3>3. CASE active = "log"
      <4>1. by("readme") = EmptyBag /\ by("files") = EmptyBag /\ by("refs") = EmptyBag /\ by("stash") = EmptyBag
        BY <2>1, <3>3 DEF PaneNames
      <4>2. u.cmds = first (+) EmptyBag (+) EmptyBag (+) by(active) (+) EmptyBag (+) EmptyBag
        BY <1>1, <3>3, <4>1, Zenon
      <4> QED BY <3>6, <3>7, <4>2, Zenon
    <3>4. CASE active = "refs"
      <4>1. by("readme") = EmptyBag /\ by("files") = EmptyBag /\ by("log") = EmptyBag /\ by("stash") = EmptyBag
        BY <2>1, <3>4 DEF PaneNames
      <4>2. u.cmds = first (+) EmptyBag (+) EmptyBag (+) EmptyBag (+) by(active) (+) EmptyBag
        BY <1>1, <3>4, <4>1, Zenon
      <4> QED BY <3>6, <3>7, <4>2, Zenon
    <3>5. CASE active = "stash"
      <4>1. by("readme") = EmptyBag /\ by("files") = EmptyBag /\ by("log") = EmptyBag /\ by("refs") = EmptyBag
        BY <2>1, <3>5 DEF PaneNames
      <4>2. u.cmds = first (+) EmptyBag (+) EmptyBag (+) EmptyBag (+) EmptyBag (+) by(active)
        BY <1>1, <3>5, <4>1, Zenon
      <4> QED BY <3>6, <3>7, <4>2, Zenon
    <3> QED BY <2>5, <3>1, <3>2, <3>3, <3>4, <3>5 DEF PaneNames
  <2>6. ASSUME active \notin PaneNames
        PROVE  u.cmds = first
    <3>1. by("readme") = EmptyBag /\ by("files") = EmptyBag /\ by("log") = EmptyBag
          /\ by("refs") = EmptyBag /\ by("stash") = EmptyBag
      BY <2>1, <2>6 DEF PaneNames
    <3>2. first (+) EmptyBag = first
      BY <2>3, <1>4
    <3> QED BY <1>1, <3>1, <3>2, Zenon
  <2> QED
    <3>1. CASE active \in PaneNames
      BY <2>2, <2>5, <3>1
    <3>2. CASE active \notin PaneNames
      BY <2>3, <2>6, <3>2, <1>4
    <3> QED BY <3>1, <3>2
<1>12. ASSUME Issued(ps, Told(rp, m), m) = {}
       PROVE  u.cmds = first
  <2>1. \A n : by(n) = EmptyBag
    <3>1. ASSUME NEW n \in DOMAIN ps PROVE BagToSet(told[n].cmds) = {}
      BY <1>5, <1>12 DEF Issued
    <3>2. \A n \in DOMAIN ps : told[n].cmds = EmptyBag
      BY <1>5, <3>1, NoBag
    <3> QED BY <3>2 DEF by, told
  <2>2. first (+) EmptyBag = first
    BY <1>4, AddingNothing
  <2>3. by("readme") = EmptyBag /\ by("files") = EmptyBag /\ by("log") = EmptyBag
        /\ by("refs") = EmptyBag /\ by("stash") = EmptyBag
    BY <2>1
  <2> QED BY <1>1, <2>2, <2>3, Zenon
<1> QED
  <2>1. u.panes = [n \in DOMAIN ps |-> IF n \in Told(rp, m)
                                     THEN UpdatePane(n, ps[n], m).pane ELSE ps[n]]
    BY <1>1, <1>5 DEF told
  <2> QED BY <1>1, <1>4, <1>9, <1>10, <1>11, <1>12, <2>1 DEF first, u, Updated

\* There is a tab, and every tab is one of the five panes.
LEMMA SomeTabs ==
    ASSUME World
    PROVE  /\ layout.front \in {"ssh", "browse"}
           /\ Tabs \in Seq(PaneNames) /\ Len(Tabs) \in Nat \ {0}
           /\ DOMAIN Tabs = 1 .. Len(Tabs) /\ 1 \in DOMAIN Tabs
           /\ ToSet(Tabs) \subseteq PaneNames
           /\ \A i \in DOMAIN Tabs : Tabs[i] \in ToSet(Tabs)
<1>1. layout \in Layouts
  BY DEF World
<1>2. /\ layout.front \in {"ssh", "browse"}
      /\ layout.tabs \in Seq(PaneNames) /\ layout.tabs # <<>>
  BY <1>1, BrowserAssumption DEF PaneNames
<1>3. Tabs \in Seq(PaneNames) /\ Tabs # <<>>
  BY <1>2 DEF Tabs
<1>4. Len(Tabs) \in Nat \ {0} /\ DOMAIN Tabs = 1 .. Len(Tabs)
  BY <1>3, EmptySeq
<1>5. \A i \in DOMAIN Tabs : Tabs[i] \in PaneNames
  BY <1>3, ElementOfSeq, <1>4
<1> QED BY <1>2, <1>3, <1>4, <1>5 DEF ToSet

LEMMA RepoDomain ==
    ASSUME NEW r, NEW m
    PROVE  DOMAIN RepoModel(r, m) = DOMAIN r
BY DEF RepoModel

LEMMA UIBag ==
    ASSUME NEW m
    PROVE  IsABag(UICmds(m))
BY BagOfSet DEF UICmds, Bag, EmptyBag

Shown(m) == IF Leaves(m) THEN "selection" ELSE IF m.kind = "repo" THEN "repo" ELSE page

\* What a message does to a page of which no size has changed.
LEMMA Handled ==
    ASSUME World, NEW m, NEW left, IsABag(left), Handle(m, left), m.kind # "resize"
    PROVE  /\ layout' = layout /\ page' = Shown(m)
           /\ dead' = IF Shown(m) = "repo" THEN Panics(m, repo) ELSE "no"
           /\ Shown(m) # "repo" =>
                repo' = repo /\ panes' = panes /\ cmds' = left (+) UICmds(m)
           /\ Shown(m) = "repo" =>
                /\ repo' = RepoModel(repo, m)
                /\ panes' = [n \in DOMAIN panes |-> IF n \in Told(repo, m)
                                THEN UpdatePane(n, panes[n], m).pane ELSE panes[n]]
                /\ BagToSet(cmds') = BagToSet(left) \cup BagToSet(UICmds(m))
                       \cup BagToSet(RepoCmds(m)) \cup Issued(panes, Told(repo, m), m)
                /\ Issued(panes, Told(repo, m), m) = {} =>
                     cmds' = (left (+) UICmds(m)) (+) RepoCmds(m)
                /\ (\A n \in ToSet(Tabs) : ~IsFor(n, m)) =>
                     LET active == Tabs[RepoModel(repo, m).tab] IN
                     cmds' = ((left (+) UICmds(m)) (+) RepoCmds(m)) (+)
                       (IF active \in ToSet(Tabs) THEN UpdatePane(active, panes[active], m).cmds
                        ELSE EmptyBag)
           /\ IsABag(cmds')
<1> DEFINE cs == left (+) UICmds(m)
           st == [repo |-> repo, panes |-> panes, cmds |-> cs]
           once == IF Shown(m) = "repo" THEN RepoUpdate(st, m) ELSE st
<1>1. IsABag(cs) /\ BagToSet(cs) = BagToSet(left) \cup BagToSet(UICmds(m))
  BY UIBag, Adding
<1>2. ToSet(Tabs) \subseteq PaneNames
  BY SomeTabs
<1>3. /\ DOMAIN panes = ToSet(Tabs)
      /\ \A n \in DOMAIN panes : DOMAIN panes[n] = DOMAIN NewPane[n]
  BY DEF World
<1>4. /\ layout' = layout /\ page' = Shown(m)
      /\ dead' = IF Shown(m) = "repo" THEN Panics(m, repo) ELSE "no"
      /\ repo' = once.repo /\ panes' = once.panes /\ cmds' = once.cmds
  BY DEF Handle, Shown
<1> HIDE DEF cs
<1> QED
  <2>1. CASE Shown(m) # "repo"
    BY <1>1, <1>4, <2>1 DEF cs
  <2>2. CASE Shown(m) = "repo"
    <3>1. Updated(RepoUpdate(st, m), repo, panes, cs, m)
      BY <1>1, <1>2, <1>3, Updates
    <3>2. once = RepoUpdate(st, m)
      BY <2>2
    <3> HIDE DEF st, once
    <3> QED BY <1>1, <1>4, <2>2, <3>1, <3>2 DEF cs, Updated
  <2> QED BY <2>1, <2>2

\* A new size is told to every pane, over SSH twice over.
LEMMA Resized ==
    ASSUME World, NEW m, NEW left, IsABag(left), Handle(m, left), m.kind = "resize"
    PROVE  /\ layout' = layout /\ page' = page /\ repo' = repo
           /\ dead' = IF page = "repo" THEN Panics(m, repo) ELSE "no"
           /\ panes' = [n \in DOMAIN panes |-> UpdatePane(n, panes[n], m).pane]
           /\ IsABag(cmds')
           /\ BagToSet(cmds') = BagToSet(left) \cup Issued(panes, ToSet(Tabs), m)
<1> DEFINE cs == left (+) UICmds(m)
           ps == [n \in DOMAIN panes |-> UpdatePane(n, panes[n], m).pane]
           one == RepoUpdate([repo |-> repo, panes |-> panes, cmds |-> cs], m)
           two == RepoUpdate([repo |-> repo, panes |-> ps, cmds |-> one.cmds], m)
           new == Issued(panes, ToSet(Tabs), m)
<1>1. UICmds(m) = EmptyBag /\ RepoCmds(m) = EmptyBag /\ RepoModel(repo, m) = repo
  BY DEF UICmds, RepoCmds, RepoModel
<1>2. IsABag(cs) /\ cs = left
  BY <1>1, AddingNothing
<1>3. ToSet(Tabs) \subseteq PaneNames
  BY SomeTabs
<1>4. /\ DOMAIN panes = ToSet(Tabs)
      /\ \A n \in DOMAIN panes : DOMAIN panes[n] = DOMAIN NewPane[n]
  BY DEF World
<1>5. /\ \A n : IsFor(n, m)
      /\ Told(repo, m) = ToSet(Tabs)
  BY DEF IsFor, Told
<1>6. BagToSet(EmptyBag) = {}
  BY BagOfSet DEF EmptyBag
<1>7. /\ one.repo = repo /\ one.panes = ps
      /\ IsABag(one.cmds) /\ BagToSet(one.cmds) = BagToSet(left) \cup new
  <2>1. Updated(one, repo, panes, cs, m)
    <3> HIDE DEF cs
    <3> QED BY <1>2, <1>3, <1>4, Updates
  <2> HIDE DEF cs, one
  <2> QED BY <2>1, <1>1, <1>2, <1>4, <1>5, <1>6 DEF Updated
<1>8. /\ DOMAIN ps = ToSet(Tabs)
      /\ \A n \in DOMAIN ps :
           /\ DOMAIN ps[n] = DOMAIN NewPane[n]
           /\ UpdatePane(n, ps[n], m).pane = ps[n]
           /\ BagToSet(UpdatePane(n, ps[n], m).cmds) = BagToSet(UpdatePane(n, panes[n], m).cmds)
  <2> SUFFICES ASSUME NEW n \in ToSet(Tabs)
               PROVE  /\ DOMAIN UpdatePane(n, panes[n], m).pane = DOMAIN NewPane[n]
                      /\ UpdatePane(n, UpdatePane(n, panes[n], m).pane, m).pane =
                           UpdatePane(n, panes[n], m).pane
                      /\ BagToSet(UpdatePane(n, UpdatePane(n, panes[n], m).pane, m).cmds) =
                           BagToSet(UpdatePane(n, panes[n], m).cmds)
    BY <1>4
  <2> QED BY <1>3, <1>4, <1>5, Shapes, Twice
<1>9. /\ two.repo = repo /\ two.panes = ps
      /\ IsABag(two.cmds) /\ BagToSet(two.cmds) = BagToSet(left) \cup new
  <2> HIDE DEF one, ps
  <2>1. Updated(two, repo, ps, one.cmds, m)
    BY <1>3, <1>7, <1>8, Updates
  <2>2. Issued(ps, ToSet(Tabs), m) = new
    BY <1>8 DEF Issued
  <2> HIDE DEF two, new
  <2>3. [n \in DOMAIN ps |-> IF n \in Told(repo, m) THEN UpdatePane(n, ps[n], m).pane ELSE ps[n]]
          = [n \in DOMAIN ps |-> ps[n]]
    BY <1>8
  <2>4. [n \in DOMAIN ps |-> ps[n]] = ps
    BY DEF ps
  <2> QED BY <2>1, <2>2, <2>3, <2>4, <1>1, <1>5, <1>6, <1>7 DEF Updated
<1> QED
  <2> DEFINE st == [repo |-> repo, panes |-> panes, cmds |-> cs]
             first == IF page = "repo" \/ m.kind = "resize" THEN RepoUpdate(st, m) ELSE st
             after == IF m.kind = "resize" /\ layout.front = "ssh" /\ page = "repo"
                      THEN RepoUpdate(first, m) ELSE first
  <2>1. ~Leaves(m)
    BY DEF Leaves
  <2>2. /\ layout' = layout /\ page' = page
        /\ dead' = IF page = "repo" THEN Panics(m, repo) ELSE "no"
        /\ repo' = after.repo /\ panes' = after.panes /\ cmds' = after.cmds
    BY <2>1 DEF Handle
  <2>3. first = one
    OBVIOUS
  <2>4. one = [repo |-> repo, panes |-> ps, cmds |-> one.cmds]
    <3>1. \A a, b : RepoUpdate(a, b) = [repo |-> RepoUpdate(a, b).repo,
              panes |-> RepoUpdate(a, b).panes, cmds |-> RepoUpdate(a, b).cmds]
      BY DEF RepoUpdate, Gather
    <3> HIDE DEF ps, cs
    <3> QED BY <1>7, <3>1
  <2>5. after = one \/ after = two
    BY <2>3, <2>4, Zenon
  <2> HIDE DEF after, one, two, ps, new
  <2> QED BY <2>2, <2>5, <1>7, <1>9 DEF ps, new

\* A message keeps the shape of the page.
LEMMA HandleKeepsWorld ==
    ASSUME World, NEW m, NEW left, IsABag(left), Handle(m, left)
    PROVE  /\ layout' \in Layouts /\ page' \in {"selection", "repo"}
           /\ page' = "selection" => layout'.front = "ssh"
           /\ IsABag(cmds')
           /\ DOMAIN repo' = RepoFields /\ DOMAIN panes' = ToSet(Tabs')
           /\ \A n \in DOMAIN panes' : DOMAIN panes'[n] = DOMAIN NewPane[n]
<1>1. /\ layout \in Layouts /\ page \in {"selection", "repo"}
      /\ page = "selection" => layout.front = "ssh"
      /\ DOMAIN repo = RepoFields /\ DOMAIN panes = ToSet(Tabs)
      /\ \A n \in DOMAIN panes : DOMAIN panes[n] = DOMAIN NewPane[n]
      /\ ToSet(Tabs) \subseteq PaneNames
  BY SomeTabs DEF World
<1>2. \A n \in DOMAIN panes : DOMAIN UpdatePane(n, panes[n], m).pane = DOMAIN NewPane[n]
  BY <1>1, Shapes
<1>3. CASE m.kind = "resize"
  BY <1>1, <1>2, <1>3, Resized DEF Tabs
<1>4. CASE m.kind # "resize"
  <2>1. CASE Shown(m) = "repo"
    BY <1>1, <1>2, <1>4, <2>1, Handled, RepoDomain DEF Tabs
  <2>2. CASE Shown(m) # "repo"
    BY <1>1, <1>4, <2>2, Handled DEF Tabs, Shown, Leaves
  <2> QED BY <2>1, <2>2
<1> QED BY <1>3, <1>4

LEMMA BagOfOne ==
    ASSUME NEW c
    PROVE  IsABag(Bag({c})) /\ BagToSet(Bag({c})) = {c}
BY BagOfSet DEF Bag

\* A command that ran is taken, and its answer is under way.
LEMMA RanBags ==
    ASSUME World, NEW c \in BagToSet(cmds), NEW answers, Ran(c, answers)
    PROVE  /\ IsABag(cmds') /\ IsABag(msgs')
           /\ BagToSet(cmds') \subseteq BagToSet(cmds)
           /\ BagToSet(cmds) \ {c} \subseteq BagToSet(cmds')
           /\ answers = {} => msgs' = msgs
           /\ answers # {} => \E m \in answers :
                /\ msgs' = msgs (+) Bag({m})
                /\ BagToSet(msgs') = BagToSet(msgs) \cup {m}
<1>1. IsABag(cmds) /\ IsABag(msgs)
  BY DEF World
<1>2. cmds' = cmds (-) SetToBag({c})
  BY DEF Ran, Bag
<1>3. CASE answers = {}
  BY <1>1, <1>2, <1>3, Taking DEF Ran
<1>4. CASE answers # {}
  <2>1. PICK m \in answers : msgs' = msgs (+) Bag({m})
    BY <1>4 DEF Ran
  <2>2. IsABag(msgs') /\ BagToSet(msgs') = BagToSet(msgs) \cup {m}
    <3>1. IsABag(Bag({m})) /\ BagToSet(Bag({m})) = {m}
      BY BagOfOne
    <3> QED BY <1>1, <2>1, <3>1, Adding
  <2> QED BY <1>1, <1>2, <1>4, <2>1, <2>2, Taking
<1> QED BY <1>3, <1>4

LEMMA WorldFirst ==
    ASSUME Init
    PROVE  World
<1>1. IsABag(EmptyBag)
  BY BagOfSet DEF EmptyBag
<1>2. IsABag(cmds) /\ IsABag(msgs)
  BY <1>1, BagOfSet DEF Init, Bag
<1>3. layout.tabs \in Seq(PaneNames)
  BY BrowserAssumption DEF Init, PaneNames
<1>4. ToSet(Tabs) \subseteq PaneNames
  BY <1>3, LenProperties DEF ToSet, Tabs
<1> QED
  <2>1. /\ layout \in Layouts /\ page \in {"selection", "repo"}
        /\ page = "selection" => layout.front = "ssh"
        /\ DOMAIN repo = RepoFields
        /\ DOMAIN panes = ToSet(Tabs)
        /\ \A n \in DOMAIN panes : panes[n] = NewPane[n]
    BY DEF Init, RepoFields
  <2>2. /\ DOMAIN history = PastFields
        /\ history.hasty \in BOOLEAN /\ history.early \in BOOLEAN
        /\ history.failed \in BOOLEAN
        /\ history.asked \in Repos \cup {None}
    <3>1. PICK r \in Repos \cup {None} :
            history = [faults |-> 0, hasty |-> FALSE, failed |-> FALSE,
                       early |-> FALSE, asked |-> r]
      BY DEF Init
    <3> QED BY <3>1 DEF PastFields
  <2> QED BY <1>2, <2>1, <2>2 DEF World

\* Every step keeps the shape of the state.
LEMMA WorldStays ==
    ASSUME World, [Next]_browserVars
    PROVE  World'
<1> DEFINE Past == /\ DOMAIN history' = PastFields
                   /\ history'.hasty \in BOOLEAN /\ history'.early \in BOOLEAN
                   /\ history'.failed \in BOOLEAN
                   /\ history'.asked \in Repos \cup {None}
           There == /\ layout' \in Layouts /\ page' \in {"selection", "repo"}
                    /\ page' = "selection" => layout'.front = "ssh"
                    /\ IsABag(cmds')
                    /\ DOMAIN repo' = RepoFields /\ DOMAIN panes' = ToSet(Tabs')
                    /\ \A n \in DOMAIN panes' : DOMAIN panes'[n] = DOMAIN NewPane[n]
<1>1. /\ DOMAIN history = PastFields
      /\ history.hasty \in BOOLEAN /\ history.early \in BOOLEAN
      /\ history.failed \in BOOLEAN
      /\ history.asked \in Repos \cup {None}
      /\ IsABag(msgs) /\ IsABag(cmds)
  BY DEF World
<1>2. CASE UNCHANGED browserVars
  BY <1>2 DEF World, browserVars, Tabs
<1>3. ASSUME NEW c \in BagToSet(cmds), NEW answers, Ran(c, answers), NotShown(c, answers)
      PROVE  There /\ IsABag(msgs')
  <2>1. IsABag(cmds') /\ IsABag(msgs')
    <3>1. CASE answers = {}
      BY <1>1, <1>3, <3>1, RanBags
    <3>2. CASE answers # {}
      BY <1>3, <3>2, RanBags
    <3> QED BY <3>1, <3>2
  <2>2. UNCHANGED <<layout, page, error, repo>>
    BY <1>3 DEF Ran
  <2>3. DOMAIN panes' = DOMAIN panes
    BY <1>3 DEF NotShown
  <2>4. \A n \in DOMAIN panes : DOMAIN panes'[n] = DOMAIN panes[n]
    BY <1>3 DEF NotShown
  <2> QED BY <2>1, <2>2, <2>3, <2>4 DEF World, Tabs
<1>4. CASE RunCommand
  <2>1. There /\ IsABag(msgs')
    <3> HIDE DEF There
    <3> QED BY <1>3, <1>4 DEF RunCommand
  <2>2. Past
    BY <1>1, <1>4 DEF RunCommand
  <2> QED BY <2>1, <2>2 DEF World
<1>5. CASE CommandFails
  <2>1. There /\ IsABag(msgs')
    <3> HIDE DEF There
    <3> QED BY <1>3, <1>5 DEF CommandFails
  <2>2. Past
    BY <1>1, <1>5 DEF CommandFails, PastFields
  <2> QED BY <2>1, <2>2 DEF World
<1>6. CASE CommandPanics
  BY <1>6 DEF CommandPanics, World, Tabs
<1>7. CASE DeliverAnswer
  <2>1. PICK m \in BagToSet(msgs) : Deliver(m, cmds) /\ msgs' = msgs (-) Bag({m})
    BY <1>7 DEF DeliverAnswer
  <2>2. There
    BY <1>1, <2>1, HandleKeepsWorld DEF Deliver
  <2>3. Past
    BY <1>1, <2>1 DEF Deliver, PastFields
  <2>4. IsABag(msgs')
    BY <1>1, <2>1, Taking DEF Bag
  <2> QED BY <2>2, <2>3, <2>4 DEF World
<1>8. CASE DeliverSent
  <2>1. PICK c \in BagToSet(cmds) : Deliver(c.of, cmds (-) Bag({c})) /\ UNCHANGED msgs
    BY <1>8 DEF DeliverSent
  <2>2. IsABag(cmds (-) Bag({c}))
    BY <1>1, Taking DEF Bag
  <2>3. There
    BY <2>1, <2>2, HandleKeepsWorld DEF Deliver
  <2>4. Past
    BY <1>1, <2>1 DEF Deliver, PastFields
  <2> QED BY <1>1, <2>1, <2>3, <2>4 DEF World
<1>9. CASE Press
  <2>1. PICK k \in Keys : /\ Handle(k, cmds) /\ UNCHANGED msgs
                          /\ history' = IF k.kind = "open"
                               THEN [history EXCEPT !.asked = k.of.repo, !.hasty = FALSE,
                                                    !.failed = FALSE]
                               ELSE history
    BY <1>9 DEF Press
  <2>2. There
    BY <1>1, <2>1, HandleKeepsWorld
  <2>3. k.kind = "open" => k.of.repo \in Repos
    <3>1. CASE page = "selection"
      BY <3>1 DEF Keys, Msg, Of, Place
    <3>2. CASE page # "selection"
      <4>1. PICK j \in {"enter", "back item", "back", "tab", "resize", "?", "b",
                        "next page", "copy"} : k = Key(j)
        BY <3>2 DEF Keys
      <4> QED BY <4>1 DEF Key, Msg
    <3> QED BY <3>1, <3>2
  <2>4. Past
    BY <1>1, <2>1, <2>3 DEF PastFields
  <2> QED BY <1>1, <2>1, <2>2, <2>4 DEF World
<1>10. CASE PressEarly
  <2>1. PICK k \in Keys : /\ Handle(k, cmds) /\ UNCHANGED msgs
                          /\ history' = [history EXCEPT !.faults = @ + 1, !.hasty = TRUE]
    BY <1>10 DEF PressEarly
  <2>2. There
    BY <1>1, <2>1, HandleKeepsWorld
  <2>3. Past
    BY <1>1, <2>1 DEF PastFields
  <2> QED BY <1>1, <2>1, <2>2, <2>3 DEF World
<1> QED BY <1>2, <1>4, <1>5, <1>6, <1>7, <1>8, <1>9, <1>10 DEF Next, Rest

-----------------------------------------------------------------------------
(* Steps when it is known what is under way                                *)

\* What is under way when exactly these are.
LEMMA OnlyThose ==
    ASSUME NEW cs, NEW ms, Only(cs, ms)
    PROVE  /\ BagToSet(cmds) = cs /\ BagToSet(msgs) = ms
           /\ Quiet <=> cs = {} /\ ms = {}
BY BagOfSet, SameSets DEF Only, Quiet, EmptyBag

\* Command c, of those under way, has run.
Took(c, answers, cs, ms) ==
    /\ c \in cs /\ NotShown(c, answers)
    /\ UNCHANGED <<layout, page, error, repo, dead>>
    /\ cmds' = SetToBag(cs \ {c})
    /\ \/ answers = {} /\ msgs' = SetToBag(ms)
       \/ \E m \in answers : msgs' = SetToBag(ms) (+) SetToBag({m})

\* A command runs: one of those under way.
LEMMA Runs ==
    ASSUME NEW cs, NEW ms, Only(cs, ms), RunCommand
    PROVE  \E c \in cs :
             /\ c.kind # "send" /\ ~Nil(c)
             /\ UNCHANGED history
             /\ Took(c, Answers(c), cs, ms)
<1>1. PICK c \in BagToSet(cmds) :
        /\ c.kind # "send" /\ ~Nil(c)
        /\ Ran(c, Answers(c)) /\ NotShown(c, Answers(c))
        /\ UNCHANGED <<dead, history>>
  BY DEF RunCommand
<1>2. c \in cs
  BY <1>1, OnlyThose
<1>3. cmds' = SetToBag(cs \ {c})
  BY <1>1, <1>2, TakingOne DEF Ran, Only, Bag
<1>4. \/ Answers(c) = {} /\ msgs' = SetToBag(ms)
      \/ \E m \in Answers(c) : msgs' = SetToBag(ms) (+) SetToBag({m})
  BY <1>1 DEF Ran, Only, Bag
<1> QED BY <1>1, <1>2, <1>3, <1>4 DEF Ran, Took

\* A command fails: one of those under way.
LEMMA Fails ==
    ASSUME NEW cs, NEW ms, Only(cs, ms), CommandFails
    PROVE  \E c \in cs :
             /\ c.kind \in Gits
             /\ history' = [history EXCEPT !.faults = @ + 1, !.failed = TRUE]
             /\ Took(c, Failure(c), cs, ms)
<1>1. PICK c \in BagToSet(cmds) :
        /\ c.kind \in Gits
        /\ Ran(c, Failure(c)) /\ NotShown(c, Failure(c))
        /\ history' = [history EXCEPT !.faults = @ + 1, !.failed = TRUE]
        /\ UNCHANGED dead
  BY DEF CommandFails
<1>2. c \in cs
  BY <1>1, OnlyThose
<1>3. cmds' = SetToBag(cs \ {c})
  BY <1>1, <1>2, TakingOne DEF Ran, Only, Bag
<1>4. \/ Failure(c) = {} /\ msgs' = SetToBag(ms)
      \/ \E m \in Failure(c) : msgs' = SetToBag(ms) (+) SetToBag({m})
  BY <1>1 DEF Ran, Only, Bag
<1> QED BY <1>1, <1>2, <1>3, <1>4 DEF Ran, Took

\* A message is handled: an answer, or one that a command sends.
LEMMA Delivers ==
    ASSUME NEW cs, NEW ms, Only(cs, ms), DeliverAnswer \/ DeliverSent
    PROVE  \E m : \E left :
             /\ Deliver(m, left)
             /\ \/ m \in ms /\ left = SetToBag(cs) /\ msgs' = SetToBag(ms \ {m})
                \/ \E c \in cs : /\ c.kind = "send" /\ m = c.of
                                 /\ left = SetToBag(cs \ {c}) /\ msgs' = SetToBag(ms)
<1>1. CASE DeliverAnswer
  <2>1. PICK m \in BagToSet(msgs) : Deliver(m, cmds) /\ msgs' = msgs (-) Bag({m})
    BY <1>1 DEF DeliverAnswer
  <2>2. m \in ms /\ cmds = SetToBag(cs)
    BY <2>1, OnlyThose DEF Only
  <2>3. msgs' = SetToBag(ms \ {m})
    BY <2>1, <2>2, TakingOne DEF Only, Bag
  <2> QED BY <2>1, <2>2, <2>3
<1>2. CASE DeliverSent
  <2>1. PICK c \in BagToSet(cmds) :
          c.kind = "send" /\ Deliver(c.of, cmds (-) Bag({c})) /\ UNCHANGED msgs
    BY <1>2 DEF DeliverSent
  <2>2. c \in cs /\ msgs' = SetToBag(ms)
    BY <2>1, OnlyThose DEF Only
  <2>3. cmds (-) Bag({c}) = SetToBag(cs \ {c})
    BY <2>2, TakingOne DEF Only, Bag
  <2> QED BY <2>1, <2>2, <2>3
<1> QED BY <1>1, <1>2

\* The same when one thing alone is under way.
Became(answers) ==
    \/ answers = {} /\ Only({}, {})'
    \/ \E m \in answers : Said1(m)'

\* The only command runs.
LEMMA RunsAlone ==
    ASSUME NEW c, Ran1(c), RunCommand
    PROVE  /\ c.kind # "send" /\ ~Nil(c)
           /\ NotShown(c, Answers(c))
           /\ UNCHANGED <<layout, page, error, repo, dead, history>>
           /\ Became(Answers(c))
<1>1. PICK d \in {c} :
        /\ d.kind # "send" /\ ~Nil(d)
        /\ UNCHANGED history
        /\ Took(d, Answers(d), {c}, {})
  BY Runs DEF Ran1
<1>2. d = c /\ {c} \ {d} = {}
  OBVIOUS
<1>3. \A m : SetToBag({}) (+) SetToBag({m}) = SetToBag({m})
  BY AddingNothing, BagOfSet, Zenon DEF EmptyBag
<1>4. Became(Answers(c))
  BY <1>1, <1>2, <1>3, Zenon DEF Took, Became, Said1, Only
<1> QED BY <1>1, <1>2, <1>4 DEF Took

\* The only command fails.
LEMMA FailsAlone ==
    ASSUME NEW c, Ran1(c), CommandFails
    PROVE  /\ c.kind \in Gits
           /\ NotShown(c, Failure(c))
           /\ UNCHANGED <<layout, page, error, repo, dead>>
           /\ history' = [history EXCEPT !.faults = @ + 1, !.failed = TRUE]
           /\ Became(Failure(c))
<1>1. PICK d \in {c} :
        /\ d.kind \in Gits
        /\ history' = [history EXCEPT !.faults = @ + 1, !.failed = TRUE]
        /\ Took(d, Failure(d), {c}, {})
  BY Fails DEF Ran1
<1>2. d = c /\ {c} \ {d} = {}
  OBVIOUS
<1>3. \A m : SetToBag({}) (+) SetToBag({m}) = SetToBag({m})
  BY AddingNothing, BagOfSet, Zenon DEF EmptyBag
<1>4. Became(Failure(c))
  BY <1>1, <1>2, <1>3, Zenon DEF Took, Became, Said1, Only
<1> QED BY <1>1, <1>2, <1>4 DEF Took

\* One message alone is delivered.
LEMMA DeliversAlone ==
    ASSUME NEW m, Said1(m) \/ Ran1(Send(m)), DeliverAnswer \/ DeliverSent
    PROVE  Deliver(m, EmptyBag) /\ msgs' = EmptyBag
<1>1. CASE Said1(m)
  <2>1. PICK k, left :
          /\ Deliver(k, left)
          /\ \/ k \in {m} /\ left = SetToBag({}) /\ msgs' = SetToBag({m} \ {k})
             \/ \E c \in {} : /\ c.kind = "send" /\ k = c.of
                              /\ left = SetToBag({} \ {c}) /\ msgs' = SetToBag({m})
    BY <1>1, Delivers, Zenon DEF Said1
  <2>2. {m} \ {k} = {} <=> k \in {m}
    OBVIOUS
  <2> QED BY <2>1, <2>2, Zenon DEF EmptyBag
<1>2. CASE Ran1(Send(m))
  <2>1. PICK k, left :
          /\ Deliver(k, left)
          /\ \/ k \in {} /\ left = SetToBag({Send(m)}) /\ msgs' = SetToBag({} \ {k})
             \/ \E c \in {Send(m)} : /\ c.kind = "send" /\ k = c.of
                                     /\ left = SetToBag({Send(m)} \ {c}) /\ msgs' = SetToBag({})
    BY <1>2, Delivers, Zenon DEF Ran1
  <2>2. Send(m).of = m /\ {Send(m)} \ {Send(m)} = {}
    BY DEF Send, Cmd
  <2> QED BY <2>1, <2>2, Zenon DEF EmptyBag
<1> QED BY <1>1, <1>2

\* With a message alone under way, no command runs.
LEMMA OnlySaid ==
    ASSUME NEW m, Said1(m) \/ Ran1(Send(m))
    PROVE  ~RunCommand /\ ~CommandFails /\ ~CommandPanics /\ ~Quiet
<1>1. \A c \in BagToSet(cmds) : c.kind = "send"
  BY BagOfSet DEF Said1, Ran1, Only, Send, Cmd
<1>2. ~Quiet
  BY OnlyThose DEF Said1, Ran1
<1> QED BY <1>1, <1>2 DEF RunCommand, CommandFails, CommandPanics, Gits, Nil

\* With a command alone under way, no message comes.
LEMMA OnlyRan ==
    ASSUME NEW c, Ran1(c), c.kind # "send"
    PROVE  ~DeliverAnswer /\ ~DeliverSent /\ (CommandPanics => Nil(c)) /\ ~Quiet
<1>1. BagToSet(cmds) = {c} /\ BagToSet(msgs) = {}
  BY BagOfSet DEF Ran1, Only
<1>2. ~Quiet
  BY OnlyThose DEF Ran1
<1> QED BY <1>1, <1>2 DEF DeliverAnswer, DeliverSent, CommandPanics

-----------------------------------------------------------------------------
(* Messages to one pane                                                    *)

\* What is told to the pane it is for, or to every pane.
Addressed ==
    {"repo", "ref", "empty", "resize", "readme", "files", "content", "count",
     "commits", "diff", "refs", "stash", "patch"}

\* Only the active pane is told of anything else.
LEMMA OneToldBeside ==
    ASSUME World, page = "repo", NEW m, m.kind \notin Addressed, ~Leaves(m),
           NEW left, IsABag(left), Handle(m, left), RepoModel(repo, m).tab \in DOMAIN Tabs
    PROVE  LET a == Tabs[RepoModel(repo, m).tab]
               u == UpdatePane(a, panes[a], m)
           IN /\ layout' = layout /\ page' = page
              /\ repo' = RepoModel(repo, m) /\ dead' = Panics(m, repo)
              /\ a \in DOMAIN panes
              /\ panes' = [panes EXCEPT ![a] = u.pane]
              /\ IsABag(u.cmds)
              /\ cmds' = ((left (+) UICmds(m)) (+) RepoCmds(m)) (+) u.cmds
<1> DEFINE a == Tabs[RepoModel(repo, m).tab]
           u == UpdatePane(a, panes[a], m)
<1>1. ToSet(Tabs) \subseteq PaneNames /\ a \in ToSet(Tabs)
  BY SomeTabs
<1>2. \A n \in PaneNames : ~IsFor(n, m)
  BY DEF Addressed, IsFor, Owned, PaneNames
<1>3. DOMAIN panes = ToSet(Tabs) /\ DOMAIN panes[a] = DOMAIN NewPane[a]
  BY <1>1 DEF World
<1>4. IsABag(u.cmds)
  BY <1>1, <1>3, Shapes
<1>6. m.kind # "resize" /\ Shown(m) = "repo"
  BY DEF Addressed, Shown
<1>7. Told(repo, m) = {a}
  BY <1>1, <1>2 DEF Told
<1> HIDE DEF a, u
<1>8. /\ layout' = layout /\ page' = page
      /\ repo' = RepoModel(repo, m) /\ dead' = Panics(m, repo)
      /\ panes' = [n \in DOMAIN panes |-> IF n \in Told(repo, m)
                      THEN UpdatePane(n, panes[n], m).pane ELSE panes[n]]
      /\ (\A n \in ToSet(Tabs) : ~IsFor(n, m)) =>
           cmds' = ((left (+) UICmds(m)) (+) RepoCmds(m)) (+)
                     (IF a \in ToSet(Tabs) THEN UpdatePane(a, panes[a], m).cmds
                      ELSE EmptyBag)
  BY <1>6, Handled, Zenon DEF a
<1>9. panes' = [panes EXCEPT ![a] = u.pane]
  BY <1>3, <1>7, <1>8 DEF u
<1>10. cmds' = ((left (+) UICmds(m)) (+) RepoCmds(m)) (+) u.cmds
  BY <1>1, <1>2, <1>8, Zenon DEF u
<1> QED BY <1>1, <1>3, <1>4, <1>8, <1>9, <1>10 DEF a, u

\* A message that only the active pane is told of.
LEMMA OneTold ==
    ASSUME World, page = "repo", NEW m, m.kind \notin Addressed, ~Leaves(m),
           Handle(m, EmptyBag), RepoModel(repo, m).tab \in DOMAIN Tabs
    PROVE  LET a == Tabs[RepoModel(repo, m).tab]
               u == UpdatePane(a, panes[a], m)
           IN /\ layout' = layout /\ page' = page
              /\ repo' = RepoModel(repo, m) /\ dead' = Panics(m, repo)
              /\ a \in DOMAIN panes
              /\ panes' = [panes EXCEPT ![a] = u.pane]
              /\ IsABag(u.cmds)
              /\ cmds' = (UICmds(m) (+) RepoCmds(m)) (+) u.cmds
<1>1. IsABag(EmptyBag) /\ EmptyBag (+) UICmds(m) = UICmds(m)
  BY BagOfSet, UIBag, AddingNothing DEF EmptyBag
<1> QED BY <1>1, OneToldBeside, Zenon

\* Keys and messages that nothing but the active pane answers.
LEMMA OneAnswers ==
    ASSUME World, page = "repo", NEW m, m.kind \notin Addressed, ~Leaves(m),
           m.kind \notin {"tab", "back", "switch tab", "?", "open", "select repo",
                          "active tab", "select tab", "error", "copy"},
           Handle(m, EmptyBag), repo.tab \in DOMAIN Tabs, NEW a, a = Tabs[repo.tab]
    PROVE  /\ layout' = layout /\ page' = page /\ repo' = repo /\ dead' = "no"
           /\ a \in DOMAIN panes
           /\ panes' = [panes EXCEPT ![a] = UpdatePane(a, panes[a], m).pane]
           /\ cmds' = UpdatePane(a, panes[a], m).cmds
<1> DEFINE u == UpdatePane(a, panes[a], m)
<1>1. RepoModel(repo, m) = repo /\ RepoCmds(m) = EmptyBag /\ UICmds(m) = EmptyBag
      /\ Panics(m, repo) = "no"
  BY DEF RepoModel, RepoCmds, UICmds, Panics, Addressed
<1>2. IsABag(EmptyBag)
  BY BagOfSet DEF EmptyBag
<1> HIDE DEF u
<1>3. /\ layout' = layout /\ page' = page /\ repo' = repo /\ dead' = "no"
      /\ a \in DOMAIN panes
      /\ panes' = [panes EXCEPT ![a] = u.pane]
      /\ IsABag(u.cmds)
      /\ cmds' = (EmptyBag (+) EmptyBag) (+) u.cmds
  BY <1>1, OneTold, Zenon DEF u
<1>4. (EmptyBag (+) EmptyBag) (+) u.cmds = u.cmds
  BY <1>2, <1>3, AddingNothing, Zenon
<1> QED BY <1>3, <1>4, Zenon DEF u

\* The content of a file, the difference of a commit or a stash.
LEMMA OneShows ==
    ASSUME World, page = "repo", NEW m, Handle(m, EmptyBag), repo.tab \in DOMAIN Tabs,
           NEW n, n = Tabs[repo.tab],
           \/ m.kind = "content" /\ n = "files"
           \/ m.kind = "diff" /\ n = "log"
           \/ m.kind = "patch" /\ n = "stash"
    PROVE  /\ layout' = layout /\ page' = page /\ repo' = repo
           /\ dead' = Panics(m, repo)
           /\ n \in DOMAIN panes
           /\ panes' = [panes EXCEPT ![n] = UpdatePane(n, panes[n], m).pane]
           /\ cmds' = EmptyBag
<1>1. ToSet(Tabs) \subseteq PaneNames /\ n \in ToSet(Tabs) /\ DOMAIN panes = ToSet(Tabs)
  BY SomeTabs DEF World
<1>2. /\ RepoModel(repo, m) = repo /\ RepoCmds(m) = EmptyBag /\ UICmds(m) = EmptyBag
      /\ Shown(m) = "repo" /\ m.kind # "resize"
  BY DEF RepoModel, RepoCmds, UICmds, Shown, Leaves
<1>3. Told(repo, m) = {n}
  BY <1>1, <1>2 DEF Told, IsFor, Owned, PaneNames
<1>4. IsABag(EmptyBag) /\ BagToSet(EmptyBag) = {}
  BY BagOfSet DEF EmptyBag
<1>5. UpdatePane(n, panes[n], m).cmds = EmptyBag
  BY DEF UpdatePane, FilesPane, Log, Stash, Same, After
<1>6. Issued(panes, {n}, m) = {}
  BY <1>4, <1>5 DEF Issued
<1>7. /\ layout' = layout /\ page' = Shown(m) /\ repo' = repo
      /\ dead' = Panics(m, repo)
      /\ panes' = [k \in DOMAIN panes |-> IF k \in {n}
                      THEN UpdatePane(k, panes[k], m).pane ELSE panes[k]]
      /\ IsABag(cmds')
      /\ BagToSet(cmds') = BagToSet(EmptyBag) \cup BagToSet(EmptyBag)
             \cup BagToSet(EmptyBag) \cup Issued(panes, {n}, m)
  BY <1>2, <1>3, <1>4, Handled, Zenon
<1>8. cmds' = EmptyBag
  BY <1>4, <1>6, <1>7, NoBag
<1> QED BY <1>1, <1>2, <1>7, <1>8

-----------------------------------------------------------------------------
(* What stays as it is                                                     *)

\* What only reads the page and the panes is as it was.
LEMMA Unmoved ==
    ASSUME UNCHANGED <<layout, page, repo, panes, history>>, NEW ns
    PROVE  /\ Placed' <=> Placed
           /\ AtRef' <=> AtRef
           /\ Steady(ns)' <=> Steady(ns)
           /\ \A n : On(n)' <=> On(n)
           /\ \A n, s : Fits(n, s)' <=> Fits(n, s)
           /\ \A n, s : Done(n, s)' <=> Done(n, s)
           /\ \A path, k : Here(path, k)' = Here(path, k)
           /\ R' = R /\ Tabs' = Tabs
<1>1. /\ R' = R /\ Tabs' = Tabs
      /\ \A path, k : Here(path, k)' = Here(path, k)
      /\ \A s : Counted(s)' <=> Counted(s)
  BY DEF R, Tabs, Here, Counted
<1>2. \A n, s : Fits(n, s)' <=> Fits(n, s)
  BY <1>1 DEF Fits
<1>3. \A n, s : Done(n, s)' <=> Done(n, s)
  BY <1>1 DEF Done
<1>4. Placed' <=> Placed
  BY <1>1 DEF Placed
<1>5. AtRef' <=> AtRef
  BY <1>1 DEF AtRef
<1>6. Still(ns)' <=> Still(ns)
  BY <1>2, <1>3 DEF Still, Settled
<1>7. \A n : On(n)' <=> On(n)
  BY <1>1 DEF On
<1> QED BY <1>1, <1>2, <1>3, <1>4, <1>5, <1>6, <1>7 DEF Steady

\* One pane, and where the tab bar is, may change.
LEMMA OneMoved ==
    ASSUME UNCHANGED <<layout, page>>, history'.asked = R,
           history'.failed = history.failed,
           repo'.selected = repo.selected, repo'.ref = repo.ref, repo'.ready = repo.ready,
           repo'.tab \in DOMAIN Tabs, repo'.tabs \in DOMAIN Tabs,
           NEW n, NEW s, s.repo = panes[n].repo, panes' = [panes EXCEPT ![n] = s]
    PROVE  /\ Placed => Placed'
           /\ AtRef => AtRef'
           /\ Steady({}) => Steady({n})'
           /\ Steady({n}) => Steady({n})'
           /\ \A k, t : Fits(k, t)' <=> Fits(k, t)
           /\ \A k, t : Done(k, t)' <=> Done(k, t)
           /\ \A path, k : Here(path, k)' = Here(path, k)
           /\ R' = R /\ Tabs' = Tabs
<1>1. /\ R' = R /\ Tabs' = Tabs
      /\ \A path, k : Here(path, k)' = Here(path, k)
      /\ \A t : Counted(t)' <=> Counted(t)
  BY DEF R, Tabs, Here, Counted
<1>2. \A k, t : Fits(k, t)' <=> Fits(k, t)
  BY <1>1 DEF Fits
<1>3. \A k, t : Done(k, t)' <=> Done(k, t)
  BY <1>1 DEF Done
<1>4. Placed => Placed'
  BY <1>1 DEF Placed
<1>5. AtRef => AtRef'
  BY <1>1 DEF AtRef
<1>6. /\ Still({}) => Still({n})'
      /\ Still({n}) => Still({n})'
  BY <1>2, <1>3 DEF Still, Settled
<1> QED BY <1>1, <1>2, <1>3, <1>4, <1>5, <1>6 DEF Steady

\* The pane that changed shows what it is to show again.
LEMMA AllStill ==
    ASSUME NEW n, Steady({n})', Settled(n)'
    PROVE  Steady({})'
BY DEF Steady, Still

\* Nothing more comes, and every pane shows what it is to.
LEMMA Rested ==
    ASSUME Steady({})', repo'.tab = repo'.tabs, Only({}, {})' \/ Said1(Error)'
    PROVE  Reloading'
<1>1. BagToSet(cmds') = {} /\ BagToSet(msgs') \subseteq {Error}
  BY BagOfSet DEF Only, Said1
<1>2. Run(cmds)' = {} /\ Awaited' \subseteq {Error}
  BY <1>1 DEF Run, Awaited, Sent
<1>3. Error.kind = "error"
  BY DEF Error, Msg
<1>4. Reloads'
  BY <1>2, <1>3 DEF Reloads, Steady
<1>5. Rights'
  BY <1>2, <1>3 DEF Rights, Steady, Still, Settled, Rightly
<1> QED BY <1>4, <1>5 DEF Reloading

\* After a failure of git, where it left off.
LEMMA GaveUp ==
    ASSUME Placed', repo'.tab = repo'.tabs, Only({}, {})' \/ Said1(Error)',
           history'.failed
    PROVE  Reloading'
<1>1. BagToSet(cmds') = {} /\ BagToSet(msgs') \subseteq {Error}
  BY BagOfSet DEF Only, Said1
<1>2. Run(cmds)' = {} /\ Awaited' \subseteq {Error}
  BY <1>1 DEF Run, Awaited, Sent
<1>3. Error.kind = "error"
  BY DEF Error, Msg
<1>4. Reloads'
  BY <1>2, <1>3 DEF Reloads
<1> QED BY <1>4 DEF Reloading

\* A page that reloads, when nothing is under way, is done with it.
LEMMA AtRest ==
    ASSUME World, Reloading, Quiet, ~history.failed
    PROVE  Steady({}) /\ repo.tab = repo.tabs
<1>1. BagToSet(cmds) = {} /\ BagToSet(msgs) = {}
  BY BagOfSet DEF Quiet, EmptyBag
<1>2. Run(cmds) = {} /\ Awaited = {}
  BY <1>1 DEF Run, Awaited, Sent
<1>3. \A n \in DOMAIN panes : ~Due(n, panes[n])
  <2>1. DOMAIN panes \subseteq PaneNames
    BY SomeTabs DEF World
  <2> QED BY <1>2, <2>1 DEF Due, Loading, Coming, PaneNames
<1> QED BY <1>3 DEF Reloading, Reloads, Rights, Steady, Still, Settled

\* One pane still waits, for a command or for its answer.
LEMMA OneWaits ==
    ASSUME NEW n, Steady({n})', repo'.tab = repo'.tabs,
           n \in DOMAIN panes', Fits(n, panes[n])', Done(n, panes[n])' \/ Due(n, panes[n])',
           NEW k \in DOMAIN LoadOf,
           \/ /\ Ran1(Load(k))' /\ LoadOf[k] \in DOMAIN panes'
              /\ k \in {"readme", "count", "refs"} => repo'.ref # None
              /\ k = "commits" => Counted(panes["log"])'
              /\ k = "files" => panes'["files"].path \in Directories
           \/ \E m : m.kind = k /\ Said1(m)' /\ Rightly(m)'
    PROVE  Reloading'
<1>1. Load(k).kind = k /\ k # "send"
  BY DEF Load, Cmd, LoadOf
<1>2. \/ Run(cmds)' = {k} /\ Awaited' = {} /\ Ran1(Load(k))'
      \/ \E m : Run(cmds)' = {} /\ Awaited' = {m} /\ m.kind = k /\ Rightly(m)'
  <2>1. CASE Ran1(Load(k))'
    <3>1. BagToSet(cmds') = {Load(k)} /\ BagToSet(msgs') = {}
      BY <2>1, BagOfSet DEF Ran1, Only
    <3> QED BY <1>1, <2>1, <3>1 DEF Run, Awaited, Sent
  <2>2. ASSUME NEW m, m.kind = k, Said1(m)', Rightly(m)'
        PROVE  Run(cmds)' = {} /\ Awaited' = {m}
    <3>1. BagToSet(cmds') = {} /\ BagToSet(msgs') = {m}
      BY <2>2, BagOfSet DEF Said1, Only
    <3> QED BY <3>1 DEF Run, Awaited, Sent
  <2> QED BY <2>1, <2>2
<1>3. \A i \in DOMAIN panes' : Fits(i, panes[i])' /\ (Done(i, panes[i])' \/ Due(i, panes[i])')
  BY DEF Steady, Still, Settled
<1>4. k \notin {"error", "switch tab", "select tab"}
  BY DEF LoadOf
<1>5. \/ Ran1(Load(k))' => /\ LoadOf[k] \in DOMAIN panes'
                           /\ k \in {"readme", "count", "refs"} => repo'.ref # None
                           /\ k = "commits" => Counted(panes["log"])'
                           /\ k = "files" => panes'["files"].path \in Directories
      \/ \E m : m.kind = k /\ Said1(m)'
  OBVIOUS
<1>6. Ran1(Load(k))' => ~\E m : Said1(m)'
  BY SameSets DEF Ran1, Said1, Only
<1>7. Reloads'
  BY <1>2, <1>4, <1>5, <1>6 DEF Reloads, Steady
<1>8. Rights'
  BY <1>2, <1>3, <1>5, <1>6 DEF Rights, Steady
<1> QED BY <1>7, <1>8 DEF Reloading

\* What a message leaves of the past.
LEMMA Passed ==
    ASSUME World, NEW m, NEW left, Deliver(m, left),
           m.kind \notin {"ref", "empty"} \/ repo.selected # None
    PROVE  /\ history'.asked = R /\ history'.failed = history.failed
           /\ history'.hasty = history.hasty /\ history'.early = history.early
           /\ Handle(m, left) /\ dead = "no"
BY DEF World, Deliver, R, PastFields

\* A failure leaves a page that may show anything, and nothing under way.
LEMMA FailsPlaced ==
    ASSUME World, Placed, repo.tab = repo.tabs, NEW c, c.kind # "readme", Ran1(c),
           CommandFails
    PROVE  Reloading' /\ dead' = dead
<1>1. /\ NotShown(c, Failure(c))
      /\ UNCHANGED <<layout, page, error, repo, dead>>
      /\ history' = [history EXCEPT !.faults = @ + 1, !.failed = TRUE]
      /\ Became(Failure(c))
  BY FailsAlone
<1>2. Failure(c) \subseteq {Error}
  BY DEF Failure
<1>3. Only({}, {})' \/ Said1(Error)'
  BY <1>1, <1>2 DEF Became
<1>4. history'.failed /\ history'.asked = R
  BY <1>1 DEF World, PastFields, R
<1>5. /\ DOMAIN panes' = DOMAIN panes
      /\ \A n \in DOMAIN panes : panes'[n].repo = panes[n].repo
  BY <1>1 DEF NotShown
<1>6. Placed'
  BY <1>1, <1>4, <1>5 DEF Placed, R, Tabs
<1> QED BY <1>1, <1>3, <1>4, <1>6, GaveUp

\* The repository asked for is one, and its page names a branch of it.
LEMMA AReference ==
    ASSUME Placed, AtRef
    PROVE  /\ R # None /\ R \in Repos
           /\ \A n \in DOMAIN panes : panes[n].ref = repo.ref /\ repo.ref # None =>
                Readable(panes[n])
           /\ \A path, k : Here(path, k) = Nowhere <=> repo.ref = None
BY PanesAssumption DEF Placed, AtRef, Readable, Here, Nowhere, Place

\* An entry of a directory is a file or a directory under it.
LEMMA AnEntry ==
    ASSUME NEW dir \in Directories, NEW p \in Entries(dir)
    PROVE  /\ p \in (Directories \ {<<>>}) \cup Files
           /\ Append(dir, Last(p)) = p /\ Front(p) = dir
<1>1. /\ p \in Directories \cup Files /\ Len(p) = Len(dir) + 1 /\ Front(p) = dir
  BY DEF Entries
<1>2. p \in Seq(ToSet(p)) /\ dir \in Seq(ToSet(dir))
  BY <1>1, PanesAssumption
<1>3. /\ Len(dir) \in Nat /\ p # <<>>
  BY <1>1, <1>2, EmptySeq, LenProperties
<1>4. dir = SubSeq(p, 1, Len(p) - 1) /\ Last(p) = p[Len(p)]
  BY <1>1 DEF Front, Last
<1>5. Append(dir, Last(p)) = p
  <2> DEFINE q == Append(dir, Last(p))
             T == ToSet(p) \cup {Last(p)}
  <2>1. dir \in Seq(T)
    BY <1>2, <1>3, <1>4
  <2>2. q \in Seq(T) /\ p \in Seq(T) /\ Len(q) = Len(dir) + 1
    BY <2>1, <1>2
  <2>3. \A i \in 1 .. Len(dir) : q[i] = p[i]
    BY <1>1, <1>2, <1>3, <1>4, <2>1
  <2>4. q[Len(dir) + 1] = p[Len(dir) + 1]
    BY <1>1, <1>3, <1>4, <2>1
  <2>5. \A i \in 1 .. Len(p) : q[i] = p[i]
    BY <1>1, <1>3, <2>3, <2>4
  <2>6. Len(q) = Len(p)
    BY <1>1, <2>2
  <2> HIDE DEF q
  <2>7. q = p
    BY <2>2, <2>5, <2>6, SeqEqual
  <2> QED BY <2>7 DEF q
<1> QED BY <1>1, <1>3, <1>5

-----------------------------------------------------------------------------
(* The files pane                                                          *)

\* A pick, a listing, a file or a blame is read for the files pane.
LEMMA FilingRuns ==
    ASSUME World, Filing, dead = "no", RunCommand
    PROVE  dead' = "no" /\ (Filing \/ Reloading)'
<1> DEFINE s == panes["files"]
<1>1. /\ Steady({"files"}) /\ On("files") /\ Fits("files", s)
      /\ Placed /\ AtRef /\ ~history.failed /\ repo.tab = repo.tabs
  BY DEF Filing, Steady, On
<1>2. "files" \in DOMAIN panes
  <2>1. repo.tab \in DOMAIN Tabs /\ Tabs[repo.tab] = "files"
    BY <1>1 DEF On, Placed
  <2> QED BY <2>1, SomeTabs DEF World
<1>3. /\ R # None /\ s.repo = R /\ s.ref = repo.ref
      /\ repo.ref # None => Readable(s)
      /\ \A path, k : Here(path, k) = Nowhere <=> repo.ref = None
      /\ \A path, k : repo.ref # None => Here(path, k) = Place(R, repo.ref, path, k)
  <2>1. R # None /\ R \in Repos /\ s.repo = R /\ s.ref = repo.ref
    BY <1>1, <1>2, AReference DEF Placed, Fits
  <2>2. repo.ref # None => Readable(s)
    BY <1>1, <1>2, <2>1, AReference
  <2> QED BY <1>1, <2>1, <2>2, AReference DEF Here
<1>4. ASSUME UNCHANGED <<layout, page, repo, panes, history>>,
             s.view = "files" /\ Done("files", s), Only({}, {})' \/ Said1(Error)'
      PROVE  Reloading'
  <2>1. Steady({"files"})' /\ Settled("files")'
    BY <1>1, <1>4, Unmoved DEF Settled
  <2> QED BY <1>1, <1>4, <2>1, AllStill, Rested
<1>5. CASE s.view = "files" /\ Done("files", s) /\ Ran1(Load("pick file"))
  <2> DEFINE c == Load("pick file")
  <2>1. c.kind = "pick file"
    BY DEF Load, Cmd
  <2> HIDE DEF c
  <2>2. /\ UNCHANGED <<layout, page, repo, panes, dead, history>>
        /\ Became(Answers(c))
    BY <1>5, <2>1, RunsAlone DEF NotShown, c
  <2>3. Answers(c) = SelectItemCmd(c)
    BY <2>1 DEF Answers
  <2>4. s.path \in Directories /\ s.items = Here(s.path, 0)
    BY <1>5 DEF Done
  <2>5. SelectItemCmd(c) =
          IF repo.ref = None THEN {}
          ELSE {Msg("select file", Here(p, 0)) : p \in Entries(s.path)}
    <3>1. CASE repo.ref = None
      BY <1>3, <2>1, <2>4, <3>1 DEF SelectItemCmd
    <3>2. CASE repo.ref # None
      <4>1. s.items # Nowhere /\ s.items.path = s.path
            /\ \A p : [s.items EXCEPT !.path = p] = Here(p, 0)
        BY <1>3, <2>4, <3>2 DEF Place
      <4>2. SelectItemCmd(c) = {Msg("select file", [s.items EXCEPT !.path = p]) :
                                    p \in Entries(s.items.path)}
        BY <2>1, <4>1 DEF SelectItemCmd
      <4>3. \A p : Msg("select file", [s.items EXCEPT !.path = p]) = Msg("select file", Here(p, 0))
        BY <4>1
      <4>4. {Msg("select file", [s.items EXCEPT !.path = p]) : p \in Entries(s.items.path)}
              = {Msg("select file", Here(p, 0)) : p \in Entries(s.path)}
        <5> DEFINE old(p) == Msg("select file", [s.items EXCEPT !.path = p])
                   new(p) == Msg("select file", Here(p, 0))
        <5>1. (\A p : old(p) = new(p)) /\ Entries(s.items.path) = Entries(s.path)
          BY <4>1, <4>3
        <5> HIDE DEF old, new
        <5>2. {old(p) : p \in Entries(s.items.path)} = {new(p) : p \in Entries(s.path)}
          BY <5>1
        <5> QED BY <5>2 DEF old, new
      <4> QED BY <3>2, <4>2, <4>4
    <3> QED BY <3>1, <3>2
  <2>6. CASE Only({}, {})'
    <3>1. UNCHANGED <<layout, page, repo, panes, history>>
      BY <2>2
    <3>2. Only({}, {})' \/ Said1(Error)'
      BY <2>6
    <3>3. s.view = "files" /\ Done("files", s)
      BY <1>5
    <3> HIDE DEF s
    <3>4. Reloading'
      BY <1>4, <3>1, <3>2, <3>3, Zenon
    <3> QED BY <2>2, <3>4
  <2>7. ASSUME NEW p \in Entries(s.path), repo.ref # None,
               Said1(Msg("select file", Here(p, 0)))'
        PROVE  Filing'
    <3>1. Steady({"files"})' /\ On("files")' /\ Fits("files", panes["files"])'
          /\ Done("files", panes["files"])'
      BY <1>1, <1>5, <2>2, <2>7, Unmoved
    <3>2. repo'.ref # None /\ panes'["files"] = s
      BY <2>2, <2>7
    <3> QED BY <1>5, <2>7, <3>1, <3>2 DEF Filing
  <2>8. Only({}, {})' \/ \E p \in Entries(s.path) :
            repo.ref # None /\ Said1(Msg("select file", Here(p, 0)))'
    <3>1. \A p : Here(p, 0)' = Here(p, 0)
      BY <2>2 DEF Here, R
    <3>3. CASE repo.ref = None
      BY <2>2, <2>3, <2>5, <3>3 DEF Became
    <3>4. CASE repo.ref # None /\ ~Only({}, {})'
      <4>1. PICK m \in Answers(c) : Said1(m)'
        BY <2>2, <3>4 DEF Became
      <4>2. PICK p \in Entries(s.path) : m = Msg("select file", Here(p, 0))
        BY <2>3, <2>5, <3>4, <4>1
      <4>3. Said1(Msg("select file", Here(p, 0)))'
        BY <3>1, <4>1, <4>2
      <4> QED BY <3>4, <4>3
    <3> QED BY <3>3, <3>4
  <2> QED BY <2>2, <2>6, <2>7, <2>8
<1>6. CASE /\ repo.ref # None /\ s.item = Here(s.path, 0)
           /\ s.path \in Directories \ {<<>>} /\ Ran1(Load("tree"))
  <2> DEFINE c == Load("tree")
  <2>0. PICK m : m = Msg("files", Here(s.path, 0))
    OBVIOUS
  <2>1. c.kind = "tree"
    BY DEF Load, Cmd
  <2> HIDE DEF c
  <2>2. /\ UNCHANGED <<layout, page, repo, panes, dead, history>>
        /\ Became(Answers(c))
    BY <1>6, <2>1, RunsAlone DEF NotShown, c
  <2>3. Answers(c) = {m}
    <3>1. Answers(c) = selectTreeCmd(s)
      BY <2>1 DEF Answers
    <3>2. s.item.path = s.path
      BY <1>3, <1>6 DEF Place
    <3> QED BY <1>3, <1>6, <2>0, <3>1, <3>2 DEF selectTreeCmd, updateFilesCmd
  <2>4. Said1(m)'
    BY <2>2, <2>3 DEF Became
  <2>5. Due("files", panes["files"])'
    <3>1. Awaited' = {m}
      <4>1. BagToSet(cmds') = {} /\ BagToSet(msgs') = {m}
        BY <2>4, BagOfSet DEF Said1, Only
      <4> QED BY <4>1 DEF Awaited, Sent
    <3> QED BY <1>6, <2>0, <2>2, <3>1 DEF Due, Coming, Msg
  <2>6. /\ Steady({"files"})' /\ repo'.tab = repo'.tabs /\ Fits("files", panes["files"])'
        /\ Rightly(m)'
    <3>1. m.kind = "files" /\ m.of = Here(s.path, 0) /\ s.path \in Directories
      BY <1>6, <2>0 DEF Msg
    <3>2. /\ Steady({"files"})' /\ repo'.tab = repo'.tabs /\ Fits("files", panes["files"])'
          /\ panes'["files"] = s /\ \A path : Here(path, 0)' = Here(path, 0)
      BY <1>1, <2>2, Unmoved
    <3>3. m.of = Here(panes["files"].path, 0)'
      BY <3>1, <3>2
    <3> QED BY <3>1, <3>2, <3>3 DEF Rightly
  <2>7. m.kind = "files" /\ "files" \in DOMAIN LoadOf /\ "files" \in DOMAIN panes'
    BY <1>2, <2>0, <2>2 DEF Msg, LoadOf
  <2>8. Reloading'
    BY <2>4, <2>5, <2>6, <2>7, OneWaits
  <2> QED BY <2>2, <2>8
<1>7. CASE /\ repo.ref # None /\ s.item = Here(s.path, 0)
           /\ s.path \in Files /\ s.view = "files"
           /\ s.items = Here(Front(s.path), 0) /\ Ran1(Load("file"))
  <2> DEFINE c == Load("file")
             m == Msg("content", s.item)
  <2>1. c.kind = "file"
    BY DEF Load, Cmd
  <2> HIDE DEF c
  <2>2. /\ UNCHANGED <<layout, page, repo, dead, history>>
        /\ NotShown(c, Answers(c)) /\ Became(Answers(c))
    BY <1>7, RunsAlone DEF c
  <2>3. Answers(c) = IF s.path \in Binary THEN {Error} ELSE {m}
    <3>1. Answers(c) = selectFileCmd(s)
      BY <2>1 DEF Answers
    <3>2. s.item.path = s.path
      BY <1>3, <1>7 DEF Place
    <3> QED BY <1>7, <3>1, <3>2 DEF selectFileCmd
  <2>4. m # Error
    BY DEF Error, Msg
  <2>5. CASE s.path \notin Binary
    <3>1. panes' = panes /\ Said1(m)'
      BY <2>2, <2>3, <2>4, <2>5 DEF NotShown, Became
    <3>2. /\ Steady({"files"})' /\ On("files")' /\ Fits("files", panes["files"])'
          /\ panes'["files"].item = Here(panes["files"].path, 0)'
      BY <1>1, <1>7, <2>2, <3>1, Unmoved
    <3>3. Filing'
      BY <1>7, <2>2, <3>1, <3>2 DEF Filing
    <3> QED BY <2>2, <3>3
  <2>6. CASE s.path \in Binary
    <3> DEFINE t == [s EXCEPT !.path = Front(@)]
    <3>1. panes' = [panes EXCEPT !["files"] = t] /\ Said1(Error)'
      BY <2>1, <2>2, <2>3, <2>6 DEF NotShown, Became
    <3>2. Front(s.path) \in Directories
      BY <1>7, PanesAssumption
    <3>3. DOMAIN s = DOMAIN NewFiles
      BY <1>2 DEF World, NewPane
    <3>4. /\ t.repo = s.repo /\ t.ref = s.ref /\ t.path = Front(s.path)
          /\ t.items = s.items /\ t.view = s.view
      BY <3>3 DEF NewFiles
    <3> HIDE DEF t
    <3>5. Fits("files", t) /\ Done("files", t)
      BY <1>1, <1>7, <3>2, <3>4 DEF Fits, Done
    <3>7. panes'["files"] = t
      BY <1>2, <3>1
    <3>6. /\ Steady({"files"})'
          /\ Fits("files", panes["files"])' /\ Done("files", panes["files"])'
      <4>1. PICK u : u = t
        OBVIOUS
      <4>2. /\ history'.asked = R /\ history'.failed = history.failed
            /\ repo'.tab \in DOMAIN Tabs /\ repo'.tabs \in DOMAIN Tabs
        BY <1>1, <2>2 DEF R, Placed
      <4>3. /\ Steady({"files"})'
            /\ \A k, x : Fits(k, x)' <=> Fits(k, x)
            /\ \A k, x : Done(k, x)' <=> Done(k, x)
        BY <1>1, <2>2, <3>1, <3>4, <4>1, <4>2, OneMoved
      <4> QED BY <3>5, <3>7, <4>3
    <3>8. Steady({})'
      BY <3>6, AllStill DEF Settled
    <3> QED BY <1>1, <2>2, <3>1, <3>8, Rested
  <2> QED BY <2>5, <2>6
<1>8. CASE /\ repo.ref # None /\ s.item = Here(s.path, 0)
           /\ s.path \in Files /\ s.shows = s.item /\ Ran1(Load("blame"))
  <2> DEFINE c == Load("blame")
             m == Msg("blame", s.item)
  <2>1. c.kind = "blame"
    BY DEF Load, Cmd
  <2> HIDE DEF c
  <2>2. /\ UNCHANGED <<layout, page, repo, panes, dead, history>>
        /\ Became(Answers(c))
    BY <1>8, <2>1, RunsAlone DEF NotShown, c
  <2>3. Answers(c) = {m}
    BY <1>3, <1>8, <2>1 DEF Answers, fetchBlame
  <2>4. Said1(m)'
    BY <2>2, <2>3 DEF Became
  <2>5. /\ Steady({"files"})' /\ On("files")' /\ Fits("files", panes["files"])'
        /\ panes'["files"].item = Here(panes["files"].path, 0)'
    BY <1>1, <1>8, <2>2, Unmoved
  <2>6. Filing'
    BY <1>8, <2>2, <2>4, <2>5 DEF Filing
  <2> QED BY <2>2, <2>6
<1>9. CASE \E m : Said1(m)
  <2>1. BagToSet(cmds) = {}
    BY <1>9, BagOfSet DEF Said1, Only
  <2> QED BY <2>1 DEF RunCommand
<1> QED BY <1>5, <1>6, <1>7, <1>8, <1>9 DEF Filing

\* The active pane alone is told of a message.
Alone(m, n) ==
    \/ m.kind \notin Addressed \cup {"tab", "back", "switch tab", "?", "open",
           "select repo", "active tab", "select tab", "error", "copy"}
    \/ m.kind = "content" /\ n = "files"
    \/ m.kind = "diff" /\ n = "log"
    \/ m.kind = "patch" /\ n = "stash"

\* What it then is, and what has not changed.
Heard(m, n, t, cs) ==
    /\ dead' = Panics(m, repo) /\ UNCHANGED <<layout, page, repo>>
    /\ cmds' = cs /\ panes' = [panes EXCEPT ![n] = t] /\ panes'[n] = t
    /\ n \in DOMAIN panes' /\ repo'.tab = repo'.tabs
    /\ Placed' /\ (AtRef => AtRef')
    /\ Steady({}) => Steady({n})'
    /\ Steady({n}) => Steady({n})'
    /\ On(n)'
    /\ \A one, pane : Fits(one, pane)' <=> Fits(one, pane)
    /\ \A one, pane : Done(one, pane)' <=> Done(one, pane)
    /\ \A path, number : Here(path, number)' = Here(path, number)
    /\ R' = R /\ Tabs' = Tabs /\ history'.failed = history.failed

\* The active pane alone handles a message.
LEMMA OneHears ==
    ASSUME World, Placed, NEW n, On(n), NEW m, Alone(m, n), Handle(m, EmptyBag),
           history'.asked = R, history'.failed = history.failed,
           NEW t, NEW cs, UpdatePane(n, panes[n], m) = After(t, cs),
           t.repo = panes[n].repo
    PROVE  Heard(m, n, t, cs)
<1>1. /\ repo.tab \in DOMAIN Tabs /\ repo.tabs \in DOMAIN Tabs /\ n = Tabs[repo.tab]
      /\ page = "repo" /\ repo.tab = repo.tabs
  BY DEF Placed, On
<1>2. UpdatePane(n, panes[n], m).pane = t /\ UpdatePane(n, panes[n], m).cmds = cs
  BY DEF After
<1>3. /\ dead' = Panics(m, repo) /\ UNCHANGED <<layout, page, repo>>
      /\ cmds' = cs /\ panes' = [panes EXCEPT ![n] = t] /\ n \in DOMAIN panes
  <2>1. CASE /\ m.kind \notin Addressed
             /\ m.kind \notin {"tab", "back", "switch tab", "?", "open", "select repo",
                              "active tab", "select tab", "error", "copy"}
    <3>1. ~Leaves(m) /\ Panics(m, repo) = "no"
      BY <2>1 DEF Leaves, Panics, Addressed
    <3>2. /\ layout' = layout /\ page' = page /\ repo' = repo /\ dead' = "no"
          /\ n \in DOMAIN panes
          /\ panes' = [panes EXCEPT ![n] = UpdatePane(n, panes[n], m).pane]
          /\ cmds' = UpdatePane(n, panes[n], m).cmds
      BY <1>1, <2>1, <3>1, OneAnswers
    <3> QED BY <1>2, <3>1, <3>2
  <2>2. CASE \/ m.kind = "content" /\ n = "files"
             \/ m.kind = "diff" /\ n = "log"
             \/ m.kind = "patch" /\ n = "stash"
    <3>1. /\ layout' = layout /\ page' = page /\ repo' = repo
          /\ dead' = Panics(m, repo) /\ n \in DOMAIN panes
          /\ panes' = [panes EXCEPT ![n] = UpdatePane(n, panes[n], m).pane]
          /\ cmds' = EmptyBag
      BY <1>1, <2>2, OneShows
    <3>2. UpdatePane(n, panes[n], m).cmds = EmptyBag
      BY <2>2 DEF UpdatePane, FilesPane, Log, Stash, Same, After
    <3> QED BY <1>2, <3>1, <3>2
  <2> QED BY <2>1, <2>2 DEF Alone
<1>4. /\ Placed' /\ (AtRef => AtRef')
      /\ Steady({}) => Steady({n})'
      /\ Steady({n}) => Steady({n})'
      /\ \A k, s : Fits(k, s)' <=> Fits(k, s)
      /\ \A k, s : Done(k, s)' <=> Done(k, s)
      /\ \A path, k : Here(path, k)' = Here(path, k)
      /\ R' = R /\ Tabs' = Tabs
  BY <1>1, <1>3, OneMoved
<1> QED BY <1>1, <1>3, <1>4 DEF On, Heard

\* The one message under way is of the active pane alone.
LEMMA OneListens ==
    ASSUME World, Placed, NEW n, On(n), NEW m, Alone(m, n),
           Said1(m) \/ Ran1(Send(m)), DeliverAnswer \/ DeliverSent,
           NEW t, NEW cs, UpdatePane(n, panes[n], m) = After(t, cs),
           t.repo = panes[n].repo
    PROVE  Heard(m, n, t, cs) /\ msgs' = EmptyBag
<1>1. Deliver(m, EmptyBag) /\ msgs' = EmptyBag
  BY DeliversAlone
<1>2. m.kind \notin {"ref", "empty"}
  BY DEF Alone, Addressed
<1>3. /\ history'.asked = R /\ history'.failed = history.failed /\ Handle(m, EmptyBag)
  BY <1>1, <1>2, Passed
<1> QED BY <1>1, <1>3, OneHears

\* The files pane handles what was picked or read.
LEMMA FilingHears ==
    ASSUME World, Filing, dead = "no", DeliverAnswer \/ DeliverSent
    PROVE  dead' = "no" /\ (Filing \/ Reloading)'
<1> DEFINE s == panes["files"]
<1>0. Directories \cap Files = {}
  BY PanesAssumption
<1>1. /\ Steady({"files"}) /\ On("files") /\ Fits("files", s)
      /\ Placed /\ AtRef /\ repo.tab = repo.tabs
      /\ repo.tab \in DOMAIN Tabs /\ Tabs[repo.tab] = "files" /\ page = "repo"
  BY DEF Filing, Steady, On, Placed
<1>2. "files" \in DOMAIN panes /\ DOMAIN s = DOMAIN NewFiles
  BY <1>1, SomeTabs DEF World, NewPane
<1>4. ASSUME NEW p \in Entries(s.path), Said1(Msg("select file", Here(p, 0))),
             repo.ref # None, s.view = "files", Done("files", s)
      PROVE  dead' = "no" /\ Filing'
  <2> DEFINE m == Msg("select file", Here(p, 0))
             t == [s EXCEPT !.item = m.of, !.path = p]
             k == IF p \in Directories THEN "tree" ELSE "file"
  <2>1. /\ s.path \in Directories /\ s.items = Here(s.path, 0)
        /\ p \in (Directories \ {<<>>}) \cup Files
        /\ Append(s.path, Last(p)) = p /\ Front(p) = s.path
    <3>1. s.path \in Directories /\ s.items = Here(s.path, 0)
      BY <1>4 DEF Done
    <3> QED BY <1>4, <3>1, AnEntry
  <2>2. m.kind = "select file" /\ m.of.path = p /\ m.of = Here(p, 0)
    BY <1>4 DEF Msg, Here, Place
  <2>3. FilesPane(s, m) = After(t, SetToBag({Load(k)}))
    BY <1>2, <2>1, <2>2 DEF FilesPane, Issues
  <2>4. /\ t.repo = s.repo /\ t.path = p /\ t.item = Here(p, 0) /\ t.view = s.view
        /\ t.items = s.items /\ t.ref = s.ref
    BY <1>2, <2>2 DEF NewFiles
  <2>5. Said1(m) /\ Alone(m, "files") /\ Panics(m, repo) = "no"
    BY <1>4, <2>2 DEF Alone, Addressed, Panics
  <2> HIDE DEF m, t
  <2>6. /\ dead' = "no" /\ UNCHANGED <<layout, page, repo>> /\ panes'["files"] = t
        /\ cmds' = SetToBag({Load(k)}) /\ msgs' = EmptyBag
        /\ Steady({"files"})' /\ On("files")'
        /\ Fits("files", t) => Fits("files", panes["files"])'
        /\ \A path, j : Here(path, j)' = Here(path, j)
    <3>1. UpdatePane("files", s, m) = After(t, SetToBag({Load(k)}))
      BY <2>3 DEF UpdatePane
    <3>2. Heard(m, "files", t, SetToBag({Load(k)})) /\ msgs' = EmptyBag
      BY <1>1, <2>4, <2>5, <3>1, OneListens
    <3>3. dead' = "no"
      BY <2>5, <3>2 DEF Heard
    <3>4. UNCHANGED <<layout, page, repo>> /\ panes'["files"] = t
      BY <3>2 DEF Heard
    <3>5. Steady({"files"})' /\ On("files")'
      BY <1>1, <3>2 DEF Heard
    <3>6. Fits("files", t) => Fits("files", panes["files"])'
      BY <3>2, <3>4 DEF Heard
    <3>7. Done("files", t) => Done("files", panes["files"])'
      BY <3>2, <3>4 DEF Heard
    <3>8. \A path, j : Here(path, j)' = Here(path, j)
      BY <3>2 DEF Heard
    <3> QED BY <3>2, <3>3, <3>4, <3>5, <3>6, <3>7, <3>8 DEF Heard
  <2>7. Fits("files", t)
    BY <1>1, <2>1, <2>4 DEF Fits
  <2>8. Ran1(Load(k))'
    BY <2>6 DEF Ran1, Only, EmptyBag
  <2>9. /\ t.item = Here(p, 0)' /\ repo'.ref # None
        /\ p \in Files => t.items = Here(Front(p), 0)'
    BY <1>4, <2>1, <2>4, <2>6
  <2>10. p \in Directories \ {<<>>} \/ (p \in Files /\ p \notin Directories)
    BY <2>1, <1>0
  <2> QED BY <1>4, <2>4, <2>6, <2>7, <2>8, <2>9, <2>10 DEF Filing
<1>5. ASSUME NEW m, Said1(m), repo.ref # None, s.item = Here(s.path, 0),
             s.path \in Files, m.of = s.item,
             m.kind = "content" \/ (m.kind = "blame" /\ s.shows = s.item)
      PROVE  dead' = "no" /\ Reloading'
  <2> DEFINE t == IF m.kind = "content" THEN [s EXCEPT !.shows = m.of, !.view = "content"]
                  ELSE [s EXCEPT !.view = "content"]
  <2>1. FilesPane(s, m) = After(t, EmptyBag)
    BY <1>5 DEF FilesPane, Same
  <2>2. Alone(m, "files") /\ Panics(m, repo) = "no"
    BY <1>5 DEF Alone, Addressed, Panics
  <2>3. /\ t.repo = s.repo /\ t.path = s.path /\ t.item = s.item /\ t.shows = s.item
        /\ t.view = "content" /\ t.ref = s.ref
    BY <1>2, <1>5 DEF NewFiles
  <2> HIDE DEF t
  <2>4. /\ dead' = "no" /\ UNCHANGED <<layout, page, repo>> /\ panes'["files"] = t
        /\ cmds' = EmptyBag /\ msgs' = EmptyBag
        /\ Steady({"files"})' /\ On("files")'
        /\ Fits("files", t) => Fits("files", panes["files"])'
        /\ Done("files", t) => Done("files", panes["files"])'
    <3>1. UpdatePane("files", s, m) = After(t, EmptyBag)
      BY <2>1 DEF UpdatePane
    <3>2. Heard(m, "files", t, EmptyBag) /\ msgs' = EmptyBag
      BY <1>1, <1>5, <2>2, <2>3, <3>1, OneListens
    <3>3. dead' = "no"
      BY <2>2, <3>2 DEF Heard
    <3>4. UNCHANGED <<layout, page, repo>> /\ panes'["files"] = t
      BY <3>2 DEF Heard
    <3>5. Steady({"files"})' /\ On("files")'
      BY <1>1, <3>2 DEF Heard
    <3>6. Fits("files", t) => Fits("files", panes["files"])'
      BY <3>2, <3>4 DEF Heard
    <3>7. Done("files", t) => Done("files", panes["files"])'
      BY <3>2, <3>4 DEF Heard
    <3>8. \A path, j : Here(path, j)' = Here(path, j)
      BY <3>2 DEF Heard
    <3> QED BY <3>2, <3>3, <3>4, <3>5, <3>6, <3>7, <3>8 DEF Heard
  <2>5. Fits("files", t) /\ Done("files", t)
    BY <1>1, <1>5, <2>3 DEF Fits, Done
  <2>6. Steady({})'
    BY <2>4, <2>5, AllStill DEF Settled
  <2>7. Only({}, {})'
    BY <2>4 DEF Only, EmptyBag
  <2> QED BY <1>1, <2>4, <2>6, <2>7, Rested
<1>6. ASSUME NEW k, Ran1(Load(k)), k # "send"
      PROVE  FALSE
  BY <1>6, OnlyRan DEF Load, Cmd
<1> QED
  <2>1. Msg("content", s.item).kind = "content" /\ Msg("content", s.item).of = s.item
        /\ Msg("blame", s.item).kind = "blame" /\ Msg("blame", s.item).of = s.item
    BY DEF Msg
  <2> HIDE DEF s
  <2> QED BY <1>4, <1>5, <1>6, <2>1 DEF Filing, s

-----------------------------------------------------------------------------
(* The commits pane                                                        *)

\* A pick or a diff is read for the commits pane.
LEMMA LoggingRuns ==
    ASSUME World, Logging, dead = "no", RunCommand
    PROVE  dead' = "no" /\ (Logging \/ Reloading)'
<1> DEFINE s == panes["log"]
<1>1. /\ Steady({"log"}) /\ On("log") /\ Fits("log", s)
      /\ Placed /\ AtRef /\ repo.tab = repo.tabs
      /\ Counted(s) /\ s.items = Here(<<>>, s.page)
  BY DEF Logging, Steady, On
<1>2. "log" \in DOMAIN panes
  <2>1. repo.tab \in DOMAIN Tabs /\ Tabs[repo.tab] = "log"
    BY <1>1 DEF On, Placed
  <2> QED BY <2>1, SomeTabs DEF World
<1>3. s.repo = R /\ (s.items = Nowhere <=> repo.ref = None)
  BY <1>1, <1>2, AReference DEF Placed
<1>4. ASSUME UNCHANGED <<layout, page, repo, panes, history>>
      PROVE  /\ Steady({"log"})' /\ On("log")' /\ Fits("log", panes["log"])'
             /\ Counted(panes["log"])'
             /\ panes'["log"].items = Here(<<>>, panes["log"].page)'
  BY <1>1, <1>4, Unmoved DEF Counted, R
<1>5. CASE s.view = "commits" /\ Ran1(Load("pick commit"))
  <2> DEFINE c == Load("pick commit")
  <2>1. c.kind = "pick commit"
    BY DEF Load, Cmd
  <2> HIDE DEF c
  <2>2. /\ UNCHANGED <<layout, page, repo, panes, dead, history>>
        /\ Became(Answers(c))
    BY <1>5, <2>1, RunsAlone DEF NotShown, c
  <2>3. Answers(c) = IF s.items = Nowhere THEN {} ELSE {Msg("select commit", s.items)}
    BY <2>1 DEF Answers, SelectItemCmd
  <2>4. CASE s.items = Nowhere
    <3>1. Only({}, {})'
      BY <2>2, <2>3, <2>4 DEF Became
    <3>2. Done("log", s)
      BY <1>1, <1>5 DEF Done
    <3>3. Settled("log")'
      BY <1>1, <2>2, <3>2, Unmoved DEF Settled
    <3>4. Steady({})' /\ repo'.tab = repo'.tabs
      BY <1>1, <1>4, <2>2, <3>3, AllStill
    <3> QED BY <2>2, <3>1, <3>4, Rested
  <2>5. CASE s.items # Nowhere
    <3>1. Said1(Msg("select commit", s.items))'
      BY <2>2, <2>3, <2>5 DEF Became
    <3> QED BY <1>3, <1>4, <1>5, <2>2, <2>5, <3>1 DEF Logging
  <2> QED BY <2>4, <2>5
<1>6. CASE repo.ref # None /\ s.selected = s.items /\ Ran1(Load("diff"))
  <2> DEFINE c == Load("diff")
  <2>1. c.kind = "diff"
    BY DEF Load, Cmd
  <2> HIDE DEF c
  <2>2. /\ UNCHANGED <<layout, page, repo, panes, dead, history>>
        /\ Became(Answers(c))
    BY <1>6, <2>1, RunsAlone DEF NotShown, c
  <2>3. Answers(c) = {Msg("diff", s.items)}
    <3>1. Answers(c) = loadDiffCmd(s)
      BY <2>1 DEF Answers
    <3>2. s.selected # Nowhere /\ s.selected.repo = s.repo
      BY <1>1, <1>3, <1>6 DEF Here, Place
    <3> QED BY <1>6, <3>1, <3>2 DEF loadDiffCmd
  <2>4. Said1(Msg("diff", s.items))'
    BY <2>2, <2>3 DEF Became
  <2> QED BY <1>4, <1>6, <2>2, <2>4 DEF Logging
<1>7. ASSUME NEW m, Said1(m) \/ Ran1(Send(m))
      PROVE  FALSE
  BY <1>7, OnlySaid
<1> HIDE DEF s
<1> QED BY <1>5, <1>6, <1>7 DEF Logging, s

\* The commits pane handles what was picked or read.
LEMMA LoggingHears ==
    ASSUME World, Logging, dead = "no", DeliverAnswer \/ DeliverSent
    PROVE  dead' = "no" /\ (Logging \/ Reloading)'
<1> DEFINE s == panes["log"]
<1>1. /\ Steady({"log"}) /\ On("log") /\ Fits("log", s)
      /\ Placed /\ AtRef /\ repo.tab = repo.tabs
      /\ Counted(s) /\ s.items = Here(<<>>, s.page)
      /\ repo.tab \in DOMAIN Tabs /\ Tabs[repo.tab] = "log"
  BY DEF Logging, Steady, On, Placed
<1>2. "log" \in DOMAIN panes /\ DOMAIN s = DOMAIN NewLog
  BY <1>1, SomeTabs DEF World, NewPane
<1>3. s.repo = R /\ (s.items = Nowhere <=> repo.ref = None)
  BY <1>1, <1>2, AReference DEF Placed
<1>4. ASSUME NEW m, NEW t, NEW cs, Heard(m, "log", t, cs),
             t.ref = s.ref /\ t.count = s.count /\ t.items = s.items /\ t.page = s.page
      PROVE  /\ Steady({"log"})' /\ On("log")' /\ Fits("log", panes["log"])'
             /\ Counted(panes["log"])'
             /\ panes'["log"].items = Here(<<>>, panes["log"].page)'
             /\ repo' = repo /\ repo'.tab = repo'.tabs
             /\ \A k, u : Done(k, u)' <=> Done(k, u)
  <2>1. /\ Steady({"log"})' /\ On("log")' /\ panes'["log"] = t /\ repo' = repo /\ R' = R
        /\ repo'.tab = repo'.tabs
    BY <1>1, <1>4 DEF Heard
  <2>2. Fits("log", panes["log"])'
    BY <1>1, <1>4, <2>1 DEF Fits
  <2>3. Counted(panes["log"])'
    BY <1>1, <1>4, <2>1 DEF Counted
  <2>4. panes'["log"].items = Here(<<>>, panes["log"].page)'
    BY <1>1, <1>4, <2>1 DEF Here
  <2> QED BY <1>4, <2>1, <2>2, <2>3, <2>4 DEF Heard
<1>5. CASE /\ repo.ref # None /\ s.view = "commits"
           /\ Said1(Msg("select commit", s.items))
  <2> DEFINE m == Msg("select commit", s.items)
             t == [s EXCEPT !.view = "loading"]
             cs == SetToBag({Cmd("send", Msg("commit", s.items))})
  <2>1. /\ m.kind = "select commit" /\ m.of = s.items
    BY DEF Msg
  <2>2. Alone(m, "log") /\ Panics(m, repo) = "no"
    BY <2>1 DEF Alone, Addressed, Panics
  <2>3. UpdatePane("log", s, m) = After(t, cs)
    BY <2>1 DEF UpdatePane, Log, Issues
  <2>4. /\ t.repo = s.repo /\ t.ref = s.ref /\ t.count = s.count
        /\ t.items = s.items /\ t.page = s.page
    BY <1>2 DEF NewLog
  <2>5. Said1(m)
    BY <1>5
  <2> HIDE DEF m, t, cs
  <2>6. Heard(m, "log", t, cs) /\ msgs' = EmptyBag
    BY <1>1, <2>2, <2>3, <2>4, <2>5, OneListens
  <2>7. panes'["log"].items = s.items /\ cmds' = cs /\ dead' = "no"
    BY <2>2, <2>4, <2>6 DEF Heard
  <2>8. Ran1(Send(Msg("commit", panes["log"].items)))'
    BY <2>6, <2>7 DEF Ran1, Only, EmptyBag, Send, cs
  <2> QED BY <1>4, <1>5, <2>4, <2>6, <2>7, <2>8 DEF Logging
<1>6. CASE repo.ref # None /\ Ran1(Send(Msg("commit", s.items)))
  <2> DEFINE m == Msg("commit", s.items)
             t == [s EXCEPT !.selected = s.items]
             cs == SetToBag({Load("diff")})
  <2>1. /\ m.kind = "commit" /\ m.of = s.items
    BY DEF Msg
  <2>2. Alone(m, "log") /\ Panics(m, repo) = "no"
    BY <2>1 DEF Alone, Addressed, Panics
  <2>3. UpdatePane("log", s, m) = After(t, cs)
    BY <2>1 DEF UpdatePane, Log, Issues
  <2>4. /\ t.repo = s.repo /\ t.ref = s.ref /\ t.count = s.count
        /\ t.items = s.items /\ t.page = s.page /\ t.selected = s.items
    BY <1>2 DEF NewLog
  <2>5. Ran1(Send(m))
    BY <1>6
  <2> HIDE DEF m, t, cs
  <2>6. Heard(m, "log", t, cs) /\ msgs' = EmptyBag
    BY <1>1, <2>2, <2>3, <2>4, <2>5, OneListens
  <2>7. panes'["log"].items = s.items /\ cmds' = cs /\ dead' = "no"
        /\ panes'["log"].selected = s.items
    BY <2>2, <2>4, <2>6 DEF Heard
  <2>8. Ran1(Load("diff"))'
    BY <2>6, <2>7 DEF Ran1, Only, EmptyBag, cs
  <2> QED BY <1>4, <1>6, <2>4, <2>6, <2>7, <2>8 DEF Logging
<1>7. CASE repo.ref # None /\ s.selected = s.items /\ Said1(Msg("diff", s.items))
  <2> DEFINE m == Msg("diff", s.items)
             t == [s EXCEPT !.diff = s.items, !.view = "diff"]
  <2>1. /\ m.kind = "diff" /\ m.of = s.items
    BY DEF Msg
  <2>2. Alone(m, "log") /\ Panics(m, repo) = "no"
    BY <1>3, <1>7, <2>1 DEF Alone, Addressed, Panics
  <2>3. UpdatePane("log", s, m) = After(t, EmptyBag)
    BY <2>1 DEF UpdatePane, Log, Same
  <2>4. /\ t.repo = s.repo /\ t.ref = s.ref /\ t.count = s.count
        /\ t.items = s.items /\ t.page = s.page /\ t.selected = s.selected
        /\ t.diff = s.items /\ t.view = "diff"
    BY <1>2 DEF NewLog
  <2>5. Said1(m)
    BY <1>7
  <2> HIDE DEF m, t
  <2>6. Heard(m, "log", t, EmptyBag) /\ msgs' = EmptyBag
    BY <1>1, <2>2, <2>3, <2>4, <2>5, OneListens
  <2>7. panes'["log"] = t /\ cmds' = EmptyBag /\ dead' = "no"
    BY <2>2, <2>6 DEF Heard
  <2>8. Only({}, {})'
    BY <2>6, <2>7 DEF Only, EmptyBag
  <2>9. /\ Steady({"log"})' /\ Fits("log", panes["log"])' /\ Counted(panes["log"])'
        /\ panes'["log"].items = Here(<<>>, panes["log"].page)'
        /\ repo'.tab = repo'.tabs
    BY <1>4, <2>4, <2>6
  <2>10. Done("log", panes["log"])'
    BY <1>7, <2>4, <2>7, <2>9 DEF Done
  <2>11. Reloading'
    BY <2>8, <2>9, <2>10, AllStill, Rested DEF Settled
  <2> QED BY <2>7, <2>11
<1>8. ASSUME NEW k, Ran1(Load(k)), k # "send"
      PROVE  FALSE
  BY <1>8, OnlyRan DEF Load, Cmd
<1> HIDE DEF s
<1> QED BY <1>5, <1>6, <1>7, <1>8 DEF Logging, s

-----------------------------------------------------------------------------
(* The panes of references and of the stash                                *)

\* The answer of a command that is alone.
LEMMA OneSays ==
    ASSUME NEW c, Ran1(c), c.kind # "file", RunCommand
    PROVE  /\ UNCHANGED <<layout, page, repo, panes, dead, history>>
           /\ Answers(c) = {} => Only({}, {})'
           /\ \A m : Answers(c) = {m} => Said1(m)'
<1>1. /\ NotShown(c, Answers(c)) /\ Became(Answers(c))
      /\ UNCHANGED <<layout, page, repo, dead, history>>
  BY RunsAlone
<1>2. panes' = panes
  BY <1>1 DEF NotShown
<1> QED BY <1>1, <1>2 DEF Became

\* A pane that is told something of no consequence.
LEMMA AsBefore ==
    ASSUME Steady({}), NEW m, NEW n, n \in DOMAIN panes, NEW cs,
           Heard(m, n, panes[n], cs)
    PROVE  Steady({})'
<1>1. Settled(n)
  BY DEF Steady, Still
<1>2. panes'[n] = panes[n] /\ Steady({n})'
  BY DEF Heard
<1>3. Fits(n, panes[n])' /\ Done(n, panes[n])'
  BY <1>1, <1>2 DEF Heard, Settled
<1> QED BY <1>2, <1>3, AllStill DEF Settled

\* A reference is picked, and two messages leave the pane.
LEMMA ChoosingStep ==
    ASSUME World, Choosing, dead = "no", RunCommand \/ DeliverAnswer \/ DeliverSent
    PROVE  dead' = "no" /\ (Choosing \/ Moving \/ Reloading)'
<1> DEFINE s == panes["refs"]
<1>1. /\ Steady({}) /\ On("refs") /\ Placed /\ AtRef /\ repo.tab = repo.tabs
      /\ repo.tab \in DOMAIN Tabs /\ Tabs[repo.tab] = "refs" /\ ~history.failed
  BY DEF Choosing, Steady, On, Placed
<1>2. "refs" \in DOMAIN panes /\ DOMAIN s = DOMAIN NewRefs
  BY <1>1, SomeTabs DEF World, NewPane
<1>3. s.items = (IF repo.ref = None THEN Nowhere ELSE Of(R)) /\ R # None
  <2>1. Settled("refs")
    BY <1>1, <1>2 DEF Steady, Still
  <2> QED BY <1>1, <2>1, AReference DEF Settled, Done
<1>4. CASE Ran1(Load("pick ref"))
  <2> DEFINE c == Load("pick ref")
  <2>1. c.kind = "pick ref"
    BY DEF Load, Cmd
  <2>2. RunCommand
    BY <1>4, <2>1, OnlyRan
  <2> HIDE DEF c
  <2>3. /\ UNCHANGED <<layout, page, repo, panes, dead, history>>
        /\ Became(Answers(c))
    BY <1>4, <2>1, <2>2, RunsAlone DEF NotShown, c
  <2>4. Steady({})' /\ On("refs")' /\ repo'.tab = repo'.tabs
    BY <1>1, <2>3, Unmoved
  <2>5. Answers(c) = SelectItemCmd(c)
    BY <2>1 DEF Answers
  <2>6. CASE Only({}, {})'
    BY <2>3, <2>4, <2>6, Rested
  <2>7. ASSUME NEW m \in Answers(c), Said1(m)'
        PROVE  Choosing'
    <3>1. s.items # Nowhere
      BY <2>1, <2>5, <2>7 DEF SelectItemCmd
    <3>2. s.items.repo = R
      BY <1>3, <3>1 DEF Of, Place
    <3>3. PICK b \in BranchesOf[R] : m = Msg("select ref", Place(R, Branch(R, b), <<>>, 0))
      BY <2>1, <2>5, <2>7, <3>1, <3>2 DEF SelectItemCmd
    <3>4. R' = R
      BY <2>3 DEF R
    <3> QED BY <2>4, <2>7, <3>3, <3>4 DEF Choosing
  <2> QED BY <2>3, <2>6, <2>7 DEF Became
<1>5. ASSUME NEW b \in BranchesOf[R],
             Said1(Msg("select ref", Place(R, Branch(R, b), <<>>, 0)))
      PROVE  dead' = "no" /\ Moving'
  <2> DEFINE m == Msg("select ref", Place(R, Branch(R, b), <<>>, 0))
             cs == SetToBag({Cmd("send", Msg("ref", m.of)), Cmd("send", Key("switch tab"))})
  <2>1. m.kind = "select ref" /\ m.of = Place(R, Branch(R, b), <<>>, 0)
    BY DEF Msg
  <2>2. Alone(m, "refs") /\ Panics(m, repo) = "no"
    BY <2>1 DEF Alone, Addressed, Panics
  <2>3. UpdatePane("refs", s, m) = After(s, cs)
    BY <2>1 DEF UpdatePane, Refs
  <2>4. Said1(m) /\ (DeliverAnswer \/ DeliverSent)
    BY <1>5, OnlySaid
  <2>5. cs = SetToBag({Send(Ref(b)), Send(Key("switch tab"))})
    BY <2>1 DEF Ref, Send
  <2> HIDE DEF m, cs
  <2>6. Heard(m, "refs", s, cs) /\ msgs' = EmptyBag
    BY <1>1, <2>2, <2>3, <2>4, OneListens
  <2>7. cmds' = cs /\ dead' = "no" /\ R' = R /\ Placed' /\ repo'.tab = repo'.tabs
        /\ ~history'.failed
    BY <1>1, <2>2, <2>6 DEF Heard
  <2>8. Ref(b)' = Ref(b)
    BY <2>7 DEF Ref
  <2>9. Only({Send(Ref(b)), Send(Key("switch tab"))}, {})'
    BY <2>5, <2>6, <2>7, <2>8 DEF Only, EmptyBag
  <2> QED BY <1>5, <2>7, <2>9 DEF Moving
<1> QED BY <1>4, <1>5 DEF Choosing

\* A stash is picked and its patch shown.
LEMMA StashingStep ==
    ASSUME World, Stashing, dead = "no", RunCommand \/ DeliverAnswer \/ DeliverSent
    PROVE  dead' = "no" /\ (Stashing \/ Reloading)'
<1> DEFINE s == panes["stash"]
<1>1. /\ Steady({}) /\ On("stash") /\ Placed /\ AtRef /\ repo.tab = repo.tabs
      /\ repo.tab \in DOMAIN Tabs /\ Tabs[repo.tab] = "stash"
  BY DEF Stashing, Steady, On, Placed
<1>2. "stash" \in DOMAIN panes /\ DOMAIN s = DOMAIN NewStash
  BY <1>1, SomeTabs DEF World, NewPane
<1>3. ASSUME NEW k, k # "send", k # "file", Ran1(Load(k))
      PROVE  /\ RunCommand
             /\ UNCHANGED <<layout, page, repo, panes, dead, history>>
             /\ Answers(Load(k)) = {} => Only({}, {})'
             /\ \A m : Answers(Load(k)) = {m} => Said1(m)'
             /\ Steady({})' /\ On("stash")' /\ repo'.tab = repo'.tabs
  <2> DEFINE c == Load(k)
  <2>1. c.kind = k
    BY DEF Load, Cmd
  <2>2. RunCommand
    BY <1>3, <2>1, OnlyRan
  <2> HIDE DEF c
  <2>3. /\ UNCHANGED <<layout, page, repo, panes, dead, history>>
        /\ Answers(c) = {} => Only({}, {})'
        /\ \A m : Answers(c) = {m} => Said1(m)'
    BY <1>3, <2>1, <2>2, OneSays DEF c
  <2>4. Steady({})' /\ On("stash")' /\ repo'.tab = repo'.tabs
    BY <1>1, <2>3, Unmoved
  <2> QED BY <2>2, <2>3, <2>4 DEF c
<1>4. CASE Ran1(Load("pick stash"))
  <2>1. \/ Answers(Load("pick stash")) = {}
        \/ Answers(Load("pick stash")) = {Msg("select stash", s.items)} /\ s.items.n # 0
    <3> DEFINE c == Load("pick stash")
    <3>1. c.kind = "pick stash"
      BY DEF Load, Cmd
    <3> HIDE DEF c
    <3>2. Answers(c) = IF s.items = Nowhere THEN {}
                       ELSE IF s.items.n > 0 THEN {Msg("select stash", s.items)} ELSE {}
      BY <3>1 DEF Answers, SelectItemCmd
    <3>3. s.items.n > 0 => s.items.n # 0
      OBVIOUS
    <3> QED BY <3>2, <3>3 DEF c
  <2>2. CASE Only({}, {})'
    BY <1>3, <1>4, <2>2, Rested
  <2>3. CASE Said1(Msg("select stash", s.items))' /\ s.items.n # 0
    BY <1>3, <1>4, <2>3 DEF Stashing
  <2> QED BY <1>3, <1>4, <2>1, <2>2, <2>3
<1>5. CASE s.items.n # 0 /\ Ran1(Load("patch"))
  <2>1. Answers(Load("patch")) = {Msg("patch", s.items)}
    BY DEF Answers, fetchStashPatch, Load, Cmd
  <2> QED BY <1>3, <1>5, <2>1 DEF Stashing
<1>6. CASE s.items.n # 0 /\ Said1(Msg("select stash", s.items))
  <2> DEFINE m == Msg("select stash", s.items)
             cs == SetToBag({Load("patch")})
  <2>1. m.kind = "select stash"
    BY DEF Msg
  <2>2. Alone(m, "stash") /\ Panics(m, repo) = "no"
    BY <2>1 DEF Alone, Addressed, Panics
  <2>3. UpdatePane("stash", s, m) = After(s, cs)
    BY <2>1 DEF UpdatePane, Stash, Issues
  <2>4. Said1(m) /\ (DeliverAnswer \/ DeliverSent)
    BY <1>6, OnlySaid
  <2> HIDE DEF m, cs
  <2>5. Heard(m, "stash", s, cs) /\ msgs' = EmptyBag
    BY <1>1, <2>2, <2>3, <2>4, OneListens
  <2>6. cmds' = cs /\ dead' = "no" /\ panes'["stash"] = s /\ On("stash")' /\ Steady({})'
    BY <1>1, <1>2, <2>2, <2>5, AsBefore DEF Heard
  <2>7. Ran1(Load("patch"))'
    BY <2>5, <2>6 DEF Ran1, Only, EmptyBag, cs
  <2> QED BY <1>6, <2>6, <2>7 DEF Stashing
<1>7. CASE s.items.n # 0 /\ Said1(Msg("patch", s.items))
  <2> DEFINE m == Msg("patch", s.items)
             t == [s EXCEPT !.view = "patch"]
  <2>1. m.kind = "patch"
    BY DEF Msg
  <2>2. Alone(m, "stash") /\ Panics(m, repo) = "no"
    BY <1>7, <2>1 DEF Alone, Addressed, Panics
  <2>3. UpdatePane("stash", s, m) = After(t, EmptyBag)
    BY <2>1 DEF UpdatePane, Stash, Same
  <2>4. Said1(m) /\ (DeliverAnswer \/ DeliverSent)
    BY <1>7, OnlySaid
  <2>5. t.repo = s.repo /\ t.view = "patch"
    BY <1>2 DEF NewStash
  <2> HIDE DEF m, t
  <2>6. Heard(m, "stash", t, EmptyBag) /\ msgs' = EmptyBag
    BY <1>1, <2>2, <2>3, <2>4, <2>5, OneListens
  <2>7. cmds' = EmptyBag /\ dead' = "no" /\ panes'["stash"] = t
        /\ repo'.tab = repo'.tabs /\ Steady({"stash"})'
    BY <1>1, <2>2, <2>6 DEF Heard
  <2>8. Settled("stash")'
    BY <2>5, <2>7 DEF Settled, Fits, Done
  <2>9. Only({}, {})'
    BY <2>6, <2>7 DEF Only, EmptyBag
  <2>10. Reloading'
    BY <2>7, <2>8, <2>9, AllStill, Rested
  <2> QED BY <2>7, <2>10
<1> HIDE DEF s
<1> QED BY <1>4, <1>5, <1>6, <1>7 DEF Stashing, s

-----------------------------------------------------------------------------
(* The tab bar, the footer, and back                                       *)

\* The tab bar shows a pane that is there.
LEMMA ActivePane ==
    ASSUME World, Placed, repo.tab = repo.tabs
    PROVE  /\ On(Tabs[repo.tab]) /\ Tabs[repo.tab] \in DOMAIN panes
           /\ Tabs[repo.tab] \in PaneNames
           /\ DOMAIN panes[Tabs[repo.tab]] = DOMAIN NewPane[Tabs[repo.tab]]
BY SomeTabs DEF World, Placed, On

\* The tab bar asks, and then tells, which tab is active.
LEMMA TabbingStep ==
    ASSUME World, Tabbing, dead = "no", RunCommand \/ DeliverAnswer \/ DeliverSent
    PROVE  dead' = "no" /\ (Tabbing \/ Reloading)'
<1> DEFINE m == Msg("active tab", Place(None, None, <<>>, repo.tabs))
<1>1. /\ Steady({}) /\ Placed /\ page = "repo"
      /\ repo.tab \in DOMAIN Tabs /\ repo.tabs \in DOMAIN Tabs
  BY DEF Tabbing, Steady, Placed
<1>2. CASE Ran1(Load("active tab"))
  <2> DEFINE c == Load("active tab")
  <2>1. c.kind = "active tab" /\ Answers(c) = {m}
    BY DEF Load, Cmd, Answers, activeTabCmd
  <2> HIDE DEF c
  <2>2. RunCommand
    BY <1>2, <2>1, OnlyRan DEF c
  <2>3. UNCHANGED <<layout, page, repo, panes, dead, history>> /\ Said1(m)'
    <3>1. /\ UNCHANGED <<layout, page, repo, panes, dead, history>>
          /\ \A x : Answers(c) = {x} => Said1(x)'
      BY <1>2, <2>1, <2>2, OneSays DEF c
    <3>2. m' = m
      BY <3>1
    <3> HIDE DEF m
    <3> QED BY <2>1, <3>1, <3>2
  <2>4. Steady({})'
    BY <1>1, <2>3, Unmoved
  <2> QED BY <2>3, <2>4 DEF Tabbing
<1>3. CASE Said1(m)
  <2> DEFINE a == Tabs[repo.tabs]
  <2>1. m.kind = "active tab" /\ m.of.n = repo.tabs
    BY DEF Msg, Place
  <2>2. DeliverAnswer \/ DeliverSent
    BY <1>3, OnlySaid
  <2> HIDE DEF m
  <2>3. Deliver(m, EmptyBag) /\ msgs' = EmptyBag
    BY <1>3, <2>2, DeliversAlone
  <2>4. /\ history'.asked = R /\ history'.failed = history.failed /\ Handle(m, EmptyBag)
    BY <2>1, <2>3, Passed
  <2>5. /\ RepoModel(repo, m) = [repo EXCEPT !.tab = repo.tabs]
        /\ RepoCmds(m) = EmptyBag /\ UICmds(m) = EmptyBag /\ Panics(m, repo) = "no"
        /\ ~Leaves(m) /\ m.kind \notin Addressed
    BY <2>1 DEF RepoModel, RepoCmds, UICmds, Panics, Leaves, Addressed
  <2>6. RepoModel(repo, m).tab = repo.tabs /\ RepoModel(repo, m).tabs = repo.tabs
        /\ RepoModel(repo, m).selected = repo.selected
        /\ RepoModel(repo, m).ref = repo.ref /\ RepoModel(repo, m).ready = repo.ready
    BY <2>5 DEF World, RepoFields
  <2>7. a \in PaneNames
    BY <1>1, SomeTabs
  <2>8. UpdatePane(a, panes[a], m) = Same(panes[a])
    BY <2>1, <2>7, Ignores DEF Heeds, PaneNames
  <2>9. /\ layout' = layout /\ page' = page
        /\ repo' = RepoModel(repo, m) /\ dead' = "no"
        /\ a \in DOMAIN panes
        /\ panes' = [panes EXCEPT ![a] = panes[a]]
        /\ cmds' = (EmptyBag (+) EmptyBag) (+) EmptyBag
    <3>1. LET b == Tabs[RepoModel(repo, m).tab]
              u == UpdatePane(b, panes[b], m)
          IN /\ layout' = layout /\ page' = page
             /\ repo' = RepoModel(repo, m) /\ dead' = Panics(m, repo)
             /\ b \in DOMAIN panes
             /\ panes' = [panes EXCEPT ![b] = u.pane]
             /\ IsABag(u.cmds)
             /\ cmds' = (UICmds(m) (+) RepoCmds(m)) (+) u.cmds
      BY <1>1, <2>4, <2>5, <2>6, OneTold, Zenon
    <3>2. Same(panes[a]).pane = panes[a] /\ Same(panes[a]).cmds = EmptyBag
      BY DEF Same, After
    <3> QED BY <2>5, <2>6, <2>8, <3>1, <3>2, Zenon
  <2>10. cmds' = EmptyBag
    <3>1. IsABag(EmptyBag)
      BY BagOfSet DEF EmptyBag
    <3> QED BY <2>9, <3>1, AddingNothing, Zenon
  <2>11. /\ Steady({a})' /\ panes'[a] = panes[a] /\ repo'.tab = repo'.tabs
         /\ Fits(a, panes[a])' /\ Done(a, panes[a])'
    <3>1. Fits(a, panes[a]) /\ Done(a, panes[a])
      BY <1>1, <2>9 DEF Steady, Still, Settled
    <3>2. panes'[a] = panes[a]
      BY <2>9
    <3>3. /\ Steady({})  => Steady({a})'
          /\ \A k, t : Fits(k, t)' <=> Fits(k, t)
          /\ \A k, t : Done(k, t)' <=> Done(k, t)
          /\ Tabs' = Tabs
      <4>1. repo'.tab \in DOMAIN Tabs /\ repo'.tabs \in DOMAIN Tabs
        BY <1>1, <2>6, <2>9
      <4> HIDE DEF a
      <4> QED BY <2>4, <2>6, <2>9, <4>1, OneMoved
    <3>4. a' = a
      BY <2>6, <2>9, <3>3
    <3> HIDE DEF a
    <3> QED BY <1>1, <2>6, <2>9, <3>1, <3>2, <3>3, <3>4
  <2>12. Only({}, {})'
    BY <2>3, <2>10 DEF Only, EmptyBag
  <2>13. Reloading'
    <3>1. Steady({})'
      BY <2>9, <2>11 DEF Steady, Still, Settled
    <3> QED BY <2>11, <2>12, <3>1, Rested
  <2> QED BY <2>9, <2>13
<1> QED BY <1>2, <1>3 DEF Tabbing

\* The footer changes the size, and the commits are read again.
LEMMA FootingStep ==
    ASSUME World, Footing, dead = "no", RunCommand \/ DeliverAnswer \/ DeliverSent
    PROVE  dead' = "no" /\ Reloading'
<1> DEFINE m == Key("footer")
<1>1. /\ Steady({}) /\ Placed /\ AtRef /\ repo.tab = repo.tabs /\ Ran1(Send(m))
  BY DEF Footing, Steady
<1>2. PICK n : n = Tabs[repo.tab]
  OBVIOUS
<1>3. /\ On(n) /\ n \in DOMAIN panes /\ n \in PaneNames
      /\ DOMAIN panes[n] = DOMAIN NewPane[n]
  BY <1>1, <1>2, ActivePane
<1>4. m.kind = "footer"
  BY DEF Key, Msg
<1> HIDE DEF m
<1>5. Alone(m, n) /\ Panics(m, repo) = "no" /\ (DeliverAnswer \/ DeliverSent)
  BY <1>1, <1>4, OnlySaid DEF Alone, Addressed, Panics
<1>6. CASE n = "log"
  <2> DEFINE cs == SetToBag({Load("commits")})
  <2>1. UpdatePane(n, panes[n], m) = After(panes[n], cs)
    BY <1>4, <1>6 DEF UpdatePane, Log, Issues
  <2> HIDE DEF cs
  <2>2. Heard(m, n, panes[n], cs) /\ msgs' = EmptyBag
    BY <1>1, <1>3, <1>5, <2>1, OneListens
  <2>3. /\ Steady({})' /\ cmds' = cs /\ dead' = "no" /\ repo'.tab = repo'.tabs
        /\ n \in DOMAIN panes'
    BY <1>1, <1>3, <1>5, <2>2, AsBefore DEF Heard
  <2>4. Ran1(Load("commits"))'
    BY <2>2, <2>3 DEF Ran1, Only, EmptyBag, cs
  <2>5. Steady({n})' /\ Fits(n, panes[n])' /\ Done(n, panes[n])'
    BY <2>3 DEF Steady, Still, Settled
  <2>6. Counted(panes["log"])'
    BY <1>6, <2>5 DEF Done
  <2>7. "commits" \in DOMAIN LoadOf /\ LoadOf["commits"] = "log"
    BY DEF LoadOf
  <2>8. Reloading'
    BY <1>6, <2>3, <2>4, <2>5, <2>6, <2>7, OneWaits
  <2> QED BY <2>3, <2>8
<1>7. CASE n # "log"
  <2>1. UpdatePane(n, panes[n], m) = After(panes[n], EmptyBag)
    BY <1>3, <1>4, <1>7, Ignores DEF Heeds, PaneNames, Same
  <2>2. Heard(m, n, panes[n], EmptyBag) /\ msgs' = EmptyBag
    BY <1>1, <1>3, <1>5, <2>1, OneListens
  <2>3. /\ Steady({})' /\ cmds' = EmptyBag /\ dead' = "no" /\ repo'.tab = repo'.tabs
    BY <1>1, <1>3, <1>5, <2>2, AsBefore DEF Heard
  <2>4. Only({}, {})'
    BY <2>2, <2>3 DEF Only, EmptyBag
  <2> QED BY <2>3, <2>4, Rested
<1> QED BY <1>6, <1>7

\* The same after a failure of git, whatever the panes show.
LEMMA Tries ==
    ASSUME Placed', repo'.tab = repo'.tabs, history'.failed,
           NEW k \in DOMAIN LoadOf, LoadOf[k] \in DOMAIN panes', Ran1(Load(k))'
    PROVE  Reloading'
<1>1. Load(k).kind = k
  BY DEF Load, Cmd
<1>2. BagToSet(cmds') = {Load(k)} /\ BagToSet(msgs') = {}
  BY BagOfSet DEF Ran1, Only
<1>3. Run(cmds)' \subseteq {k} /\ Awaited' = {}
  <2>1. k # "send"
    BY DEF LoadOf
  <2> QED BY <1>1, <1>2, <2>1 DEF Run, Awaited, Sent
<1>4. Reloads'
  BY <1>3 DEF Reloads
<1> QED BY <1>4 DEF Reloading

Sound == ~history.failed => Steady({})

\* Back, and what the page sends for it.
LEMMA GoesBack ==
    ASSUME World, Placed, repo.tab = repo.tabs, Sound,
           NEW m, m.kind = "go back" \/ m.kind = "back item", Handle(m, EmptyBag),
           history'.asked = R, history'.failed = history.failed, msgs' = EmptyBag
    PROVE  dead' = "no" /\ (GoingBack' \/ Reloading')
<1>1. PICK n : n = Tabs[repo.tab]
  OBVIOUS
<1> DEFINE s == panes[n]
<1>2. /\ On(n) /\ n \in DOMAIN panes /\ n \in PaneNames /\ DOMAIN s = DOMAIN NewPane[n]
  BY <1>1, ActivePane
<1>3. Alone(m, n) /\ Panics(m, repo) = "no"
  BY DEF Alone, Addressed, Panics
<1>4. ASSUME NEW t, NEW cs, UpdatePane(n, s, m) = After(t, cs), t.repo = s.repo
      PROVE  Heard(m, n, t, cs)
  BY <1>2, <1>3, <1>4, OneHears
<1>0. ~history.failed => Steady({})
  BY DEF Sound
<1>5. ASSUME NEW cs, Heard(m, n, s, cs)
      PROVE  /\ dead' = "no" /\ Placed' /\ repo'.tab = repo'.tabs /\ cmds' = cs
             /\ history'.failed = history.failed
             /\ ~history.failed => Steady({})'
  BY <1>0, <1>2, <1>3, <1>5, AsBefore DEF Heard
<1>6. ASSUME NEW t, Heard(m, n, t, EmptyBag), ~history.failed => Fits(n, t) /\ Done(n, t)
      PROVE  dead' = "no" /\ Reloading'
  <2>1. /\ dead' = "no" /\ Placed' /\ repo'.tab = repo'.tabs /\ cmds' = EmptyBag
        /\ history'.failed = history.failed
    BY <1>3, <1>6 DEF Heard
  <2>2. Only({}, {})'
    BY <2>1 DEF Only, EmptyBag
  <2>3. CASE history.failed
    BY <2>1, <2>2, <2>3, GaveUp
  <2>4. CASE ~history.failed
    <3>1. Steady({n})' /\ panes'[n] = t
      BY <1>0, <1>6, <2>4 DEF Heard
    <3>2. Fits(n, panes[n])' /\ Done(n, panes[n])'
      BY <1>6, <2>4, <3>1 DEF Heard
    <3>3. Steady({})'
      BY <3>1, <3>2 DEF Steady, Still, Settled
    <3> QED BY <2>1, <2>2, <3>3, Rested
  <2> QED BY <2>3, <2>4
<1>7. ~history.failed => Fits(n, s) /\ Done(n, s)
  BY <1>0, <1>2 DEF Steady, Still, Settled
<1>8. CASE UpdatePane(n, s, m) = Same(s)
  <2>1. Heard(m, n, s, EmptyBag)
    BY <1>4, <1>8 DEF Same
  <2> HIDE DEF s
  <2> QED BY <1>6, <1>7, <2>1
<1>9. CASE n = "files" /\ s.view # "loading"
  <2> DEFINE t == [s EXCEPT !.path = IF s.path = <<>> THEN <<>> ELSE Front(s.path),
                            !.view = "files", !.blame = FALSE]
             cs == SetToBag({Load("files")})
  <2>1. UpdatePane(n, s, m) = After(t, cs)
    BY <1>9 DEF UpdatePane, FilesPane, Deselect, Issues
  <2>2. DOMAIN s = DOMAIN NewFiles
    BY <1>2, <1>9 DEF NewPane
  <2>3. /\ t.repo = s.repo /\ t.ref = s.ref /\ t.view = "files" /\ t.items = s.items
        /\ t.path = IF s.path = <<>> THEN <<>> ELSE Front(s.path)
    BY <2>2 DEF NewFiles
  <2> HIDE DEF t, cs
  <2>4. Heard(m, n, t, cs)
    BY <1>4, <2>1, <2>3
  <2>5. /\ dead' = "no" /\ Placed' /\ repo'.tab = repo'.tabs /\ cmds' = cs
        /\ history'.failed = history.failed /\ n \in DOMAIN panes' /\ panes'[n] = t
        /\ repo' = repo
    BY <1>3, <2>4 DEF Heard
  <2>6. Ran1(Load("files"))'
    BY <2>5 DEF Ran1, Only, EmptyBag, cs
  <2>7. "files" \in DOMAIN LoadOf /\ LoadOf["files"] = "files"
    BY DEF LoadOf
  <2>8. CASE history.failed
    BY <1>9, <2>5, <2>6, <2>7, <2>8, Tries
  <2>9. CASE ~history.failed
    <3>1. Steady({n})'
      BY <1>0, <2>4, <2>9 DEF Heard
    <3>2. t.path \in Directories /\ t.ref = repo.ref
      <4>1. s.path \in Directories \cup Files /\ s.ref = repo.ref
        BY <1>7, <1>9, <2>9 DEF Fits
      <4> QED BY <2>3, <4>1, PanesAssumption
    <3>3. Fits(n, panes[n])'
      BY <1>9, <2>5, <3>2 DEF Fits
    <3>4. Done(n, panes[n])' \/ Due(n, panes[n])'
      <4>1. CASE repo.ref = None
        <5>1. t.items = Nowhere
          BY <1>7, <1>9, <2>3, <2>9, <4>1 DEF Done, Here
        <5> QED BY <1>9, <2>3, <2>5, <3>2, <4>1, <5>1 DEF Done, Here
      <4>2. CASE repo.ref # None
        <5>1. "files" \in Run(cmds)'
          <6>1. BagToSet(cmds') = {Load("files")}
            BY <2>6, BagOfSet DEF Ran1, Only
          <6>2. Load("files").kind = "files"
            BY DEF Load, Cmd
          <6> QED BY <6>1, <6>2 DEF Run
        <5> QED BY <1>9, <2>5, <3>2, <4>2, <5>1 DEF Due, Loading
      <4> QED BY <4>1, <4>2
    <3>5. Reloading'
      BY <1>9, <2>5, <2>6, <2>7, <3>1, <3>2, <3>3, <3>4, OneWaits
    <3> QED BY <2>5, <3>5
  <2> QED BY <2>8, <2>9, <2>5
<1>10. CASE n = "log" /\ s.view = "diff"
  <2> DEFINE t == [s EXCEPT !.view = "commits", !.selected = Nowhere]
  <2>1. UpdatePane(n, s, m) = After(t, EmptyBag)
    BY <1>10 DEF UpdatePane, Log, LogBack, Same
  <2>2. DOMAIN s = DOMAIN NewLog
    BY <1>2, <1>10 DEF NewPane
  <2>3. /\ t.repo = s.repo /\ t.ref = s.ref /\ t.view = "commits" /\ t.items = s.items
        /\ t.count = s.count /\ t.page = s.page
    BY <2>2 DEF NewLog
  <2> HIDE DEF t
  <2>4. Heard(m, n, t, EmptyBag)
    BY <1>4, <2>1, <2>3
  <2>5. ~history.failed => Fits(n, t) /\ Done(n, t)
    BY <1>7, <1>10, <2>3 DEF Fits, Done, Counted
  <2> HIDE DEF s
  <2> QED BY <1>6, <2>4, <2>5
<1>11. CASE n = "stash" /\ m.kind = "go back"
  <2> DEFINE t == [s EXCEPT !.view = "list"]
  <2>1. UpdatePane(n, s, m) = After(t, EmptyBag)
    BY <1>11 DEF UpdatePane, Stash, Same
  <2>2. DOMAIN s = DOMAIN NewStash
    BY <1>2, <1>11 DEF NewPane
  <2>3. t.repo = s.repo /\ t.view = "list"
    BY <2>2 DEF NewStash
  <2> HIDE DEF t
  <2>4. Heard(m, n, t, EmptyBag)
    BY <1>4, <2>1, <2>3
  <2>5. Fits(n, t) /\ Done(n, t)
    BY <1>11, <2>3 DEF Fits, Done
  <2> HIDE DEF s
  <2> QED BY <1>6, <2>4, <2>5
<1>12. CASE n = "stash" /\ m.kind = "back item" /\ s.view # "loading"
  <2> DEFINE cs == SetToBag({Send(Key("go back"))})
  <2>1. UpdatePane(n, s, m) = After(s, cs)
    BY <1>12 DEF UpdatePane, Stash, Issues, Send
  <2> HIDE DEF cs
  <2>2. Heard(m, n, s, cs)
    BY <1>4, <2>1
  <2>3. /\ dead' = "no" /\ Placed' /\ repo'.tab = repo'.tabs /\ cmds' = cs
        /\ history'.failed = history.failed
        /\ ~history.failed => Steady({})'
    <3> HIDE DEF s
    <3> QED BY <1>5, <2>2
  <2>4. Ran1(Send(Key("go back")))'
    BY <2>3 DEF Ran1, Only, EmptyBag, cs
  <2> QED BY <2>3, <2>4 DEF GoingBack
<1> QED
  <2>1. n \in {"readme", "refs"} => UpdatePane(n, s, m) = Same(s)
    BY Ignores DEF Heeds, PaneNames
  <2>2. n = "files" /\ s.view = "loading" => UpdatePane(n, s, m) = Same(s)
    BY DEF UpdatePane, FilesPane
  <2>3. n = "log" /\ s.view # "diff" => UpdatePane(n, s, m) = Same(s)
    BY DEF UpdatePane, Log, LogBack
  <2>4. n = "stash" /\ m.kind = "back item" /\ s.view = "loading"
          => UpdatePane(n, s, m) = Same(s)
    BY DEF UpdatePane, Stash
  <2> HIDE DEF s
  <2> QED BY <1>2, <1>8, <1>9, <1>10, <1>11, <1>12, <2>1, <2>2, <2>3, <2>4 DEF PaneNames

\* The page tells the active pane to go back.
LEMMA GoingBackStep ==
    ASSUME World, GoingBack, dead = "no", RunCommand \/ DeliverAnswer \/ DeliverSent
    PROVE  dead' = "no" /\ (GoingBack' \/ Reloading')
<1>0. PICK m : m = Key("go back")
  OBVIOUS
<1>1. /\ Placed /\ repo.tab = repo.tabs /\ Ran1(Send(m)) /\ Sound
      /\ m.kind = "go back"
  BY <1>0 DEF GoingBack, Key, Msg, Sound
<1>2. Deliver(m, EmptyBag) /\ msgs' = EmptyBag
  BY <1>1, OnlySaid, DeliversAlone
<1>3. /\ history'.asked = R /\ history'.failed = history.failed /\ Handle(m, EmptyBag)
  BY <1>1, <1>2, Passed
<1> QED BY <1>1, <1>2, <1>3, GoesBack

-----------------------------------------------------------------------------
(* A repository, and its reference, told to every pane                     *)

\* What every pane of the page is told.
LEMMA AllTold ==
    ASSUME World, NEW m, NEW left, IsABag(left), Handle(m, left),
           m.kind = "repo" \/ (page = "repo" /\ (m.kind = "ref" \/ m.kind = "empty")),
           m.kind = "empty" => \A n \in DOMAIN panes : panes[n].repo # None
    PROVE  /\ layout' = layout /\ page' = "repo" /\ dead' = "no" /\ Tabs' = Tabs
           /\ repo' = RepoModel(repo, m)
           /\ panes' = [n \in DOMAIN panes |-> UpdatePane(n, panes[n], m).pane]
           /\ BagToSet(cmds') = BagToSet(left) \cup BagToSet(UICmds(m))
                                    \cup Issued(panes, DOMAIN panes, m)
           /\ Issued(panes, DOMAIN panes, m) = {} => cmds' = left (+) UICmds(m)
<1>1. /\ RepoCmds(m) = EmptyBag /\ Shown(m) = "repo" /\ m.kind # "resize"
      /\ Panics(m, repo) = "no"
  BY DEF RepoCmds, Shown, Leaves, Panics
<1>2. Told(repo, m) = ToSet(Tabs) /\ DOMAIN panes = ToSet(Tabs)
  BY DEF Told, IsFor, World
<1>3. /\ layout' = layout /\ page' = "repo" /\ dead' = "no"
      /\ repo' = RepoModel(repo, m)
      /\ panes' = [n \in DOMAIN panes |-> IF n \in Told(repo, m)
                      THEN UpdatePane(n, panes[n], m).pane ELSE panes[n]]
      /\ BagToSet(cmds') = BagToSet(left) \cup BagToSet(UICmds(m))
             \cup BagToSet(EmptyBag) \cup Issued(panes, DOMAIN panes, m)
      /\ Issued(panes, DOMAIN panes, m) = {} =>
           cmds' = (left (+) UICmds(m)) (+) EmptyBag
  <2>1. /\ layout' = layout /\ page' = Shown(m)
        /\ dead' = IF Shown(m) = "repo" THEN Panics(m, repo) ELSE "no"
        /\ Shown(m) = "repo" =>
             /\ repo' = RepoModel(repo, m)
             /\ panes' = [n \in DOMAIN panes |-> IF n \in Told(repo, m)
                             THEN UpdatePane(n, panes[n], m).pane ELSE panes[n]]
             /\ BagToSet(cmds') = BagToSet(left) \cup BagToSet(UICmds(m))
                    \cup BagToSet(RepoCmds(m)) \cup Issued(panes, Told(repo, m), m)
             /\ Issued(panes, Told(repo, m), m) = {} =>
                  cmds' = (left (+) UICmds(m)) (+) RepoCmds(m)
    BY <1>1, Handled, Zenon
  <2>2. Told(repo, m) = DOMAIN panes
    BY <1>2
  <2>3. /\ layout' = layout /\ page' = "repo" /\ dead' = "no"
        /\ repo' = RepoModel(repo, m)
        /\ panes' = [n \in DOMAIN panes |-> IF n \in Told(repo, m)
                        THEN UpdatePane(n, panes[n], m).pane ELSE panes[n]]
    BY <1>1, <2>1, Zenon
  <2>4. BagToSet(cmds') = BagToSet(left) \cup BagToSet(UICmds(m))
             \cup BagToSet(EmptyBag) \cup Issued(panes, DOMAIN panes, m)
    BY <1>1, <2>1, <2>2, Zenon
  <2>5. Issued(panes, DOMAIN panes, m) = {} =>
           cmds' = (left (+) UICmds(m)) (+) EmptyBag
    BY <1>1, <2>1, <2>2, Zenon
  <2> QED BY <2>3, <2>4, <2>5, Zenon
<1>4. BagToSet(EmptyBag) = {}
  BY BagOfSet DEF EmptyBag
<1>5. IsABag(left (+) UICmds(m))
  BY UIBag, Adding
<1>6. (left (+) UICmds(m)) (+) EmptyBag = left (+) UICmds(m)
  BY <1>5, AddingNothing
<1>7. Issued(panes, DOMAIN panes, m) = {} => cmds' = left (+) UICmds(m)
  BY <1>3, <1>6, Zenon
<1>8. Tabs' = Tabs
  BY <1>3 DEF Tabs
<1>9. BagToSet(cmds') = BagToSet(left) \cup BagToSet(UICmds(m))
                            \cup Issued(panes, DOMAIN panes, m)
  <2> DEFINE a == BagToSet(left)  b == BagToSet(UICmds(m))
             c == Issued(panes, DOMAIN panes, m)  d == BagToSet(EmptyBag)
  <2>1. BagToSet(cmds') = a \cup b \cup d \cup c /\ d = {}
    BY <1>3, <1>4
  <2> HIDE DEF a, b, c, d
  <2>2. BagToSet(cmds') = a \cup b \cup c
    BY <2>1
  <2> QED BY <2>2 DEF a, b, c
<1>10. panes' = [n \in DOMAIN panes |-> UpdatePane(n, panes[n], m).pane]
  BY <1>2, <1>3
<1> QED BY <1>3, <1>7, <1>8, <1>9, <1>10

\* The pages of a repository that has just been opened.
LEMMA RepoHeard ==
    ASSUME World, R \in Repos, NEW left, IsABag(left),
           Handle(Msg("repo", Of(R)), left), history'.asked = R
    PROVE  /\ dead' = "no" /\ layout' = layout /\ R' = R
           /\ Placed' /\ repo'.tab = repo'.tabs
           /\ cmds' = left (+) UICmds(Msg("repo", Of(R)))
<1>1. PICK m : m = Msg("repo", Of(R))
  OBVIOUS
<1>2. m.kind = "repo" /\ m.of.repo = R
  BY <1>1 DEF Msg, Of, Place
<1>3. /\ layout' = layout /\ page' = "repo" /\ dead' = "no" /\ Tabs' = Tabs
      /\ repo' = RepoModel(repo, m)
      /\ panes' = [n \in DOMAIN panes |-> UpdatePane(n, panes[n], m).pane]
      /\ Issued(panes, DOMAIN panes, m) = {} => cmds' = left (+) UICmds(m)
  BY <1>1, <1>2, AllTold, Zenon
<1>4. ASSUME NEW n \in DOMAIN panes
      PROVE  /\ UpdatePane(n, panes[n], m).cmds = EmptyBag
             /\ UpdatePane(n, panes[n], m).pane.repo = R
  <2>1. n \in PaneNames /\ DOMAIN panes[n] = DOMAIN NewPane[n]
    BY <1>4, SomeTabs DEF World
  <2>2. UpdatePane(n, panes[n], m) = Same([panes[n] EXCEPT !.repo = m.of.repo])
    BY <1>2, <2>1 DEF PaneNames, UpdatePane, Readme, FilesPane, Log, Refs, Stash
  <2>3. "repo" \in DOMAIN panes[n]
    BY <2>1 DEF PaneNames, NewPane, NewReadme, NewFiles, NewLog, NewRefs, NewStash
  <2> QED BY <1>2, <2>2, <2>3 DEF Same, After
<1>5. Issued(panes, DOMAIN panes, m) = {}
  <2>1. BagToSet(EmptyBag) = {}
    BY BagOfSet DEF EmptyBag
  <2> QED BY <1>4, <2>1 DEF Issued
<1>6. cmds' = left (+) UICmds(m)
  BY <1>3, <1>5, Zenon
<1>7. /\ repo'.selected = R /\ repo'.tab = 1 /\ repo'.tabs = 1
  BY <1>2, <1>3 DEF RepoModel, World, RepoFields
<1>8. R' = R
  BY DEF R
<1>9. 1 \in DOMAIN Tabs
  BY SomeTabs
<1>10. Placed'
  BY <1>3, <1>4, <1>7, <1>8, <1>9 DEF Placed
<1> QED BY <1>1, <1>3, <1>6, <1>7, <1>8, <1>10, Zenon

\* What a pane reads first at a new reference.
FirstOf == [readme |-> "readme", files |-> "files", log |-> "count",
            refs |-> "refs", stash |-> "stash"]

\* What each pane loads first at a reference.
LEMMA FirstOnes ==
    ASSUME NEW n \in PaneNames
    PROVE  /\ FirstOf[n] \in DOMAIN LoadOf /\ LoadOf[FirstOf[n]] = n
           /\ FirstOf[n] # "send" /\ FirstOf[n] # "commits"
           /\ Load(FirstOf[n]).kind = FirstOf[n]
           /\ FirstOf[n] = IF n = "log" THEN "count" ELSE n
<1>0. Load(FirstOf[n]).kind = FirstOf[n]
  BY DEF Load, Cmd
<1>1. CASE n = "readme"
  BY <1>0, <1>1 DEF FirstOf, LoadOf
<1>2. CASE n = "files"
  BY <1>0, <1>2 DEF FirstOf, LoadOf
<1>3. CASE n = "log"
  BY <1>0, <1>3 DEF FirstOf, LoadOf
<1>4. CASE n = "refs"
  BY <1>0, <1>4 DEF FirstOf, LoadOf
<1>5. CASE n = "stash"
  BY <1>0, <1>5 DEF FirstOf, LoadOf
<1> QED BY <1>1, <1>2, <1>3, <1>4, <1>5 DEF PaneNames

\* A pane told of a reference takes it and loads.
LEMMA RefTold ==
    ASSUME NEW n \in PaneNames, NEW s, DOMAIN s = DOMAIN NewPane[n],
           NEW m, m.kind = "ref"
    PROVE  /\ UpdatePane(n, s, m).pane.repo = s.repo
           /\ BagToSet(UpdatePane(n, s, m).cmds) = {Load(FirstOf[n])}
           /\ n # "stash" => UpdatePane(n, s, m).pane.ref = m.of.ref
           /\ n = "files" => UpdatePane(n, s, m).pane.path = <<>>
<1>1. BagToSet(SetToBag({Load(FirstOf[n])})) = {Load(FirstOf[n])}
  BY BagOfSet
<1>2. /\ UpdatePane(n, s, m).cmds = SetToBag({Load(FirstOf[n])})
      /\ UpdatePane(n, s, m).pane.repo = s.repo
      /\ n # "stash" => UpdatePane(n, s, m).pane.ref = m.of.ref
      /\ n = "files" => UpdatePane(n, s, m).pane.path = <<>>
  <2> USE DEF Issues, After
  <2>1. CASE n = "readme"
    BY <2>1 DEF UpdatePane, Readme, NewPane, NewReadme, FirstOf
  <2>2. CASE n = "files"
    BY <2>2 DEF UpdatePane, FilesPane, NewPane, NewFiles, FirstOf
  <2>3. CASE n = "log"
    BY <2>3 DEF UpdatePane, Log, Reset, NewPane, NewLog, FirstOf
  <2>4. CASE n = "refs"
    BY <2>4 DEF UpdatePane, Refs, NewPane, NewRefs, FirstOf
  <2>5. CASE n = "stash"
    BY <2>5 DEF UpdatePane, Stash, NewPane, NewStash, FirstOf
  <2> QED BY <2>1, <2>2, <2>3, <2>4, <2>5 DEF PaneNames
<1> QED BY <1>1, <1>2

\* A new reference: every pane reads it again.
LEMMA RefHeard ==
    ASSUME World, Placed, repo.tab = repo.tabs, NEW b \in BranchesOf[R],
           NEW left, IsABag(left), Handle(Ref(b), left),
           \A c \in BagToSet(left) :
             c.kind = "send" /\ (c.of = Key("switch tab") \/ \E i \in DOMAIN Tabs : c.of = Tab(i)),
           history'.asked = R, msgs' = EmptyBag
    PROVE  dead' = "no" /\ Reloading'
<1>1. PICK m : m = Ref(b)
  OBVIOUS
<1>2. m.kind = "ref" /\ m.of.ref = Branch(R, b) /\ Branch(R, b) # None
  BY <1>1, PanesAssumption DEF Ref, Msg, Place, Placed
<1>3. /\ layout' = layout /\ page' = "repo" /\ dead' = "no" /\ Tabs' = Tabs
      /\ repo' = RepoModel(repo, m)
      /\ panes' = [n \in DOMAIN panes |-> UpdatePane(n, panes[n], m).pane]
      /\ BagToSet(cmds') = BagToSet(left) \cup BagToSet(UICmds(m))
                               \cup Issued(panes, DOMAIN panes, m)
  BY <1>1, <1>2, AllTold, Zenon DEF Placed
<1>4. ASSUME NEW n \in DOMAIN panes
      PROVE  /\ n \in PaneNames
             /\ panes'[n].repo = R
             /\ BagToSet(UpdatePane(n, panes[n], m).cmds) = {Load(FirstOf[n])}
             /\ n # "stash" => panes'[n].ref = Branch(R, b)
             /\ n = "files" => panes'[n].path = <<>>
  <2>1. n \in PaneNames /\ DOMAIN panes[n] = DOMAIN NewPane[n] /\ panes[n].repo = R
    BY <1>4, SomeTabs DEF World, Placed
  <2>2. /\ UpdatePane(n, panes[n], m).pane.repo = panes[n].repo
        /\ BagToSet(UpdatePane(n, panes[n], m).cmds) = {Load(FirstOf[n])}
        /\ n # "stash" => UpdatePane(n, panes[n], m).pane.ref = m.of.ref
        /\ n = "files" => UpdatePane(n, panes[n], m).pane.path = <<>>
    BY <1>2, <2>1, RefTold
  <2>3. panes'[n] = UpdatePane(n, panes[n], m).pane
    BY <1>3, <1>4
  <2> QED BY <1>2, <2>1, <2>2, <2>3
<1>5. /\ repo'.selected = R /\ repo'.tab = repo.tab /\ repo'.tabs = repo.tabs
      /\ repo'.ref = Branch(R, b) /\ repo'.ready
  BY <1>2, <1>3 DEF RepoModel, World, RepoFields, Placed
<1>6. R' = R /\ DOMAIN panes' = DOMAIN panes
  BY <1>3 DEF R
<1>7. Placed' /\ AtRef' /\ repo'.tab = repo'.tabs
  BY <1>2, <1>3, <1>4, <1>5, <1>6 DEF Placed, AtRef
<1>8. BagToSet(cmds') = BagToSet(left) \cup {Load(FirstOf[n]) : n \in DOMAIN panes}
  <2>1. BagToSet(UICmds(m)) = {}
    BY <1>2, BagOfSet DEF UICmds, EmptyBag
  <2>2. Issued(panes, DOMAIN panes, m) = {Load(FirstOf[n]) : n \in DOMAIN panes}
    <3> DEFINE each(n) == BagToSet(UpdatePane(n, panes[n], m).cmds)
               one(n) == Load(FirstOf[n])
    <3>1. \A n \in DOMAIN panes : each(n) = {one(n)}
      BY <1>4
    <3>2. Issued(panes, DOMAIN panes, m) = UNION {each(n) : n \in DOMAIN panes}
      BY DEF Issued
    <3> HIDE DEF each, one
    <3>3. UNION {each(n) : n \in DOMAIN panes} = {one(n) : n \in DOMAIN panes}
      <4>1. \A x : (\E n \in DOMAIN panes : x \in each(n)) <=> \E n \in DOMAIN panes : x = one(n)
        BY <3>1
      <4> QED BY <4>1
    <3> QED BY <3>2, <3>3 DEF one
  <2> HIDE DEF FirstOf
  <2> QED BY <1>3, <2>1, <2>2
<1>9. \A n \in DOMAIN panes : Load(FirstOf[n]).kind = FirstOf[n] /\ FirstOf[n] # "send"
  BY <1>4, FirstOnes
<1>10. Run(cmds)' = {FirstOf[n] : n \in DOMAIN panes}
  <2> DEFINE one(n) == Load(FirstOf[n])
             name(n) == FirstOf[n]
  <2>1. /\ BagToSet(cmds') = BagToSet(left) \cup {one(n) : n \in DOMAIN panes}
        /\ \A n \in DOMAIN panes : one(n).kind = name(n) /\ name(n) # "send"
        /\ \A c \in BagToSet(left) : c.kind = "send"
    BY <1>8, <1>9
  <2> HIDE DEF one, name
  <2>2. {d \in BagToSet(cmds') : d.kind # "send"} = {one(n) : n \in DOMAIN panes}
    BY <2>1
  <2>3. {c.kind : c \in {one(n) : n \in DOMAIN panes}} = {name(n) : n \in DOMAIN panes}
    BY <2>1
  <2>4. Run(cmds)' = {name(n) : n \in DOMAIN panes}
    BY <2>2, <2>3 DEF Run
  <2> QED BY <2>4 DEF name
<1>11. \A x \in Awaited' : x = Key("switch tab") \/ \E i \in DOMAIN Tabs : x = Tab(i)
  <2>1. BagToSet(msgs') = {}
    BY BagOfSet DEF EmptyBag
  <2>2. \A c \in BagToSet(cmds') : c.kind = "send" => c \in BagToSet(left)
    BY <1>8, <1>9
  <2> QED BY <2>1, <2>2 DEF Awaited, Sent
<1>12. \A x \in Awaited' : /\ x.kind \in {"switch tab", "select tab"}
                           /\ x.kind = "select tab" => x.of.n \in DOMAIN Tabs
  <2>1. Key("switch tab").kind = "switch tab"
    BY DEF Key, Msg
  <2>2. \A i : Tab(i).kind = "select tab" /\ Tab(i).of.n = i
    BY DEF Tab, Msg, Place
  <2> SUFFICES ASSUME NEW x \in Awaited'
               PROVE  /\ x.kind \in {"switch tab", "select tab"}
                      /\ x.kind = "select tab" => x.of.n \in DOMAIN Tabs
    OBVIOUS
  <2>3. CASE x = Key("switch tab")
    BY <2>1, <2>3
  <2>4. ASSUME NEW i \in DOMAIN Tabs, x = Tab(i)
        PROVE  x.kind = "select tab" /\ x.of.n \in DOMAIN Tabs
    BY <2>2, <2>4
  <2> QED BY <1>11, <2>3, <2>4
<1>13. \A n \in DOMAIN panes : FirstOf[n] \in DOMAIN LoadOf /\ LoadOf[FirstOf[n]] = n
  BY <1>4, FirstOnes
<1>14. Reloads'
  BY <1>3, <1>6, <1>7, <1>10, <1>12, <1>13 DEF Reloads
<1>15. \A n \in DOMAIN panes' : Fits(n, panes[n])' /\ Due(n, panes[n])'
  <2> SUFFICES ASSUME NEW n \in DOMAIN panes PROVE Fits(n, panes[n])' /\ Due(n, panes[n])'
    BY <1>6
  <2>1. <<>> \in Directories
    BY PanesAssumption
  <2>2. FirstOf[n] \in Run(cmds)' /\ repo'.ref # None /\ n \in PaneNames
    BY <1>2, <1>4, <1>5, <1>10
  <2>3. Fits(n, panes[n])'
    BY <1>4, <1>5, <2>1 DEF Fits
  <2>4. Due(n, panes[n])'
    <3>1. (IF n = "log" THEN "count" ELSE n) \in Run(cmds)'
      BY <2>2, FirstOnes
    <3> QED BY <1>4, <2>1, <2>2, <3>1 DEF Due, Loading, PaneNames
  <2> QED BY <2>3, <2>4
<1>16. \A x \in Awaited' : Rightly(x)'
  BY <1>12 DEF Rightly
<1>17. "commits" \notin Run(cmds)'
  BY <1>4, <1>10, FirstOnes
<1>18. repo'.ref # None
  BY <1>2, <1>5
<1>20. "files" \in Run(cmds)' => panes'["files"].path \in Directories
  <2>1. \A n \in DOMAIN panes : FirstOf[n] = "files" => n = "files"
    BY <1>4, FirstOnes
  <2> QED BY <1>4, <1>10, <2>1, PanesAssumption
<1>19. Rights'
  BY <1>7, <1>15, <1>16, <1>17, <1>18, <1>20 DEF Rights
<1> QED BY <1>3, <1>14, <1>19 DEF Reloading

\* A repository without a branch: every pane is emptied by its own message.
LEMMA EmptyHeard ==
    ASSUME World, Placed, repo.tab = repo.tabs, BranchesOf[R] = {},
           Handle(Msg("empty", Nowhere), EmptyBag), history'.asked = R, msgs' = EmptyBag
    PROVE  dead' = "no" /\ Reloading'
<1>1. PICK m : m = Msg("empty", Nowhere)
  OBVIOUS
<1> DEFINE sent(k) == Cmd("send", Msg(k, Nowhere))
<1>2. m.kind = "empty" /\ m.of.ref = None /\ R # None
  BY <1>1, PanesAssumption DEF Msg, Nowhere, Place, Placed
<1>3. /\ layout' = layout /\ page' = "repo" /\ dead' = "no" /\ Tabs' = Tabs
      /\ repo' = RepoModel(repo, m)
      /\ panes' = [n \in DOMAIN panes |-> UpdatePane(n, panes[n], m).pane]
      /\ BagToSet(cmds') = BagToSet(EmptyBag) \cup BagToSet(UICmds(m))
                               \cup Issued(panes, DOMAIN panes, m)
  <2>1. IsABag(EmptyBag) /\ \A n \in DOMAIN panes : panes[n].repo # None
    BY <1>2, BagOfSet DEF EmptyBag, Placed
  <2>2. page = "repo" /\ (m.kind = "repo" \/ (page = "repo" /\ (m.kind = "ref" \/ m.kind = "empty")))
    BY <1>2 DEF Placed
  <2> QED BY <1>1, <2>1, <2>2, AllTold, Zenon
<1>4. ASSUME NEW n \in DOMAIN panes
      PROVE  LET p == UpdatePane(n, panes[n], m) IN
             /\ n \in PaneNames
             /\ p.pane.repo = R
             /\ n = "readme" => p.pane.shows = Place(R, None, <<>>, 0)
             /\ n = "files" => p.pane.ref = None /\ p.pane.path = <<>>
             /\ n = "log" => p.pane.ref = None /\ p.pane.count = 0
             /\ BagToSet(p.cmds) = IF n \in {"readme", "stash"} THEN {}
                                   ELSE {sent(IF n = "log" THEN "commits" ELSE n)}
  <2>1. n \in PaneNames /\ DOMAIN panes[n] = DOMAIN NewPane[n] /\ panes[n].repo = R
    BY <1>4, SomeTabs DEF World, Placed
  <2>2. /\ BagToSet(EmptyBag) = {}
        /\ \A c : BagToSet(SetToBag({c})) = {c}
    BY BagOfSet DEF EmptyBag
  <2> HIDE DEF sent
  <2> USE DEF Issues, Same, After
  <2>3. CASE n = "readme"
    BY <1>2, <2>1, <2>2, <2>3 DEF UpdatePane, Readme, NewPane, NewReadme
  <2>4. CASE n = "files"
    BY <1>2, <2>1, <2>2, <2>4 DEF UpdatePane, FilesPane, NewPane, NewFiles, sent
  <2>5. CASE n = "log"
    BY <1>2, <2>1, <2>2, <2>5 DEF UpdatePane, Log, Reset, NewPane, NewLog, sent
  <2>6. CASE n = "refs"
    BY <1>2, <2>1, <2>2, <2>6 DEF UpdatePane, Refs, NewPane, NewRefs, sent
  <2>7. CASE n = "stash"
    BY <1>2, <2>1, <2>2, <2>7 DEF UpdatePane, Stash, NewPane, NewStash
  <2> QED BY <2>1, <2>3, <2>4, <2>5, <2>6, <2>7 DEF PaneNames
<1> HIDE DEF sent
<1>5. /\ repo'.selected = R /\ repo'.tab = repo.tab /\ repo'.tabs = repo.tabs
      /\ repo'.ref = None /\ repo'.ready
  BY <1>2, <1>3 DEF RepoModel, World, RepoFields, Placed
<1>6. R' = R /\ DOMAIN panes' = DOMAIN panes
      /\ \A n \in DOMAIN panes : panes'[n] = UpdatePane(n, panes[n], m).pane
  BY <1>3 DEF R
<1>7. Placed' /\ AtRef' /\ repo'.tab = repo'.tabs
  BY <1>3, <1>4, <1>5, <1>6 DEF Placed, AtRef
<1> DEFINE told == {n \in DOMAIN panes : n \notin {"readme", "stash"}}
           what(n) == IF n = "log" THEN "commits" ELSE n
<1>8. BagToSet(cmds') = {sent(what(n)) : n \in told}
  <2>1. BagToSet(UICmds(m)) = {} /\ BagToSet(EmptyBag) = {}
    BY <1>2, BagOfSet DEF UICmds, EmptyBag
  <2>2. \A n \in DOMAIN panes : BagToSet(UpdatePane(n, panes[n], m).cmds) =
            IF n \in {"readme", "stash"} THEN {} ELSE {sent(what(n))}
    BY <1>4
  <2> HIDE DEF what
  <2> DEFINE each(n) == BagToSet(UpdatePane(n, panes[n], m).cmds)
             one(n) == sent(what(n))
  <2>3. /\ \A n \in DOMAIN panes : each(n) = IF n \in {"readme", "stash"} THEN {} ELSE {one(n)}
        /\ Issued(panes, DOMAIN panes, m) = UNION {each(n) : n \in DOMAIN panes}
    BY <2>2 DEF Issued
  <2> HIDE DEF each, one
  <2>4. UNION {each(n) : n \in DOMAIN panes} = {one(n) : n \in told}
    BY <2>3
  <2> USE DEF one
  <2> QED BY <1>3, <2>1, <2>3, <2>4
<1>9. \A n \in told : /\ sent(what(n)).kind = "send"
                      /\ sent(what(n)).of = Msg(what(n), Nowhere)
  BY DEF sent, Cmd
<1>10. Run(cmds)' = {} /\ Awaited' = {Msg(what(n), Nowhere) : n \in told}
  <2>1. BagToSet(msgs') = {}
    BY BagOfSet DEF EmptyBag
  <2> HIDE DEF told, what
  <2> QED BY <1>8, <1>9, <2>1 DEF Run, Awaited, Sent
<1>11. \A n \in told : /\ n \in {"files", "log", "refs"}
                       /\ Msg(what(n), Nowhere).kind = what(n)
                       /\ Msg(what(n), Nowhere).of = Nowhere
  BY <1>4 DEF Msg, PaneNames
<1>12. \A x \in Awaited' : x.kind \in {"files", "commits", "refs"} /\ x.of = Nowhere
  BY <1>10, <1>11
<1>13. Reloads'
  BY <1>7, <1>10, <1>12 DEF Reloads, LoadOf
<1>14. \A x \in Awaited' : Rightly(x)'
  <2>1. "files" \in DOMAIN panes => panes'["files"].path = <<>>
    BY <1>4, <1>6
  <2>2. <<>> \in Directories
    BY PanesAssumption
  <2>3. \A path, k : Here(path, k)' = Nowhere
    BY <1>5 DEF Here
  <2> QED BY <1>5, <1>6, <1>12, <2>1, <2>2, <2>3 DEF Rightly
<1>15. \A n \in DOMAIN panes' : Fits(n, panes[n])' /\ (Done(n, panes[n])' \/ Due(n, panes[n])')
  <2> SUFFICES ASSUME NEW n \in DOMAIN panes
               PROVE  Fits(n, panes[n])' /\ (Done(n, panes[n])' \/ Due(n, panes[n])')
    BY <1>6
  <2>1. <<>> \in Directories
    BY PanesAssumption
  <2>2. n \in told => \E x \in Awaited' : x.kind = what(n)
    BY <1>10, <1>11
  <2>3. Fits(n, panes[n])'
    BY <1>4, <1>5, <1>6, <2>1 DEF Fits
  <2>4. Done(n, panes[n])' \/ Due(n, panes[n])'
    <3>1. CASE n \in {"readme", "stash"}
      BY <1>4, <1>5, <1>6, <3>1 DEF Done
    <3>2. CASE n = "files"
      BY <1>4, <1>6, <2>1, <2>2, <3>2 DEF Due, Coming
    <3>3. CASE n = "log"
      BY <1>4, <1>5, <1>6, <2>2, <3>3 DEF Due, Coming, Counted
    <3>4. CASE n = "refs"
      BY <2>2, <3>4 DEF Due, Coming
    <3> QED BY <1>4, <3>1, <3>2, <3>3, <3>4 DEF PaneNames
  <2> QED BY <2>3, <2>4
<1>16. Rights'
  BY <1>7, <1>10, <1>14, <1>15 DEF Rights
<1> QED BY <1>3, <1>13, <1>16 DEF Reloading

-----------------------------------------------------------------------------
(* The reference of a repository that was opened                           *)

\* HEAD is a branch of the repository, unless it is empty.
LEMMA HeadAnswers ==
    ASSUME NEW c, c.kind = "HEAD", c.of.repo \in Repos, c.of.repo = R
    PROVE  \/ \E b \in BranchesOf[R] : Answers(c) = {Ref(b)}
           \/ BranchesOf[R] = {} /\ Answers(c) = {Msg("empty", Nowhere)}
<1>1. Answers(c) = UpdateRefCmd(R)
  BY DEF Answers
<1>2. CASE BranchesOf[R] = {}
  BY <1>1, <1>2 DEF UpdateRefCmd
<1>3. CASE BranchesOf[R] # {}
  <2>1. PICK b \in BranchesOf[R] : b = CHOOSE x \in BranchesOf[R] : TRUE
    BY <1>3
  <2>2. HeadOf(R) = Branch(R, b)
    BY <2>1 DEF HeadOf
  <2>3. Answers(c) = {Ref(b)}
    BY <1>1, <1>3, <2>2 DEF UpdateRefCmd, Ref
  <2> QED BY <2>3
<1> QED BY <1>2, <1>3

\* HEAD is read, and every pane is told of it.
LEMMA HeadingStep ==
    ASSUME World, Heading, dead = "no", RunCommand \/ DeliverAnswer \/ DeliverSent
    PROVE  dead' = "no" /\ (Heading' \/ Reloading')
<1>1. Placed /\ repo.tab = repo.tabs /\ R \in Repos /\ repo.selected = R
  BY DEF Heading, Placed
<1>2. repo.selected # None
  BY <1>1, PanesAssumption
<1>3. ASSUME NEW m, Said1(m), m.kind \in {"ref", "empty"}
      PROVE  /\ Handle(m, EmptyBag) /\ msgs' = EmptyBag /\ history'.asked = R
  <2>1. Deliver(m, EmptyBag) /\ msgs' = EmptyBag
    BY <1>3, OnlySaid, DeliversAlone
  <2> QED BY <1>2, <2>1, Passed
<1>4. CASE Ran1(Cmd("HEAD", Of(R)))
  <2>1. PICK c : c = Cmd("HEAD", Of(R))
    OBVIOUS
  <2>2. c.kind = "HEAD" /\ c.of.repo = R
    BY <2>1 DEF Cmd, Of, Place
  <2>3. RunCommand
    BY <1>4, <2>1, <2>2, OnlyRan
  <2>4. /\ UNCHANGED <<layout, page, repo, panes, dead, history>>
        /\ \A m : Answers(c) = {m} => Said1(m)'
    BY <1>4, <2>1, <2>2, <2>3, OneSays
  <2>5. Placed' /\ repo'.tab = repo'.tabs /\ R' = R
    BY <1>1, <2>4, Unmoved
  <2>6. CASE \E b \in BranchesOf[R] : Answers(c) = {Ref(b)}
    <3>1. PICK b \in BranchesOf[R] : Answers(c) = {Ref(b)}
      BY <2>6
    <3>2. PICK m : m = Ref(b)
      OBVIOUS
    <3>3. Said1(m)' /\ m = Ref(b)'
      BY <2>4, <2>5, <3>1, <3>2 DEF Ref
    <3>4. Said1(Ref(b))' /\ b \in BranchesOf[R']
      BY <2>5, <3>3
    <3> QED BY <2>4, <2>5, <3>4 DEF Heading
  <2>7. CASE BranchesOf[R] = {} /\ Answers(c) = {Msg("empty", Nowhere)}
    <3>1. Said1(Msg("empty", Nowhere))' /\ BranchesOf[R'] = {}
      BY <2>4, <2>5, <2>7
    <3> QED BY <2>4, <2>5, <3>1 DEF Heading
  <2> QED BY <1>1, <2>2, <2>6, <2>7, HeadAnswers
<1>5. ASSUME NEW b \in BranchesOf[R], Said1(Ref(b))
      PROVE  dead' = "no" /\ Reloading'
  <2>1. PICK m : m = Ref(b)
    OBVIOUS
  <2>2. m.kind = "ref"
    BY <2>1 DEF Ref, Msg
  <2>3. Handle(m, EmptyBag) /\ msgs' = EmptyBag /\ history'.asked = R
    BY <1>3, <1>5, <2>1, <2>2
  <2>4. IsABag(EmptyBag) /\ BagToSet(EmptyBag) = {}
    BY BagOfSet DEF EmptyBag
  <2>5. Handle(Ref(b), EmptyBag)
    BY <2>1, <2>3
  <2>6. \A c \in BagToSet(EmptyBag) :
          c.kind = "send" /\ (c.of = Key("switch tab") \/ \E i \in DOMAIN Tabs : c.of = Tab(i))
    BY <2>4
  <2> QED BY <1>1, <2>3, <2>4, <2>5, <2>6, RefHeard
<1>6. CASE BranchesOf[R] = {} /\ Said1(Msg("empty", Nowhere))
  <2>1. PICK m : m = Msg("empty", Nowhere)
    OBVIOUS
  <2>2. m.kind = "empty"
    BY <2>1 DEF Msg
  <2>3. Handle(m, EmptyBag) /\ msgs' = EmptyBag /\ history'.asked = R
    BY <1>3, <1>6, <2>1, <2>2
  <2> QED BY <1>1, <1>6, <2>1, <2>3, EmptyHeard
<1> QED BY <1>4, <1>5, <1>6 DEF Heading

-----------------------------------------------------------------------------
(* A repository is opened                                                  *)

\* What the page of repositories does with a message.
LEMMA AtSelection ==
    ASSUME World, page = "selection", NEW m, m.kind # "repo", m.kind # "resize",
           Handle(m, EmptyBag)
    PROVE  /\ UNCHANGED <<layout, page, repo, panes>> /\ dead' = "no"
           /\ cmds' = UICmds(m)
<1>1. IsABag(EmptyBag) /\ EmptyBag (+) UICmds(m) = UICmds(m)
  BY BagOfSet, UIBag, AddingNothing DEF EmptyBag
<1>2. Shown(m) = "selection" /\ Shown(m) # "repo"
  BY DEF Shown, Leaves
<1>3. /\ layout' = layout /\ page' = Shown(m)
      /\ dead' = IF Shown(m) = "repo" THEN Panics(m, repo) ELSE "no"
      /\ Shown(m) # "repo" =>
           repo' = repo /\ panes' = panes /\ cmds' = EmptyBag (+) UICmds(m)
  BY <1>1, Handled, Zenon
<1> QED BY <1>1, <1>2, <1>3

\* A repository is opened: the page of it is shown, and asks for HEAD.
LEMMA OpeningStep ==
    ASSUME World, Opening, dead = "no",
           RunCommand \/ CommandFails \/ DeliverAnswer \/ DeliverSent
    PROVE  dead' = "no" /\ (Opening' \/ Closed' \/ Heading')
<1>1. page = "selection" /\ layout.front = "ssh" /\ R \in Repos
  BY DEF Opening
<1>2. PICK told : told = Msg("repo", Of(R))
  OBVIOUS
<1>3. ASSUME NEW c, c = Cmd("open first", Of(R)) \/ c = Cmd("open", Of(R)), Ran1(c)
      PROVE  dead' = "no" /\ (Opening' \/ Closed')
  <2>1. c.kind \in {"open first", "open"} /\ c.of = Of(R)
    <3>1. \A k, o : Cmd(k, o).kind = k /\ Cmd(k, o).of = o
      BY DEF Cmd
    <3> QED BY <1>3, <3>1, Zenon
  <2>2. RunCommand \/ CommandFails
    BY <1>3, <2>1, OnlyRan
  <2>3. CASE RunCommand
    <3>1. Answers(c) = {told}
      BY <1>2, <2>1 DEF Answers, setRepoCmd
    <3>2. /\ UNCHANGED <<layout, page, dead, history>> /\ Said1(told)'
      BY <1>3, <2>1, <2>3, <3>1, OneSays
    <3>3. R' = R /\ told = Msg("repo", Of(R)')
      BY <1>2, <3>2 DEF R, Of
    <3> QED BY <1>1, <3>2, <3>3 DEF Opening
  <2>4. CASE CommandFails
    <3>1. /\ UNCHANGED <<layout, page, dead>> /\ Became(Failure(c))
          /\ history' = [history EXCEPT !.faults = @ + 1, !.failed = TRUE]
      BY <1>3, <2>4, FailsAlone
    <3>2. R' = R
      BY <3>1 DEF R, World, PastFields
    <3>3. Only({}, {})' \/ Said1(Error)'
      <4>1. Failure(c) \subseteq {Error}
        BY <2>1 DEF Failure
      <4> QED BY <3>1, <4>1 DEF Became
    <3> QED BY <1>1, <3>1, <3>2, <3>3 DEF Opening, Closed
  <2> QED BY <2>2, <2>3, <2>4
<1>4. ASSUME NEW m, Said1(m) \/ Ran1(Send(m)), m.kind \notin {"ref", "empty"}
      PROVE  /\ Handle(m, EmptyBag) /\ msgs' = EmptyBag /\ history'.asked = R
             /\ history'.failed = history.failed
  <2>1. Deliver(m, EmptyBag) /\ msgs' = EmptyBag
    BY <1>4, OnlySaid, DeliversAlone
  <2> QED BY <1>4, <2>1, Passed
<1>5. CASE Ran1(Send(Msg("select repo", Of(R))))
  <2>1. PICK m : m = Msg("select repo", Of(R))
    OBVIOUS
  <2>2. m.kind = "select repo" /\ m.of = Of(R)
    BY <2>1 DEF Msg
  <2>3. Handle(m, EmptyBag) /\ msgs' = EmptyBag /\ history'.asked = R
    BY <1>4, <1>5, <2>1, <2>2
  <2>4. UNCHANGED <<layout, page, repo, panes>> /\ dead' = "no" /\ cmds' = UICmds(m)
    BY <1>1, <2>2, <2>3, AtSelection
  <2>5. UICmds(m) = SetToBag({Cmd("open", Of(R))})
    BY <1>1, <2>2 DEF UICmds, Bag
  <2>6. Of(R)' = Of(R) /\ R' = R
    BY <2>3 DEF R, Of
  <2>7. Ran1(Cmd("open", Of(R)))'
    BY <2>3, <2>4, <2>5, <2>6 DEF Ran1, Only, EmptyBag
  <2> QED BY <1>1, <2>4, <2>6, <2>7 DEF Opening
<1>6. CASE Said1(told)
  <2>1. told.kind = "repo" /\ told.of = Of(R)
    BY <1>2 DEF Msg
  <2>2. Handle(told, EmptyBag) /\ msgs' = EmptyBag /\ history'.asked = R
    BY <1>4, <1>6, <2>1
  <2>3. IsABag(EmptyBag)
    BY BagOfSet DEF EmptyBag
  <2>4. /\ dead' = "no" /\ layout' = layout /\ R' = R
        /\ Placed' /\ repo'.tab = repo'.tabs
        /\ cmds' = EmptyBag (+) UICmds(told)
    BY <1>1, <1>2, <2>2, <2>3, RepoHeard
  <2>5. UICmds(told) = SetToBag({Cmd("HEAD", Of(R))})
    BY <1>1, <2>1 DEF UICmds, Bag
  <2>6. cmds' = SetToBag({Cmd("HEAD", Of(R))})
    BY <2>4, <2>5, BagOfSet, AddingNothing
  <2>7. Ran1(Cmd("HEAD", Of(R)))'
    BY <2>2, <2>4, <2>6 DEF Ran1, Only, EmptyBag, Of
  <2> QED BY <2>4, <2>7 DEF Heading
<1>7. CASE Said1(Error)
  <2>1. PICK m : m = Error
    OBVIOUS
  <2>2. m.kind = "error"
    BY <2>1 DEF Error, Msg
  <2>3. Handle(m, EmptyBag) /\ msgs' = EmptyBag
    BY <1>4, <1>7, <2>1, <2>2
  <2>4. UNCHANGED <<layout, page, repo, panes>> /\ dead' = "no" /\ cmds' = UICmds(m)
    BY <1>1, <2>2, <2>3, AtSelection
  <2>5. UICmds(m) = EmptyBag
    BY <2>2 DEF UICmds
  <2> QED BY <1>1, <2>3, <2>4, <2>5 DEF Closed, Only, EmptyBag
<1> QED BY <1>2, <1>3, <1>5, <1>6, <1>7 DEF Opening

-----------------------------------------------------------------------------
(* Soft browse starts                                                      *)

\* With only messages to send, no command runs.
LEMMA OnlySends ==
    ASSUME NEW cs, NEW ms, Only(cs, ms), \A c \in cs : c.kind = "send"
    PROVE  ~RunCommand /\ ~CommandFails /\ ~CommandPanics
<1>1. \A c \in BagToSet(cmds) : c.kind = "send"
  BY OnlyThose
<1> QED BY <1>1 DEF RunCommand, CommandFails, CommandPanics, Gits, Nil

\* The page is told its repository.
LEMMA FirstTold ==
    ASSUME World, R \in Repos, layout.front = "browse", NEW cs,
           Deliver(Msg("repo", Of(R)), SetToBag(cs))
    PROVE  /\ dead' = "no" /\ R' = R /\ Placed' /\ repo'.tab = repo'.tabs
           /\ cmds' = SetToBag(cs) /\ history'.failed = history.failed
<1>1. PICK m : m = Msg("repo", Of(R))
  OBVIOUS
<1>2. m.kind = "repo"
  BY <1>1 DEF Msg
<1>3. Handle(m, SetToBag(cs)) /\ history'.asked = R /\ history'.failed = history.failed
  BY <1>1, <1>2, Passed
<1>4. IsABag(SetToBag(cs))
  BY BagOfSet
<1>5. UICmds(m) = EmptyBag
  BY <1>2 DEF UICmds
<1>6. SetToBag(cs) (+) EmptyBag = SetToBag(cs)
  BY <1>4, AddingNothing
<1>7. /\ dead' = "no" /\ R' = R /\ Placed' /\ repo'.tab = repo'.tabs
      /\ cmds' = SetToBag(cs) (+) UICmds(m)
  BY <1>1, <1>3, <1>4, RepoHeard
<1> QED BY <1>3, <1>5, <1>6, <1>7

\* Soft browse tells its repository and asks for HEAD, in either order.
LEMMA StartingStep ==
    ASSUME World, Starting, dead = "no",
           RunCommand \/ CommandFails \/ DeliverAnswer \/ DeliverSent
    PROVE  Fine' => dead' = "no" /\ (Starting' \/ Heading' \/ Reloading')
<1>1. /\ page = "repo" /\ layout.front = "browse" /\ R \in Repos
      /\ repo.selected = None /\ repo.tab = 1 /\ repo.tabs = 1
  BY DEF Starting
<1>2. PICK first : first = Send(Msg("repo", Of(R)))
  OBVIOUS
<1>3. PICK head : head = Cmd("HEAD", Of(R))
  OBVIOUS
<1>4. /\ first.kind = "send" /\ first.of = Msg("repo", Of(R))
      /\ head.kind = "HEAD" /\ head.of = Of(R) /\ head.of.repo = R /\ first # head
  BY <1>2, <1>3 DEF Send, Cmd, Of, Place
<1>5. ASSUME NEW m, NEW left, Deliver(m, left), m.kind \in {"ref", "empty"}
      PROVE  ~Fine'
  BY <1>1, <1>5 DEF Deliver, Fine, World, PastFields
<1>6. CASE Only({first, head}, {})
  <2>0. {first, head} \ {head} = {first} /\ {first, head} \ {first} = {head}
    BY <1>4
  <2>1. CASE RunCommand
    <3>1. Took(head, Answers(head), {first, head}, {}) /\ UNCHANGED history
      BY <1>4, <1>6, <2>1, Runs
    <3>2. /\ UNCHANGED <<layout, page, repo, dead, history>> /\ R' = R
          /\ cmds' = SetToBag({first})
      BY <2>0, <3>1 DEF Took, R
    <3>3. \A m : SetToBag({}) (+) SetToBag({m}) = SetToBag({m})
      BY AddingNothing, BagOfSet, Zenon DEF EmptyBag
    <3>4. \A m : Answers(head) = {m} => msgs' = SetToBag({m})
      BY <3>1, <3>3 DEF Took
    <3>5. first = Send(Msg("repo", Of(R)))'
      BY <1>2, <3>2 DEF Of
    <3>6. CASE \E b \in BranchesOf[R] : Answers(head) = {Ref(b)}
      <4>1. PICK b \in BranchesOf[R] : Answers(head) = {Ref(b)}
        BY <3>6
      <4>2. msgs' = SetToBag({Ref(b)'})
        BY <3>2, <3>4, <4>1 DEF Ref
      <4>3. Only({Send(Msg("repo", Of(R)))}, {Ref(b)})' /\ b \in BranchesOf[R']
        BY <3>2, <3>5, <4>2 DEF Only
      <4> QED BY <1>1, <3>2, <4>3 DEF Starting
    <3>7. CASE BranchesOf[R] = {} /\ Answers(head) = {Msg("empty", Nowhere)}
      <4>1. Only({Send(Msg("repo", Of(R)))}, {Msg("empty", Nowhere)})' /\ BranchesOf[R'] = {}
        BY <3>2, <3>4, <3>5, <3>7 DEF Only
      <4> QED BY <1>1, <3>2, <4>1 DEF Starting
    <3> QED BY <1>1, <1>4, <3>6, <3>7, HeadAnswers
  <2>2. CASE CommandFails
    <3>1. /\ Took(head, Failure(head), {first, head}, {})
          /\ history' = [history EXCEPT !.faults = @ + 1, !.failed = TRUE]
      <4>1. first.kind \notin Gits
        BY <1>4 DEF Gits
      <4> QED BY <1>6, <2>2, <4>1, Fails
    <3>2. /\ UNCHANGED <<layout, page, repo, dead>> /\ R' = R /\ history'.failed
          /\ cmds' = SetToBag({first})
      BY <2>0, <3>1 DEF Took, R, World, PastFields
    <3>3. Failure(head) = {Error}
      BY <1>4 DEF Failure
    <3>4. msgs' = SetToBag({Error})
      <4>1. SetToBag({}) (+) SetToBag({Error}) = SetToBag({Error})
        BY AddingNothing, BagOfSet, Zenon DEF EmptyBag
      <4> QED BY <3>1, <3>3, <4>1 DEF Took
    <3>5. first = Send(Msg("repo", Of(R)))'
      BY <1>2, <3>2 DEF Of
    <3>6. Only({Send(Msg("repo", Of(R)))}, {Error})'
      BY <3>2, <3>4, <3>5 DEF Only
    <3> QED BY <1>1, <3>2, <3>6 DEF Starting
  <2>3. CASE DeliverAnswer \/ DeliverSent
    <3>1. Deliver(Msg("repo", Of(R)), SetToBag({head})) /\ msgs' = SetToBag({})
      <4>1. PICK m, left :
              /\ Deliver(m, left)
              /\ \/ m \in {} /\ left = SetToBag({first, head}) /\ msgs' = SetToBag({} \ {m})
                 \/ \E c \in {first, head} :
                      /\ c.kind = "send" /\ m = c.of
                      /\ left = SetToBag({first, head} \ {c}) /\ msgs' = SetToBag({})
        BY <1>6, <2>3, Delivers
      <4>2. head.kind # "send"
        BY <1>4
      <4> QED BY <1>4, <2>0, <4>1, <4>2
    <3>2. /\ dead' = "no" /\ R' = R /\ Placed' /\ repo'.tab = repo'.tabs
          /\ cmds' = SetToBag({head})
      BY <1>1, <3>1, FirstTold
    <3>3. Ran1(Cmd("HEAD", Of(R)))'
      BY <1>3, <3>1, <3>2 DEF Ran1, Only, Of
    <3> QED BY <3>2, <3>3 DEF Heading
  <2> QED BY <2>1, <2>2, <2>3
<1>7. ASSUME NEW ms, Only({first}, ms)
      PROVE  \E m, left :
               /\ Deliver(m, left)
               /\ \/ m \in ms /\ left = SetToBag({first}) /\ msgs' = SetToBag(ms \ {m})
                  \/ /\ m = Msg("repo", Of(R)) /\ left = SetToBag({}) /\ msgs' = SetToBag(ms)
                     /\ dead' = "no" /\ R' = R /\ Placed' /\ repo'.tab = repo'.tabs
                     /\ cmds' = SetToBag({}) /\ history'.failed = history.failed
  <2>1. DeliverAnswer \/ DeliverSent
    BY <1>4, <1>7, OnlySends
  <2>2. PICK m, left :
             /\ Deliver(m, left)
             /\ \/ m \in ms /\ left = SetToBag({first}) /\ msgs' = SetToBag(ms \ {m})
                \/ \E c \in {first} : /\ c.kind = "send" /\ m = c.of
                                 /\ left = SetToBag({first} \ {c}) /\ msgs' = SetToBag(ms)
    BY <1>7, <2>1, Delivers
  <2>3. {first} \ {first} = {}
    OBVIOUS
  <2>4. CASE /\ m = Msg("repo", Of(R)) /\ left = SetToBag({}) /\ msgs' = SetToBag(ms)
    BY <1>1, <2>2, <2>4, FirstTold
  <2> QED BY <1>4, <2>2, <2>3, <2>4
<1>8. CASE \E b \in BranchesOf[R] : Only({first}, {Ref(b)})
  <2>1. PICK b \in BranchesOf[R] : Only({first}, {Ref(b)})
    BY <1>8
  <2>2. PICK r : r = Ref(b)
    OBVIOUS
  <2>3. r.kind = "ref" /\ Only({first}, {r})
    BY <2>1, <2>2 DEF Ref, Msg
  <2>4. SUFFICES ASSUME Fine' PROVE dead' = "no" /\ Heading'
    OBVIOUS
  <2>5. /\ msgs' = SetToBag({r}) /\ dead' = "no" /\ R' = R /\ Placed'
        /\ repo'.tab = repo'.tabs /\ cmds' = SetToBag({})
    BY <1>5, <1>7, <2>3, <2>4
  <2>6. r = Ref(b)' /\ b \in BranchesOf[R']
    BY <2>2, <2>5 DEF Ref
  <2>7. Said1(Ref(b))'
    BY <2>5, <2>6 DEF Said1, Only
  <2> QED BY <2>5, <2>6, <2>7 DEF Heading
<1>9. CASE BranchesOf[R] = {} /\ Only({first}, {Msg("empty", Nowhere)})
  <2>1. Msg("empty", Nowhere).kind = "empty"
    BY DEF Msg
  <2>2. SUFFICES ASSUME Fine' PROVE dead' = "no" /\ Heading'
    OBVIOUS
  <2>3. /\ msgs' = SetToBag({Msg("empty", Nowhere)}) /\ dead' = "no" /\ R' = R /\ Placed'
        /\ repo'.tab = repo'.tabs /\ cmds' = SetToBag({})
    BY <1>5, <1>7, <1>9, <2>1, <2>2
  <2>4. Said1(Msg("empty", Nowhere))' /\ BranchesOf[R'] = {}
    BY <1>9, <2>3 DEF Said1, Only
  <2> QED BY <2>3, <2>4 DEF Heading
<1>10. CASE history.failed /\ Only({first}, {})
  <2>1. /\ msgs' = SetToBag({}) /\ dead' = "no" /\ Placed'
        /\ repo'.tab = repo'.tabs /\ cmds' = SetToBag({}) /\ history'.failed
    <3>1. \E m, left :
            /\ Deliver(m, left)
            /\ \/ m \in {} /\ left = SetToBag({first}) /\ msgs' = SetToBag({} \ {m})
               \/ /\ m = Msg("repo", Of(R)) /\ left = SetToBag({}) /\ msgs' = SetToBag({})
                  /\ dead' = "no" /\ R' = R /\ Placed' /\ repo'.tab = repo'.tabs
                  /\ cmds' = SetToBag({}) /\ history'.failed = history.failed
      BY <1>7, <1>10
    <3> QED BY <1>10, <3>1
  <2>2. Only({}, {})'
    BY <2>1 DEF Only
  <2> QED BY <2>1, <2>2, GaveUp
<1>11. CASE history.failed /\ Only({first}, {Error})
  <2>1. PICK e : e = Error
    OBVIOUS
  <2>2. e.kind = "error" /\ Only({first}, {e})
    BY <1>11, <2>1 DEF Error, Msg
  <2>3. CASE /\ msgs' = SetToBag({e}) /\ dead' = "no" /\ Placed'
             /\ repo'.tab = repo'.tabs /\ cmds' = SetToBag({}) /\ history'.failed
    <3>1. Said1(Error)'
      BY <2>1, <2>3 DEF Said1, Only, Error, Nowhere
    <3> QED BY <2>3, <3>1, GaveUp
  <2>4. CASE Deliver(e, SetToBag({first})) /\ msgs' = SetToBag({})
    <3>1. /\ Handle(e, SetToBag({first})) /\ history'.asked = R
          /\ history'.failed = history.failed
      BY <2>2, <2>4, Passed
    <3>2. IsABag(SetToBag({first})) /\ IsABag(EmptyBag)
      BY BagOfSet DEF EmptyBag
    <3>3. /\ RepoCmds(e) = EmptyBag /\ UICmds(e) = EmptyBag /\ Panics(e, repo) = "no"
          /\ ~Leaves(e) /\ e.kind \notin Addressed
      BY <2>2 DEF RepoCmds, UICmds, Panics, Leaves, Addressed
    <3>4. RepoModel(repo, e) = [repo EXCEPT !.ready = TRUE]
      BY <2>2 DEF RepoModel
    <3>5. /\ RepoModel(repo, e).tab = 1 /\ RepoModel(repo, e).tabs = 1
          /\ RepoModel(repo, e).selected = None
      BY <1>1, <3>4 DEF World, RepoFields
    <3>6. PICK a : a = Tabs[RepoModel(repo, e).tab]
      OBVIOUS
    <3>7. a \in PaneNames /\ 1 \in DOMAIN Tabs
      BY <3>5, <3>6, SomeTabs
    <3>8. UpdatePane(a, panes[a], e) = Same(panes[a])
      BY <2>2, <3>7, Ignores DEF Heeds, PaneNames
    <3>9. /\ layout' = layout /\ page' = page /\ repo' = RepoModel(repo, e) /\ dead' = "no"
          /\ cmds' = ((SetToBag({first}) (+) EmptyBag) (+) EmptyBag) (+) EmptyBag
      <4>1. LET u == UpdatePane(a, panes[a], e)
            IN /\ layout' = layout /\ page' = page
               /\ repo' = RepoModel(repo, e) /\ dead' = Panics(e, repo)
               /\ cmds' = ((SetToBag({first}) (+) UICmds(e)) (+) RepoCmds(e)) (+) u.cmds
        BY <1>1, <3>1, <3>2, <3>3, <3>5, <3>6, <3>7, OneToldBeside, Zenon
      <4>2. Same(panes[a]).cmds = EmptyBag
        BY DEF Same, After
      <4> QED BY <3>3, <3>8, <4>1, <4>2, Zenon
    <3>10. cmds' = SetToBag({first})
      BY <3>2, <3>9, AddingNothing, Zenon
    <3>11. R' = R /\ first = Send(Msg("repo", Of(R)))'
      BY <1>2, <3>1 DEF R, Of
    <3>12. Only({Send(Msg("repo", Of(R)))}, {})'
      BY <2>4, <3>10, <3>11 DEF Only
    <3> QED BY <1>1, <1>11, <3>1, <3>5, <3>9, <3>11, <3>12 DEF Starting
  <2> QED
    <3>1. \E m, left :
               /\ Deliver(m, left)
               /\ \/ m \in {e} /\ left = SetToBag({first}) /\ msgs' = SetToBag({e} \ {m})
                  \/ /\ msgs' = SetToBag({e})
                     /\ dead' = "no" /\ Placed' /\ repo'.tab = repo'.tabs
                     /\ cmds' = SetToBag({}) /\ history'.failed = history.failed
      BY <1>7, <2>2
    <3>2. {e} \ {e} = {}
      OBVIOUS
    <3> QED BY <1>11, <2>3, <2>4, <3>1, <3>2
<1> QED BY <1>2, <1>3, <1>6, <1>8, <1>9, <1>10, <1>11 DEF Starting

-----------------------------------------------------------------------------
(* Messages of the page alone                                              *)

\* An error, and the tab bar's messages: no pane does anything with them.
Bypassed(m, left) ==
    /\ dead' = "no" /\ UNCHANGED <<layout, page>> /\ repo' = RepoModel(repo, m)
    /\ DOMAIN panes' = DOMAIN panes /\ \A n \in DOMAIN panes : panes'[n] = panes[n]
    /\ cmds' = left (+) RepoCmds(m) /\ IsABag(RepoCmds(m))
    /\ Placed' /\ repo'.tab = repo'.tabs /\ (AtRef => AtRef')
    /\ repo'.ref = repo.ref /\ R' = R /\ Tabs' = Tabs
    /\ \A n, s : Fits(n, s)' <=> Fits(n, s)
    /\ \A n \in PaneNames : \A s : Done(n, s)' <=> Done(n, s)
    /\ \A s : Counted(s)' <=> Counted(s)
    /\ \A path, k : Here(path, k)' = Here(path, k)

\* An error and the choice of a tab reach no pane.
LEMMA Bypasses ==
    ASSUME World, Placed, repo.tab = repo.tabs, NEW m, NEW left, IsABag(left),
           Handle(m, left), history'.asked = R,
           m.kind \in {"error", "switch tab", "select tab"},
           m.kind = "select tab" => m.of.n \in DOMAIN Tabs
    PROVE  Bypassed(m, left)
<1>1. /\ page = "repo" /\ repo.tab \in DOMAIN Tabs
      /\ repo.selected = R /\ R \in Repos
  BY DEF Placed
<1>2. /\ UICmds(m) = EmptyBag /\ Panics(m, repo) = "no" /\ ~Leaves(m)
      /\ m.kind \notin Addressed
  BY DEF UICmds, Panics, Leaves, Addressed
<1>3. /\ RepoModel(repo, m).tab = RepoModel(repo, m).tabs
      /\ RepoModel(repo, m).tab \in DOMAIN Tabs
      /\ RepoModel(repo, m).selected = repo.selected
      /\ RepoModel(repo, m).ref = repo.ref
      /\ repo.ready => RepoModel(repo, m).ready
  BY <1>1 DEF RepoModel, World, RepoFields
<1>4. PICK a : a = Tabs[RepoModel(repo, m).tab]
  OBVIOUS
<1>5. a \in PaneNames
  BY <1>3, <1>4, SomeTabs
<1>6. UpdatePane(a, panes[a], m) = Same(panes[a])
  BY <1>5, Ignores DEF Heeds, PaneNames
<1>7. /\ layout' = layout /\ page' = page /\ repo' = RepoModel(repo, m) /\ dead' = "no"
      /\ panes' = [panes EXCEPT ![a] = panes[a]]
      /\ cmds' = ((left (+) EmptyBag) (+) RepoCmds(m)) (+) EmptyBag
  <2>1. LET u == UpdatePane(a, panes[a], m)
        IN /\ layout' = layout /\ page' = page
           /\ repo' = RepoModel(repo, m) /\ dead' = Panics(m, repo)
           /\ panes' = [panes EXCEPT ![a] = u.pane]
           /\ cmds' = ((left (+) UICmds(m)) (+) RepoCmds(m)) (+) u.cmds
    BY <1>1, <1>2, <1>3, <1>4, OneToldBeside, Zenon
  <2>2. Same(panes[a]).cmds = EmptyBag /\ Same(panes[a]).pane = panes[a]
    BY DEF Same, After
  <2> QED BY <1>2, <1>6, <2>1, <2>2, Zenon
<1>8. IsABag(RepoCmds(m))
  BY BagOfSet DEF RepoCmds, EmptyBag, Bag
<1>9. cmds' = left (+) RepoCmds(m)
  <2>1. IsABag(left (+) RepoCmds(m))
    BY <1>8, Adding
  <2> QED BY <1>7, <2>1, AddingNothing, Zenon
<1>10. /\ DOMAIN panes' = DOMAIN panes /\ \A n \in DOMAIN panes : panes'[n] = panes[n]
       /\ R' = R /\ Tabs' = Tabs /\ repo'.ref = repo.ref
  BY <1>3, <1>7 DEF R, Tabs
<1>11. \A path, k : Here(path, k)' = Here(path, k)
  BY <1>3, <1>7, <1>10 DEF Here
<1>12. \A s : Counted(s)' <=> Counted(s)
  BY <1>3, <1>7, <1>10 DEF Counted
<1>13. \A n, s : Fits(n, s)' <=> Fits(n, s)
  BY <1>10 DEF Fits
<1>14. \A n \in PaneNames : \A s : Done(n, s)' <=> Done(n, s)
  <2>1. repo'.ref = repo.ref /\ R' = R
    BY <1>10
  <2> SUFFICES ASSUME NEW n \in PaneNames, NEW s PROVE Done(n, s)' <=> Done(n, s)
    OBVIOUS
  <2>2. CASE n = "readme"
    BY <2>1, <2>2 DEF Done
  <2>3. CASE n = "files"
    BY <2>1, <2>3, <1>11 DEF Done
  <2>4. CASE n = "log"
    BY <2>4, <1>11, <1>12 DEF Done
  <2>5. CASE n = "refs"
    BY <2>1, <2>5 DEF Done
  <2>6. CASE n = "stash"
    BY <2>1, <2>6 DEF Done
  <2> QED BY <2>2, <2>3, <2>4, <2>5, <2>6 DEF PaneNames
<1>15. Placed' /\ (AtRef => AtRef')
  BY <1>3, <1>7, <1>10 DEF Placed, AtRef
<1> QED BY <1>3, <1>7, <1>8, <1>9, <1>10, <1>11, <1>12, <1>13, <1>14, <1>15 DEF Bypassed

\* A switch to the files selects their tabs.
LEMMA Switches ==
    ASSUME NEW m, m.kind = "switch tab"
    PROVE  \E tabs \in SUBSET DOMAIN Tabs : RepoCmds(m) = SetToBag({Send(Tab(i)) : i \in tabs})
<1>1. PICK tabs \in SUBSET DOMAIN Tabs : tabs = {j \in DOMAIN Tabs : Tabs[j] = "files"}
  OBVIOUS
<1>2. RepoCmds(m) = SetToBag({Send(Tab(i)) : i \in tabs})
  BY <1>1 DEF RepoCmds, Bag, Tab
<1> QED BY <1>2

\* A reference was picked: the page is told, and then the tab bar.
LEMMA MovingStep ==
    ASSUME World, Moving, dead = "no", RunCommand \/ DeliverAnswer \/ DeliverSent
    PROVE  dead' = "no" /\ (Moving' \/ Reloading')
<1>1. Placed /\ repo.tab = repo.tabs /\ ~history.failed /\ R \in Repos /\ R # None
      /\ repo.selected # None
  BY PanesAssumption DEF Moving, Placed
<1>2. PICK b \in BranchesOf[R] :
         \/ Only({Send(Ref(b)), Send(Key("switch tab"))}, {})
         \/ \E tabs \in SUBSET DOMAIN Tabs :
              Only({Send(Ref(b))} \cup {Send(Tab(i)) : i \in tabs}, {})
  BY DEF Moving
<1>3. PICK r : r = Ref(b)
  OBVIOUS
<1>4. r.kind = "ref"
  BY <1>3 DEF Ref, Msg
<1> DEFINE sends(tabs) == {Send(Tab(i)) : i \in tabs}
<1>5. \A m : Send(m).kind = "send" /\ Send(m).of = m
  BY DEF Send, Cmd
<1>6. \A i : Tab(i).kind = "select tab" /\ Tab(i).of.n = i
  BY DEF Tab, Msg, Place
<1>7. PICK k : k = Key("switch tab")
  OBVIOUS
<1>8. k.kind = "switch tab"
  BY <1>7 DEF Key, Msg
<1>9. ASSUME NEW cs, Only(cs, {}), \A c \in cs : c.kind = "send"
      PROVE  \E c \in cs :
               /\ Handle(c.of, SetToBag(cs \ {c})) /\ msgs' = EmptyBag
               /\ history'.asked = R /\ history'.failed = history.failed
  <2>1. DeliverAnswer \/ DeliverSent
    BY <1>9, OnlySends
  <2>2. PICK m, left :
          /\ Deliver(m, left)
          /\ \/ m \in {} /\ left = SetToBag(cs) /\ msgs' = SetToBag({} \ {m})
             \/ \E c \in cs : /\ c.kind = "send" /\ m = c.of
                              /\ left = SetToBag(cs \ {c}) /\ msgs' = SetToBag({})
    BY <1>9, <2>1, Delivers
  <2>3. PICK c \in cs : m = c.of /\ left = SetToBag(cs \ {c}) /\ msgs' = SetToBag({})
    BY <2>2
  <2> QED BY <1>1, <2>2, <2>3, Passed DEF EmptyBag
<1>10. ASSUME NEW cs, Handle(r, SetToBag(cs)), msgs' = EmptyBag, history'.asked = R,
              \A c \in cs : c = Send(k) \/ \E i \in DOMAIN Tabs : c = Send(Tab(i))
       PROVE  dead' = "no" /\ Reloading'
  <2>1. IsABag(SetToBag(cs)) /\ BagToSet(SetToBag(cs)) = cs
    BY BagOfSet
  <2>2. Handle(Ref(b), SetToBag(cs))
    BY <1>3, <1>10
  <2>3. \A c \in BagToSet(SetToBag(cs)) :
          c.kind = "send" /\ (c.of = Key("switch tab") \/ \E i \in DOMAIN Tabs : c.of = Tab(i))
    <3> SUFFICES ASSUME NEW c \in cs
                 PROVE  c.kind = "send" /\ (c.of = k \/ \E i \in DOMAIN Tabs : c.of = Tab(i))
      BY <1>7, <2>1
    <3>1. CASE c = Send(k)
      BY <1>5, <3>1
    <3>2. ASSUME NEW i \in DOMAIN Tabs, c = Send(Tab(i))
          PROVE  c.kind = "send" /\ c.of = Tab(i)
      BY <1>5, <3>2
    <3> QED BY <1>10, <3>1, <3>2
  <2> QED BY <1>1, <1>10, <2>1, <2>2, <2>3, RefHeard
<1>11. ASSUME NEW m, NEW left, Bypassed(m, left), history'.failed = history.failed,
              NEW tabs \in SUBSET DOMAIN Tabs, msgs' = EmptyBag,
              cmds' = SetToBag({Send(r)} \cup sends(tabs))
       PROVE  dead' = "no" /\ Moving'
  <2>1. /\ dead' = "no" /\ Placed' /\ repo'.tab = repo'.tabs /\ R' = R /\ Tabs' = Tabs
        /\ ~history'.failed
    BY <1>1, <1>11 DEF Bypassed
  <2>2. r = Ref(b)'
    BY <1>3, <2>1 DEF Ref
  <2>3. Only({Send(Ref(b))} \cup {Send(Tab(i)) : i \in tabs}, {})'
    BY <1>11, <2>2 DEF Only, EmptyBag
  <2> QED BY <1>11, <2>1, <2>3 DEF Moving
<1>12. CASE Only({Send(r), Send(k)}, {})
  <2>1. Send(r) # Send(k)
    BY <1>4, <1>5, <1>8
  <2>2. PICK c \in {Send(r), Send(k)} :
          /\ Handle(c.of, SetToBag({Send(r), Send(k)} \ {c})) /\ msgs' = EmptyBag
          /\ history'.asked = R /\ history'.failed = history.failed
    BY <1>5, <1>9, <1>12
  <2>3. CASE c = Send(r)
    <3>1. {Send(r), Send(k)} \ {c} = {Send(k)}
      BY <2>1, <2>3
    <3> QED BY <1>5, <1>10, <2>2, <2>3, <3>1
  <2>4. CASE c = Send(k)
    <3>1. {Send(r), Send(k)} \ {c} = {Send(r)}
      BY <2>1, <2>4
    <3>2. Handle(k, SetToBag({Send(r)}))
      BY <1>5, <2>2, <2>4, <3>1
    <3>3. Bypassed(k, SetToBag({Send(r)}))
      <4>1. IsABag(SetToBag({Send(r)}))
        BY BagOfSet
      <4> QED BY <1>1, <1>8, <2>2, <3>2, <4>1, Bypasses
    <3>4. PICK tabs \in SUBSET DOMAIN Tabs : RepoCmds(k) = SetToBag(sends(tabs))
      BY <1>8, Switches
    <3>5. {Send(r)} \cap sends(tabs) = {}
      <4>1. \A i : Send(Tab(i)) # Send(r)
        <5>1. \A i : Send(Tab(i)).of.kind = "select tab"
          BY <1>5, <1>6
        <5>2. Send(r).of.kind = "ref"
          BY <1>4, <1>5
        <5> QED BY <5>1, <5>2
      <4> QED BY <4>1
    <3>6. SetToBag({Send(r)}) (+) SetToBag(sends(tabs)) = SetToBag({Send(r)} \cup sends(tabs))
      <4> HIDE DEF sends
      <4> QED BY <3>5, AddingSets
    <3>7. cmds' = SetToBag({Send(r)} \cup sends(tabs))
      BY <3>3, <3>4, <3>6 DEF Bypassed
    <3> HIDE DEF sends
    <3> QED BY <1>11, <2>2, <3>3, <3>7
  <2> QED BY <2>3, <2>4
<1>13. ASSUME NEW tabs \in SUBSET DOMAIN Tabs, Only({Send(r)} \cup sends(tabs), {})
       PROVE  dead' = "no" /\ (Moving' \/ Reloading')
  <2>0. \A c \in {Send(r)} \cup sends(tabs) : c.kind = "send"
    BY <1>5
  <2>1. PICK c \in {Send(r)} \cup sends(tabs) :
          /\ Handle(c.of, SetToBag(({Send(r)} \cup sends(tabs)) \ {c})) /\ msgs' = EmptyBag
          /\ history'.asked = R /\ history'.failed = history.failed
    <3> HIDE DEF sends
    <3> QED BY <1>9, <1>13, <2>0
  <2>2. CASE c = Send(r)
    <3>1. PICK cs : cs = ({Send(r)} \cup sends(tabs)) \ {c}
      OBVIOUS
    <3>2. \A d \in cs : \E i \in DOMAIN Tabs : d = Send(Tab(i))
      BY <2>2, <3>1
    <3> HIDE DEF sends
    <3> QED BY <1>5, <1>10, <2>1, <2>2, <3>1, <3>2
  <2>3. ASSUME NEW i \in tabs, c = Send(Tab(i))
        PROVE  dead' = "no" /\ Moving'
    <3>1. PICK t : t = Tab(i)
      OBVIOUS
    <3>2. t.kind = "select tab" /\ t.of.n \in DOMAIN Tabs /\ c.of = t
      BY <1>5, <1>6, <2>3, <3>1
    <3>3. ({Send(r)} \cup sends(tabs)) \ {c} = {Send(r)} \cup sends(tabs \ {i})
      <4>1. Send(r) # c
        BY <1>4, <1>5, <3>2
      <4>2. \A j : Send(Tab(j)) = c => j = i
        <5>1. \A j : Send(Tab(j)).of.of.n = j
          BY <1>5, <1>6
        <5> QED BY <2>3, <5>1
      <4>3. sends(tabs) \ {c} = sends(tabs \ {i})
        BY <2>3, <4>2
      <4> HIDE DEF sends
      <4> QED BY <4>1, <4>3
    <3>4. PICK cs : cs = {Send(r)} \cup sends(tabs \ {i})
      OBVIOUS
    <3>5. Bypassed(t, SetToBag(cs))
      <4>1. IsABag(SetToBag(cs))
        BY BagOfSet
      <4>2. Handle(t, SetToBag(cs))
        BY <2>1, <3>2, <3>3, <3>4
      <4> HIDE DEF sends
      <4> QED BY <1>1, <2>1, <3>2, <4>1, <4>2, Bypasses
    <3>6. RepoCmds(t) = EmptyBag
      BY <3>2 DEF RepoCmds
    <3>7. cmds' = SetToBag(cs)
      <4>1. SetToBag(cs) (+) EmptyBag = SetToBag(cs)
        BY BagOfSet, AddingNothing
      <4> QED BY <3>5, <3>6, <4>1 DEF Bypassed
    <3> HIDE DEF sends
    <3>8. tabs \ {i} \in SUBSET DOMAIN Tabs
      OBVIOUS
    <3> QED BY <1>11, <2>1, <3>4, <3>5, <3>7, <3>8
  <2> QED BY <2>2, <2>3
<1> QED BY <1>2, <1>3, <1>7, <1>12, <1>13

-----------------------------------------------------------------------------
(* A page that reloads: its commands                                       *)

\* A load answers with what it is called, or with an error.
LEMMA Replies ==
    ASSUME NEW c, c.kind \in DOMAIN LoadOf
    PROVE  \A m \in Answers(c) \cup Failure(c) : m.kind = c.kind \/ m.kind = "error"
<1>0. (\A k, o : Msg(k, o).kind = k) /\ Error.kind = "error"
  BY DEF Msg, Error
<1>1. \A m \in Failure(c) : m.kind = c.kind \/ m.kind = "error"
  BY <1>0 DEF Failure
<1>2. CASE c.kind = "readme"
  BY <1>0, <1>1, <1>2 DEF Answers, updateReadmeCmd
<1>3. CASE c.kind = "files"
  BY <1>0, <1>1, <1>3 DEF Answers, updateFilesCmd
<1>4. CASE c.kind = "count"
  BY <1>0, <1>1, <1>4 DEF Answers, countCommitsCmd, ByName
<1>5. CASE c.kind = "commits"
  BY <1>0, <1>1, <1>5 DEF Answers, updateCommitsCmd, ByName
<1>6. CASE c.kind = "refs"
  BY <1>0, <1>1, <1>6 DEF Answers, updateItemsCmd
<1>7. CASE c.kind = "stash"
  BY <1>0, <1>1, <1>7 DEF Answers, fetchStash
<1> QED BY <1>2, <1>3, <1>4, <1>5, <1>6, <1>7 DEF LoadOf

\* What a command of a pane is answered is what the pane is to show, and it
\* is answered, but for a listing of no reference.
LEMMA RightReplies ==
    ASSUME World, Placed, AtRef, NEW c, c.kind \in DOMAIN LoadOf,
           LoadOf[c.kind] \in DOMAIN panes,
           Fits(LoadOf[c.kind], panes[LoadOf[c.kind]]),
           c.kind \in {"readme", "count", "refs"} => repo.ref # None,
           c.kind = "commits" => Counted(panes["log"]),
           c.kind = "files" => panes["files"].path \in Directories
    PROVE  /\ \A m \in Answers(c) : m.kind = c.kind /\ Rightly(m)
           /\ (c.kind \in {"files", "commits"} => repo.ref # None) => Answers(c) # {}
<1>0. \A k, o : Msg(k, o).kind = k /\ Msg(k, o).of = o
  BY DEF Msg
<1>1. R \in Repos /\ R # None
  BY AReference
<1>2. panes[LoadOf[c.kind]].repo = R
  BY DEF Placed
<1>3. repo.ref # None => \E b \in BranchesOf[R] : repo.ref = Branch(R, b)
  BY DEF AtRef
<1>4. \A path, k : Here(path, k) = IF repo.ref = None THEN Nowhere
                                   ELSE Place(R, repo.ref, path, k)
  BY DEF Here
<1>5. CASE c.kind = "readme"
  <2>1. LoadOf["readme"] = "readme"
    BY DEF LoadOf
  <2>2. panes["readme"].ref = repo.ref /\ panes["readme"].repo = R /\ repo.ref # None
        /\ "readme" \in DOMAIN panes
    BY <1>2, <1>5, <2>1 DEF Fits
  <2>3. Readable(panes["readme"])
    BY <2>2, AReference
  <2>4. Answers(c) = {Msg("readme", Place(R, repo.ref, <<>>, 0))}
    BY <1>1, <1>5, <2>2, <2>3 DEF Answers, updateReadmeCmd
  <2> QED BY <1>0, <1>4, <1>5, <2>2, <2>4 DEF Rightly
<1>6. CASE c.kind = "files"
  <2>1. LoadOf["files"] = "files"
    BY DEF LoadOf
  <2>2. panes["files"].ref = repo.ref /\ panes["files"].repo = R /\ "files" \in DOMAIN panes
        /\ panes["files"].path \in Directories
    BY <1>2, <1>6, <2>1 DEF Fits
  <2>3. Readable(panes["files"]) <=> repo.ref # None
    BY <2>2, AReference DEF Readable
  <2>4. Answers(c) = IF repo.ref = None THEN {}
                     ELSE {Msg("files", Place(R, repo.ref, panes["files"].path, 0))}
    BY <1>6, <2>2, <2>3 DEF Answers, updateFilesCmd
  <2>5. \A m \in Answers(c) : m.kind = "files" /\ m.of = Here(panes["files"].path, 0)
    BY <1>0, <1>4, <2>4
  <2> QED BY <1>6, <2>2, <2>4, <2>5 DEF Rightly
<1>7. ASSUME NEW kind, NEW n, repo.ref # None, "log" \in DOMAIN panes,
             panes["log"].ref = repo.ref, panes["log"].repo = R
      PROVE  ByName(panes["log"], kind, n) = {Msg(kind, Place(R, repo.ref, <<>>, n))}
  <2>1. PICK b \in BranchesOf[R] : repo.ref = Branch(R, b)
    BY <1>3, <1>7
  <2>2. repo.ref[2] = b
    BY <2>1 DEF Branch
  <2> QED BY <1>7, <2>1, <2>2 DEF ByName
<1>8. CASE c.kind = "count"
  <2>1. LoadOf["count"] = "log"
    BY DEF LoadOf
  <2>2. panes["log"].ref = repo.ref /\ panes["log"].repo = R /\ repo.ref # None
        /\ "log" \in DOMAIN panes
    BY <1>2, <1>8, <2>1 DEF Fits
  <2>3. Answers(c) = {Msg("count", Place(R, repo.ref, <<>>, Count[R]))}
    BY <1>7, <1>8, <2>2 DEF Answers, countCommitsCmd
  <2>4. Place(R, repo.ref, <<>>, Count[R]).n = Count[R]
    BY DEF Place
  <2> QED BY <1>0, <1>8, <2>2, <2>3, <2>4 DEF Rightly
<1>9. CASE c.kind = "commits"
  <2>1. LoadOf["commits"] = "log"
    BY DEF LoadOf
  <2>2. panes["log"].ref = repo.ref /\ panes["log"].repo = R /\ "log" \in DOMAIN panes
    BY <1>2, <1>9, <2>1 DEF Fits
  <2>3. CASE repo.ref = None
    BY <1>9, <2>2, <2>3 DEF Answers, updateCommitsCmd
  <2>4. CASE repo.ref # None
    <3>1. panes["log"].count # 0
      BY <1>1, <1>3, <1>9, <2>4, PanesAssumption DEF Counted
    <3>2. Answers(c) = {Msg("commits", Place(R, repo.ref, <<>>, panes["log"].page))}
      BY <1>7, <1>9, <2>2, <2>4, <3>1 DEF Answers, updateCommitsCmd
    <3>3. \A m \in Answers(c) : m.kind = "commits" /\ m.of = Here(<<>>, panes["log"].page)
      BY <1>0, <1>4, <2>4, <3>2
    <3> QED BY <1>9, <3>2, <3>3 DEF Rightly
  <2> QED BY <2>3, <2>4
<1>10. CASE c.kind = "refs"
  <2>1. LoadOf["refs"] = "refs"
    BY DEF LoadOf
  <2>2. Answers(c) = {Msg("refs", Of(R))}
    BY <1>2, <1>10, <2>1 DEF Answers, updateItemsCmd
  <2> QED BY <1>0, <1>10, <2>2 DEF Rightly
<1>11. CASE c.kind = "stash"
  <2>1. LoadOf["stash"] = "stash"
    BY DEF LoadOf
  <2>2. Answers(c) = {Msg("stash", Place(R, None, <<>>, n)) : n \in Stashes}
    BY <1>1, <1>2, <1>11, <2>1 DEF Answers, fetchStash
  <2>3. \A m \in Answers(c) : m.kind = "stash"
    BY <1>0, <2>2
  <2>4. Answers(c) # {}
    BY <2>2, PanesAssumption
  <2>5. \A m \in Answers(c) : Rightly(m)
    BY <2>3 DEF Rightly
  <2> QED BY <1>11, <2>3, <2>4, <2>5
<1> QED BY <1>5, <1>6, <1>8, <1>9, <1>10, <1>11 DEF LoadOf

\* Nothing has moved, and what a pane waits for is under way.
LEMMA StillRight ==
    ASSUME World, Rights, AtRef', DOMAIN panes' = DOMAIN panes,
           \A n \in DOMAIN panes : panes'[n] = panes[n],
           repo'.ref = repo.ref, R' = R,
           \A n, s : Fits(n, s)' <=> Fits(n, s),
           \A n \in PaneNames : \A s : Done(n, s)' <=> Done(n, s),
           \A s : Counted(s)' <=> Counted(s),
           Run(cmds)' \subseteq Run(cmds), \A k \in Run(cmds) : LoadOf[k] \in DOMAIN panes,
           \A x \in Awaited' : x \in Awaited \/ Rightly(x),
           \A x \in Awaited : x.kind \in DOMAIN LoadOf => x \in Awaited',
           \A k \in Run(cmds) \ Run(cmds)' :
             (k \in {"files", "commits"} => repo.ref # None) =>
                 \E x \in Awaited' : x.kind = k
    PROVE  Rights'
<1>1. DOMAIN panes \subseteq PaneNames
  BY SomeTabs DEF World
<1>2. \A x : Rightly(x)' <=> Rightly(x)
  <2>1. \A path, k : Here(path, k)' = Here(path, k)
    BY DEF Here
  <2>2. /\ "files" \in DOMAIN panes => panes'["files"] = panes["files"]
        /\ "log" \in DOMAIN panes => panes'["log"] = panes["log"]
    OBVIOUS
  <2> SUFFICES ASSUME NEW x PROVE Rightly(x)' <=> Rightly(x)
    OBVIOUS
  <2>3. CASE x.kind = "files"
    BY <2>1, <2>2, <2>3 DEF Rightly
  <2>4. CASE x.kind = "commits"
    BY <2>1, <2>2, <2>4 DEF Rightly
  <2>5. CASE x.kind # "files" /\ x.kind # "commits"
    BY <2>1, <2>5 DEF Rightly
  <2> QED BY <2>3, <2>4, <2>5
<1>3. \A x \in Awaited' : Rightly(x)'
  BY <1>2 DEF Rights
<1>4. \A k \in Run(cmds)' :
         /\ k \in {"readme", "count", "refs"} => repo'.ref # None
         /\ k = "commits" => Counted(panes["log"])'
         /\ k = "files" => panes'["files"].path \in Directories
  <2>1. LoadOf["commits"] = "log" /\ LoadOf["files"] = "files"
    BY DEF LoadOf
  <2> QED BY <2>1 DEF Rights
<1>5. \A k \in DOMAIN LoadOf : Coming(k) => Coming(k)'
  BY DEF Coming
<1>6. \A k \in DOMAIN LoadOf :
        (k \in {"files", "commits"} => repo.ref # None) /\ Loading(k) =>
            Loading(k)' \/ Coming(k)'
  BY DEF Coming, Loading
<1>7. ASSUME NEW n \in DOMAIN panes
      PROVE  Fits(n, panes[n])' /\ (Done(n, panes[n])' \/ Due(n, panes[n])')
  <2>1. /\ Fits(n, panes[n])' /\ panes'[n] = panes[n]
        /\ Done(n, panes[n]) => Done(n, panes[n])'
        /\ Done(n, panes[n]) \/ Due(n, panes[n])
    BY <1>1 DEF Rights
  <2>2. ASSUME Due(n, panes[n]) PROVE Due(n, panes[n])'
    <3>1. DOMAIN LoadOf = {"readme", "files", "count", "commits", "refs", "stash"}
      BY DEF LoadOf
    <3>2. CASE n = "readme"
      BY <1>5, <1>6, <2>1, <2>2, <3>1, <3>2 DEF Due
    <3>3. CASE n = "files"
      BY <1>5, <1>6, <2>1, <2>2, <3>1, <3>3 DEF Due
    <3>4. CASE n = "log"
      BY <1>5, <1>6, <2>1, <2>2, <3>1, <3>4 DEF Due
    <3>5. CASE n = "refs"
      BY <1>5, <1>6, <2>1, <2>2, <3>1, <3>5 DEF Due
    <3>6. CASE n = "stash"
      BY <1>5, <1>6, <2>1, <2>2, <3>1, <3>6 DEF Due
    <3> QED BY <1>1, <3>2, <3>3, <3>4, <3>5, <3>6 DEF PaneNames
  <2> QED BY <2>1, <2>2
<1> QED BY <1>3, <1>4, <1>7 DEF Rights

\* What is under way once a command has run.
LEMMA RanLeaves ==
    ASSUME World, NEW c \in BagToSet(cmds), c.kind # "send", NEW answers, Ran(c, answers)
    PROVE  /\ Run(cmds)' \subseteq Run(cmds) /\ Run(cmds) \ {c.kind} \subseteq Run(cmds)'
           /\ Awaited \subseteq Awaited' /\ Awaited' \subseteq Awaited \cup answers
           /\ answers # {} => \E m \in answers : m \in Awaited'
<1>1. /\ BagToSet(cmds') \subseteq BagToSet(cmds)
      /\ BagToSet(cmds) \ {c} \subseteq BagToSet(cmds')
      /\ answers = {} => msgs' = msgs
      /\ answers # {} => \E m \in answers :
           /\ msgs' = msgs (+) Bag({m})
           /\ BagToSet(msgs') = BagToSet(msgs) \cup {m}
  BY RanBags
<1>2. Run(cmds)' \subseteq Run(cmds) /\ Run(cmds) \ {c.kind} \subseteq Run(cmds)'
  BY <1>1 DEF Run
<1>3. Sent(cmds)' = Sent(cmds)
  BY <1>1 DEF Sent
<1>4. CASE answers = {}
  BY <1>1, <1>2, <1>3, <1>4 DEF Awaited
<1>5. CASE answers # {}
  <2>1. PICK m \in answers : BagToSet(msgs') = BagToSet(msgs) \cup {m}
    BY <1>1, <1>5
  <2> QED BY <1>2, <1>3, <1>5, <2>1 DEF Awaited
<1> QED BY <1>4, <1>5

\* A load runs, in any order with the others.
LEMMA ReloadingRuns ==
    ASSUME World, Reloading, dead = "no", RunCommand
    PROVE  dead' = "no" /\ Reloading'
<1>1. PICK c \in BagToSet(cmds) :
        /\ c.kind # "send" /\ Ran(c, Answers(c)) /\ NotShown(c, Answers(c))
        /\ UNCHANGED <<dead, history>>
  BY DEF RunCommand
<1>2. /\ Reloads /\ c.kind \in Run(cmds) /\ Placed /\ repo.tab = repo.tabs
      /\ c.kind \in DOMAIN LoadOf /\ LoadOf[c.kind] \in DOMAIN panes
  BY <1>1 DEF Reloading, Reloads, Run
<1>3. /\ Run(cmds)' \subseteq Run(cmds) /\ Run(cmds) \ {c.kind} \subseteq Run(cmds)'
      /\ Awaited \subseteq Awaited' /\ Awaited' \subseteq Awaited \cup Answers(c)
      /\ Answers(c) # {} => \E m \in Answers(c) : m \in Awaited'
  BY <1>1, RanLeaves
<1>4. UNCHANGED <<layout, page, repo, panes, history>>
  <2>1. c.kind # "file"
    BY <1>2 DEF LoadOf
  <2> QED BY <1>1, <2>1 DEF Ran, NotShown
<1>5. /\ Placed' /\ repo'.tab = repo'.tabs /\ R' = R /\ Tabs' = Tabs
      /\ AtRef' <=> AtRef
      /\ \A n, s : Fits(n, s)' <=> Fits(n, s)
      /\ \A n, s : Done(n, s)' <=> Done(n, s)
  BY <1>2, <1>4, Unmoved
<1>6. Reloads'
  <2>1. \A m \in Answers(c) : m.kind \in DOMAIN LoadOf \cup {"error"}
    BY <1>2, Replies
  <2>2. \A m \in Awaited' :
         /\ m.kind \in DOMAIN LoadOf \cup {"error", "switch tab", "select tab"}
         /\ m.kind = "select tab" => m.of.n \in DOMAIN Tabs
    <3>1. "select tab" \notin DOMAIN LoadOf \cup {"error"}
      BY DEF LoadOf
    <3> QED BY <1>2, <1>3, <2>1, <3>1 DEF Reloads
  <2>3. \A k \in Run(cmds)' : k \in DOMAIN LoadOf /\ LoadOf[k] \in DOMAIN panes'
    BY <1>2, <1>3, <1>4 DEF Reloads
  <2> QED BY <1>5, <2>2, <2>3 DEF Reloads
<1>7. ASSUME Rights, ~history.failed
      PROVE  Rights'
  <2>1. /\ AtRef /\ Fits(LoadOf[c.kind], panes[LoadOf[c.kind]])
        /\ c.kind \in {"readme", "count", "refs"} => repo.ref # None
        /\ c.kind = "commits" => Counted(panes["log"])
        /\ c.kind = "files" => panes["files"].path \in Directories
    BY <1>2, <1>7 DEF Rights
  <2>2. /\ \A m \in Answers(c) : m.kind = c.kind /\ Rightly(m)
        /\ (c.kind \in {"files", "commits"} => repo.ref # None) => Answers(c) # {}
    BY <1>2, <2>1, RightReplies
  <2>3. \A s : Counted(s)' <=> Counted(s)
    BY <1>4, <1>5 DEF Counted
  <2>4. \A k \in Run(cmds) : LoadOf[k] \in DOMAIN panes
    BY <1>2 DEF Reloads
  <2>5. \A k \in Run(cmds) \ Run(cmds)' :
             (k \in {"files", "commits"} => repo.ref # None) =>
                 \E x \in Awaited' : x.kind = k
    BY <1>3, <2>2
  <2> QED BY <1>3, <1>4, <1>5, <1>7, <2>1, <2>2, <2>3, <2>4, <2>5, StillRight
<1> QED BY <1>1, <1>4, <1>6, <1>7 DEF Reloading

\* A load fails.
LEMMA ReloadingFails ==
    ASSUME World, Reloading, dead = "no", CommandFails
    PROVE  dead' = "no" /\ Reloading'
<1>1. PICK c \in BagToSet(cmds) :
        /\ c.kind \in Gits /\ Ran(c, Failure(c)) /\ NotShown(c, Failure(c))
        /\ history' = [history EXCEPT !.faults = @ + 1, !.failed = TRUE]
        /\ UNCHANGED dead
  BY DEF CommandFails
<1>2. c.kind # "send"
  BY <1>1 DEF Gits
<1>3. /\ Reloads /\ c.kind \in Run(cmds) /\ Placed /\ repo.tab = repo.tabs
      /\ c.kind \in DOMAIN LoadOf /\ LoadOf[c.kind] \in DOMAIN panes
  BY <1>2 DEF Reloading, Reloads, Run
<1>4. /\ Run(cmds)' \subseteq Run(cmds)
      /\ Awaited' \subseteq Awaited \cup Failure(c)
  BY <1>1, <1>2, RanLeaves
<1>5. UNCHANGED <<layout, page, repo, panes>> /\ R' = R /\ Tabs' = Tabs /\ history'.failed
  <2>1. c.kind # "file"
    BY <1>3 DEF LoadOf
  <2> QED BY <1>1, <2>1 DEF Ran, NotShown, R, Tabs, World, PastFields
<1>6. Placed'
  BY <1>3, <1>5 DEF Placed
<1>7. \A m \in Awaited' :
         /\ m.kind \in DOMAIN LoadOf \cup {"error", "switch tab", "select tab"}
         /\ m.kind = "select tab" => m.of.n \in DOMAIN Tabs
  <2>1. \A m \in Failure(c) : m.kind \in DOMAIN LoadOf \cup {"error"}
    BY <1>3, Replies
  <2>2. "select tab" \notin DOMAIN LoadOf \cup {"error"}
    BY DEF LoadOf
  <2> QED BY <1>3, <1>4, <2>1, <2>2 DEF Reloads
<1>8. \A k \in Run(cmds)' : k \in DOMAIN LoadOf /\ LoadOf[k] \in DOMAIN panes'
  BY <1>3, <1>4, <1>5 DEF Reloads
<1>9. Reloads'
  BY <1>3, <1>5, <1>6, <1>7, <1>8 DEF Reloads
<1> QED BY <1>1, <1>5, <1>9 DEF Reloading

-----------------------------------------------------------------------------
(* A page that reloads: its messages                                       *)

\* A message of those awaited comes, and the others are awaited still.
LEMMA Reaches ==
    ASSUME World, DeliverAnswer \/ DeliverSent
    PROVE  \E m \in Awaited : \E left :
             /\ Deliver(m, left) /\ IsABag(left) /\ Run(left) = Run(cmds)
             /\ BagToSet(msgs') \cup Sent(left) \subseteq Awaited
             /\ Awaited \ {m} \subseteq BagToSet(msgs') \cup Sent(left)
<1>1. IsABag(cmds) /\ IsABag(msgs)
  BY DEF World
<1>2. CASE DeliverAnswer
  <2>1. PICK m \in BagToSet(msgs) : Deliver(m, cmds) /\ msgs' = msgs (-) SetToBag({m})
    BY <1>2 DEF DeliverAnswer, Bag
  <2>2. /\ BagToSet(msgs') \subseteq BagToSet(msgs)
        /\ BagToSet(msgs) \ {m} \subseteq BagToSet(msgs')
    BY <1>1, <2>1, Taking
  <2> QED BY <1>1, <2>1, <2>2 DEF Awaited
<1>3. CASE DeliverSent
  <2>1. PICK c \in BagToSet(cmds) :
          c.kind = "send" /\ Deliver(c.of, cmds (-) SetToBag({c})) /\ UNCHANGED msgs
    BY <1>3 DEF DeliverSent, Bag
  <2>2. PICK left : left = cmds (-) SetToBag({c})
    OBVIOUS
  <2>3. /\ IsABag(left) /\ BagToSet(left) \subseteq BagToSet(cmds)
        /\ BagToSet(cmds) \ {c} \subseteq BagToSet(left)
    BY <1>1, <2>2, Taking
  <2>4. Run(left) = Run(cmds)
    BY <2>1, <2>3 DEF Run
  <2>5. Sent(left) \subseteq Sent(cmds) /\ Sent(cmds) \ {c.of} \subseteq Sent(left)
    BY <2>1, <2>3 DEF Sent
  <2>6. c.of \in Sent(cmds)
    BY <2>1 DEF Sent
  <2> QED BY <2>1, <2>2, <2>3, <2>4, <2>5, <2>6 DEF Awaited
<1> QED BY <1>2, <1>3

\* An answer of a pane's command is told to the pane, and ignored by others.
LEMMA Loaded ==
    ASSUME World, Placed, NEW m, m.kind \in DOMAIN LoadOf, NEW left, IsABag(left),
           Handle(m, left)
    PROVE  /\ dead' = "no" /\ UNCHANGED <<layout, page, repo>>
           /\ DOMAIN panes' = DOMAIN panes
           /\ \A n \in DOMAIN panes \ {LoadOf[m.kind]} : panes'[n] = panes[n]
           /\ LoadOf[m.kind] \in DOMAIN panes =>
                panes'[LoadOf[m.kind]] =
                    UpdatePane(LoadOf[m.kind], panes[LoadOf[m.kind]], m).pane
           /\ BagToSet(cmds') = BagToSet(left) \cup
                (IF m.kind = "count" /\ "log" \in DOMAIN panes THEN {Load("commits")} ELSE {})
<1> DEFINE owner == LoadOf[m.kind]
           new == IF m.kind = "count" /\ "log" \in DOMAIN panes THEN {Load("commits")} ELSE {}
<1>1. /\ page = "repo" /\ repo.tab \in DOMAIN Tabs
      /\ ToSet(Tabs) \subseteq PaneNames /\ Tabs[repo.tab] \in ToSet(Tabs)
      /\ DOMAIN panes = ToSet(Tabs)
  BY SomeTabs DEF Placed, World
<1>2. /\ DOMAIN LoadOf = {"readme", "files", "count", "commits", "refs", "stash"}
      /\ owner \in PaneNames
      /\ \A n \in PaneNames : IsFor(n, m) <=> n = owner
      /\ \A n \in PaneNames \ {owner} : m.kind \notin Heeds[n]
  <2>1. DOMAIN LoadOf = {"readme", "files", "count", "commits", "refs", "stash"}
    BY DEF LoadOf
  <2>2. \A n \in PaneNames : IsFor(n, m) <=> m.kind \in Owned[n]
    BY <2>1 DEF IsFor
  <2>3. owner \in PaneNames /\ \A n \in PaneNames : m.kind \in Owned[n] <=> n = owner
    BY <2>1 DEF PaneNames, Owned, LoadOf
  <2>4. ASSUME NEW n \in PaneNames \ {owner} PROVE m.kind \notin Heeds[n]
    <3> SUFFICES ASSUME m.kind \in Heeds[n] PROVE LoadOf[m.kind] = n
      OBVIOUS
    <3>0. /\ LoadOf["readme"] = "readme" /\ LoadOf["files"] = "files"
          /\ LoadOf["count"] = "log" /\ LoadOf["commits"] = "log"
          /\ LoadOf["refs"] = "refs" /\ LoadOf["stash"] = "stash"
      BY DEF LoadOf
    <3>1. CASE n = "readme"
      BY <2>1, <3>0, <3>1 DEF Heeds
    <3>2. CASE n = "files"
      BY <2>1, <3>0, <3>2 DEF Heeds
    <3>3. CASE n = "log"
      BY <2>1, <3>0, <3>3 DEF Heeds
    <3>4. CASE n = "refs"
      BY <2>1, <3>0, <3>4 DEF Heeds
    <3>5. CASE n = "stash"
      BY <2>1, <3>0, <3>5 DEF Heeds
    <3> QED BY <3>1, <3>2, <3>3, <3>4, <3>5 DEF PaneNames
  <2> QED BY <2>1, <2>2, <2>3, <2>4
<1>3. /\ RepoModel(repo, m) = repo /\ RepoCmds(m) = EmptyBag /\ UICmds(m) = EmptyBag
      /\ Panics(m, repo) = "no" /\ Shown(m) = "repo" /\ m.kind # "resize"
  BY <1>1, <1>2 DEF RepoModel, RepoCmds, UICmds, Panics, Shown, Leaves
<1>4. BagToSet(EmptyBag) = {}
  BY BagOfSet DEF EmptyBag
<1>5. \A n \in PaneNames \ {owner} : UpdatePane(n, panes[n], m) = Same(panes[n])
  BY <1>2, Ignores
<1>6. \A s : Same(s).pane = s /\ Same(s).cmds = EmptyBag
  BY DEF Same, After
<1>7. Told(repo, m) = {n \in ToSet(Tabs) : n = owner \/ n = Tabs[repo.tab]}
  BY <1>1, <1>2, <1>3 DEF Told
<1>8. BagToSet(UpdatePane(owner, panes[owner], m).cmds) =
        IF m.kind = "count" THEN {Load("commits")} ELSE {}
  <2>1. /\ UpdatePane(owner, panes[owner], m).cmds =
             IF m.kind = "count" THEN SetToBag({Load("commits")}) ELSE EmptyBag
    <3>1. CASE m.kind = "readme"
      BY <3>1 DEF UpdatePane, Readme, LoadOf, Same, After
    <3>2. CASE m.kind = "files"
      BY <3>2 DEF UpdatePane, FilesPane, LoadOf, Same, After
    <3>3. CASE m.kind = "count"
      BY <3>3 DEF UpdatePane, Log, LoadOf, Issues, After
    <3>4. CASE m.kind = "commits"
      BY <3>4 DEF UpdatePane, Log, LoadOf, Same, After
    <3>5. CASE m.kind = "refs"
      BY <3>5 DEF UpdatePane, Refs, LoadOf, Same, After
    <3>6. CASE m.kind = "stash"
      BY <3>6 DEF UpdatePane, Stash, LoadOf, Same, After
    <3> QED BY <1>2, <3>1, <3>2, <3>3, <3>4, <3>5, <3>6
  <2> QED BY <1>4, <2>1, BagOfSet
<1>9. m.kind = "count" => owner = "log"
  BY DEF LoadOf
<1> HIDE DEF owner
<1>10. Issued(panes, Told(repo, m), m) = new
  <2>1. \A n \in PaneNames \ {owner} : BagToSet(UpdatePane(n, panes[n], m).cmds) = {}
    BY <1>4, <1>5, <1>6
  <2>2. owner \in Told(repo, m) <=> owner \in ToSet(Tabs)
    BY <1>7
  <2>3. Told(repo, m) \subseteq PaneNames
    BY <1>1, <1>7
  <2>4. \A c : c \in Issued(panes, Told(repo, m), m) <=>
                 \E n \in Told(repo, m) : c \in BagToSet(UpdatePane(n, panes[n], m).cmds)
    BY DEF Issued
  <2>5. \A c : c \in Issued(panes, Told(repo, m), m) <=>
                 owner \in ToSet(Tabs) /\ m.kind = "count" /\ c = Load("commits")
    BY <1>8, <2>1, <2>2, <2>3, <2>4
  <2> QED BY <1>1, <1>9, <2>5
<1> HIDE DEF new
<1>11. /\ layout' = layout /\ page' = "repo" /\ dead' = "no" /\ repo' = repo
       /\ panes' = [n \in DOMAIN panes |-> IF n \in Told(repo, m)
                       THEN UpdatePane(n, panes[n], m).pane ELSE panes[n]]
       /\ BagToSet(cmds') = BagToSet(left) \cup BagToSet(EmptyBag)
              \cup BagToSet(EmptyBag) \cup Issued(panes, Told(repo, m), m)
  BY <1>3, Handled, Zenon
<1>12. BagToSet(cmds') = BagToSet(left) \cup new
  BY <1>4, <1>10, <1>11
<1>13. \A n \in DOMAIN panes \ {owner} : panes'[n] = panes[n]
  BY <1>1, <1>5, <1>6, <1>11
<1>14. owner \in DOMAIN panes => panes'[owner] = UpdatePane(owner, panes[owner], m).pane
  BY <1>1, <1>7, <1>11
<1> QED BY <1>1, <1>11, <1>12, <1>13, <1>14 DEF owner, new

\* What the page and its reference alone decide.
LEMMA SamePage ==
    ASSUME UNCHANGED repo, R' = R
    PROVE  /\ \A path, k : Here(path, k)' = Here(path, k)
           /\ \A s : Counted(s)' <=> Counted(s)
           /\ \A n, s : Fits(n, s)' <=> Fits(n, s)
           /\ \A n \in PaneNames : \A s : Done(n, s)' <=> Done(n, s)
           /\ AtRef' <=> AtRef
<1>1. /\ \A path, k : Here(path, k)' = Here(path, k)
      /\ \A s : Counted(s)' <=> Counted(s)
      /\ \A n, s : Fits(n, s)' <=> Fits(n, s)
      /\ AtRef' <=> AtRef
  BY DEF Here, Counted, Fits, AtRef
<1>2. \A n \in PaneNames : \A s : Done(n, s)' <=> Done(n, s)
  <2> SUFFICES ASSUME NEW n \in PaneNames, NEW s PROVE Done(n, s)' <=> Done(n, s)
    OBVIOUS
  <2>1. repo'.ref = repo.ref
    OBVIOUS
  <2>2. CASE n = "readme"
    BY <2>1, <2>2 DEF Done
  <2>3. CASE n = "files"
    BY <1>1, <2>1, <2>3 DEF Done
  <2>4. CASE n = "log"
    BY <1>1, <2>4 DEF Done
  <2>5. CASE n = "refs"
    BY <2>1, <2>5 DEF Done
  <2>6. CASE n = "stash"
    BY <2>1, <2>6 DEF Done
  <2> QED BY <2>2, <2>3, <2>4, <2>5, <2>6 DEF PaneNames
<1> QED BY <1>1, <1>2

LEMMA Adds ==
    ASSUME NEW B1, NEW B2, NEW cs, BagToSet(B2) = BagToSet(B1) \cup cs
    PROVE  /\ Run(B2) = Run(B1) \cup {c.kind : c \in {d \in cs : d.kind # "send"}}
           /\ Sent(B2) = Sent(B1) \cup {c.of : c \in {d \in cs : d.kind = "send"}}
BY DEF Run, Sent

\* The pane has it then, and the others wait as before.
LEMMA LoadedRight ==
    ASSUME World, Placed, Rights, NEW m \in Awaited, m.kind \in DOMAIN LoadOf,
           NEW left, IsABag(left), Handle(m, left), R' = R,
           Run(cmds)' = Run(cmds) \cup
             (IF m.kind = "count" /\ "log" \in DOMAIN panes THEN {"commits"} ELSE {}),
           Awaited' \subseteq Awaited, Awaited \ {m} \subseteq Awaited',
           \A k \in Run(cmds) : k \in DOMAIN LoadOf /\ LoadOf[k] \in DOMAIN panes
    PROVE  Rights'
<1> DEFINE owner == LoadOf[m.kind]
<1>1. /\ UNCHANGED <<layout, page, repo>> /\ DOMAIN panes' = DOMAIN panes
      /\ \A n \in DOMAIN panes \ {owner} : panes'[n] = panes[n]
      /\ owner \in DOMAIN panes => panes'[owner] = UpdatePane(owner, panes[owner], m).pane
  BY Loaded
<1>2. /\ DOMAIN panes \subseteq PaneNames
      /\ \A n \in DOMAIN panes : DOMAIN panes[n] = DOMAIN NewPane[n]
  BY SomeTabs DEF World
<1>3. /\ DOMAIN LoadOf = {"readme", "files", "count", "commits", "refs", "stash"}
      /\ LoadOf["readme"] = "readme" /\ LoadOf["files"] = "files"
      /\ LoadOf["count"] = "log" /\ LoadOf["commits"] = "log"
      /\ LoadOf["refs"] = "refs" /\ LoadOf["stash"] = "stash"
  BY DEF LoadOf
<1>4. \A s : Same(s).pane = s /\ Same(s).cmds = EmptyBag
  BY DEF Same, After
<1>5. /\ \A path, k : Here(path, k)' = Here(path, k)
      /\ \A s : Counted(s)' <=> Counted(s)
      /\ \A n, s : Fits(n, s)' <=> Fits(n, s)
      /\ AtRef' <=> AtRef
  BY <1>1, SamePage
<1>6. \A n \in PaneNames : \A s : Done(n, s)' <=> Done(n, s)
  BY <1>1, SamePage
<1>7. Rightly(m) /\ AtRef
  BY DEF Rights
\* The directory, the page and the references of the panes stay.
<1>8. /\ "files" \in DOMAIN panes =>
             /\ panes'["files"].path = panes["files"].path
             /\ panes'["files"].ref = panes["files"].ref
             /\ m.kind = "files" => panes'["files"].items = m.of /\ panes'["files"].view = "files"
      /\ "log" \in DOMAIN panes =>
             /\ panes'["log"].page = panes["log"].page
             /\ panes'["log"].ref = panes["log"].ref
             /\ panes'["log"].count = IF m.kind = "count" THEN m.of.n ELSE panes["log"].count
             /\ m.kind = "commits" => panes'["log"].items = m.of /\ panes'["log"].view = "commits"
      /\ "readme" \in DOMAIN panes =>
             /\ panes'["readme"].ref = panes["readme"].ref
             /\ m.kind = "readme" => panes'["readme"].shows = m.of /\ ~panes'["readme"].loading
      /\ "refs" \in DOMAIN panes =>
             /\ panes'["refs"].ref = panes["refs"].ref
             /\ m.kind = "refs" => panes'["refs"].items = m.of /\ ~panes'["refs"].loading
      /\ "stash" \in DOMAIN panes =>
             (m.kind = "stash" => panes'["stash"].view = "list")
  <2>1. \A n \in DOMAIN panes : n # owner => panes'[n] = panes[n]
    BY <1>1
  <2>2. CASE m.kind = "readme"
    <3>1. owner = "readme"
      BY <1>3, <2>2
    <3>2. ASSUME "readme" \in DOMAIN panes
          PROVE  /\ panes'["readme"] = UpdatePane("readme", panes["readme"], m).pane
                 /\ DOMAIN panes["readme"] = DOMAIN NewPane["readme"]
      BY <1>1, <1>2, <3>1, <3>2
    <3> HIDE DEF owner
    <3> QED BY <2>1, <2>2, <3>1, <3>2
          DEF UpdatePane, Readme, Same, After, NewPane, NewReadme
  <2>3. CASE m.kind = "files"
    <3>1. owner = "files"
      BY <1>3, <2>3
    <3>2. ASSUME "files" \in DOMAIN panes
          PROVE  /\ panes'["files"] = UpdatePane("files", panes["files"], m).pane
                 /\ DOMAIN panes["files"] = DOMAIN NewPane["files"]
      BY <1>1, <1>2, <3>1, <3>2
    <3> HIDE DEF owner
    <3> QED BY <2>1, <2>3, <3>1, <3>2
          DEF UpdatePane, FilesPane, Same, After, NewPane, NewFiles
  <2>4. CASE m.kind = "count"
    <3>1. owner = "log"
      BY <1>3, <2>4
    <3>2. ASSUME "log" \in DOMAIN panes
          PROVE  /\ panes'["log"] = UpdatePane("log", panes["log"], m).pane
                 /\ DOMAIN panes["log"] = DOMAIN NewPane["log"]
      BY <1>1, <1>2, <3>1, <3>2
    <3> HIDE DEF owner
    <3> QED BY <2>1, <2>4, <3>1, <3>2
          DEF UpdatePane, Log, Issues, After, NewPane, NewLog
  <2>5. CASE m.kind = "commits"
    <3>1. owner = "log"
      BY <1>3, <2>5
    <3>2. ASSUME "log" \in DOMAIN panes
          PROVE  /\ panes'["log"] = UpdatePane("log", panes["log"], m).pane
                 /\ DOMAIN panes["log"] = DOMAIN NewPane["log"]
      BY <1>1, <1>2, <3>1, <3>2
    <3> HIDE DEF owner
    <3> QED BY <2>1, <2>5, <3>1, <3>2
          DEF UpdatePane, Log, Same, After, NewPane, NewLog
  <2>6. CASE m.kind = "refs"
    <3>1. owner = "refs"
      BY <1>3, <2>6
    <3>2. ASSUME "refs" \in DOMAIN panes
          PROVE  /\ panes'["refs"] = UpdatePane("refs", panes["refs"], m).pane
                 /\ DOMAIN panes["refs"] = DOMAIN NewPane["refs"]
      BY <1>1, <1>2, <3>1, <3>2
    <3> HIDE DEF owner
    <3> QED BY <2>1, <2>6, <3>1, <3>2
          DEF UpdatePane, Refs, Same, After, NewPane, NewRefs
  <2>7. CASE m.kind = "stash"
    <3>1. owner = "stash"
      BY <1>3, <2>7
    <3>2. ASSUME "stash" \in DOMAIN panes
          PROVE  /\ panes'["stash"] = UpdatePane("stash", panes["stash"], m).pane
                 /\ DOMAIN panes["stash"] = DOMAIN NewPane["stash"]
      BY <1>1, <1>2, <3>1, <3>2
    <3> HIDE DEF owner
    <3> QED BY <2>1, <2>7, <3>1, <3>2
          DEF UpdatePane, Stash, Same, After, NewPane, NewStash
  <2> QED BY <1>3, <2>2, <2>3, <2>4, <2>5, <2>6, <2>7
<1> HIDE DEF owner
<1>9. \A x \in Awaited' : Rightly(x)'
  <2> SUFFICES ASSUME NEW x \in Awaited' PROVE Rightly(x)'
    OBVIOUS
  <2>1. Rightly(x)
    BY DEF Rights
  <2>2. CASE x.kind = "files"
    BY <1>1, <1>5, <1>8, <2>1, <2>2 DEF Rightly
  <2>3. CASE x.kind = "commits"
    BY <1>1, <1>5, <1>8, <2>1, <2>3 DEF Rightly
  <2>4. CASE x.kind \notin {"files", "commits"}
    BY <1>1, <1>5, <2>1, <2>4 DEF Rightly
  <2> QED BY <2>2, <2>3, <2>4
<1>10. "log" \in DOMAIN panes /\ Counted(panes["log"]) => Counted(panes'["log"])
  <2>1. m.kind = "count" => m.of.n = Count[R] /\ repo.ref # None
    BY <1>7 DEF Rightly
  <2> QED BY <1>8, <2>1 DEF Counted
<1>11. "log" \in DOMAIN panes /\ m.kind = "count" => repo.ref # None /\ Counted(panes'["log"])
  BY <1>7, <1>8 DEF Rightly, Counted
<1>12. \A k \in Run(cmds)' :
         /\ k \in {"readme", "count", "refs"} => repo'.ref # None
         /\ k = "commits" => Counted(panes["log"])'
         /\ k = "files" => panes'["files"].path \in Directories
  BY <1>1, <1>3, <1>5, <1>8, <1>10, <1>11 DEF Rights
<1>13. \A k \in DOMAIN LoadOf : Loading(k) => Loading(k)'
  BY DEF Loading
<1>14. \A k \in DOMAIN LoadOf : Coming(k) /\ k # m.kind => Coming(k)'
  BY DEF Coming
<1>15. \A n \in DOMAIN panes : Fits(n, panes[n]) /\ (Done(n, panes[n]) \/ Due(n, panes[n]))
  BY DEF Rights
<1>16. \A n \in DOMAIN panes : Fits(n, panes'[n])
  BY <1>1, <1>2, <1>8, <1>15 DEF Fits, PaneNames
<1>17. ASSUME NEW n \in DOMAIN panes, n # LoadOf[m.kind]
       PROVE  Done(n, panes[n])' \/ Due(n, panes[n])'
  <2>1. panes'[n] = panes[n] /\ (Done(n, panes[n]) => Done(n, panes[n])')
    BY <1>1, <1>2, <1>6, <1>17 DEF owner
  <2>2. ASSUME Due(n, panes[n]) PROVE Due(n, panes[n])'
    <3>1. \A k \in DOMAIN LoadOf : LoadOf[k] = n =>
             (Loading(k) => Loading(k)') /\ (Coming(k) => Coming(k)')
      BY <1>13, <1>14, <1>17
    <3>2. CASE n = "readme"
      BY <1>1, <1>3, <2>2, <3>1, <3>2 DEF Due
    <3>3. CASE n = "files"
      BY <1>1, <1>3, <2>1, <2>2, <3>1, <3>3 DEF Due
    <3>4. CASE n = "log"
      BY <1>1, <1>3, <1>5, <2>1, <2>2, <3>1, <3>4 DEF Due
    <3>5. CASE n = "refs"
      BY <1>1, <1>3, <2>2, <3>1, <3>5 DEF Due
    <3>6. CASE n = "stash"
      BY <1>1, <1>3, <2>2, <3>1, <3>6 DEF Due
    <3> QED BY <1>2, <3>2, <3>3, <3>4, <3>5, <3>6 DEF PaneNames
  <2> QED BY <1>15, <2>1, <2>2
<1>18. ASSUME LoadOf[m.kind] \in DOMAIN panes
       PROVE  \E n \in {LoadOf[m.kind]} : Done(n, panes'[n]) \/ Due(n, panes[n])'
  <2>1. CASE m.kind = "readme"
    BY <1>3, <1>7, <1>8, <1>18, <2>1 DEF Done, Rightly, Here
  <2>2. CASE m.kind = "files"
    <3>1. "files" \in DOMAIN panes
      BY <1>3, <1>18, <2>2
    <3>2. /\ panes'["files"].view = "files" /\ panes'["files"].path \in Directories
          /\ panes'["files"].items = Here(panes'["files"].path, 0)
      BY <1>7, <1>8, <2>2, <3>1 DEF Rightly
    <3>3. Done("files", panes'["files"])
      BY <3>2 DEF Done
    <3> QED BY <1>3, <2>2, <3>3
  <2>3. CASE m.kind = "count"
    <3>1. "log" \in DOMAIN panes
      BY <1>3, <1>18, <2>3
    <3>2. Loading("commits")'
      BY <2>3, <3>1 DEF Loading
    <3> QED BY <1>1, <1>3, <1>5, <1>11, <2>3, <3>1, <3>2 DEF Due
  <2>4. CASE m.kind = "commits"
    <3>1. "log" \in DOMAIN panes
      BY <1>3, <1>18, <2>4
    <3>2. CASE Counted(panes'["log"])
      <4>1. /\ panes'["log"].view = "commits"
            /\ panes'["log"].items = Here(<<>>, panes'["log"].page)
        BY <1>7, <1>8, <2>4, <3>1 DEF Rightly
      <4>2. Done("log", panes'["log"])
        BY <3>2, <4>1 DEF Done
      <4> QED BY <1>3, <2>4, <4>2
    <3>3. CASE ~Counted(panes'["log"])
      <4>1. repo.ref # None /\ (Loading("count") \/ Coming("count"))
        BY <1>10, <1>15, <3>1, <3>3 DEF Done, Due
      <4>2. Loading("count")' \/ Coming("count")'
        BY <1>3, <1>13, <1>14, <2>4, <4>1
      <4> QED BY <1>1, <1>3, <2>4, <4>1, <4>2 DEF Due
    <3> QED BY <3>2, <3>3
  <2>5. CASE m.kind = "refs"
    BY <1>3, <1>7, <1>8, <1>18, <2>5 DEF Done, Rightly
  <2>6. CASE m.kind = "stash"
    BY <1>3, <1>8, <1>18, <2>6 DEF Done
  <2> QED BY <1>3, <2>1, <2>2, <2>3, <2>4, <2>5, <2>6
<1>19. \A n \in DOMAIN panes' : Fits(n, panes[n])' /\ (Done(n, panes[n])' \/ Due(n, panes[n])')
  BY <1>1, <1>2, <1>5, <1>6, <1>16, <1>17, <1>18
<1> QED BY <1>5, <1>7, <1>9, <1>12, <1>19 DEF Rights

\* No message but that of a repository changes the repository of a pane.
LEMMA KeepsRepo ==
    ASSUME NEW n \in PaneNames, NEW s, DOMAIN s = DOMAIN NewPane[n], NEW m, m.kind # "repo"
    PROVE  UpdatePane(n, s, m).pane.repo = s.repo
<1> USE DEF After, Same, Issues
<1>1. CASE n = "readme"
  BY <1>1 DEF UpdatePane, Readme, NewPane, NewReadme
<1>2. CASE n = "files"
  BY <1>2 DEF UpdatePane, FilesPane, Deselect, ToggleBlame, NewPane, NewFiles
<1>3. CASE n = "log"
  BY <1>3 DEF UpdatePane, Log, LogBack, TurnPage, Reset, NewPane, NewLog
<1>4. CASE n = "refs"
  BY <1>4 DEF UpdatePane, Refs, NewPane, NewRefs
<1>5. CASE n = "stash"
  BY <1>5 DEF UpdatePane, Stash, NewPane, NewStash
<1> QED BY <1>1, <1>2, <1>3, <1>4, <1>5 DEF PaneNames

\* An answer comes, in any order with the others.
LEMMA ReloadingHears ==
    ASSUME World, Reloading, dead = "no", DeliverAnswer \/ DeliverSent
    PROVE  dead' = "no" /\ Reloading'
<1>1. Placed /\ repo.tab = repo.tabs /\ R \in Repos /\ repo.selected # None
  BY PanesAssumption DEF Reloading, Reloads, Placed
<1>a. PICK m \in Awaited : \E left :
        /\ Deliver(m, left) /\ IsABag(left) /\ Run(left) = Run(cmds)
        /\ BagToSet(msgs') \cup Sent(left) \subseteq Awaited
        /\ Awaited \ {m} \subseteq BagToSet(msgs') \cup Sent(left)
  BY Reaches
<1>2. PICK left :
        /\ Deliver(m, left) /\ IsABag(left) /\ Run(left) = Run(cmds)
        /\ BagToSet(msgs') \cup Sent(left) \subseteq Awaited
        /\ Awaited \ {m} \subseteq BagToSet(msgs') \cup Sent(left)
  BY <1>a
<1>3. /\ history'.asked = R /\ history'.failed = history.failed /\ Handle(m, left)
  BY <1>1, <1>2, Passed
<1>4. /\ m.kind \in DOMAIN LoadOf \cup {"error", "switch tab", "select tab"}
      /\ m.kind = "select tab" => m.of.n \in DOMAIN Tabs
      /\ \A k \in Run(cmds) : k \in DOMAIN LoadOf /\ LoadOf[k] \in DOMAIN panes
      /\ \A x \in Awaited :
           /\ x.kind \in DOMAIN LoadOf \cup {"error", "switch tab", "select tab"}
           /\ x.kind = "select tab" => x.of.n \in DOMAIN Tabs
  BY DEF Reloading, Reloads
<1>5. Awaited' = BagToSet(msgs') \cup Sent(cmds') /\ Run(cmds)' = Run(cmds')
  BY DEF Awaited, Run, Sent
<1>6. ~history.failed => Rights /\ AtRef
  BY DEF Reloading, Rights
<1>7. CASE m.kind \in {"error", "switch tab", "select tab"}
  <2>1. Bypassed(m, left)
    BY <1>1, <1>2, <1>3, <1>4, <1>7, Bypasses
  <2>2. /\ dead' = "no" /\ Placed' /\ repo'.tab = repo'.tabs /\ Tabs' = Tabs
        /\ DOMAIN panes' = DOMAIN panes
        /\ cmds' = left (+) RepoCmds(m) /\ IsABag(RepoCmds(m))
    BY <2>1 DEF Bypassed
  <2>3. BagToSet(cmds') = BagToSet(left) \cup BagToSet(RepoCmds(m))
    BY <1>2, <2>2, Adding
  <2>4. PICK tabs \in SUBSET DOMAIN Tabs : BagToSet(RepoCmds(m)) = {Send(Tab(i)) : i \in tabs}
    <3>1. CASE m.kind = "switch tab"
      BY <3>1, Switches, BagOfSet
    <3>2. CASE m.kind # "switch tab"
      <4>1. RepoCmds(m) = EmptyBag
        BY <1>7, <3>2 DEF RepoCmds
      <4>2. BagToSet(RepoCmds(m)) = {Send(Tab(i)) : i \in {}}
        BY <4>1, BagOfSet DEF EmptyBag
      <4> QED BY <4>2
    <3> QED BY <3>1, <3>2
  <2>5. \A i : /\ Send(Tab(i)).kind = "send" /\ Send(Tab(i)).of = Tab(i)
               /\ Tab(i).kind = "select tab" /\ Tab(i).of.n = i
    BY DEF Send, Cmd, Tab, Msg, Place
  <2> DEFINE sends == {Send(Tab(i)) : i \in tabs}
  <2>6. \A c \in sends : c.kind = "send" /\ \E i \in tabs : c.of = Tab(i)
    BY <2>5
  <2>b. BagToSet(cmds') = BagToSet(left) \cup sends
    BY <2>3, <2>4
  <2> HIDE DEF sends
  <2>7. /\ Run(cmds') = Run(left) \cup {c.kind : c \in {d \in sends : d.kind # "send"}}
        /\ Sent(cmds') = Sent(left) \cup {c.of : c \in {d \in sends : d.kind = "send"}}
    <3>1. Run(cmds') = Run(left) \cup {c.kind : c \in {d \in sends : d.kind # "send"}}
      BY <2>b DEF Run
    <3>2. Sent(cmds') = Sent(left) \cup {c.of : c \in {d \in sends : d.kind = "send"}}
      BY <2>b DEF Sent
    <3> QED BY <3>1, <3>2
  <2>8. Run(cmds)' = Run(cmds)
    BY <1>2, <1>5, <2>6, <2>7
  <2>9. /\ \A x \in Awaited' : x \in Awaited \/ \E i \in tabs : x = Tab(i)
        /\ Awaited \ {m} \subseteq Awaited'
    BY <1>2, <1>5, <2>6, <2>7
  <2>10. Reloads'
    <3>1. \A x \in Awaited' :
           /\ x.kind \in DOMAIN LoadOf \cup {"error", "switch tab", "select tab"}
           /\ x.kind = "select tab" => x.of.n \in DOMAIN Tabs
      <4> SUFFICES ASSUME NEW x \in Awaited'
                   PROVE  /\ x.kind \in DOMAIN LoadOf \cup {"error", "switch tab", "select tab"}
                          /\ x.kind = "select tab" => x.of.n \in DOMAIN Tabs
        BY <2>2
      <4>1. CASE x \in Awaited
        BY <1>4, <4>1
      <4>2. ASSUME NEW i \in tabs, x = Tab(i)
            PROVE  x.kind = "select tab" /\ x.of.n \in DOMAIN Tabs
        BY <2>5, <4>2
      <4> QED BY <2>9, <4>1, <4>2
    <3> QED BY <1>4, <2>2, <2>8, <3>1 DEF Reloads
  <2>11. ASSUME ~history.failed PROVE Rights'
    <3>1. \A x \in Awaited' : x \in Awaited \/ Rightly(x)
      BY <2>5, <2>9 DEF Rightly
    <3>2. \A x \in Awaited : x.kind \in DOMAIN LoadOf => x \in Awaited'
      <4>1. m.kind \notin DOMAIN LoadOf
        BY <1>7 DEF LoadOf
      <4> QED BY <2>9, <4>1
    <3>3. /\ AtRef' /\ \A n \in DOMAIN panes : panes'[n] = panes[n]
          /\ repo'.ref = repo.ref /\ R' = R
          /\ \A n, s : Fits(n, s)' <=> Fits(n, s)
          /\ \A n \in PaneNames : \A s : Done(n, s)' <=> Done(n, s)
          /\ \A s : Counted(s)' <=> Counted(s)
      BY <1>6, <2>1, <2>11 DEF Bypassed
    <3> QED BY <1>4, <1>6, <2>2, <2>8, <2>11, <3>1, <3>2, <3>3, StillRight
  <2> QED BY <1>3, <2>2, <2>10, <2>11 DEF Reloading
<1>8. CASE m.kind \in DOMAIN LoadOf
  <2> DEFINE new == IF m.kind = "count" /\ "log" \in DOMAIN panes
                    THEN {Load("commits")} ELSE {}
  <2>1. /\ dead' = "no" /\ UNCHANGED <<layout, page, repo>>
        /\ DOMAIN panes' = DOMAIN panes
        /\ \A n \in DOMAIN panes \ {LoadOf[m.kind]} : panes'[n] = panes[n]
        /\ LoadOf[m.kind] \in DOMAIN panes =>
             panes'[LoadOf[m.kind]] =
                 UpdatePane(LoadOf[m.kind], panes[LoadOf[m.kind]], m).pane
        /\ BagToSet(cmds') = BagToSet(left) \cup new
    BY <1>1, <1>2, <1>3, <1>8, Loaded
  <2>2. Load("commits").kind = "commits"
    BY DEF Load, Cmd
  <2>3. /\ Run(cmds') = Run(left) \cup {c.kind : c \in {d \in new : d.kind # "send"}}
        /\ Sent(cmds') = Sent(left) \cup {c.of : c \in {d \in new : d.kind = "send"}}
    <3> HIDE DEF new
    <3> QED BY <2>1, Adds
  <2>4. /\ Run(cmds)' = Run(cmds) \cup
             (IF m.kind = "count" /\ "log" \in DOMAIN panes THEN {"commits"} ELSE {})
        /\ Sent(cmds') = Sent(left)
    BY <1>2, <1>5, <2>2, <2>3
  <2>5. Awaited' \subseteq Awaited /\ Awaited \ {m} \subseteq Awaited'
    BY <1>2, <1>5, <2>4
  <2>6. R' = R /\ Tabs' = Tabs
    BY <1>3, <2>1 DEF R, Tabs
  <2>7. \A n \in DOMAIN panes : panes'[n].repo = panes[n].repo
    <3>1. ASSUME LoadOf[m.kind] \in DOMAIN panes
          PROVE  UpdatePane(LoadOf[m.kind], panes[LoadOf[m.kind]], m).pane.repo =
                   panes[LoadOf[m.kind]].repo
      <4>1. PICK n : n = LoadOf[m.kind]
        OBVIOUS
      <4>2. n \in PaneNames /\ DOMAIN panes[n] = DOMAIN NewPane[n]
        BY <3>1, <4>1, SomeTabs DEF World
      <4>3. m.kind # "repo"
        BY <1>8 DEF LoadOf
      <4> QED BY <4>1, <4>2, <4>3, KeepsRepo
    <3> QED BY <2>1, <3>1
  <2>8. Placed'
    BY <1>1, <2>1, <2>6, <2>7 DEF Placed
  <2>9. \A k \in Run(cmds)' : k \in DOMAIN LoadOf /\ LoadOf[k] \in DOMAIN panes
    <3>1. "commits" \in DOMAIN LoadOf /\ LoadOf["commits"] = "log"
      BY DEF LoadOf
    <3> QED BY <1>4, <2>4, <3>1
  <2>10. Reloads'
    BY <1>1, <1>4, <2>1, <2>5, <2>6, <2>8, <2>9 DEF Reloads
  <2>11. ASSUME ~history.failed PROVE Rights'
    BY <1>1, <1>2, <1>3, <1>4, <1>6, <1>8, <2>4, <2>5, <2>6, <2>11, LoadedRight
  <2> QED BY <1>3, <2>1, <2>10, <2>11 DEF Reloading
<1> QED BY <1>4, <1>7, <1>8

\* A page that reloads does so until all of it is there.
LEMMA ReloadingStep ==
    ASSUME World, Reloading, dead = "no",
           RunCommand \/ CommandFails \/ DeliverAnswer \/ DeliverSent
    PROVE  dead' = "no" /\ Reloading'
BY ReloadingRuns, ReloadingFails, ReloadingHears

-----------------------------------------------------------------------------
(* Whatever is under way goes on                                           *)

\* No command of a page that has its repository panics.
LEMMA NotNil ==
    ASSUME Placed, NEW c, c.kind # "blame",
           c.kind \in {"files", "tree"} => "files" \in DOMAIN panes,
           c.kind \in {"count", "commits"} => "log" \in DOMAIN panes,
           c.kind = "refs" => "refs" \in DOMAIN panes
    PROVE  ~Nil(c)
<1>1. R # None
  BY PanesAssumption DEF Placed
<1> QED BY <1>1 DEF Nil, Placed

OneUnderWay ==
    \/ \E m : Said1(m) \/ Ran1(Send(m))
    \/ \E c : Ran1(c) /\ c.kind # "send" /\ c.kind # "readme" /\ ~Nil(c)

\* In these stages one command or one message is under way.
LEMMA UnderWay ==
    ASSUME World, Heading \/ GoingBack \/ Tabbing \/ Footing \/ Filing \/ Logging
                  \/ Choosing \/ Stashing
    PROVE  Placed /\ OneUnderWay
<1>1. Placed
  BY DEF Heading, GoingBack, Tabbing, Footing, Filing, Logging, Choosing, Stashing,
     Steady
<1> SUFFICES OneUnderWay
  BY <1>1
<1>2. \A k : Load(k).kind = k
  BY DEF Load, Cmd
<1>a. \A m : Said1(m) \/ Ran1(Send(m)) => OneUnderWay
  BY Zenon DEF OneUnderWay
<1>b. \A c : Ran1(c) /\ c.kind # "send" /\ c.kind # "readme" /\ ~Nil(c) => OneUnderWay
  BY Zenon DEF OneUnderWay
<1>3. ASSUME NEW k, Ran1(Load(k)), k \notin {"send", "readme", "blame"},
             k \in {"files", "tree"} => "files" \in DOMAIN panes,
             k \in {"count", "commits"} => "log" \in DOMAIN panes,
             k = "refs" => "refs" \in DOMAIN panes
      PROVE  OneUnderWay
  <2>1. ~Nil(Load(k))
    BY <1>1, <1>2, <1>3, NotNil
  <2> QED BY <1>2, <1>3, <2>1 DEF OneUnderWay
<1>4. \A n : On(n) => n \in DOMAIN panes
  <2>1. repo.tab \in DOMAIN Tabs
    BY <1>1 DEF Placed
  <2> QED BY <2>1, SomeTabs DEF On, World
<1>5. CASE Heading
  <2>1. CASE Ran1(Cmd("HEAD", Of(R)))
    <3>1. Cmd("HEAD", Of(R)).kind = "HEAD"
      BY DEF Cmd
    <3>2. ~Nil(Cmd("HEAD", Of(R)))
      BY <1>1, <3>1, NotNil
    <3> QED BY <1>b, <2>1, <3>1, <3>2
  <2>2. CASE ~Ran1(Cmd("HEAD", Of(R)))
    BY <1>5, <1>a, <2>2 DEF Heading
  <2> QED BY <2>1, <2>2
<1>6. CASE GoingBack
  BY <1>6, <1>a DEF GoingBack
<1>7. CASE Tabbing
  <2>1. ASSUME NEW k \in {"active tab"}, Ran1(Load(k)) PROVE OneUnderWay
    BY <1>3, <2>1
  <2> QED BY <1>7, <1>a, <2>1 DEF Tabbing
<1>8. CASE Footing
  BY <1>8, <1>a DEF Footing
<1>9. CASE Filing
  <2>1. "files" \in DOMAIN panes
    BY <1>4, <1>9 DEF Filing
  <2>2. ASSUME NEW k \in {"pick file", "tree", "file"}, Ran1(Load(k)) PROVE OneUnderWay
    BY <1>3, <2>1, <2>2
  <2>3. CASE /\ Ran1(Load("blame")) /\ repo.ref # None
             /\ panes["files"].item = Here(panes["files"].path, 0)
    <3>1. panes["files"].ref = repo.ref
      BY <1>9 DEF Filing, Fits
    <3>2. panes["files"].item # Nowhere
      <4>1. R # None
        BY <1>1, PanesAssumption DEF Placed
      <4> QED BY <2>3, <4>1 DEF Here, Nowhere, Place
    <3>3. ~Nil(Load("blame"))
      BY <1>2, <2>3, <3>1, <3>2 DEF Nil
    <3> QED BY <1>2, <1>b, <2>3, <3>3
  <2>4. CASE \E m : Said1(m)
    BY <1>a, <2>4
  <2> QED BY <1>9, <2>2, <2>3, <2>4 DEF Filing
<1>10. CASE Logging
  <2>1. ASSUME NEW k \in {"pick commit", "diff"}, Ran1(Load(k)) PROVE OneUnderWay
    BY <1>3, <2>1
  <2>2. CASE \E m : Said1(m) \/ Ran1(Send(m))
    BY <1>a, <2>2
  <2> QED BY <1>10, <2>1, <2>2 DEF Logging
<1>11. CASE Choosing
  <2>1. ASSUME NEW k \in {"pick ref"}, Ran1(Load(k)) PROVE OneUnderWay
    BY <1>3, <2>1
  <2> QED BY <1>11, <1>a, <2>1 DEF Choosing
<1>12. CASE Stashing
  <2>1. ASSUME NEW k \in {"pick stash", "patch"}, Ran1(Load(k)) PROVE OneUnderWay
    BY <1>3, <2>1
  <2>2. CASE \E m : Said1(m)
    BY <1>a, <2>2
  <2> QED BY <1>12, <2>1, <2>2 DEF Stashing
<1> QED BY <1>1, <1>5, <1>6, <1>7, <1>8, <1>9, <1>10, <1>11, <1>12

LEMMA MovesBySending ==
    ASSUME Moving
    PROVE  \E cs : Only(cs, {}) /\ \A d \in cs : d.kind = "send"
<1>1. \A m : Send(m).kind = "send"
  BY DEF Send, Cmd
<1>2. PICK b \in BranchesOf[R] :
         \/ Only({Send(Ref(b)), Send(Key("switch tab"))}, {})
         \/ \E tabs \in SUBSET DOMAIN Tabs :
              Only({Send(Ref(b))} \cup {Send(Tab(i)) : i \in tabs}, {})
  BY DEF Moving
<1>3. CASE Only({Send(Ref(b)), Send(Key("switch tab"))}, {})
  <2>1. PICK cs : cs = {Send(Ref(b)), Send(Key("switch tab"))}
    OBVIOUS
  <2>2. Only(cs, {}) /\ \A d \in cs : d.kind = "send"
    BY <1>1, <1>3, <2>1
  <2> QED BY <2>2
<1>4. ASSUME NEW tabs \in SUBSET DOMAIN Tabs,
             Only({Send(Ref(b))} \cup {Send(Tab(i)) : i \in tabs}, {})
      PROVE  \E cs : Only(cs, {}) /\ \A d \in cs : d.kind = "send"
  <2>1. \A d \in {Send(Ref(b))} \cup {Send(Tab(i)) : i \in tabs} : d.kind = "send"
    BY <1>1
  <2> QED BY <1>4, <2>1
<1> QED BY <1>2, <1>3, <1>4

\* Nothing is opened that is not there.
LEMMA NoPanic ==
    ASSUME World, Stage
    PROVE  ~CommandPanics
<1> SUFFICES ASSUME NEW c \in BagToSet(cmds), Nil(c) PROVE FALSE
  BY DEF CommandPanics
<1>1. c.kind \in {"files", "tree", "blame", "count", "commits", "refs"}
  BY DEF Nil
<1>2. CASE Closed \/ Opening
  <2>1. BagToSet(cmds) \subseteq {Cmd("open first", Of(R)),
             Send(Msg("select repo", Of(R))), Cmd("open", Of(R))}
    BY <1>2, BagOfSet DEF Closed, Opening, Ran1, Said1, Only
  <2>2. \A k, o : Cmd(k, o).kind = k
    BY DEF Cmd
  <2>3. \A m : Send(m).kind = "send"
    BY DEF Send, Cmd
  <2> QED BY <1>1, <2>1, <2>2, <2>3
<1>3. CASE Starting
  <2>1. BagToSet(cmds) \subseteq {Send(Msg("repo", Of(R))), Cmd("HEAD", Of(R))}
    BY <1>3, BagOfSet DEF Starting, Only
  <2> QED BY <1>1, <2>1 DEF Cmd, Send
<1>4. CASE Reloading
  <2>1. Placed /\ c.kind \in Run(cmds)
    BY <1>1, <1>4 DEF Reloading, Reloads, Run
  <2>2. c.kind \in DOMAIN LoadOf /\ LoadOf[c.kind] \in DOMAIN panes
    BY <1>4, <2>1 DEF Reloading, Reloads
  <2> QED BY <2>1, <2>2, NotNil DEF LoadOf
<1>5. CASE Moving
  <2>1. PICK cs : Only(cs, {}) /\ \A d \in cs : d.kind = "send"
    BY <1>5, MovesBySending
  <2> QED BY <1>1, <2>1, OnlyThose
<1>6. CASE OneUnderWay
  <2>1. CASE \E m : Said1(m) \/ Ran1(Send(m))
    <3>1. \A d \in BagToSet(cmds) : d.kind = "send"
      BY <2>1, BagOfSet DEF Said1, Ran1, Only, Send, Cmd
    <3> QED BY <1>1, <3>1
  <2>2. ASSUME NEW d, Ran1(d), ~Nil(d) PROVE FALSE
    <3>1. c = d
      BY <2>2, BagOfSet DEF Ran1, Only
    <3> QED BY <2>2, <3>1
  <2> QED BY <1>6, <2>1, <2>2 DEF OneUnderWay
<1> QED BY <1>2, <1>3, <1>4, <1>5, <1>6, UnderWay DEF Stage

\* The failure of the one command under way.
LEMMA OneFails ==
    ASSUME World, Placed, repo.tab = repo.tabs, OneUnderWay, CommandFails
    PROVE  dead' = dead /\ Reloading'
<1>1. PICK c : Ran1(c) /\ c.kind # "readme"
  BY OnlySaid DEF OneUnderWay
<1> QED BY <1>1, FailsPlaced

\* From one stage to the next.
LEMMA Proceeds ==
    ASSUME World, Stage, Fine', dead = "no",
           RunCommand \/ CommandFails \/ DeliverAnswer \/ DeliverSent
    PROVE  dead' = "no" /\ Stage'
<1>1. CASE Closed
  <2>1. BagToSet(cmds) = {} /\ BagToSet(msgs) = {}
    BY <1>1, OnlyThose DEF Closed
  <2> QED BY <2>1 DEF RunCommand, CommandFails, DeliverAnswer, DeliverSent
<1>2. CASE Opening
  BY <1>2, OpeningStep DEF Stage
<1>3. CASE Starting
  BY <1>3, StartingStep DEF Stage
<1>4. CASE Reloading
  BY <1>4, ReloadingStep DEF Stage
<1>5. CASE Moving
  <2>1. ~CommandFails
    <3>1. PICK cs : Only(cs, {}) /\ \A d \in cs : d.kind = "send"
      BY <1>5, MovesBySending
    <3> QED BY <3>1, OnlySends
  <2> QED BY <1>5, <2>1, MovingStep DEF Stage
<1>6. CASE Tabbing
  <2>1. ~CommandFails
    <3>1. CASE Ran1(Load("active tab"))
      <4>1. Load("active tab").kind \notin Gits
        BY DEF Load, Cmd, Gits
      <4> QED BY <3>1, <4>1, FailsAlone
    <3>2. CASE ~Ran1(Load("active tab"))
      BY <1>6, <3>2, OnlySaid DEF Tabbing
    <3> QED BY <3>1, <3>2
  <2> QED BY <1>6, <2>1, TabbingStep DEF Stage
<1>7. CASE Heading \/ GoingBack \/ Footing \/ Filing \/ Logging \/ Choosing \/ Stashing
  <2>1. Placed /\ OneUnderWay
    BY <1>7, UnderWay
  <2>2. repo.tab = repo.tabs
    BY <1>7 DEF Heading, GoingBack, Footing, Filing, Logging, Choosing, Stashing, On
  <2>3. CASE CommandFails
    BY <2>1, <2>2, <2>3, OneFails DEF Stage
  <2>4. CASE RunCommand \/ DeliverAnswer \/ DeliverSent
    <3>1. CASE Heading
      BY <2>4, <3>1, HeadingStep DEF Stage
    <3>2. CASE GoingBack
      BY <2>4, <3>2, GoingBackStep DEF Stage
    <3>3. CASE Footing
      BY <2>4, <3>3, FootingStep DEF Stage
    <3>4. CASE Filing
      BY <2>4, <3>4, FilingRuns, FilingHears DEF Stage
    <3>5. CASE Logging
      BY <2>4, <3>5, LoggingRuns, LoggingHears DEF Stage
    <3>6. CASE Choosing
      BY <2>4, <3>6, ChoosingStep DEF Stage
    <3>7. CASE Stashing
      BY <2>4, <3>7, StashingStep DEF Stage
    <3> QED BY <1>7, <3>1, <3>2, <3>3, <3>4, <3>5, <3>6, <3>7
  <2> QED BY <2>3, <2>4
<1> QED BY <1>1, <1>2, <1>3, <1>4, <1>5, <1>6, <1>7 DEF Stage

-----------------------------------------------------------------------------
(* Keys                                                                    *)

\* Opening a repository starts afresh, whatever went wrong before.
LEMMA OpensAfresh ==
    ASSUME World, page = "selection", Quiet, NEW r \in Repos,
           Handle(Msg("open", Of(r)), cmds), history'.asked = r, UNCHANGED msgs
    PROVE  dead' = "no" /\ Opening'
<1> DEFINE m == Msg("open", Of(r))
           c == Send(Msg("select repo", Of(r)))
<1>1. m.kind = "open" /\ m.of = Of(r) /\ cmds = EmptyBag /\ msgs' = EmptyBag
  BY DEF Msg, Quiet
<1>2. UNCHANGED <<layout, page, repo, panes>> /\ dead' = "no" /\ cmds' = UICmds(m)
  BY <1>1, AtSelection
<1>3. UICmds(m) = SetToBag({c})
  BY <1>1 DEF UICmds, Bag
<1>4. R' = r /\ layout'.front = "ssh" /\ page' = "selection"
  BY <1>2 DEF R, World
<1>5. Only({Send(Msg("select repo", Of(R)))}, {})'
  BY <1>1, <1>2, <1>3, <1>4 DEF Only, EmptyBag
<1> QED BY <1>2, <1>4, <1>5 DEF Opening, Ran1

\* The page's own keys: no pane does anything with them.
LEMMA NobodyHears ==
    ASSUME World, Placed, repo.tab = repo.tabs, NEW m,
           m.kind \in {"back", "tab", "?", "copy"}, ~Leaves(m), Handle(m, EmptyBag),
           history'.asked = R, history'.failed = history.failed
    PROVE  /\ dead' = Panics(m, repo) /\ repo' = RepoModel(repo, m)
           /\ cmds' = UICmds(m) (+) RepoCmds(m)
           /\ IsABag(UICmds(m)) /\ IsABag(RepoCmds(m))
           /\ Placed' /\ (Steady({}) => Steady({})') /\ repo'.tab = repo.tab
<1>1. PICK n : n = Tabs[repo.tab]
  OBVIOUS
<1>2. n \in DOMAIN panes /\ n \in PaneNames
  BY <1>1, ActivePane
<1>3. page = "repo" /\ repo.tab \in DOMAIN Tabs /\ repo.tabs \in DOMAIN Tabs
  BY DEF Placed
<1>4. m.kind \notin Addressed
  BY DEF Addressed
<1>5. /\ RepoModel(repo, m).tab = repo.tab
      /\ RepoModel(repo, m).tabs \in DOMAIN Tabs
      /\ RepoModel(repo, m).selected = repo.selected
      /\ RepoModel(repo, m).ref = repo.ref /\ RepoModel(repo, m).ready = repo.ready
  <2>1. DOMAIN repo = RepoFields
    BY DEF World
  <2>2. repo.tabs \in 1 .. Len(Tabs) /\ Len(Tabs) \in Nat \ {0} /\ DOMAIN Tabs = 1 .. Len(Tabs)
    BY <1>3, SomeTabs
  <2>3. (repo.tabs % Len(Tabs)) + 1 \in 1 .. Len(Tabs)
    <3>1. repo.tabs % Len(Tabs) \in 0 .. (Len(Tabs) - 1)
      BY <2>2
    <3> QED BY <2>2, <3>1
  <2> QED BY <1>3, <2>1, <2>2, <2>3 DEF RepoModel, RepoFields
<1>6. UpdatePane(n, panes[n], m) = Same(panes[n])
  <2>1. m.kind \notin Heeds[n]
    <3>1. CASE n = "readme"
      BY <3>1 DEF Heeds
    <3>2. CASE n = "files"
      BY <3>2 DEF Heeds
    <3>3. CASE n = "log"
      BY <3>3 DEF Heeds
    <3>4. CASE n = "refs"
      BY <3>4 DEF Heeds
    <3>5. CASE n = "stash"
      BY <3>5 DEF Heeds
    <3> QED BY <1>2, <3>1, <3>2, <3>3, <3>4, <3>5 DEF PaneNames
  <2> QED BY <1>2, <2>1, Ignores
<1>7. /\ layout' = layout /\ page' = page /\ repo' = RepoModel(repo, m)
      /\ dead' = Panics(m, repo)
      /\ panes' = [panes EXCEPT ![n] = panes[n]]
      /\ cmds' = (UICmds(m) (+) RepoCmds(m)) (+) EmptyBag
  <2>1. LET u == UpdatePane(n, panes[n], m)
        IN /\ layout' = layout /\ page' = page
           /\ repo' = RepoModel(repo, m) /\ dead' = Panics(m, repo)
           /\ panes' = [panes EXCEPT ![n] = u.pane]
           /\ cmds' = (UICmds(m) (+) RepoCmds(m)) (+) u.cmds
    BY <1>1, <1>3, <1>4, <1>5, OneTold, Zenon
  <2>2. Same(panes[n]).cmds = EmptyBag /\ Same(panes[n]).pane = panes[n]
    BY DEF Same, After
  <2> QED BY <1>6, <2>1, <2>2, Zenon
<1>8. IsABag(UICmds(m)) /\ IsABag(RepoCmds(m))
  BY BagOfSet, UIBag DEF RepoCmds, EmptyBag, Bag
<1>9. cmds' = UICmds(m) (+) RepoCmds(m)
  BY <1>7, <1>8, Adding, AddingNothing
<1>10. /\ Placed' /\ (Steady({}) => Steady({n})')
       /\ \A k, t : Fits(k, t)' <=> Fits(k, t)
       /\ \A k, t : Done(k, t)' <=> Done(k, t)
  BY <1>3, <1>5, <1>7, OneMoved
<1>11. Steady({}) => Steady({})'
  <2>1. panes'[n] = panes[n]
    BY <1>2, <1>7
  <2>2. Steady({}) => Settled(n)'
    BY <1>2, <1>10, <2>1 DEF Steady, Still, Settled
  <2> QED BY <1>10, <2>2, AllStill
<1> QED BY <1>5, <1>7, <1>8, <1>9, <1>10, <1>11

\* The key that leaves the page, or goes back inside the active pane.
LEMMA PressBack ==
    ASSUME World, Placed, repo.tab = repo.tabs, Sound, NEW m, m.kind = "back",
           Handle(m, EmptyBag), history' = history, msgs' = EmptyBag
    PROVE  dead' = "no" /\ (Closed' \/ GoingBack')
<1>1. UICmds(m) = EmptyBag /\ RepoModel(repo, m) = repo /\ Panics(m, repo) = "no"
      /\ RepoCmds(m) = SetToBag({Send(Key("go back"))})
  BY DEF UICmds, RepoModel, Panics, RepoCmds, Bag
<1>2. IsABag(EmptyBag)
  BY BagOfSet DEF EmptyBag
<1>3. CASE Leaves(m)
  <2>1. Shown(m) = "selection"
    BY <1>3 DEF Shown
  <2>2. page' = "selection" /\ dead' = "no" /\ cmds' = EmptyBag (+) UICmds(m)
    BY <1>2, <2>1, Handled
  <2>3. cmds' = EmptyBag
    BY <1>1, <1>2, <2>2, AddingNothing
  <2> QED BY <2>2, <2>3 DEF Closed, Only, EmptyBag
<1>4. CASE ~Leaves(m)
  <2>1. /\ dead' = "no" /\ repo' = repo /\ cmds' = EmptyBag (+) RepoCmds(m)
        /\ IsABag(RepoCmds(m)) /\ Placed' /\ (Steady({}) => Steady({})')
    <3>1. history'.asked = R /\ history'.failed = history.failed
      BY DEF R
    <3>2. /\ dead' = Panics(m, repo) /\ repo' = RepoModel(repo, m)
          /\ cmds' = UICmds(m) (+) RepoCmds(m) /\ IsABag(RepoCmds(m))
          /\ Placed' /\ (Steady({}) => Steady({})')
      BY <1>4, <3>1, NobodyHears
    <3> QED BY <1>1, <3>2, Zenon
  <2>2. cmds' = SetToBag({Send(Key("go back"))})
    BY <1>1, <2>1, AddingNothing
  <2> QED BY <2>1, <2>2 DEF GoingBack, Ran1, Only, EmptyBag, Sound
<1> QED BY <1>3, <1>4

\* The key of the tab bar, of the footer, and the one that copies a message.
LEMMA PressPage ==
    ASSUME World, Steady({}), repo.tab = repo.tabs, NEW m, m.kind \in {"tab", "?", "copy"},
           Handle(m, EmptyBag), history' = history, msgs' = EmptyBag
    PROVE  dead' \in {"no", "copy"} /\ (Tabbing' \/ Footing' \/ Reloading')
<1>1. /\ dead' = Panics(m, repo) /\ repo' = RepoModel(repo, m)
      /\ cmds' = UICmds(m) (+) RepoCmds(m)
      /\ IsABag(UICmds(m)) /\ IsABag(RepoCmds(m))
      /\ Placed' /\ Steady({})' /\ repo'.tab = repo.tab
  <2>1. ~Leaves(m) /\ Placed /\ history'.asked = R /\ history'.failed = history.failed
    BY DEF Leaves, R, Steady
  <2> QED BY <2>1, NobodyHears
<1>2. dead' \in {"no", "copy"}
  BY <1>1 DEF Panics
<1>3. CASE m.kind = "tab"
  <2>1. UICmds(m) = EmptyBag /\ RepoCmds(m) = SetToBag({Load("active tab")})
    BY <1>3 DEF UICmds, RepoCmds, Bag
  <2>2. cmds' = SetToBag({Load("active tab")})
    BY <1>1, <2>1, AddingNothing
  <2> QED BY <1>1, <1>2, <2>2 DEF Tabbing, Ran1, Only, EmptyBag
<1>4. CASE m.kind = "?"
  <2>1. RepoCmds(m) = EmptyBag /\ UICmds(m) = SetToBag({Send(Key("footer"))})
    BY <1>4 DEF UICmds, RepoCmds, Bag
  <2>2. cmds' = SetToBag({Send(Key("footer"))})
    BY <1>1, <2>1, AddingNothing
  <2>3. repo' = repo
    BY <1>1, <1>4 DEF RepoModel
  <2> QED BY <1>1, <1>2, <2>2, <2>3 DEF Footing, Ran1, Only, EmptyBag
<1>5. CASE m.kind = "copy"
  <2>1. RepoCmds(m) = EmptyBag /\ UICmds(m) = EmptyBag
    BY <1>5 DEF UICmds, RepoCmds
  <2>2. cmds' = EmptyBag
    BY <1>1, <2>1, AddingNothing
  <2>3. repo' = repo
    BY <1>1, <1>5 DEF RepoModel
  <2>4. Only({}, {})'
    BY <2>2 DEF Only, EmptyBag
  <2> QED BY <1>1, <1>2, <2>3, <2>4, Rested
<1> QED BY <1>3, <1>4, <1>5

\* A key of the active pane, which it may leave as it is.
LEMMA PressEnter ==
    ASSUME World, Steady({}), repo.tab = repo.tabs, NEW m, m.kind = "enter",
           Handle(m, EmptyBag), history' = history, msgs' = EmptyBag
    PROVE  dead' = "no" /\ (Filing' \/ Logging' \/ Choosing' \/ Stashing' \/ Reloading')
<1>1. PICK n : n = Tabs[repo.tab]
  OBVIOUS
<1> DEFINE s == panes[n]
<1>2. Placed /\ history'.asked = R /\ history'.failed = history.failed
  BY DEF R, Steady
<1>3. /\ On(n) /\ n \in DOMAIN panes /\ n \in PaneNames /\ DOMAIN s = DOMAIN NewPane[n]
  BY <1>1, <1>2, ActivePane
<1>4. Alone(m, n) /\ Panics(m, repo) = "no"
  BY DEF Alone, Addressed, Panics
<1>5. Settled(n)
  BY <1>3 DEF Steady, Still
<1>6. ASSUME NEW cs, UpdatePane(n, s, m) = After(s, cs)
      PROVE  /\ Heard(m, n, s, cs) /\ Steady({})'
             /\ dead' = "no" /\ cmds' = cs /\ panes'[n] = s
             /\ repo'.tab = repo'.tabs /\ On(n)' /\ Settled(n)'
             /\ R' = R /\ repo' = repo
             /\ \A path, number : Here(path, number)' = Here(path, number)
             /\ \A one, pane : Fits(one, pane)' <=> Fits(one, pane)
             /\ \A one, pane : Done(one, pane)' <=> Done(one, pane)
  <2>1. Heard(m, n, s, cs)
    BY <1>2, <1>3, <1>4, <1>6, OneHears
  <2>2. Steady({})'
    BY <1>3, <2>1, AsBefore
  <2>3. Settled(n)'
    BY <1>5, <2>1 DEF Heard, Settled
  <2> QED BY <1>4, <2>1, <2>2, <2>3 DEF Heard
<1>7. ASSUME UpdatePane(n, s, m) = Same(s)
      PROVE  dead' = "no" /\ Reloading'
  <2>1. UpdatePane(n, s, m) = After(s, EmptyBag)
    BY <1>7 DEF Same
  <2>2. Steady({})' /\ dead' = "no" /\ cmds' = EmptyBag /\ repo'.tab = repo'.tabs
    BY <1>6, <2>1
  <2>3. Only({}, {})'
    BY <2>2 DEF Only, EmptyBag
  <2> QED BY <2>2, <2>3, Rested
<1>8. \A k : Issues(s, Load(k)) = After(s, SetToBag({Load(k)}))
  BY DEF Issues
<1>9. ASSUME NEW k, UpdatePane(n, s, m) = Issues(s, Load(k))
      PROVE  /\ Steady({})' /\ dead' = "no" /\ Ran1(Load(k))' /\ panes'[n] = s
             /\ On(n)' /\ Settled(n)'
  <2>1. UpdatePane(n, s, m) = After(s, SetToBag({Load(k)}))
    BY <1>8, <1>9
  <2>2. /\ Steady({})' /\ dead' = "no" /\ panes'[n] = s
        /\ On(n)' /\ Settled(n)' /\ cmds' = SetToBag({Load(k)})
    BY <1>6, <2>1
  <2>3. Ran1(Load(k))'
    BY <2>2 DEF Ran1, Only, EmptyBag
  <2> QED BY <2>2, <2>3
<1> HIDE DEF s
<1>10. CASE n = "readme"
  BY <1>7, <1>10 DEF UpdatePane, Readme
<1>11. CASE n = "files"
  <2>1. CASE s.view = "files"
    <3>1. UpdatePane(n, s, m) = Issues(s, Load("pick file"))
      BY <1>11, <2>1 DEF UpdatePane, FilesPane
    <3>2. /\ Steady({})' /\ dead' = "no" /\ Ran1(Load("pick file"))' /\ panes'["files"] = s
          /\ On("files")' /\ Settled("files")'
      BY <1>9, <1>11, <3>1
    <3>3. Steady({"files"})'
      BY <3>2 DEF Steady, Still
    <3> QED BY <2>1, <3>2, <3>3 DEF Filing, Settled
  <2>2. CASE s.view # "files"
    BY <1>7, <1>11, <2>2 DEF UpdatePane, FilesPane
  <2> QED BY <2>1, <2>2
<1>12. CASE n = "log"
  <2>1. CASE s.view = "commits"
    <3>1. UpdatePane(n, s, m) = Issues(s, Load("pick commit"))
      BY <1>12, <2>1 DEF UpdatePane, Log
    <3>2. /\ Steady({})' /\ dead' = "no" /\ Ran1(Load("pick commit"))' /\ panes'["log"] = s
          /\ On("log")' /\ Settled("log")'
      BY <1>9, <1>12, <3>1
    <3>3. Steady({"log"})'
      BY <3>2 DEF Steady, Still
    <3>4. /\ Fits("log", panes["log"])' /\ Counted(panes["log"])'
          /\ panes'["log"].items = Here(<<>>, panes["log"].page)'
      BY <3>2 DEF Settled, Done
    <3> QED BY <2>1, <3>2, <3>3, <3>4 DEF Logging
  <2>2. CASE s.view # "commits"
    BY <1>7, <1>12, <2>2 DEF UpdatePane, Log
  <2> QED BY <2>1, <2>2
<1>13. CASE n = "refs"
  <2>1. UpdatePane(n, s, m) = Issues(s, Load("pick ref"))
    BY <1>13 DEF UpdatePane, Refs
  <2>2. Steady({})' /\ dead' = "no" /\ Ran1(Load("pick ref"))' /\ On("refs")'
    BY <1>9, <1>13, <2>1
  <2> QED BY <2>2 DEF Choosing
<1>14. CASE n = "stash"
  <2>1. CASE s.view = "list"
    <3>1. UpdatePane(n, s, m) = Issues(s, Load("pick stash"))
      BY <1>14, <2>1 DEF UpdatePane, Stash
    <3>2. Steady({})' /\ dead' = "no" /\ Ran1(Load("pick stash"))' /\ On("stash")'
      BY <1>9, <1>14, <3>1
    <3> QED BY <3>2 DEF Stashing
  <2>2. CASE s.view # "list"
    BY <1>7, <1>14, <2>2 DEF UpdatePane, Stash
  <2> QED BY <2>1, <2>2
<1> QED BY <1>3, <1>10, <1>11, <1>12, <1>13, <1>14 DEF PaneNames

\* The blame of a file is fetched, or put away.
LEMMA PressBlame ==
    ASSUME World, Steady({}), repo.tab = repo.tabs, Tabs[repo.tab] = "files",
           NEW m, m.kind = "b", Handle(m, EmptyBag), history' = history, msgs' = EmptyBag
    PROVE  dead' = "no" /\ (Filing' \/ Reloading')
<1> DEFINE s == panes["files"]
<1>1. Placed /\ history'.asked = R /\ history'.failed = history.failed
  BY DEF R, Steady
<1>2. On("files") /\ "files" \in DOMAIN panes /\ DOMAIN s = DOMAIN NewFiles
  BY <1>1, ActivePane DEF NewPane
<1>3. Alone(m, "files") /\ Panics(m, repo) = "no"
  BY DEF Alone, Addressed, Panics
<1>4. Settled("files")
  BY <1>2 DEF Steady, Still
<1>5. UpdatePane("files", s, m) =
         IF s.view # "content" THEN After(s, EmptyBag)
         ELSE IF s.blame THEN After([s EXCEPT !.blame = FALSE], EmptyBag)
         ELSE After([s EXCEPT !.blame = TRUE, !.view = "loading"], SetToBag({Load("blame")}))
  BY DEF UpdatePane, FilesPane, ToggleBlame, Same, Issues
<1>6. ASSUME NEW t, NEW cs, UpdatePane("files", s, m) = After(t, cs), t.repo = s.repo
      PROVE  /\ dead' = "no" /\ cmds' = cs /\ panes'["files"] = t
             /\ repo' = repo /\ repo'.tab = repo'.tabs /\ On("files")' /\ Steady({"files"})'
             /\ Fits("files", t)' <=> Fits("files", t)
             /\ Done("files", t)' <=> Done("files", t)
             /\ Here(t.path, 0)' = Here(t.path, 0)
  <2>1. Heard(m, "files", t, cs)
    BY <1>1, <1>2, <1>3, <1>6, OneHears
  <2> QED BY <1>3, <2>1 DEF Heard
<1> HIDE DEF s
<1>7. ASSUME NEW t, UpdatePane("files", s, m) = After(t, EmptyBag), t.repo = s.repo,
             Fits("files", t), Done("files", t)
      PROVE  dead' = "no" /\ Reloading'
  <2>1. /\ dead' = "no" /\ cmds' = EmptyBag /\ panes'["files"] = t
        /\ repo'.tab = repo'.tabs /\ Steady({"files"})'
        /\ Fits("files", t)' /\ Done("files", t)'
    BY <1>6, <1>7
  <2>2. Settled("files")'
    BY <2>1 DEF Settled
  <2>3. Steady({})' /\ Only({}, {})'
    BY <2>1, <2>2, AllStill DEF Only, EmptyBag
  <2> QED BY <2>1, <2>3, Rested
<1>8. CASE s.view # "content"
  BY <1>4, <1>5, <1>7, <1>8 DEF Settled, s
<1>9. CASE s.view = "content" /\ s.blame
  <2>0. PICK t : t = [s EXCEPT !.blame = FALSE]
    OBVIOUS
  <2>1. /\ t.repo = s.repo /\ t.ref = s.ref /\ t.path = s.path /\ t.view = s.view
        /\ t.items = s.items /\ t.shows = s.shows /\ t.item = s.item
    BY <2>0
  <2>2. UpdatePane("files", s, m) = After(t, EmptyBag)
    BY <1>5, <1>9, <2>0
  <2>3. Fits("files", t) /\ Done("files", t)
    BY <1>4, <2>1 DEF Settled, Fits, Done, s
  <2> QED BY <1>7, <2>1, <2>2, <2>3
<1>10. CASE s.view = "content" /\ ~s.blame
  <2>0. PICK t : t = [s EXCEPT !.blame = TRUE, !.view = "loading"]
    OBVIOUS
  <2>1. /\ t.repo = s.repo /\ t.ref = s.ref /\ t.path = s.path
        /\ t.shows = s.shows /\ t.item = s.item
    BY <2>0
  <2>2. UpdatePane("files", s, m) = After(t, SetToBag({Load("blame")}))
    BY <1>5, <1>10, <2>0
  <2>3. /\ Fits("files", t) /\ repo.ref # None /\ t.path \in Files
        /\ t.shows = t.item /\ t.item = Here(t.path, 0)
    BY <1>4, <1>10, <2>1 DEF Settled, Fits, Done, s
  <2>4. /\ dead' = "no" /\ cmds' = SetToBag({Load("blame")}) /\ panes'["files"] = t
        /\ repo' = repo /\ On("files")' /\ Steady({"files"})'
        /\ Fits("files", t)' /\ Here(t.path, 0)' = Here(t.path, 0)
    BY <1>6, <2>1, <2>2, <2>3
  <2>5. Ran1(Load("blame"))'
    BY <2>4 DEF Ran1, Only, EmptyBag
  <2>6. /\ Fits("files", panes["files"])'
        /\ panes'["files"].item = Here(panes["files"].path, 0)'
    BY <2>3, <2>4
  <2> QED BY <2>3, <2>4, <2>5, <2>6 DEF Filing
<1> QED BY <1>8, <1>9, <1>10

\* The next page is one of the pages.
LEMMA Several ==
    ASSUME NEW k, k > 1
    PROVE  k # 0
OBVIOUS

\* The next page of the commits is turned to, if there is one.
LEMMA PressNext ==
    ASSUME World, Steady({}), repo.tab = repo.tabs, Tabs[repo.tab] = "log",
           NEW m, m.kind = "next page", Handle(m, EmptyBag), history' = history,
           msgs' = EmptyBag
    PROVE  dead' = "no" /\ Reloading'
<1> DEFINE s == panes["log"]
<1>0. PICK t : t = [s EXCEPT !.page = (s.page + 1) % s.count, !.view = "loading"]
  OBVIOUS
<1>1. Placed /\ history'.asked = R /\ history'.failed = history.failed
  BY DEF R, Steady
<1>2. On("log") /\ "log" \in DOMAIN panes /\ DOMAIN s = DOMAIN NewLog
  <2>1. On("log") /\ "log" \in DOMAIN panes /\ DOMAIN s = DOMAIN NewPane["log"]
    BY <1>1, ActivePane
  <2> QED BY <2>1 DEF NewPane
<1>3. Alone(m, "log") /\ Panics(m, repo) = "no"
  BY DEF Alone, Addressed, Panics
<1>4. Settled("log")
  BY <1>2 DEF Steady, Still
<1>5. UpdatePane("log", s, m) =
         IF s.view = "commits" /\ s.count > 1
         THEN After(t, SetToBag({Load("commits")})) ELSE After(s, EmptyBag)
  BY <1>0 DEF UpdatePane, Log, TurnPage, Same, Issues
<1>6. ASSUME NEW u, NEW cs, UpdatePane("log", s, m) = After(u, cs), u.repo = s.repo
      PROVE  /\ Heard(m, "log", u, cs)
             /\ dead' = "no" /\ cmds' = cs /\ panes'["log"] = u /\ "log" \in DOMAIN panes'
             /\ repo' = repo /\ R' = R /\ repo'.tab = repo'.tabs /\ Steady({"log"})'
             /\ Fits("log", u)' <=> Fits("log", u)
  <2>1. Heard(m, "log", u, cs)
    BY <1>1, <1>2, <1>3, <1>6, OneHears
  <2> QED BY <1>3, <2>1 DEF Heard
<1>7. /\ t.repo = s.repo /\ t.ref = s.ref /\ t.count = s.count
  BY <1>0, <1>2 DEF NewLog
<1> HIDE DEF s
<1>8. CASE ~(s.view = "commits" /\ s.count > 1)
  <2>1. UpdatePane("log", s, m) = After(s, EmptyBag)
    BY <1>5, <1>8
  <2>2. /\ Heard(m, "log", panes["log"], EmptyBag)
        /\ dead' = "no" /\ cmds' = EmptyBag /\ repo'.tab = repo'.tabs
    BY <1>6, <2>1 DEF s
  <2>3. Steady({})'
    BY <1>2, <2>2, AsBefore
  <2>4. Only({}, {})'
    BY <2>2 DEF Only, EmptyBag
  <2> QED BY <2>2, <2>3, <2>4, Rested
<1>9. CASE s.view = "commits" /\ s.count > 1
  <2>1. UpdatePane("log", s, m) = After(t, SetToBag({Load("commits")}))
    BY <1>5, <1>9
  <2>2. /\ dead' = "no" /\ cmds' = SetToBag({Load("commits")}) /\ panes'["log"] = t
        /\ "log" \in DOMAIN panes' /\ repo' = repo /\ R' = R
        /\ repo'.tab = repo'.tabs /\ Steady({"log"})'
        /\ Fits("log", t)' <=> Fits("log", t)
    BY <1>6, <1>7, <2>1
  <2>3. Counted(s) /\ Fits("log", t)
    BY <1>4, <1>7 DEF Settled, Done, Fits, s
  <2>4. repo.ref # None
    <3>1. repo.ref = None => s.count = 0
      BY <2>3 DEF Counted
    <3> QED BY <1>9, <3>1, Several
  <2>5. Counted(panes["log"])'
    BY <1>7, <2>2, <2>3 DEF Counted
  <2>6. Ran1(Load("commits"))'
    BY <2>2 DEF Ran1, Only, EmptyBag
  <2>7. Loading("commits")'
    <3>1. BagToSet(cmds') = {Load("commits")}
      BY <2>2, BagOfSet
    <3>2. Load("commits").kind = "commits"
      BY DEF Load, Cmd
    <3> QED BY <3>1, <3>2 DEF Loading, Run
  <2>8. Fits("log", panes["log"])' /\ Due("log", panes["log"])'
    BY <2>2, <2>3, <2>4, <2>5, <2>7 DEF Due
  <2>9. "commits" \in DOMAIN LoadOf /\ LoadOf["commits"] = "log"
    BY DEF LoadOf
  <2> QED BY <2>2, <2>5, <2>6, <2>8, <2>9, OneWaits
<1> QED BY <1>8, <1>9

\* A new size: the listing and the commits are read again.
LEMMA PressResize ==
    ASSUME World, Steady({}), repo.tab = repo.tabs, NEW m, m.kind = "resize",
           Handle(m, EmptyBag), history' = history, msgs' = EmptyBag
    PROVE  dead' = "no" /\ Reloading'
<1>1. Placed /\ AtRef /\ page = "repo" /\ ~history.failed /\ R # None
  BY PanesAssumption DEF Steady, Placed
<1>2. /\ DOMAIN panes = ToSet(Tabs) /\ DOMAIN panes \subseteq PaneNames
      /\ \A n \in DOMAIN panes : DOMAIN panes[n] = DOMAIN NewPane[n] /\ panes[n].repo = R
  BY <1>1, SomeTabs DEF World, Placed
<1>3. IsABag(EmptyBag) /\ BagToSet(EmptyBag) = {} /\ Panics(m, repo) = "no"
  BY BagOfSet DEF EmptyBag, Panics
<1>4. /\ layout' = layout /\ page' = page /\ repo' = repo /\ dead' = "no"
      /\ panes' = [n \in DOMAIN panes |-> UpdatePane(n, panes[n], m).pane]
      /\ BagToSet(cmds') = Issued(panes, DOMAIN panes, m)
  <2>1. /\ layout' = layout /\ page' = page /\ repo' = repo
        /\ dead' = IF page = "repo" THEN Panics(m, repo) ELSE "no"
        /\ panes' = [n \in DOMAIN panes |-> UpdatePane(n, panes[n], m).pane]
        /\ BagToSet(cmds') = BagToSet(EmptyBag) \cup Issued(panes, ToSet(Tabs), m)
    BY <1>3, Resized
  <2>2. BagToSet(cmds') = Issued(panes, DOMAIN panes, m)
    BY <1>2, <1>3, <2>1
  <2> QED BY <1>1, <1>3, <2>1, <2>2
<1>5. \A n \in DOMAIN panes : Settled(n)
  BY DEF Steady, Still
<1>6. R' = R /\ Tabs' = Tabs /\ ~history'.failed
  BY <1>1, <1>4 DEF R, Tabs
<1>7. /\ \A path, k : Here(path, k)' = Here(path, k)
      /\ \A s : Counted(s)' <=> Counted(s)
      /\ \A n, s : Fits(n, s)' <=> Fits(n, s)
      /\ \A n \in PaneNames : \A s : Done(n, s)' <=> Done(n, s)
      /\ AtRef' <=> AtRef
  BY <1>4, <1>6, SamePage
\* What is told of the size, and what it asks for.
<1>8. ASSUME NEW n \in DOMAIN panes
      PROVE  LET u == UpdatePane(n, panes[n], m) IN
             /\ n # "log" => u.pane = panes[n]
             /\ n = "log" /\ repo.ref = None => u.pane = panes[n]
             /\ n = "log" => /\ u.pane.repo = panes[n].repo
                             /\ u.pane.ref = panes[n].ref
                             /\ u.pane.count = panes[n].count
             /\ \A c \in BagToSet(u.cmds) :
                  \/ n = "files" /\ panes[n].view = "files" /\ c = Load("files")
                  \/ n = "log" /\ repo.ref # None /\ c = Load("commits")
             /\ n = "log" /\ repo.ref # None => Load("commits") \in BagToSet(u.cmds)
  <2>1. n \in PaneNames /\ panes[n].repo # None /\ Fits(n, panes[n])
    BY <1>1, <1>2, <1>5 DEF Settled
  <2>2. \A c : BagToSet(SetToBag({c})) = {c}
    BY BagOfSet
  <2> USE DEF Issues, Same, After
  <2>3. CASE n = "readme"
    BY <1>3, <2>3 DEF UpdatePane, Readme
  <2>4. CASE n = "files"
    <3>1. UpdatePane(n, panes[n], m) = IF panes[n].view = "files"
             THEN After(panes[n], SetToBag({Load("files")})) ELSE After(panes[n], EmptyBag)
      BY <2>1, <2>4 DEF UpdatePane, FilesPane
    <3>2. UpdatePane(n, panes[n], m).pane = panes[n]
      BY <3>1
    <3>3. BagToSet(UpdatePane(n, panes[n], m).cmds) =
             IF panes[n].view = "files" THEN {Load("files")} ELSE {}
      <4>1. UpdatePane(n, panes[n], m).cmds =
               IF panes[n].view = "files" THEN SetToBag({Load("files")}) ELSE EmptyBag
        BY <3>1
      <4> HIDE DEF Issues, Same, After
      <4>2. CASE panes[n].view = "files"
        <5>1. UpdatePane(n, panes[n], m).cmds = SetToBag({Load("files")})
          BY <4>1, <4>2
        <5> QED BY <2>2, <4>2, <5>1
      <4>3. CASE panes[n].view # "files"
        BY <1>3, <4>1, <4>3
      <4> QED BY <4>2, <4>3
    <3> HIDE DEF Issues, Same, After
    <3> QED BY <2>4, <3>2, <3>3
  <2>5. CASE n = "log"
    <3>1. panes[n].ref = repo.ref
      BY <2>1, <2>5 DEF Fits
    <3>2. UpdatePane(n, panes[n], m) = IF repo.ref # None
             THEN After([panes[n] EXCEPT !.view = "loading"], SetToBag({Load("commits")}))
             ELSE After(panes[n], EmptyBag)
      BY <2>1, <2>5, <3>1 DEF UpdatePane, Log
    <3>3. {"repo", "ref", "count"} \subseteq DOMAIN panes[n]
      BY <1>2, <2>5 DEF NewPane, NewLog
    <3>4. UpdatePane(n, panes[n], m).pane =
             IF repo.ref # None THEN [panes[n] EXCEPT !.view = "loading"] ELSE panes[n]
      BY <3>2
    <3>5. BagToSet(UpdatePane(n, panes[n], m).cmds) =
             IF repo.ref # None THEN {Load("commits")} ELSE {}
      <4>1. UpdatePane(n, panes[n], m).cmds =
               IF repo.ref # None THEN SetToBag({Load("commits")}) ELSE EmptyBag
        BY <3>2
      <4> HIDE DEF Issues, Same, After
      <4>2. CASE repo.ref # None
        <5>1. UpdatePane(n, panes[n], m).cmds = SetToBag({Load("commits")})
          BY <4>1, <4>2
        <5> QED BY <2>2, <4>2, <5>1
      <4>3. CASE repo.ref = None
        BY <1>3, <4>1, <4>3
      <4> QED BY <4>2, <4>3
    <3>6. /\ UpdatePane(n, panes[n], m).pane.repo = panes[n].repo
          /\ UpdatePane(n, panes[n], m).pane.ref = panes[n].ref
          /\ UpdatePane(n, panes[n], m).pane.count = panes[n].count
      BY <3>3, <3>4
    <3> HIDE DEF Issues, Same, After
    <3> QED BY <2>5, <3>4, <3>5, <3>6
  <2>6. CASE n = "refs"
    BY <1>3, <2>6 DEF UpdatePane, Refs
  <2>7. CASE n = "stash"
    BY <1>3, <2>7 DEF UpdatePane, Stash
  <2> QED BY <2>1, <2>3, <2>4, <2>5, <2>6, <2>7 DEF PaneNames
<1>9. /\ \A k : Load(k).kind = k
      /\ LoadOf["files"] = "files" /\ LoadOf["commits"] = "log"
      /\ "files" \in DOMAIN LoadOf /\ "commits" \in DOMAIN LoadOf
  BY DEF Load, Cmd, LoadOf
<1>10. \A c \in BagToSet(cmds') :
          \/ "files" \in DOMAIN panes /\ panes["files"].view = "files" /\ c = Load("files")
          \/ "log" \in DOMAIN panes /\ repo.ref # None /\ c = Load("commits")
  <2> SUFFICES ASSUME NEW c \in BagToSet(cmds')
               PROVE  \/ "files" \in DOMAIN panes /\ panes["files"].view = "files" /\ c = Load("files")
                      \/ "log" \in DOMAIN panes /\ repo.ref # None /\ c = Load("commits")
    OBVIOUS
  <2>1. PICK n \in DOMAIN panes : c \in BagToSet(UpdatePane(n, panes[n], m).cmds)
    BY <1>4 DEF Issued
  <2> QED BY <1>8, <2>1
<1>11. \A k \in Run(cmds)' :
          \/ k = "files" /\ "files" \in DOMAIN panes /\ panes["files"].view = "files"
          \/ k = "commits" /\ "log" \in DOMAIN panes /\ repo.ref # None
  BY <1>9, <1>10 DEF Run
<1>12. Awaited' = {}
  <2>1. BagToSet(msgs') = {}
    BY <1>3
  <2>2. \A c \in BagToSet(cmds') : c.kind # "send"
    BY <1>9, <1>10
  <2> QED BY <2>1, <2>2 DEF Awaited, Sent
<1>13. /\ DOMAIN panes' = DOMAIN panes
       /\ \A n \in DOMAIN panes : n # "log" => panes'[n] = panes[n]
       /\ \A n \in DOMAIN panes : panes'[n].repo = R /\ Fits(n, panes[n])'
  <2> SUFFICES ASSUME NEW n \in DOMAIN panes
               PROVE  /\ n # "log" => panes'[n] = panes[n]
                      /\ panes'[n].repo = R /\ Fits(n, panes[n])'
    BY <1>4
  <2>1. panes'[n] = UpdatePane(n, panes[n], m).pane
    BY <1>4
  <2>2. panes'[n].repo = panes[n].repo /\ panes'[n].ref = panes[n].ref
    <3>1. CASE n = "log"
      BY <1>8, <2>1, <3>1
    <3>2. CASE n # "log"
      BY <1>8, <2>1, <3>2
    <3> QED BY <3>1, <3>2
  <2>3. n # "log" => panes'[n] = panes[n]
    BY <1>8, <2>1
  <2>4. Fits(n, panes[n])
    BY <1>5 DEF Settled
  <2>5. Fits(n, panes[n])'
    <3>1. CASE n = "log"
      BY <1>4, <2>2, <2>4, <3>1 DEF Fits
    <3>2. CASE n # "log"
      BY <1>7, <2>3, <2>4, <3>2
    <3> QED BY <3>1, <3>2
  <2> QED BY <1>2, <2>2, <2>3, <2>5
<1>14. Placed'
  BY <1>1, <1>4, <1>6, <1>13 DEF Placed
<1>15. ASSUME "log" \in DOMAIN panes
       PROVE  Counted(panes["log"])' /\ (Done("log", panes["log"])' \/ Due("log", panes["log"])')
  <2>1. Counted(panes["log"]) /\ Done("log", panes["log"])
    BY <1>5, <1>15 DEF Settled, Done
  <2>2. panes'["log"] = UpdatePane("log", panes["log"], m).pane
    BY <1>4, <1>15
  <2>3. CASE repo.ref = None
    <3>1. panes'["log"] = panes["log"]
      BY <1>8, <1>15, <2>2, <2>3
    <3> QED BY <1>7, <2>1, <3>1 DEF PaneNames
  <2>4. CASE repo.ref # None
    <3>1. panes'["log"].count = panes["log"].count
      BY <1>8, <1>15, <2>2, <2>4
    <3>2. Counted(panes["log"])'
      BY <1>4, <1>6, <2>1, <3>1 DEF Counted
    <3>3. Load("commits") \in BagToSet(cmds')
      <4>1. Load("commits") \in BagToSet(UpdatePane("log", panes["log"], m).cmds)
        BY <1>8, <1>15, <2>4
      <4> QED BY <1>4, <1>15, <4>1 DEF Issued
    <3>4. Loading("commits")'
      BY <1>9, <3>3 DEF Loading, Run
    <3> QED BY <1>4, <2>4, <3>2, <3>4 DEF Due
  <2> QED BY <2>3, <2>4
<1>16. Reloads'
  BY <1>4, <1>9, <1>11, <1>12, <1>13, <1>14 DEF Reloads
<1>17. \A k \in Run(cmds)' : /\ k \in {"readme", "count", "refs"} => repo'.ref # None
                             /\ k = "commits" => Counted(panes["log"])'
                             /\ k = "files" => panes'["files"].path \in Directories
  <2>1. "files" \in DOMAIN panes /\ panes["files"].view = "files" =>
          panes'["files"].path \in Directories
    <3> SUFFICES ASSUME "files" \in DOMAIN panes, panes["files"].view = "files"
                 PROVE  panes'["files"].path \in Directories
      OBVIOUS
    <3>1. Done("files", panes["files"]) /\ panes'["files"] = panes["files"]
      BY <1>5, <1>13 DEF Settled
    <3> QED BY <3>1 DEF Done
  <2> QED BY <1>11, <1>15, <2>1
<1>18. \A n \in DOMAIN panes' : Fits(n, panes[n])' /\ (Done(n, panes[n])' \/ Due(n, panes[n])')
  <2> SUFFICES ASSUME NEW n \in DOMAIN panes, n # "log"
               PROVE  Done(n, panes[n])'
    BY <1>13, <1>15
  <2>1. Done(n, panes[n]) /\ panes'[n] = panes[n] /\ n \in PaneNames
    BY <1>2, <1>5, <1>13 DEF Settled
  <2> QED BY <1>7, <2>1
<1>19. Rights'
  BY <1>1, <1>7, <1>12, <1>17, <1>18 DEF Rights
<1> QED BY <1>4, <1>16, <1>19 DEF Reloading

\* With nothing under way, the page is at rest.
LEMMA QuietReloads ==
    ASSUME World, Stage, Quiet, page = "repo"
    PROVE  Reloading
<1>1. ~Closed /\ ~Opening
  BY DEF Closed, Opening
<1>2. ~Starting
  BY OnlyThose DEF Starting
<1>3. ~Moving
  <2>1. ASSUME NEW cs, NEW d, d \in cs, Only(cs, {}) PROVE FALSE
    BY <2>1, OnlyThose
  <2> QED BY <2>1 DEF Moving
<1>4. ~OneUnderWay
  BY OnlySaid, OnlyRan DEF OneUnderWay
<1>5. ~(Heading \/ GoingBack \/ Tabbing \/ Footing \/ Filing \/ Logging
           \/ Choosing \/ Stashing)
  BY <1>4, UnderWay
<1> QED BY <1>1, <1>2, <1>3, <1>5 DEF Stage

\* A key pressed when nothing is under way.
LEMMA Presses ==
    ASSUME World, Fine => dead \in {"no", "copy"} /\ Stage, Press, Fine'
    PROVE  dead' \in {"no", "copy"} /\ Stage'
<1>1. PICK m \in Keys :
         /\ dead = "no" /\ Quiet
         /\ history.hasty \/ history.failed => m.kind \in {"back", "open"}
         /\ Handle(m, cmds)
         /\ history' = IF m.kind = "open"
                       THEN [history EXCEPT !.asked = m.of.repo, !.hasty = FALSE,
                                            !.failed = FALSE]
                       ELSE history
         /\ UNCHANGED msgs
  BY DEF Press
<1>2. CASE page = "selection"
  <2>1. PICK r \in Repos : m = Msg("open", Of(r))
    BY <1>2 DEF Keys
  <2>2. m.kind = "open" /\ m.of.repo = r
    BY <2>1 DEF Msg, Of, Place
  <2>3. history'.asked = r
    BY <1>1, <2>2 DEF World, PastFields
  <2>4. dead' = "no" /\ Opening'
    BY <1>1, <1>2, <2>1, <2>3, OpensAfresh
  <2> QED BY <2>4 DEF Stage
<1>3. CASE page # "selection"
  <2>1. \/ m.kind \in {"enter", "back item", "back", "tab", "resize", "?"}
        \/ m.kind = "b" /\ Tabs[repo.tab] = "files"
        \/ m.kind = "next page" /\ Tabs[repo.tab] = "log"
        \/ m.kind = "copy"
    <3>1. PICK k : /\ m = Key(k)
                   /\ \/ k \in {"enter", "back item", "back", "tab", "resize", "?"}
                      \/ k = "b" /\ Tabs[repo.tab] = "files"
                      \/ k = "next page" /\ Tabs[repo.tab] = "log"
                      \/ k = "copy"
      BY <1>3 DEF Keys
    <3> QED BY <3>1 DEF Key, Msg
  <2>2. history' = history /\ page = "repo"
    BY <1>1, <1>3, <2>1 DEF World
  <2>3. Fine /\ Stage
    BY <2>2 DEF Fine
  <2>4. Reloading
    BY <1>1, <2>2, <2>3, QuietReloads
  <2>5. Placed /\ repo.tab = repo.tabs
    BY <2>4 DEF Reloading, Reloads
  <2>6. ~history.failed => Steady({})
    BY <1>1, <2>4, AtRest
  <2>7. Handle(m, EmptyBag) /\ msgs' = EmptyBag
    BY <1>1 DEF Quiet
  <2>8. m.kind # "back" => ~history.failed
    BY <1>1, <2>1
  <2>9. CASE m.kind = "back"
    BY <2>2, <2>5, <2>6, <2>7, <2>9, PressBack DEF Sound, Stage
  <2>10. CASE m.kind = "back item"
    BY <2>2, <2>5, <2>6, <2>7, <2>10, GoesBack DEF Sound, Stage, R
  <2>11. CASE m.kind \in {"tab", "?", "copy"}
    BY <2>2, <2>5, <2>6, <2>7, <2>8, <2>11, PressPage DEF Stage
  <2>12. CASE m.kind = "enter"
    BY <2>2, <2>5, <2>6, <2>7, <2>8, <2>12, PressEnter DEF Stage
  <2>13. CASE m.kind = "resize"
    BY <2>2, <2>5, <2>6, <2>7, <2>8, <2>13, PressResize DEF Stage
  <2>14. CASE m.kind = "b" /\ Tabs[repo.tab] = "files"
    BY <2>2, <2>5, <2>6, <2>7, <2>8, <2>14, PressBlame DEF Stage
  <2>15. CASE m.kind = "next page" /\ Tabs[repo.tab] = "log"
    BY <2>2, <2>5, <2>6, <2>7, <2>8, <2>15, PressNext DEF Stage
  <2> QED BY <2>1, <2>9, <2>10, <2>11, <2>12, <2>13, <2>14, <2>15
<1> QED BY <1>2, <1>3

-----------------------------------------------------------------------------
(* The invariant                                                           *)

\* The first stage.
LEMMA Starts ==
    ASSUME Init
    PROVE  dead = "no" /\ Stage
<1>1. World /\ dead = "no" /\ msgs = EmptyBag /\ EmptyBag = SetToBag({})
  BY WorldFirst DEF Init, EmptyBag
<1>2. PICK r \in Repos \cup (IF layout.front = "ssh" THEN {None} ELSE {}) :
         /\ history = [faults |-> 0, hasty |-> FALSE, failed |-> FALSE,
                       early |-> FALSE, asked |-> r]
         /\ cmds = CASE r = None -> EmptyBag
                     [] r # None /\ layout.front = "ssh" ->
                                Bag({Cmd("open first", Of(r))})
                     [] OTHER -> Bag({Send(Msg("repo", Of(r))), Cmd("HEAD", Of(r))})
  BY DEF Init
<1>3. R = r
  BY <1>2 DEF R
<1>4. CASE r = None
  <2>1. layout.front = "ssh"
    BY <1>4, PanesAssumption
  <2>2. page = "selection"
    BY <2>1 DEF Init
  <2>3. cmds = EmptyBag
    BY <1>2, <1>4
  <2> QED BY <1>1, <2>2, <2>3 DEF Stage, Closed, Only
<1>5. CASE r # None /\ layout.front = "ssh"
  <2>1. page = "selection"
    BY <1>5 DEF Init
  <2>2. cmds = SetToBag({Cmd("open first", Of(R))})
    BY <1>2, <1>3, <1>5 DEF Bag
  <2> QED BY <1>1, <1>3, <1>5, <2>1, <2>2 DEF Stage, Opening, Ran1, Only
<1>6. CASE r # None /\ layout.front # "ssh"
  <2>1. page = "repo" /\ layout.front = "browse"
    BY <1>1, <1>6, SomeTabs DEF Init
  <2>2. cmds = SetToBag({Send(Msg("repo", Of(R))), Cmd("HEAD", Of(R))})
    BY <1>2, <1>3, <1>6 DEF Bag
  <2>3. repo.selected = None /\ repo.tab = 1 /\ repo.tabs = 1
    BY DEF Init
  <2>4. Only({Send(Msg("repo", Of(R))), Cmd("HEAD", Of(R))}, {})
    BY <1>1, <2>2 DEF Only
  <2>5. Starting
    BY <1>3, <1>6, <2>1, <2>3, <2>4 DEF Starting
  <2> QED BY <1>1, <2>5 DEF Stage
<1> QED BY <1>4, <1>5, <1>6

\* A step that changes nothing.
LEMMA Stays ==
    ASSUME UNCHANGED browserVars, Stage
    PROVE  Stage'
<1> USE DEF browserVars
<1>0. /\ Placed' <=> Placed
      /\ AtRef' <=> AtRef
      /\ \A ns : Steady(ns)' <=> Steady(ns)
      /\ \A n : On(n)' <=> On(n)
      /\ \A n, s : Fits(n, s)' <=> Fits(n, s)
      /\ \A n, s : Done(n, s)' <=> Done(n, s)
      /\ R' = R /\ Tabs' = Tabs
  BY Unmoved
<1>1. CASE Closed
  <2>1. Closed'
    BY <1>0, <1>1 DEF Closed, Only
  <2> QED BY <2>1 DEF Stage
<1>2. CASE Opening
  <2>1. Opening'
    BY <1>0, <1>2 DEF Opening, Ran1, Said1, Only, R
  <2> QED BY <2>1 DEF Stage
<1>3. CASE Starting
  <2>1. Starting'
    BY <1>0, <1>3 DEF Starting, Only, R, Ref
  <2> QED BY <2>1 DEF Stage
<1>4. CASE Heading
  <2>1. Heading'
    BY <1>0, <1>4 DEF Heading, Ran1, Said1, Only, R, Ref
  <2> QED BY <2>1 DEF Stage
<1>5. CASE Reloading
  <2>1. Reloads'
    BY <1>5, <1>0 DEF Reloading, Reloads, Run, Awaited, Sent
  <2>2. Awaited' = Awaited /\ Run(cmds)' = Run(cmds)
    BY DEF Awaited, Sent, Run
  <2>3. \A m : Rightly(m)' <=> Rightly(m)
    BY DEF Rightly, Here, R
  <2>4. \A s : Counted(s)' <=> Counted(s)
    BY DEF Counted, R
  <2>5. \A n, s : Due(n, s)' <=> Due(n, s)
    BY DEF Due, Counted, R, Loading, Coming, Run, Awaited, Sent
  <2>6. ASSUME Rights PROVE Rights'
    <3>1. \A n \in DOMAIN panes : Done(n, panes[n])' \/ Due(n, panes[n])'
      <4>1. ASSUME NEW n \in DOMAIN panes PROVE Done(n, panes[n])' \/ Due(n, panes[n])'
        <5>1. PICK s : s = panes[n]
          OBVIOUS
        <5>2. Done(n, s)' \/ Due(n, s)'
          BY <1>0, <2>5, <2>6, <4>1, <5>1 DEF Rights
        <5> QED BY <5>1, <5>2 DEF Done, Due, Counted
      <4> QED BY <4>1
    <3>2. \A n \in DOMAIN panes : Fits(n, panes[n])'
      BY <2>6 DEF Rights, Fits
    <3>3. Counted(panes["log"])' <=> Counted(panes["log"])
      BY DEF Counted, R
    <3> QED BY <1>0, <2>2, <2>3, <2>6, <3>1, <3>2, <3>3 DEF Rights
  <2>7. Reloading'
    BY <1>5, <2>1, <2>6 DEF Reloading
  <2> QED BY <2>7 DEF Stage
<1>6. CASE GoingBack
  <2>1. GoingBack'
    BY <1>0, <1>6 DEF GoingBack, Ran1, Said1, Only, R
  <2> QED BY <2>1 DEF Stage
<1>7. CASE Tabbing
  <2>1. Tabbing'
    BY <1>0, <1>7 DEF Tabbing, Ran1, Said1, Only, R
  <2> QED BY <2>1 DEF Stage
<1>8. CASE Footing
  <2>1. Footing'
    BY <1>0, <1>8 DEF Footing, Ran1, Said1, Only, R
  <2> QED BY <2>1 DEF Stage
<1>9. CASE Filing
  <2>1. Filing'
    BY <1>0, <1>9 DEF Filing, Ran1, Said1, Only, R, Fits, Done, Here
  <2> QED BY <2>1 DEF Stage
<1>10. CASE Logging
  <2>1. Logging'
    BY <1>0, <1>10 DEF Logging, Ran1, Said1, Only, R, Fits, Counted, Here
  <2> QED BY <2>1 DEF Stage
<1>11. CASE Choosing
  <2>1. Choosing'
    BY <1>0, <1>11 DEF Choosing, Ran1, Said1, Only, R
  <2> QED BY <2>1 DEF Stage
<1>12. CASE Moving
  <2>1. Moving'
    BY <1>0, <1>12 DEF Moving, Only, R, Ref, Tabs
  <2> QED BY <2>1 DEF Stage
<1>13. CASE Stashing
  <2>1. Stashing'
    BY <1>0, <1>13 DEF Stashing, Ran1, Said1, Only, R
  <2> QED BY <2>1 DEF Stage
<1> QED BY <1>1, <1>2, <1>3, <1>4, <1>5, <1>6, <1>7, <1>8, <1>9, <1>10, <1>11, <1>12,
     <1>13 DEF Stage

\* The invariant is inductive.
LEMMA InvHolds == Spec => []Inv
<1>1. Init => Inv
  BY Starts, WorldFirst DEF Inv
<1>2. Inv /\ [Next]_browserVars => Inv'
  <2> SUFFICES ASSUME Inv, [Next]_browserVars, Fine'
               PROVE  dead' \in {"no", "copy"} /\ Stage'
    BY WorldStays DEF Inv
  <2>1. World /\ (Fine => dead \in {"no", "copy"} /\ Stage)
    BY DEF Inv
  <2>2. DOMAIN history = PastFields
    BY <2>1 DEF World
  <2>3. CASE RunCommand \/ CommandFails \/ DeliverAnswer \/ DeliverSent
    <3>1. dead = "no"
      BY <2>3 DEF RunCommand, CommandFails, DeliverAnswer, DeliverSent, Deliver
    <3>2. Fine
      BY <2>2, <2>3 DEF RunCommand, CommandFails, DeliverAnswer, DeliverSent, Deliver,
                        Fine, PastFields
    <3> QED BY <2>1, <2>3, <3>1, <3>2, Proceeds
  <2>4. CASE CommandPanics
    <3>1. Fine
      BY <2>4 DEF CommandPanics, Fine
    <3> QED BY <2>1, <2>4, <3>1, NoPanic
  <2>5. CASE Press
    BY <2>1, <2>5, Presses
  <2>6. CASE PressEarly
    BY <2>2, <2>6 DEF PressEarly, Fine, PastFields
  <2>7. CASE UNCHANGED browserVars
    <3>1. Fine
      BY <2>7 DEF browserVars, Fine
    <3> QED BY <2>1, <2>7, <3>1, Stays DEF browserVars
  <2> QED BY <2>3, <2>4, <2>5, <2>6, <2>7 DEF Next, Rest
<1> QED BY <1>1, <1>2, PTL DEF Spec

\* With nothing under way, the invariant is what is to be shown.
LEMMA InvShows ==
    ASSUME Inv
    PROVE  ShownIsCurrent
<1>1. World /\ (Fine => dead \in {"no", "copy"} /\ Stage)
  BY DEF Inv
<1>2. dead \in {"no", "copy"} \/ history.hasty \/ history.early
  BY <1>1 DEF Fine
<1>3. ASSUME Quiet, dead = "no", page = "repo",
             ~history.hasty, ~history.failed, ~history.early
      PROVE  /\ repo.selected = history.asked /\ repo.ready
             /\ repo.tabs = repo.tab
             /\ repo.ref # None => repo.ref[1] = repo.selected
             /\ \A n \in DOMAIN panes : Current(n, panes[n])
  <2>1. Stage
    BY <1>1, <1>3 DEF Fine
  <2>2. Reloading
    BY <1>1, <1>3, <2>1, QuietReloads
  <2>3. Steady({}) /\ repo.tab = repo.tabs
    BY <1>1, <1>3, <2>2, AtRest
  <2>4. repo.selected = R /\ AtRef /\ \A n \in DOMAIN panes : Settled(n)
    BY <2>3 DEF Steady, Placed, Still
  <2>5. repo.ref # None => repo.ref[1] = R
    BY <2>4 DEF AtRef, Branch
  <2>6. ASSUME NEW n \in DOMAIN panes PROVE Current(n, panes[n])
    <3>1. n \in PaneNames
      BY <1>1, SomeTabs DEF World
    <3>2. Done(n, panes[n])
      BY <2>4 DEF Settled
    <3>3. CASE n = "readme"
      BY <2>4, <3>2, <3>3 DEF Done, Current
    <3>4. CASE n = "files"
      BY <2>4, <3>2, <3>4 DEF Done, Current, Here
    <3>5. CASE n = "log"
      BY <2>4, <3>2, <3>5 DEF Done, Current, Here
    <3>6. CASE n = "refs"
      BY <2>4, <3>2, <3>6 DEF Done, Current
    <3>7. CASE n = "stash"
      BY <3>2, <3>7 DEF Done, Current
    <3> QED BY <3>1, <3>3, <3>4, <3>5, <3>6, <3>7 DEF PaneNames
  <2> QED BY <2>3, <2>4, <2>5, <2>6 DEF R, AtRef
<1> QED BY <1>2, <1>3 DEF ShownIsCurrent

\* Whatever is pressed, whatever order the commands of it run and answer in,
\* once they are done the page shows what was asked for, in every pane, and no
\* command and no Update panicked on the way (UI.Update of pkg/ssh/ui.go,
\* Repo.Update and the Updates of its tabs): for any repositories, branches,
\* files, stashes and tabs.  Keys pressed early, a failure of git, and a soft
\* browse that hears of HEAD first are left out, as ShownIsCurrent does.
THEOREM ShownAlways == Spec => []ShownIsCurrent
<1>1. Inv => ShownIsCurrent
  BY InvShows
<1> QED BY <1>1, InvHolds, PTL
=============================================================================
