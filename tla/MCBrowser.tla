----------------------------- MODULE MCBrowser ------------------------------
(***************************************************************************)
(* Instance of Browser: a repository of two branches, one of one, and an   *)
(* empty one, each with a directory, a file in it and a binary file.       *)
(***************************************************************************)
EXTENDS Browser

CONSTANTS r1, r2, empty, main, dev

Layout(front, tabs, early) == [front |-> front, tabs |-> tabs, early |-> early]
MCLayouts == {Layout("ssh", <<"readme", "files">>, {"back", "open"}),
              Layout("ssh", <<"log", "files">>, {"tab"}),
              Layout("ssh", <<"files", "refs">>, {}),
              Layout("browse", <<"readme", "files", "stash">>, {})}
MCBranchesOf ==
    [r \in Repos |-> CASE r = r1 -> {main, dev} [] r = r2 -> {main} [] OTHER -> {}]
MCDirectories == {<<>>, <<"src">>}
MCFiles == {<<"src", "main">>, <<"logo">>}
MCBinary == {<<"logo">>}
MCCount == [r \in Repos |-> IF r = r1 THEN 2 ELSE 1]
=============================================================================
