----------------------------- MODULE MCGitDaemon -----------------------------
(***************************************************************************)
(* Instances of GitDaemon for TLC: two clients and two goroutines that     *)
(* stop the daemon for its life cycle, three clients and none for the      *)
(* limit on connections.                                                   *)
(***************************************************************************)
EXTENDS GitDaemon
=============================================================================
