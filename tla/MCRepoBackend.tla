---------------------------- MODULE MCRepoBackend ----------------------------
(***************************************************************************)
(* Instances of RepoBackend for TLC.  Callers and names are model values   *)
(* that only equality tells apart, so that they may be permuted.           *)
(***************************************************************************)
EXTENDS RepoBackend, TLC

Symmetry == Permutations(Procs) \cup Permutations(Names)
=============================================================================
