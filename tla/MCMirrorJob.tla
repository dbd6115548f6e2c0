----------------------------- MODULE MCMirrorJob -----------------------------
(***************************************************************************)
(* Instances of MirrorJob for TLC.  Mirrors and runs are told apart by     *)
(* equality only.                                                          *)
(***************************************************************************)
EXTENDS MirrorJob, TLC

Symmetry == Permutations(Mirrors) \cup Permutations(Ticks)
=============================================================================
