------------------------------- MODULE MCImport -------------------------------
(***************************************************************************)
(* Instances of Import and PointerSearch for TLC: two callers and two      *)
(* tasks, so that one caller can overwrite the other's task, run it, or    *)
(* wait for it; and a repository with an object of each kind and a pointer *)
(* last.                                                                   *)
(*                                                                         *)
(* The search is part of Import's step Configure, which fails or not.  A   *)
(* behaviour plays either the imports or one search after another.         *)
(***************************************************************************)
EXTENDS Import, PointerSearch

MCListed ==
    <<"commit", "tag", "root", "tree", "pointer", "large", "text", "cutoff">>

NoImports ==
    Made = {} /\ dir = "none" /\ \A c \in Callers : CallerAt(c, "idle")

MCInit == Init /\ SearchInit

MCNext ==
    \/ Next /\ loop = "off" /\ UNCHANGED searchVars
    \/ SearchNext /\ NoImports /\ UNCHANGED vars

MCSpec ==
    /\ MCInit /\ [][MCNext]_<<vars, searchVars>>
    /\ Fairness /\ SearchFairness
=============================================================================
