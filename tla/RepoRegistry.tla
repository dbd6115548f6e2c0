---------------------------- MODULE RepoRegistry ----------------------------
(***************************************************************************)
(* What the rest of the server is promised about repositories: one table   *)
(* of names, changed one whole operation at a time.  A new repository gets *)
(* an id that was never used before; a repository keeps its id, whatever   *)
(* it is called, until it is removed.                                      *)
(*                                                                         *)
(* RepoBackend implements this module: its committed rows are `registry`.  *)
(***************************************************************************)
EXTENDS Naturals

CONSTANTS Names,   \* repository names, after SanitizeRepo
          None     \* the entry of a name without a repository

VARIABLES registry,   \* [Names -> repository or None]
          issued      \* the greatest id handed out so far

vars == <<registry, issued>>

Init == /\ registry = [n \in Names |-> None]
        /\ issued = 0

Create(n, private) ==
    /\ registry[n] = None
    /\ issued' = issued + 1
    /\ registry' = [registry EXCEPT
                       ![n] = [id |-> issued + 1, private |-> private]]

Remove(n) ==
    /\ registry[n] # None
    /\ registry' = [registry EXCEPT ![n] = None]
    /\ UNCHANGED issued

Rename(old, new) ==
    /\ registry[old] # None
    /\ registry[new] = None
    /\ registry' = [registry EXCEPT ![old] = None, ![new] = registry[old]]
    /\ UNCHANGED issued

SetPrivate(n, private) ==
    /\ registry[n] # None
    /\ registry' = [registry EXCEPT ![n].private = private]
    /\ UNCHANGED issued

Next == \/ \E n \in Names, b \in BOOLEAN : Create(n, b) \/ SetPrivate(n, b)
        \/ \E n \in Names : Remove(n)
        \/ \E old, new \in Names : Rename(old, new)

Spec == Init /\ [][Next]_vars
=============================================================================
