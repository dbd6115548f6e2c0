------------------------------- MODULE MCServer -------------------------------
(***************************************************************************)
(* Instances of Server for TLC: the databases a server may find.           *)
(***************************************************************************)
EXTENDS Server, TLC

CONSTANTS o1, o2

Database(driver, version, tables) ==
    [driver |-> driver, version |-> version, tables |-> tables, filled |-> version > 0,
     carried |-> FALSE, duplicates |-> FALSE, repos |-> version > 0]

\* New; of version 0.6, with keys registered twice or not; of earlier releases.
FoundDatabases ==
    {Database(driver, 0, {}) : driver \in {"sqlite", "postgres"}}
    \cup {[Database("sqlite", 0, {"old"}) EXCEPT !.duplicates = twice, !.repos = TRUE] :
              twice \in BOOLEAN}
    \cup {Database(driver, v, TablesOf(v)) : driver \in {"sqlite", "postgres"}, v \in 1..2}

Symmetry == Permutations(Objects)
=============================================================================
