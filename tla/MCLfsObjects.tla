----------------------------- MODULE MCLfsObjects -----------------------------
(***************************************************************************)
(* Instances of LfsObjects for TLC: an object of two chunks, so that a     *)
(* write can be cut or leave a hole, and an empty one, the only kind a     *)
(* batch download adopts.                                                  *)
(*                                                                         *)
(* A behaviour plays with one of the casts, chosen at the start: which     *)
(* requests and runs of the mirror job begin, and with which objects.  Any *)
(* two play with both objects, two requests and a run with the larger one. *)
(***************************************************************************)
EXTENDS LfsObjects

CONSTANTS big, empty, Casts

MCSize == [o \in Oids |-> IF o = big THEN 2 ELSE 0]

VARIABLE cast

MCInit == Init /\ cast \in Casts

MCNext ==
    /\ Next
    /\ UNCHANGED cast
    /\ \A p \in Procs : /\ pc'[p] # "idle" => p \in cast
                        /\ obj'[p] \in cast \cup {None}
    /\ \A m \in Mirrors : todo'[m] \subseteq cast

MCSpec == MCInit /\ [][MCNext]_<<vars, cast>> /\ Fairness
=============================================================================
