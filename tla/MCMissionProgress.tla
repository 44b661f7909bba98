-------------------------- MODULE MCMissionProgress --------------------------
(* Two units that ask for one task each, and a task too many for the first. *)
EXTENDS MissionProgress, TLC

CONSTANTS m1, u1, u2, t1, t2, t3

MCMissionOf == [u \in Units |-> m1]
MCRequired == [u \in Units |-> 1]
MCUnitOf == (t1 :> u1) @@ (t2 :> u1) @@ (t3 :> u2)

Symmetry == Permutations({t1, t2}) \union Permutations(Requests)

=============================================================================
