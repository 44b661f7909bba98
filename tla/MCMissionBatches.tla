--------------------------- MODULE MCMissionBatches ---------------------------
(* Instances of MissionBatches for TLC: one unit, no versioned requests. *)
EXTENDS MissionBatches, TLC

CONSTANTS m1, u1

MCMissionOf == [u \in Units |-> m1]
MCRequired == [u \in Units |-> 1]
MCUnitOf == [t \in Tasks |-> u1]

Symmetry == Permutations(Batches) \union Permutations(Tasks)

=============================================================================
