----------------------------- MODULE MCTaskHistory -----------------------------
(* Instances of TaskHistory for TLC. *)
EXTENDS TaskHistory, TLC

Symmetry == Permutations(Clients) \union Permutations(Operators)

=============================================================================
