--------------------------- MODULE MCConsolePages ---------------------------
(* Instances of ConsolePages for TLC. *)
EXTENDS ConsolePages, TLC

MCSeedAge == [h \in TelemetrySeeds |-> 2]

Symmetry ==
  Permutations(LogRows \ LogSeeds) \union
  Permutations(Commands \ (PendingSeeds \union StartedSeeds)) \union
  Permutations(Telemetry \ TelemetrySeeds) \union
  Permutations(Drones \ Seeds) \union Permutations(Clients)

=============================================================================
