-------------------------- MODULE MCServerLifecycle --------------------------
(* Instances of ServerLifecycle for TLC. *)
EXTENDS ServerLifecycle, TLC

CONSTANTS s1, s2

\* A server of the old release beside one of the new one.
MCRelease == (s1 :> 1) @@ (s2 :> 2)

=============================================================================
