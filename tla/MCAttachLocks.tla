----------------------------- MODULE MCAttachLocks -----------------------------
(* Instances of AttachLocks for TLC. *)
EXTENDS AttachLocks, TLC

CONSTANTS t1, t2, c1, c2

Request(c, list, n) == [code |-> c, tasks |-> list, capacity |-> n]

\* Three that are refused before anything is asked of the database; one that may
\* be sent twice; beside it one with the same list and one with the opposite list.
MCRequests ==
  {Request(c1, <<>>, 2), Request(c1, <<t1, t1>>, 2), Request(c1, <<t1, t2>>, 1),
   Request(c1, <<t1, t2>>, 2), Request(c2, <<t1, t2>>, 2),
   Request(c2, <<t2, t1>>, 2)}

MCExpiresAt == [t \in Tasks |-> 0]

=============================================================================
