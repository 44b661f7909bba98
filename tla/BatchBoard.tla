------------------------------ MODULE BatchBoard ------------------------------
(***************************************************************************)
(* What batches promise about the tasks they are made of, with neither     *)
(* locks nor open transactions: a batch takes all its tasks at one instant *)
(* or is never seen, and a cancellation gives back at one instant what     *)
(* would otherwise be left in progress in no batch.                        *)
(***************************************************************************)

CONSTANTS Tasks, Batches

VARIABLES
  task,     \* the status of each task
  batch,    \* the status of each batch
  members   \* the tasks of each batch

board_vars == <<task, batch, members>>

BoardInit ==
  /\ task = [t \in Tasks |-> "device_transfer_pending"]
  /\ batch = [b \in Batches |-> "absent"]
  /\ members = [b \in Batches |-> {}]

\* Every task of a batch that appears was accepted until that instant.
Create(b, S) ==
  /\ batch[b] = "absent"
  /\ S # {}
  /\ \A t \in S : task[t] = "accepted"
  /\ batch' = [batch EXCEPT ![b] = "queued"]
  /\ members' = [members EXCEPT ![b] = S]
  /\ task' = [t \in Tasks |-> IF t \in S THEN "in_progress" ELSE task[t]]

\* A cancelled batch gives back tasks of its own that are in progress; one that it
\* leaves in progress belongs to another batch as well.
Cancel(b, S) ==
  /\ batch[b] = "queued"
  /\ S \subseteq members[b]
  /\ \A t \in S : task[t] = "in_progress"
  /\ \A t \in members[b] \ S :
       task[t] = "in_progress" =>
         \E c \in Batches \ {b} : batch[c] = "queued" /\ t \in members[c]
  /\ batch' = [batch EXCEPT ![b] = "cancelled"]
  /\ task' = [t \in Tasks |-> IF t \in S THEN "accepted" ELSE task[t]]
  /\ UNCHANGED members

\* Clients move a task out of any status, a live batch's own tasks included, but
\* to "in_progress" it comes only with a batch.
Move(t, new) ==
  /\ new \in {"device_transfer_pending", "accepted", "closed"}
  /\ task' = [task EXCEPT ![t] = new]
  /\ UNCHANGED <<batch, members>>

\* The worker rejects unfinished tasks, a few at once.
Expire(S) ==
  /\ \A t \in S : task[t] \in {"device_transfer_pending", "accepted", "in_progress"}
  /\ task' = [t \in Tasks |-> IF t \in S THEN "closed" ELSE task[t]]
  /\ UNCHANGED <<batch, members>>

BoardNext ==
  \/ \E b \in Batches, S \in SUBSET Tasks : Create(b, S) \/ Cancel(b, S)
  \/ \E t \in Tasks, new \in {"device_transfer_pending", "accepted", "closed"} :
       Move(t, new)
  \/ \E S \in SUBSET Tasks : Expire(S)

BoardSpec == BoardInit /\ [][BoardNext]_board_vars

=============================================================================
