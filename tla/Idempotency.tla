----------------------------- MODULE Idempotency -----------------------------
(***************************************************************************)
(* ReplayOr and IdempotentCreate: requests that carry one idempotency key. *)
(* Reading the record of the key, creating what the request asks for and   *)
(* storing the record are three steps with nothing around them: `create'   *)
(* commits its own transaction.  Keys do not meet, so one is modelled.     *)
(***************************************************************************)
EXTENDS Naturals

CONSTANTS
  Requests,  \* requests with the key; a client's retry is another request
  Bodies,    \* bodies of requests, told apart by their hashes
  NoRecord

ASSUME NoRecordAssumption == NoRecord \notin [body : Bodies, response : Requests]

VARIABLES
  record,   \* the row of the key in idempotency_keys
  created,  \* the requests whose creation was committed
  body,     \* the body of each request
  pc,       \* where each request is
  answer,   \* the creation a request was answered with; its own at first
  repeats   \* requests that began after one with this key was answered

vars == <<record, created, body, pc, answer, repeats>>

\* What a creation returns names the creation: the response of a request that
\* created something is the request itself.
Records == [body : Bodies, response : Requests]

Answered == {"created", "replayed"}

TypeOK ==
  /\ record \in Records \union {NoRecord}
  /\ created \in SUBSET Requests
  /\ body \in [Requests -> Bodies]
  /\ pc \in [Requests -> {"new", "absent", "effect", "refused", "failed"}
                           \union Answered]
  /\ answer \in [Requests -> Requests]
  /\ repeats \in SUBSET Requests

Init ==
  /\ record = NoRecord
  /\ created = {}
  /\ body \in [Requests -> Bodies]
  /\ pc = [r \in Requests |-> "new"]
  /\ answer = [r \in Requests |-> r]
  /\ repeats = {}

\* Record.Matches, by the hash of the body.
Matches(r) == record.body = body[r]

\* store.Get, and the answer when there is a record.
Get(r) ==
  /\ pc[r] = "new"
  /\ repeats' = IF \E x \in Requests : pc[x] \in Answered
                THEN repeats \union {r}
                ELSE repeats
  /\ \/ /\ record = NoRecord
        /\ pc' = [pc EXCEPT ![r] = "absent"]
        /\ UNCHANGED answer
     \/ /\ record # NoRecord
        /\ Matches(r)
        /\ pc' = [pc EXCEPT ![r] = "replayed"]
        /\ answer' = [answer EXCEPT ![r] = record.response]
     \/ /\ record # NoRecord
        /\ ~ Matches(r)
        /\ pc' = [pc EXCEPT ![r] = "refused"]
        /\ UNCHANGED answer
  /\ UNCHANGED <<record, created, body>>

\* create() commits.
Create(r) ==
  /\ pc[r] = "absent"
  /\ created' = created \union {r}
  /\ pc' = [pc EXCEPT ![r] = "effect"]
  /\ UNCHANGED <<record, body, answer, repeats>>

\* ON CONFLICT DO UPDATE
BadStored(r) == [body |-> body[r], response |-> r]

\* What the row is after the insert: ON CONFLICT (key) DO NOTHING.
Stored(r) ==
  IF record = NoRecord THEN [body |-> body[r], response |-> r] ELSE record

\* Answering before the record is stored.
BadPut(r) ==
  /\ pc[r] = "effect"
  /\ pc' = [pc EXCEPT ![r] = "created"]
  /\ UNCHANGED <<record, created, body, answer, repeats>>

\* store.Put and the answer, which is the request's own response, not the one
\* that is stored.
Put(r) ==
  /\ pc[r] = "effect"
  /\ record' = Stored(r)
  /\ pc' = [pc EXCEPT ![r] = "created"]
  /\ UNCHANGED <<created, body, answer, repeats>>

\* An error of the store or of create(), or the end of the process.
Fail(r) ==
  /\ pc[r] \in {"new", "absent", "effect"}
  /\ pc' = [pc EXCEPT ![r] = "failed"]
  /\ UNCHANGED <<record, created, body, answer, repeats>>

Next == \E r \in Requests : Get(r) \/ Create(r) \/ Put(r) \/ Fail(r)

Spec == Init /\ [][Next]_vars

-----------------------------------------------------------------------------
(***************************************************************************)
(* Properties.                                                             *)
(***************************************************************************)

\* A client that repeats a request after any answer creates nothing, whatever
\* other requests with the key are under way or have failed meanwhile.  (No more
\* holds: two requests that both find no record both create.)
RepeatsCreateNothing == repeats \cap created = {}

\* A replayed answer is the stored one and was given to the same body before,
\* also when racing requests stored theirs later.
ReplaysAreStored ==
  \A r \in Requests :
    pc[r] = "replayed" =>
      /\ record # NoRecord
      /\ record.response = answer[r]
      /\ record.body = body[r]

\* What is stored was created, by a request with the stored body: a failure
\* never leaves the record of something that does not exist.
RecordHasEffect ==
  record # NoRecord =>
    /\ record.response \in created
    /\ record.body = body[record.response]

=============================================================================
