-------------------------- MODULE SubmissionRecord --------------------------
(***************************************************************************)
(* The record the control plane keeps of one physical operation, and which *)
(* observation may follow which: adapters/control-plane-physical-          *)
(* submission-registry.js.  An operation stands for the request with its   *)
(* idempotency key, principal, authority and bindings; a request whose     *)
(* bindings differ is refused before it touches a record.                  *)
(***************************************************************************)
EXTENDS Naturals

CONSTANT Absent   \* no record of the operation

\* States of equal rank that the code treats alike are one state here: "unknown" is
\* running, unknown and indeterminate; "failed" is failed, rejected and cancelled.
Settled == {"succeeded", "failed"}
States == {"accepted", "unknown"} \union Settled

Record == [state : States, sequence : Nat \ {0}]
MaybeRecord == Record \union {Absent}

Rank(state) ==
  CASE state = "accepted" -> 1
    [] state = "unknown" -> 2
    [] OTHER -> 3

Registered == [state |-> "accepted", sequence |-> 1]

\* An observation names the sequence it was made after, never leaves a settled state and
\* never goes back.
MayObserve(record, after, state) ==
  /\ record # Absent
  /\ record.sequence = after
  /\ record.state \in Settled => state = record.state
  /\ Rank(state) >= Rank(record.state)

Observed(record, state) == [state |-> state, sequence |-> record.sequence + 1]

\* What any number of observations of a record may lead to.
Follows(later, earlier) ==
  \/ later = earlier
  \/ later # Absent /\ earlier = Absent
  \/ /\ later # Absent
     /\ earlier # Absent
     /\ later.sequence > earlier.sequence
     /\ Rank(later.state) >= Rank(earlier.state)
     /\ earlier.state \in Settled => later.state = earlier.state
=============================================================================
