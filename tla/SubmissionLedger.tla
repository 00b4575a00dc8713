-------------------------- MODULE SubmissionLedger --------------------------
(***************************************************************************)
(* What the physical control plane promises about submissions, without     *)
(* files, locks, processes or recovery: an operation is recorded before it *)
(* is dispatched, dispatched at most once, has an effect only if it was    *)
(* dispatched, is called succeeded only if it had one, and its record only *)
(* moves forward.                                                          *)
(***************************************************************************)
EXTENDS SubmissionRecord

CONSTANT Operation

VARIABLES
  ledger,      \* operation -> its durable record
  given,       \* operations handed to the governed executor
  done         \* operations whose physical effect took place

lvars == <<ledger, given, done>>

LInit ==
  /\ ledger = [o \in Operation |-> Absent]
  /\ given = {}
  /\ done = {}

\* One durable write may carry observations and claims of several operations.
Write ==
  /\ ledger' \in [Operation -> MaybeRecord]
  /\ \A o \in Operation :
       /\ Follows(ledger'[o], ledger[o])
       /\ ledger'[o] # Absent /\ ledger'[o] # ledger[o] =>
            (ledger'[o].state = "succeeded" => o \in done)
  /\ UNCHANGED <<given, done>>

Dispatch(o) ==
  /\ ledger[o] # Absent
  /\ o \notin given
  /\ given' = given \union {o}
  /\ UNCHANGED <<ledger, done>>

Effect(o) ==
  /\ o \in given
  /\ done' = done \union {o}
  /\ UNCHANGED <<ledger, given>>

LNext ==
  \/ Write
  \/ \E o \in Operation : Dispatch(o) \/ Effect(o)

LSpec == LInit /\ [][LNext]_lvars
=============================================================================
