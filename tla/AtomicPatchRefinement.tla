----------------------- MODULE AtomicPatchRefinement -----------------------
(***************************************************************************)
(* GovernedMutation implements AtomicPatch.  The abstract outcome is what  *)
(* the journal says, the abstract effect is what was physically done, and  *)
(* the abstract content is the content the configured provider is the      *)
(* authority for.  The handler of an open that failed for another reason   *)
(* than EEXIST unlinks the lock of whoever holds it, so that transactions  *)
(* are taken one at a time only without OpenFaults; each is applied at     *)
(* most once and answered truthfully all the same.  The answers are honest *)
(* while recovery is NotMisled.                                            *)
(***************************************************************************)
EXTENDS GovernedMutation

OutcomeOf(h) ==
  IF ~Reached(h, "LOCKED") THEN "OPEN"
  ELSE CASE StageOf(h) = "FINALIZED_SUCCESS" -> "SUCCESS"
         [] StageOf(h) = "FINALIZED_FAILED" -> "FAILED"
         [] StageOf(h) = "RECOVERY_UNRESOLVED" -> "UNRESOLVED"
         [] OTHER -> "STARTED"

EffectOf(t) ==
  CASE restores[t] > 0 -> "UNDONE"
    [] commits[t] > 0 /\ restores[t] = 0 -> "APPLIED"
    [] OTHER -> "NONE"

AuthoritativeContent ==
  IF ContentAddressed /\ manifest # NoManifest THEN manifest ELSE worktree

Patch == INSTANCE AtomicPatch
  WITH outcome <- [t \in Txn |-> OutcomeOf(journal[t])],
       effect <- [t \in Txn |-> EffectOf(t)],
       content <- AuthoritativeContent,
       Exclusive <- ~OpenFaults,
       Honest <- NotMisled

\* Every behavior of the lock, the journal, the provider and recovery is, to someone who
\* looks only at the journal's last word and at the target, one of the atomic patches.
ImplementsAtomicPatch == Patch!ASpec
=============================================================================
