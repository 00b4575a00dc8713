------------------------ MODULE MutationTransaction ------------------------
(***************************************************************************)
(* The mutation transaction of core/mutation-transaction.js: a value whose *)
(* history is the sequence of the stages it went through, and the          *)
(* classification core/mutation-recovery.js computes from it.  There is no *)
(* state here; GovernedMutation keeps a history on disk (the journal) and  *)
(* one in the memory of every process.                                     *)
(*                                                                         *)
(* The fingerprints that identify a transaction (workspace, target, BEFORE *)
(* and replacement hashes, grant, approval, identity) are abstracted to    *)
(* the transaction's name: two transactions are equal iff all of them are. *)
(***************************************************************************)
EXTENDS Naturals, Sequences

CONSTANT Unbound    \* what a history event without bound metadata carries

Stages == {"PREPARED", "LOCKED", "BEFORE_VERIFIED", "MUTATION_STARTED",
           "COMMIT_AUTHORITY_VERIFIED", "PHYSICAL_APPLIED", "AFTER_VERIFIED",
           "EVIDENCE_RECORDED", "FINALIZED_SUCCESS", "FINALIZED_FAILED",
           "RECOVERY_REQUIRED", "RECOVERED", "RECOVERY_UNRESOLVED"}

Transitions == [stage \in Stages |->
  CASE stage = "PREPARED" -> {"LOCKED", "FINALIZED_FAILED", "RECOVERY_REQUIRED"}
    [] stage = "LOCKED" -> {"BEFORE_VERIFIED", "FINALIZED_FAILED", "RECOVERY_REQUIRED"}
    [] stage = "BEFORE_VERIFIED" ->
         {"MUTATION_STARTED", "FINALIZED_FAILED", "RECOVERY_REQUIRED"}
    [] stage = "MUTATION_STARTED" ->
         {"COMMIT_AUTHORITY_VERIFIED", "FINALIZED_FAILED", "RECOVERY_REQUIRED"}
    [] stage = "COMMIT_AUTHORITY_VERIFIED" ->
         {"PHYSICAL_APPLIED", "FINALIZED_FAILED", "RECOVERY_REQUIRED"}
    [] stage = "PHYSICAL_APPLIED" -> {"AFTER_VERIFIED", "RECOVERY_REQUIRED"}
    [] stage = "AFTER_VERIFIED" -> {"EVIDENCE_RECORDED", "RECOVERY_REQUIRED"}
    [] stage = "EVIDENCE_RECORDED" ->
         {"FINALIZED_SUCCESS", "FINALIZED_FAILED", "RECOVERY_REQUIRED"}
    [] stage = "RECOVERY_REQUIRED" -> {"RECOVERED", "RECOVERY_UNRESOLVED"}
    [] stage = "RECOVERED" -> {"EVIDENCE_RECORDED"}
    [] OTHER -> {}]

Finalized == {"FINALIZED_SUCCESS", "FINALIZED_FAILED"}
Terminal == Finalized \union {"RECOVERY_UNRESOLVED"}

----------------------------------------------------------------------------
\* Histories.  An event carries the owner token of the lock it binds, a mark for
\* the fingerprint of the recovery evidence it binds, or nothing.  Two recovery
\* evidences never have the same fingerprint (each holds the clock reading of the
\* call that computed it), so one mark stands for all of them.
Prepared == << [stage |-> "PREPARED", bound |-> Unbound] >>

Extend(h, stage, bound) == Append(h, [stage |-> stage, bound |-> bound])

StageOf(h) == h[Len(h)].stage

Reached(h, stage) == \E i \in DOMAIN h : h[i].stage = stage

\* The token of the journaled lock: bindMutationLock always writes version 2.
LockToken(h) == IF Len(h) >= 2 THEN h[2].bound ELSE Unbound

\* requireTransaction compares the fingerprint in EVERY evidence-bearing recovery
\* event with the transaction's one recoveryEvidence field, so a history that binds
\* recovery evidence twice is refused as malformed.
WellFormed(h) ==
  \A i, j \in DOMAIN h :
    h[i].bound = "EVIDENCE" /\ h[j].bound = "EVIDENCE" => i = j

\* What transitionMutationTransaction and the three bind functions let a
\* transaction become.
MayBecome(h, candidate) ==
  /\ StageOf(candidate) \in Transitions[StageOf(h)]
  /\ WellFormed(candidate)

----------------------------------------------------------------------------
\* Recovery classification (core/mutation-recovery.js).
PreCommit == {"PREPARED", "LOCKED", "BEFORE_VERIFIED", "MUTATION_STARTED"}
PostAuthority == {"COMMIT_AUTHORITY_VERIFIED", "PHYSICAL_APPLIED", "AFTER_VERIFIED",
                  "EVIDENCE_RECORDED", "FINALIZED_SUCCESS", "RECOVERY_REQUIRED",
                  "RECOVERED"}

Classifications == {"NOT_APPLIED", "RESTORED", "PREVIOUSLY_AUTHORIZED_APPLIED",
                    "RECOVERY_UNRESOLVED"}

\* A mutation of Classify for TLC's runs: evidence of the physical file alone.
ClassifyIgnoringStage(h, observed) ==
  CASE observed = "BEFORE" -> "NOT_APPLIED"
    [] observed = "REPLACEMENT" -> "PREVIOUSLY_AUTHORIZED_APPLIED"
    [] OTHER -> "RECOVERY_UNRESOLVED"

\* The classification of history h when the lock file matches it and the worktree
\* file was observed as BEFORE, REPLACEMENT, OTHER or UNAVAILABLE.
Classify(h, observed) ==
  CASE observed = "BEFORE" /\ StageOf(h) \in PreCommit -> "NOT_APPLIED"
    [] observed = "BEFORE" /\ StageOf(h) = "RECOVERED" -> "RESTORED"
    [] /\ observed = "REPLACEMENT"
       /\ Reached(h, "COMMIT_AUTHORITY_VERIFIED")
       /\ StageOf(h) \in PostAuthority -> "PREVIOUSLY_AUTHORIZED_APPLIED"
    [] OTHER -> "RECOVERY_UNRESOLVED"

\* A mutation for TLC's runs: whatever evidence was found, it finalizes as a success.
TerminalStageOptimistic(classification) ==
  IF classification = "RECOVERY_UNRESOLVED" THEN classification ELSE "FINALIZED_SUCCESS"

TerminalStage(classification) ==
  CASE classification = "PREVIOUSLY_AUTHORIZED_APPLIED" -> "FINALIZED_SUCCESS"
    [] classification = "RECOVERY_UNRESOLVED" -> "RECOVERY_UNRESOLVED"
    [] OTHER -> "FINALIZED_FAILED"

\* bindMutationRecoveryEvidence moves RECOVERY_REQUIRED to one of two stages.
RecoveredStage(classification) ==
  IF classification = "RECOVERY_UNRESOLVED" THEN "RECOVERY_UNRESOLVED" ELSE "RECOVERED"
=============================================================================
