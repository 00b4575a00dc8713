-------------------------- MODULE GovernedMutation --------------------------
(***************************************************************************)
(* The governed mutation of one target file: the mutation coordinator of   *)
(* core/surgical-orchestrator.js driving adapters/filesystem-patch-        *)
(* adapter.js, with the exclusive lock file, the append-only journal, the  *)
(* compare-and-replace provider, and recovery after a crash.               *)
(*                                                                         *)
(* A runner is one operating-system process that calls orchestrate() once  *)
(* for a FILESYSTEM_PATCH request.  A recoverer is a process that may call *)
(* recoverGovernedMutation() again and again for one transaction.  Every   *)
(* step is one operation on the shared file system (or on the Git ref that *)
(* holds the authoritative manifest), so that processes interleave between *)
(* any two of them; whatever a process computes in its own memory between  *)
(* two such operations belongs to the step that follows.                   *)
(***************************************************************************)
EXTENDS MutationTransaction

CONSTANTS
  Runner,            \* processes that run a governed patch; also their lock tokens
  Recoverer,         \* processes that run recovery
  Txn,               \* mutation transactions, all on the same canonical target
  Content,           \* contents of the target, told apart by their hash
  InitialContent,    \* what the worktree file holds at first
  Before,            \* transaction -> content its grant names as BEFORE
  Replacement,       \* transaction -> content its grant authorizes
  EditorContent,     \* what anyone outside the system may write in the worktree
  NoManifest,        \* the manifest ref does not exist
  ContentAddressed,  \* TRUE: the Git-manifest provider; FALSE: one that replaces the file
  StorageFaults,     \* may a write, flush or read fail
  OpenFaults,        \* may opening the lock file fail with anything but EEXIST
  Crashing           \* the processes that may crash

ASSUME ConstantsAssumption ==
  /\ Runner \intersect Recoverer = {}
  /\ Unbound \notin Runner \union Recoverer \union {"EVIDENCE"}
  /\ "EVIDENCE" \notin Runner
  /\ InitialContent \in Content
  /\ EditorContent \subseteq Content
  /\ NoManifest \notin Content
  /\ Before \in [Txn -> Content]
  /\ Replacement \in [Txn -> Content]
  /\ \A t \in Txn : Before[t] # Replacement[t]
  /\ {ContentAddressed, StorageFaults, OpenFaults} \subseteq BOOLEAN
  /\ Crashing \subseteq Runner \union Recoverer

VARIABLES
  directories,  \* transactions whose journal directory exists
  journal,      \* transaction -> the history its published records spell
  lock,         \* the lock file of the target: its owner token, and is it fully written
  claim,        \* the recoverer whose token the .recovery file holds, or Unbound
  worktree,     \* content of the ordinary worktree file
  manifest,     \* content of the authoritative manifest, or NoManifest
  pc,           \* process -> its next operation
  txn,          \* process -> the transaction it was started for
  memory,       \* process -> the transaction value it holds
  seen,         \* recoverer -> what it observed of the worktree file
  commits,      \* transaction -> how often its replacement was physically applied
  restores      \* transaction -> how often it was physically undone

vars == <<directories, journal, lock, claim, worktree, manifest, pc, txn, memory, seen,
          commits, restores>>

Process == Runner \union Recoverer
Event == [stage : Stages, bound : Runner \union {"EVIDENCE", Unbound}]
NoLock == [owner |-> Unbound, complete |-> FALSE]

RunnerSteps ==
  {"idle", "create", "publish", "acquire", "write_lock", "bind", "before", "start",
   "authorize", "bootstrap", "replace", "record_applied", "verify_after", "evidence",
   "finalize", "fail_before", "adapter_recovery", "restore_recovery", "restore",
   "record_restored", "restored_evidence", "restored_failed", "orchestrator_recovery",
   "release", "unlink", "completed", "failed", "crashed"}

RecovererSteps ==
  {"idle", "inspect_target", "inspect_lock", "check_owner", "claim", "require",
   "bind_evidence", "recovered_evidence", "recovered_final", "recovery_release",
   "recovery_unlink", "drop_claim", "crashed"}

Observations == {"BEFORE", "REPLACEMENT", "OTHER", "UNAVAILABLE"}

\* The one type invariant.
TypeOK ==
  /\ directories \subseteq Txn
  /\ journal \in [Txn -> Seq(Event)]
  /\ lock \in [owner : Runner \union {Unbound}, complete : BOOLEAN]
  /\ claim \in Recoverer \union {Unbound}
  /\ worktree \in Content
  /\ manifest \in Content \union {NoManifest}
  /\ pc \in [Process -> RunnerSteps \union RecovererSteps]
  /\ \A p \in Runner : pc[p] \in RunnerSteps
  /\ \A p \in Recoverer : pc[p] \in RecovererSteps
  /\ txn \in [Process -> Txn]
  /\ memory \in [Process -> Seq(Event)]
  /\ seen \in [Recoverer -> Observations \union Classifications]
  /\ commits \in [Txn -> Nat]
  /\ restores \in [Txn -> Nat]

Init ==
  /\ directories = {}
  /\ journal = [t \in Txn |-> <<>>]
  /\ lock = NoLock
  /\ claim = Unbound
  /\ worktree = InitialContent
  /\ manifest = NoManifest
  /\ pc = [p \in Process |-> "idle"]
  /\ txn \in [Process -> Txn]
  /\ memory = [p \in Process |-> <<>>]
  /\ seen = [p \in Recoverer |-> "UNAVAILABLE"]
  /\ commits = [t \in Txn |-> 0]
  /\ restores = [t \in Txn |-> 0]

Goto(p, step) == pc' = [pc EXCEPT ![p] = step]

\* The state no step of process p below changes unless it says so.
physical == <<worktree, manifest, commits, restores>>
identity == <<directories, txn>>

----------------------------------------------------------------------------
(***************************************************************************)
(* The journal.                                                            *)
(***************************************************************************)

\* A mutation for TLC's runs: append() does not look at the published history.
AcceptsAnyState(p, candidate) == MayBecome(memory[p], candidate)

\* append() takes a candidate that extends the record it read by one event, or that
\* is already there (a retry converges).  A candidate of any other version, or with
\* another history, is refused; so is any append to a terminal journal.
Accepts(p, candidate) ==
  /\ MayBecome(memory[p], candidate)
  /\ journal[txn[p]] \in {memory[p], candidate}

\* Process p appends its transaction with one more event and goes to step next; when
\* append() throws it keeps the transaction it had and goes to step error.  A record
\* is published by one link(2), so an append that throws may have taken effect: the
\* directory flush that confirms it comes after the link.
Publish(p, stage, bound, next, error) ==
  LET candidate == Extend(memory[p], stage, bound) IN
  \/ /\ Accepts(p, candidate)
     /\ journal' = [journal EXCEPT ![txn[p]] = candidate]
     /\ memory' = [memory EXCEPT ![p] = candidate]
     /\ Goto(p, next)
  \/ /\ Accepts(p, candidate)
     /\ StorageFaults
     /\ journal' = [journal EXCEPT ![txn[p]] = candidate]
     /\ Goto(p, error)
     /\ UNCHANGED memory
  \/ /\ StorageFaults \/ ~Accepts(p, candidate)
     /\ Goto(p, error)
     /\ UNCHANGED <<journal, memory>>

Advance(p, stage, next, error) ==
  /\ Publish(p, stage, Unbound, next, error)
  /\ UNCHANGED <<lock, claim, seen, physical, identity>>

\* A step of p that only moves its control.
Move(p, next) ==
  /\ Goto(p, next)
  /\ UNCHANGED <<journal, memory, lock, claim, seen, physical, identity>>

----------------------------------------------------------------------------
(***************************************************************************)
(* The coordinator: journal creation and lock acquisition.                 *)
(***************************************************************************)

\* Reopen the journal: absent, PREPARED, or a reason to refuse.
Reopen(p) ==
  /\ pc[p] = "idle"
  /\ memory' = [memory EXCEPT ![p] = Prepared]
  /\ \/ Goto(p, CASE txn[p] \notin directories -> "create"
                  [] journal[txn[p]] = Prepared -> "acquire"
                  [] OTHER -> "failed")
     \/ StorageFaults /\ Goto(p, "failed")
  /\ UNCHANGED <<journal, lock, claim, seen, physical, identity>>

\* The mkdir, whose loser reads the journal of the winner.
CreateDirectory(p) ==
  /\ pc[p] = "create"
  /\ \/ /\ directories' = directories \union {txn[p]}
        /\ Goto(p, CASE txn[p] \notin directories -> "publish"
                     [] journal[txn[p]] = Prepared -> "acquire"
                     [] OTHER -> "failed")
     \/ /\ StorageFaults
        /\ directories' \in {directories, directories \union {txn[p]}}
        /\ Goto(p, "failed")
  /\ UNCHANGED <<journal, memory, lock, claim, seen, txn, physical>>

\* Only the process whose mkdir won publishes the first record.
PublishPrepared(p) ==
  /\ pc[p] = "publish"
  /\ \/ /\ journal' = [journal EXCEPT ![txn[p]] = Prepared]
        /\ Goto(p, "acquire")
     \/ /\ StorageFaults
        /\ journal' \in {journal, [journal EXCEPT ![txn[p]] = Prepared]}
        /\ Goto(p, "failed")
  /\ UNCHANGED <<memory, lock, claim, seen, physical, identity>>

\* A mutation for TLC's runs: the lock file is created without O_EXCL.
OpenLockOverwriting(p) ==
  /\ pc[p] = "acquire"
  /\ lock' = [owner |-> p, complete |-> FALSE]
  /\ Goto(p, "write_lock")
  /\ UNCHANGED <<journal, memory, claim, seen, physical, identity>>

\* The exclusive create.  An existing file is contention, whatever it holds.
OpenLock(p) ==
  /\ pc[p] = "acquire"
  /\ \/ /\ lock = NoLock
        /\ lock' = [owner |-> p, complete |-> FALSE]
        /\ Goto(p, "write_lock")
     \/ /\ lock # NoLock
        /\ Goto(p, "failed")
        /\ UNCHANGED lock
  /\ UNCHANGED <<journal, memory, claim, seen, physical, identity>>

\* open(2) failed with an error other than EEXIST: the handler unlinks the path,
\* whoever created the file there, before it throws the error on.
OpenLockFails(p) ==
  /\ OpenFaults
  /\ pc[p] = "acquire"
  /\ lock' = NoLock
  /\ Goto(p, "failed")
  /\ UNCHANGED <<journal, memory, claim, seen, physical, identity>>

\* Write, flush and confirm through the descriptor of the created file; a failure
\* unlinks the path, and an unlink that fails is ignored.
WriteLock(p) ==
  /\ pc[p] = "write_lock"
  /\ \/ /\ lock' = [lock EXCEPT !.complete = (lock.owner = p) \/ lock.complete]
        /\ Goto(p, "bind")
     \/ /\ StorageFaults
        /\ lock' \in {NoLock, lock}
        /\ Goto(p, "failed")
  /\ UNCHANGED <<journal, memory, claim, seen, physical, identity>>

\* The LOCKED record.  When this append throws, the coordinator does not exist yet
\* and nothing releases the lock.
BindLock(p) ==
  /\ pc[p] = "bind"
  /\ Publish(p, "LOCKED", p, "before", "failed")
  /\ UNCHANGED <<lock, claim, seen, physical, identity>>

----------------------------------------------------------------------------
(***************************************************************************)
(* The patch adapter up to the physical commit.                            *)
(***************************************************************************)

\* The authority check on entry and the BEFORE check of the worktree file passed.
VerifyBefore(p) ==
  /\ pc[p] = "before"
  /\ worktree = Before[txn[p]]
  /\ Advance(p, "BEFORE_VERIFIED", "start", "fail_before")

\* Expired authority, a stale target, or a target that cannot be read.
DenyEntry(p) ==
  /\ pc[p] = "before"
  /\ Move(p, "fail_before")

StartMutation(p) ==
  /\ pc[p] = "start"
  /\ Advance(p, "MUTATION_STARTED", "authorize", "fail_before")

DenyPreparation(p) ==
  /\ pc[p] = "start"
  /\ Move(p, "fail_before")

\* A mutation for TLC's runs: a failed authority record does not stop the mutation.
VerifyCommitAuthorityLoosely(p) ==
  /\ pc[p] = "authorize"
  /\ Advance(p, "COMMIT_AUTHORITY_VERIFIED", "replace", "replace")

\* The last authority check, made durable before anything physical happens.
VerifyCommitAuthority(p) ==
  /\ pc[p] = "authorize"
  /\ Advance(p, "COMMIT_AUTHORITY_VERIFIED",
             IF ContentAddressed THEN "bootstrap" ELSE "replace", "orchestrator_recovery")

\* A denial that carries a clock reading is provably before the commit; an unavailable
\* clock leaves no evidence, and the orchestrator asks for recovery.
DenyCommit(p) ==
  /\ pc[p] = "authorize"
  /\ \E next \in {"fail_before", "orchestrator_recovery"} : Move(p, next)

\* A mutation for TLC's runs: the lock is released though the record failed.
FailBeforeCommitLoosely(p) ==
  /\ pc[p] = "fail_before"
  /\ Advance(p, "FINALIZED_FAILED", "unlink", "unlink")

\* failBeforeCommit: FINALIZED_FAILED, then release.
FailBeforeCommit(p) ==
  /\ pc[p] = "fail_before"
  /\ Advance(p, "FINALIZED_FAILED", "release", "failed")

----------------------------------------------------------------------------
(***************************************************************************)
(* The physical commit.                                                    *)
(***************************************************************************)

\* A mutation for TLC's runs: bootstrap overwrites the authority it finds.
BootstrapBlindly(p) ==
  /\ pc[p] = "bootstrap"
  /\ manifest' = Before[txn[p]]
  /\ Goto(p, "replace")
  /\ UNCHANGED <<journal, memory, lock, claim, seen, worktree, commits, restores, identity>>

\* The manifest provider first establishes the authority it will swap.
Bootstrap(p) ==
  /\ pc[p] = "bootstrap"
  /\ \/ /\ IF manifest = NoManifest THEN worktree = Before[txn[p]]
                                    ELSE manifest = Before[txn[p]]
        /\ manifest' = Before[txn[p]]
        /\ Goto(p, "replace")
     \/ /\ StorageFaults \/ manifest # Before[txn[p]]
        /\ Goto(p, "orchestrator_recovery")
        /\ UNCHANGED manifest
  /\ UNCHANGED <<journal, memory, lock, claim, seen, worktree, commits, restores, identity>>

\* The atomic compare-and-replace took effect.
ReplaceTarget(t) ==
  /\ IF ContentAddressed
       THEN /\ manifest = Before[t]
            /\ manifest' = Replacement[t]
            /\ UNCHANGED worktree
       ELSE /\ worktree = Before[t]
            /\ worktree' = Replacement[t]
            /\ UNCHANGED manifest
  /\ commits' = [commits EXCEPT ![t] = @ + 1]
  /\ UNCHANGED restores

\* APPLIED; or AMBIGUOUS_POSTCOMMIT, which is a failure after the commit; or a swap of
\* the ref that was done but could not be confirmed, which the adapter cannot tell
\* from one that was not done.
Replace(p) ==
  /\ pc[p] = "replace"
  /\ ReplaceTarget(txn[p])
  /\ \/ Goto(p, "record_applied")
     \/ StorageFaults /\ Goto(p, "adapter_recovery")
     \/ StorageFaults /\ ContentAddressed /\ Goto(p, "orchestrator_recovery")
  /\ UNCHANGED <<journal, memory, lock, claim, seen, identity>>

\* MISMATCH or FAILED_PRECOMMIT: nothing was replaced.
ReplaceDenied(p) ==
  /\ pc[p] = "replace"
  /\ StorageFaults \/ (IF ContentAddressed THEN manifest ELSE worktree) # Before[txn[p]]
  /\ Move(p, "orchestrator_recovery")

RecordApplied(p) ==
  /\ pc[p] = "record_applied"
  /\ Advance(p, "PHYSICAL_APPLIED", "verify_after", "adapter_recovery")

\* The manifest provider's projection is immutable once written; the worktree file is
\* read again.
VerifyAfter(p) ==
  /\ pc[p] = "verify_after"
  /\ ContentAddressed \/ worktree = Replacement[txn[p]]
  /\ Advance(p, "AFTER_VERIFIED", "evidence", "adapter_recovery")

VerifyAfterFails(p) ==
  /\ pc[p] = "verify_after"
  /\ StorageFaults \/ (~ContentAddressed /\ worktree # Replacement[txn[p]])
  /\ Move(p, IF ContentAddressed THEN "adapter_recovery" ELSE "restore_recovery")

RecordEvidence(p) ==
  /\ pc[p] = "evidence"
  /\ Advance(p, "EVIDENCE_RECORDED", "finalize", "orchestrator_recovery")

FinalizeSuccess(p) ==
  /\ pc[p] = "finalize"
  /\ Advance(p, "FINALIZED_SUCCESS", "release", "orchestrator_recovery")

----------------------------------------------------------------------------
(***************************************************************************)
(* Failures after the commit authority was verified.                       *)
(***************************************************************************)

\* requireRecovery in the adapter; when it throws, the orchestrator tries once more.
AdapterRecovery(p) ==
  /\ pc[p] = "adapter_recovery"
  /\ Advance(p, "RECOVERY_REQUIRED", "failed", "orchestrator_recovery")

\* The orchestrator leaves these stages alone and asks for recovery in any other.
OrchestratorRecovery(p) ==
  /\ pc[p] = "orchestrator_recovery"
  /\ IF StageOf(memory[p]) \in Terminal \union {"RECOVERY_REQUIRED"}
       THEN Move(p, "failed")
       ELSE Advance(p, "RECOVERY_REQUIRED", "failed", "failed")

RestoreRecovery(p) ==
  /\ pc[p] = "restore_recovery"
  /\ Advance(p, "RECOVERY_REQUIRED", "restore", "restore")

\* A mutation for TLC's runs: the restore does not ask who wrote the file.
RestoreUnowned(p) ==
  /\ pc[p] = "restore"
  /\ worktree' = Before[txn[p]]
  /\ restores' = [restores EXCEPT ![txn[p]] = @ + 1]
  /\ Goto(p, "record_restored")
  /\ UNCHANGED <<journal, memory, lock, claim, seen, manifest, commits, identity>>

\* The bounded compensating restore: only while the file holds this replacement.  The
\* file is read once more, and may have been edited since.
Restore(p) ==
  /\ pc[p] = "restore"
  /\ worktree = Replacement[txn[p]]
  /\ worktree' = Before[txn[p]]
  /\ restores' = [restores EXCEPT ![txn[p]] = @ + 1]
  /\ \/ Goto(p, "record_restored")
     \/ /\ StorageFaults \/ EditorContent # {}
        /\ Goto(p, "orchestrator_recovery")
  /\ UNCHANGED <<journal, memory, lock, claim, seen, manifest, commits, identity>>

RestoreDenied(p) ==
  /\ pc[p] = "restore"
  /\ StorageFaults \/ worktree # Replacement[txn[p]]
  /\ Move(p, "orchestrator_recovery")

RecordRestored(p) ==
  /\ pc[p] = "record_restored"
  /\ Advance(p, "RECOVERED", "restored_evidence", "orchestrator_recovery")

RecordRestoredEvidence(p) ==
  /\ pc[p] = "restored_evidence"
  /\ Advance(p, "EVIDENCE_RECORDED", "restored_failed", "failed")

FinalizeRestored(p) ==
  /\ pc[p] = "restored_failed"
  /\ Advance(p, "FINALIZED_FAILED", "release", "failed")

----------------------------------------------------------------------------
(***************************************************************************)
(* Release of the lock: read the file, compare it with the exact metadata  *)
(* the transaction is bound to, and unlink the path.                       *)
(***************************************************************************)

Owns(token) == lock.complete /\ lock.owner = token

ReleaseCheck(p) ==
  /\ pc[p] = "release"
  /\ \/ Owns(LockToken(memory[p])) /\ Move(p, "unlink")
     \/ (StorageFaults \/ ~Owns(LockToken(memory[p]))) /\ Move(p, "failed")

\* A mutation for TLC's runs: whoever released the lock answers COMPLETED.
ReleaseUnlinkCompleted(p) ==
  /\ pc[p] = "unlink"
  /\ lock' = NoLock
  /\ Goto(p, "completed")
  /\ UNCHANGED <<journal, memory, claim, seen, physical, identity>>

\* COMPLETED is reported only when the unlink was confirmed.
ReleaseUnlink(p) ==
  /\ pc[p] = "unlink"
  /\ lock' = NoLock
  /\ \/ Goto(p, IF lock # NoLock /\ StageOf(memory[p]) = "FINALIZED_SUCCESS"
                THEN "completed" ELSE "failed")
     \/ StorageFaults /\ Goto(p, "failed")
  /\ UNCHANGED <<journal, memory, claim, seen, physical, identity>>

----------------------------------------------------------------------------
(***************************************************************************)
(* Recovery (adapters/mutation-recovery-adapter.js).                       *)
(***************************************************************************)

\* reopen() rebuilds the transaction from the records of its journal, one after the other.
RecoverReopen(p) ==
  /\ pc[p] = "idle"
  /\ journal[txn[p]] # <<>>
  /\ memory' = [memory EXCEPT ![p] = journal[txn[p]]]
  /\ Goto(p, "inspect_target")
  /\ UNCHANGED <<journal, lock, claim, seen, physical, identity>>

\* The ordinary worktree file is what recovery inspects, with either provider.
Observed(t) ==
  CASE worktree = Before[t] -> "BEFORE"
    [] worktree = Replacement[t] -> "REPLACEMENT"
    [] OTHER -> "OTHER"

InspectTarget(p) ==
  /\ pc[p] = "inspect_target"
  /\ \E observation \in {Observed(txn[p])} \union
                        (IF StorageFaults THEN {"UNAVAILABLE"} ELSE {}) :
       seen' = [seen EXCEPT ![p] = observation]
  /\ Goto(p, "inspect_lock")
  /\ UNCHANGED <<journal, memory, lock, claim, physical, identity>>

\* A call that ends without a claim leaves nothing behind.
EndCall(p) ==
  /\ Goto(p, "idle")
  /\ memory' = [memory EXCEPT ![p] = <<>>]
  /\ seen' = [seen EXCEPT ![p] = "UNAVAILABLE"]
  /\ UNCHANGED <<journal, lock, physical, identity>>

InspectLock(p) ==
  /\ pc[p] = "inspect_lock"
  /\ \/ /\ LockToken(memory[p]) # Unbound
        /\ Owns(LockToken(memory[p]))
        /\ Move(p, "check_owner")
     \/ /\ StorageFaults \/ LockToken(memory[p]) = Unbound \/ ~Owns(LockToken(memory[p]))
        /\ EndCall(p)
        /\ UNCHANGED claim

\* The termination port answers TERMINATED only for a process that has ended.
Terminated(token) == pc[token] \in {"completed", "failed", "crashed"}

\* The preliminary classification is computed here, before the claim is taken.
CheckOwner(p) ==
  /\ pc[p] = "check_owner"
  /\ \/ /\ Terminated(LockToken(memory[p]))
        /\ seen' = [seen EXCEPT ![p] = Classify(memory[p], seen[p])]
        /\ Goto(p, "claim")
        /\ UNCHANGED <<journal, memory, lock, claim, physical, identity>>
     \/ /\ ~Terminated(LockToken(memory[p]))
        /\ EndCall(p)
        /\ UNCHANGED claim

ClaimFree == claim = Unbound

\* Where the stage that was read sends a recoverer that holds the claim.
AfterClaim(h) ==
  CASE StageOf(h) \in Finalized -> "recovery_release"
    [] StageOf(h) = "RECOVERY_UNRESOLVED" -> "drop_claim"
    [] StageOf(h) = "RECOVERY_REQUIRED" -> "bind_evidence"
    [] StageOf(h) = "RECOVERED" -> "recovered_evidence"
    [] OTHER -> "require"

AcquireClaim(p) ==
  /\ pc[p] = "claim"
  /\ \/ /\ ClaimFree
        /\ claim' = p
        /\ Goto(p, AfterClaim(memory[p]))
        /\ UNCHANGED <<journal, memory, lock, seen, physical, identity>>
     \/ /\ ~ClaimFree
        /\ EndCall(p)
        /\ UNCHANGED claim

\* The claim file was created but its flush failed: the call throws, the file stays.
ClaimFails(p) ==
  /\ pc[p] = "claim"
  /\ StorageFaults
  /\ ClaimFree
  /\ claim' = p
  /\ Goto(p, "crashed")
  /\ UNCHANGED <<journal, memory, lock, seen, physical, identity>>

RequireRecovery(p) ==
  /\ pc[p] = "require"
  /\ Advance(p, "RECOVERY_REQUIRED", "bind_evidence", "drop_claim")

BindEvidence(p) ==
  /\ pc[p] = "bind_evidence"
  /\ Publish(p, RecoveredStage(seen[p]), "EVIDENCE",
             IF RecoveredStage(seen[p]) = "RECOVERED" THEN "recovered_evidence"
                                                      ELSE "drop_claim",
             "drop_claim")
  /\ UNCHANGED <<lock, claim, seen, physical, identity>>

RecoveredEvidence(p) ==
  /\ pc[p] = "recovered_evidence"
  /\ Advance(p, "EVIDENCE_RECORDED", "recovered_final", "drop_claim")

RecoveredFinal(p) ==
  /\ pc[p] = "recovered_final"
  /\ Advance(p, TerminalStage(seen[p]), "recovery_release", "drop_claim")

RecoveryReleaseCheck(p) ==
  /\ pc[p] = "recovery_release"
  /\ \/ Owns(LockToken(memory[p])) /\ Move(p, "recovery_unlink")
     \/ (StorageFaults \/ ~Owns(LockToken(memory[p]))) /\ Move(p, "drop_claim")

RecoveryReleaseUnlink(p) ==
  /\ pc[p] = "recovery_unlink"
  /\ lock' = NoLock
  /\ Goto(p, "drop_claim")
  /\ UNCHANGED <<journal, memory, claim, seen, physical, identity>>

\* A mutation for TLC's runs: the call ends without giving its claim up.
DropClaimNever(p) ==
  /\ pc[p] = "drop_claim"
  /\ UNCHANGED claim
  /\ EndCall(p)

\* Only the exact claim is removed; one that cannot be removed stays.
DropClaim(p) ==
  /\ pc[p] = "drop_claim"
  /\ \/ claim' = IF claim = p THEN Unbound ELSE claim
     \/ StorageFaults /\ UNCHANGED claim
  /\ EndCall(p)

----------------------------------------------------------------------------
(***************************************************************************)
(* The environment, and the specification.                                 *)
(***************************************************************************)

\* Someone outside the system writes the worktree file.
EditWorktree ==
  /\ worktree' \in EditorContent
  /\ UNCHANGED <<journal, memory, lock, claim, seen, pc, manifest, commits, restores,
                 identity>>

\* The process ends between two operations; the files stay as they are.
Crash(p) ==
  /\ pc[p] \notin {"idle", "completed", "failed", "crashed"}
  /\ p \in Crashing
  /\ Goto(p, "crashed")
  /\ memory' = [memory EXCEPT ![p] = <<>>]
  /\ UNCHANGED <<journal, lock, claim, seen, physical, identity>>

Acquisition(p) ==
  Reopen(p) \/ CreateDirectory(p) \/ PublishPrepared(p) \/ OpenLock(p) \/ OpenLockFails(p)
  \/ WriteLock(p) \/ BindLock(p)

Preparation(p) ==
  VerifyBefore(p) \/ DenyEntry(p) \/ StartMutation(p) \/ DenyPreparation(p)
  \/ VerifyCommitAuthority(p) \/ DenyCommit(p) \/ FailBeforeCommit(p)

Commit(p) ==
  Bootstrap(p) \/ Replace(p) \/ ReplaceDenied(p) \/ RecordApplied(p) \/ VerifyAfter(p)
  \/ VerifyAfterFails(p) \/ RecordEvidence(p) \/ FinalizeSuccess(p)

Compensation(p) ==
  AdapterRecovery(p) \/ OrchestratorRecovery(p) \/ RestoreRecovery(p) \/ Restore(p)
  \/ RestoreDenied(p) \/ RecordRestored(p) \/ RecordRestoredEvidence(p)
  \/ FinalizeRestored(p)

Release(p) == ReleaseCheck(p) \/ ReleaseUnlink(p)

RunnerStep(p) ==
  Acquisition(p) \/ Preparation(p) \/ Commit(p) \/ Compensation(p) \/ Release(p)

RecovererStep(p) ==
  \/ RecoverReopen(p) \/ InspectTarget(p) \/ InspectLock(p) \/ CheckOwner(p)
  \/ AcquireClaim(p) \/ ClaimFails(p) \/ RequireRecovery(p) \/ BindEvidence(p)
  \/ RecoveredEvidence(p) \/ RecoveredFinal(p) \/ RecoveryReleaseCheck(p)
  \/ RecoveryReleaseUnlink(p) \/ DropClaim(p)

Next ==
  \/ \E p \in Runner : RunnerStep(p)
  \/ \E p \in Recoverer : RecovererStep(p)
  \/ \E p \in Process : Crash(p)
  \/ EditWorktree

Spec == Init /\ [][Next]_vars

\* A process that has not crashed keeps running, and recovery is attempted again and
\* again by whoever is asked to recover; nobody is obliged to edit or to crash.
Fairness ==
  /\ \A p \in Runner : WF_vars(RunnerStep(p))
  /\ \A p \in Recoverer : WF_vars(RecovererStep(p))

FairSpec == Spec /\ Fairness

----------------------------------------------------------------------------
(***************************************************************************)
(* Properties.                                                             *)
(***************************************************************************)

HoldingSteps ==
  RunnerSteps \ {"idle", "create", "publish", "acquire", "completed", "failed", "crashed"}

\* The target is locked by every process that is between the creation of the lock file
\* and its own unlink: no other runner and no recovery takes the file away from it, so
\* conflicting operations on one target serialize.
MutualExclusion ==
  \A p \in Runner : pc[p] \in HoldingSteps => lock.owner = p

Unfinished(t) ==
  /\ Reached(journal[t], "LOCKED")
  /\ StageOf(journal[t]) \notin Finalized

\* Whatever crashed or raced, a transaction that was journaled as LOCKED and is not
\* finalized still owns the complete lock file: its target is never mutated by another
\* transaction before its outcome is known, and RECOVERY_UNRESOLVED keeps it locked.
UnfinishedRetainsLock ==
  \A t \in Txn : Unfinished(t) => Owns(LockToken(journal[t]))

\* A replacement is applied at most once, and taken back at most once, after it was applied.
EffectsOnce == \A t \in Txn : commits[t] <= 1 /\ restores[t] <= commits[t]

\* Recovery is not misled by the file it looks at: nobody recovers, or the manifest is the
\* authority and no authorized replacement ever appears in the worktree file.
NotMisled ==
  \/ Recoverer = {}
  \/ /\ ContentAddressed
     /\ \A t \in Txn : Replacement[t] \notin EditorContent \union {InitialContent}

\* The journal tells the truth about the target: no replacement is applied twice,
\* FINALIZED_SUCCESS means it was applied and not undone, and FINALIZED_FAILED that it
\* was not applied or was undone.  (While nobody outside the system writes one of the
\* two authorized contents: recovery can only compare hashes.)
EvidencedOutcome ==
  \A t \in Txn :
    /\ commits[t] <= 1
    /\ Reached(journal[t], "FINALIZED_SUCCESS") => commits[t] = 1 /\ restores[t] = 0
    /\ Reached(journal[t], "FINALIZED_FAILED") => restores[t] = commits[t]

\* COMPLETED is answered only for a durably successful transaction whose replacement
\* was applied once, and after its own lock is gone.
CompletedIsProven ==
  \A p \in Runner : pc[p] = "completed" =>
    /\ Reached(journal[txn[p]], "FINALIZED_SUCCESS")
    /\ commits[txn[p]] = 1
    /\ lock.owner # p

\* Processes that hold different, possibly stale, copies of one transaction never
\* rewrite or drop a published record, and never go past a terminal one.
JournalIsAppendOnly ==
  [][\A t \in Txn : journal'[t] # journal[t] =>
       /\ Len(journal'[t]) = Len(journal[t]) + 1
       /\ SubSeq(journal'[t], 1, Len(journal[t])) = journal[t]
       /\ ~\E stage \in Terminal : Reached(journal[t], stage)]_vars

\* The physical replacement happens only while the durable journal's last word is the
\* commit authority of that very transaction, and while it owns the lock.
CommitUnderAuthority ==
  [][\A t \in Txn : commits'[t] # commits[t] =>
       /\ StageOf(journal[t]) = "COMMIT_AUTHORITY_VERIFIED"
       /\ Owns(LockToken(journal[t]))]_vars

\* Someone who will not crash is asked to recover t.
Attended(t) == \E p \in Recoverer \ Crashing : txn[p] = t

\* A mutation that stopped anywhere after its LOCKED record is brought to a terminal
\* record, and the lock of a finalized one is removed, while recovery is attempted.
EventuallyReconciled ==
  \A t \in Txn :
    /\ Attended(t) /\ Unfinished(t) ~> \E stage \in Terminal : Reached(journal[t], stage)
    /\ Attended(t) /\ (\E stage \in Finalized : Reached(journal[t], stage))
         ~> lock.owner # LockToken(journal[t])
=============================================================================
