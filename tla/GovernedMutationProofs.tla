----------------------- MODULE GovernedMutationProofs -----------------------
(***************************************************************************)
(* Theorems about GovernedMutation for every set of processes,             *)
(* transactions and contents: types, mutual exclusion, and locks that      *)
(* outlive crashes.                                                        *)
(***************************************************************************)
EXTENDS GovernedMutationInvariant, TLAPS

----------------------------------------------------------------------------
(***************************************************************************)
(* Types.                                                                  *)
(***************************************************************************)

Bound == Runner \union {"EVIDENCE", Unbound}

LEMMA ExtendType ==
  ASSUME NEW h \in Seq(Event), NEW stage \in Stages, NEW bound \in Bound
  PROVE  /\ Extend(h, stage, bound) \in Seq(Event)
         /\ Len(Extend(h, stage, bound)) = Len(h) + 1
         /\ Extend(h, stage, bound)[Len(h) + 1] = [stage |-> stage, bound |-> bound]
         /\ \A i \in 1..Len(h) : Extend(h, stage, bound)[i] = h[i]
  <1>1. [stage |-> stage, bound |-> bound] \in Event
    BY DEF Event, Bound
  <1> QED
    BY <1>1 DEF Extend

LEMMA PreparedType == Prepared \in Seq(Event)
  <1>1. [stage |-> "PREPARED", bound |-> Unbound] \in Event
    BY DEF Event, Stages
  <1> QED
    BY <1>1 DEF Prepared

\* What every step does to the control of its process, in either role.
InRole(p, step) ==
  \/ p \in Runner /\ step \in RunnerSteps
  \/ p \in Recoverer /\ step \in RecovererSteps

PcType ==
  /\ pc \in [Process -> RunnerSteps \union RecovererSteps]
  /\ \A q \in Runner : pc[q] \in RunnerSteps
  /\ \A q \in Recoverer : pc[q] \in RecovererSteps

LockType == [owner : Runner \union {Unbound}, complete : BOOLEAN]

LEMMA GotoType ==
  ASSUME PcType, NEW p \in Process, NEW step, Goto(p, step), InRole(p, step)
  PROVE  PcType'
  BY ConstantsAssumption DEF PcType, Goto, Process, InRole

LEMMA PublishType ==
  ASSUME TypeOK, NEW p \in Process, NEW stage \in Stages, NEW bound \in Bound,
         NEW next, NEW error, Publish(p, stage, bound, next, error)
  PROVE  /\ journal' \in [Txn -> Seq(Event)]
         /\ memory' \in [Process -> Seq(Event)]
         /\ Goto(p, next) \/ Goto(p, error)
  <1> DEFINE candidate == Extend(memory[p], stage, bound)
  <1>1. /\ memory \in [Process -> Seq(Event)]
        /\ journal \in [Txn -> Seq(Event)]
        /\ txn[p] \in Txn
    BY DEF TypeOK
  <1>2. candidate \in Seq(Event)
    BY <1>1, ExtendType
  <1>3. \/ /\ journal' = [journal EXCEPT ![txn[p]] = candidate]
           /\ memory' = [memory EXCEPT ![p] = candidate]
           /\ Goto(p, next)
        \/ /\ journal' = [journal EXCEPT ![txn[p]] = candidate]
           /\ Goto(p, error)
           /\ memory' = memory
        \/ /\ Goto(p, error)
           /\ journal' = journal
           /\ memory' = memory
    BY DEF Publish
  <1> HIDE DEF candidate
  <1> QED
    BY <1>1, <1>2, <1>3

LEMMA AdvanceType ==
  ASSUME TypeOK, NEW p \in Process, NEW stage \in Stages, NEW next, NEW error,
         Advance(p, stage, next, error), InRole(p, next), InRole(p, error)
  PROVE  TypeOK'
  <1>1. Publish(p, stage, Unbound, next, error) /\ Unbound \in Bound
    BY DEF Advance, Bound
  <1>2. /\ journal' \in [Txn -> Seq(Event)]
        /\ memory' \in [Process -> Seq(Event)]
        /\ Goto(p, next) \/ Goto(p, error)
    BY <1>1, PublishType
  <1>3. PcType'
    BY <1>2, GotoType DEF TypeOK, PcType
  <1> QED
    BY <1>2, <1>3 DEF TypeOK, PcType, Advance, physical, identity

LEMMA MoveType ==
  ASSUME TypeOK, NEW p \in Process, NEW next, Move(p, next), InRole(p, next)
  PROVE  TypeOK'
  <1>1. PcType'
    BY GotoType DEF Move, TypeOK, PcType
  <1> QED
    BY <1>1 DEF TypeOK, PcType, Move, physical, identity

LEMMA EndCallType ==
  ASSUME TypeOK, NEW p \in Recoverer, EndCall(p), claim' \in Recoverer \union {Unbound}
  PROVE  TypeOK'
  <1>1. PcType' /\ p \in Process
    BY GotoType DEF EndCall, TypeOK, PcType, InRole, RecovererSteps, Process
  <1>2. memory' \in [Process -> Seq(Event)] /\ seen' \in [Recoverer -> Observations \union Classifications]
    BY <1>1 DEF EndCall, TypeOK, Observations
  <1> QED
    BY <1>1, <1>2 DEF TypeOK, PcType, EndCall, physical, identity

----------------------------------------------------------------------------
LEMMA AcquisitionType ==
  ASSUME TypeOK, NEW p \in Runner, Acquisition(p)
  PROVE  TypeOK'
  <1>0. p \in Process /\ txn[p] \in Txn /\ PcType /\ lock \in LockType
    BY DEF TypeOK, PcType, Process, LockType
  <1>1. CASE Reopen(p)
    <2>1. PcType'
      BY <1>0, <1>1, GotoType DEF Reopen, InRole, RunnerSteps
    <2>2. memory' \in [Process -> Seq(Event)]
      BY <1>0, <1>1, PreparedType DEF Reopen, TypeOK
    <2> QED
      BY <1>1, <2>1, <2>2 DEF Reopen, TypeOK, PcType, physical, identity
  <1>2. CASE CreateDirectory(p)
    <2>1. PcType'
      BY <1>0, <1>2, GotoType DEF CreateDirectory, InRole, RunnerSteps
    <2> QED
      BY <1>0, <1>2, <2>1 DEF CreateDirectory, TypeOK, PcType, physical
  <1>3. CASE PublishPrepared(p)
    <2>1. PcType'
      BY <1>0, <1>3, GotoType DEF PublishPrepared, InRole, RunnerSteps
    <2>2. journal' \in [Txn -> Seq(Event)]
      BY <1>0, <1>3, PreparedType DEF PublishPrepared, TypeOK
    <2> QED
      BY <1>3, <2>1, <2>2 DEF PublishPrepared, TypeOK, PcType, physical, identity
  <1>4. CASE OpenLock(p)
    <2>1. PcType'
      BY <1>0, <1>4, GotoType DEF OpenLock, InRole, RunnerSteps
    <2>2. lock' \in LockType
      <3>1. lock' = [owner |-> p, complete |-> FALSE] \/ lock' = lock
        BY <1>4 DEF OpenLock
      <3>2. [owner |-> p, complete |-> FALSE] \in LockType
        BY DEF LockType
      <3> QED
        BY <1>0, <3>1, <3>2
    <2> QED
      BY <1>4, <2>1, <2>2 DEF OpenLock, LockType, TypeOK, PcType, physical, identity
  <1>5. CASE OpenLockFails(p)
    <2>1. PcType'
      BY <1>0, <1>5, GotoType DEF OpenLockFails, InRole, RunnerSteps
    <2> QED
      BY <1>5, <2>1 DEF OpenLockFails, NoLock, TypeOK, PcType, physical, identity
  <1>6. CASE WriteLock(p)
    <2>1. PcType'
      BY <1>0, <1>6, GotoType DEF WriteLock, InRole, RunnerSteps
    <2>2. lock' \in LockType
      <3> DEFINE written == (lock.owner = p) \/ lock.complete
      <3>1. lock' = [lock EXCEPT !.complete = written] \/ lock' = lock \/ lock' = NoLock
        BY <1>6 DEF WriteLock
      <3>2. written \in BOOLEAN
        OBVIOUS
      <3>3. NoLock \in LockType
        BY DEF LockType, NoLock
      <3> HIDE DEF written
      <3>4. [lock EXCEPT !.complete = written] \in LockType
        BY <1>0, <3>2 DEF LockType
      <3> QED
        BY <1>0, <3>1, <3>3, <3>4
    <2> QED
      BY <1>6, <2>1, <2>2 DEF WriteLock, LockType, TypeOK, PcType, physical, identity
  <1>7. CASE BindLock(p)
    <2>1. /\ journal' \in [Txn -> Seq(Event)]
          /\ memory' \in [Process -> Seq(Event)]
          /\ Goto(p, "before") \/ Goto(p, "failed")
      BY <1>0, <1>7, PublishType DEF BindLock, Stages, Bound
    <2>2. PcType'
      BY <1>0, <2>1, GotoType DEF InRole, RunnerSteps
    <2> QED
      BY <1>7, <2>1, <2>2 DEF BindLock, TypeOK, PcType, physical, identity
  <1> QED
    BY <1>1, <1>2, <1>3, <1>4, <1>5, <1>6, <1>7 DEF Acquisition

LEMMA PreparationType ==
  ASSUME TypeOK, NEW p \in Runner, Preparation(p)
  PROVE  TypeOK'
  <1>0. p \in Process
    BY DEF Process
  <1>1. CASE VerifyBefore(p)
    BY <1>0, <1>1, AdvanceType DEF VerifyBefore, InRole, RunnerSteps, Stages
  <1>2. CASE DenyEntry(p)
    BY <1>0, <1>2, MoveType DEF DenyEntry, InRole, RunnerSteps
  <1>3. CASE StartMutation(p)
    BY <1>0, <1>3, AdvanceType DEF StartMutation, InRole, RunnerSteps, Stages
  <1>4. CASE DenyPreparation(p)
    BY <1>0, <1>4, MoveType DEF DenyPreparation, InRole, RunnerSteps
  <1>5. CASE VerifyCommitAuthority(p)
    <2> DEFINE next == IF ContentAddressed THEN "bootstrap" ELSE "replace"
    <2>1. InRole(p, next) /\ InRole(p, "orchestrator_recovery")
      BY DEF InRole, RunnerSteps
    <2>2. Advance(p, "COMMIT_AUTHORITY_VERIFIED", next, "orchestrator_recovery")
      BY <1>5 DEF VerifyCommitAuthority
    <2> HIDE DEF next
    <2> QED
      BY <1>0, <2>1, <2>2, AdvanceType DEF Stages
  <1>6. CASE DenyCommit(p)
    BY <1>0, <1>6, MoveType DEF DenyCommit, InRole, RunnerSteps
  <1>7. CASE FailBeforeCommit(p)
    BY <1>0, <1>7, AdvanceType DEF FailBeforeCommit, InRole, RunnerSteps, Stages
  <1> QED
    BY <1>1, <1>2, <1>3, <1>4, <1>5, <1>6, <1>7 DEF Preparation

LEMMA CommitType ==
  ASSUME TypeOK, NEW p \in Runner, Commit(p)
  PROVE  TypeOK'
  <1>0. p \in Process /\ txn[p] \in Txn /\ PcType
    BY DEF TypeOK, PcType, Process
  <1>1. CASE Bootstrap(p)
    <2>1. PcType'
      BY <1>0, <1>1, GotoType DEF Bootstrap, InRole, RunnerSteps
    <2>2. manifest' \in Content \union {NoManifest}
      BY <1>0, <1>1, ConstantsAssumption DEF Bootstrap, TypeOK
    <2> QED
      BY <1>1, <2>1, <2>2 DEF Bootstrap, TypeOK, PcType, identity
  <1>2. CASE Replace(p)
    <2>1. PcType'
      BY <1>0, <1>2, GotoType DEF Replace, InRole, RunnerSteps
    <2>2. /\ worktree' \in Content
          /\ manifest' \in Content \union {NoManifest}
          /\ commits' \in [Txn -> Nat]
          /\ restores' = restores
      <3>1. /\ worktree \in Content
            /\ manifest \in Content \union {NoManifest}
            /\ commits \in [Txn -> Nat]
            /\ Replacement[txn[p]] \in Content
        BY <1>0, ConstantsAssumption DEF TypeOK
      <3> QED
        BY <1>0, <1>2, <3>1 DEF Replace, ReplaceTarget
    <2> QED
      BY <1>2, <2>1, <2>2 DEF Replace, TypeOK, PcType, identity
  <1>3. CASE ReplaceDenied(p)
    BY <1>0, <1>3, MoveType DEF ReplaceDenied, InRole, RunnerSteps
  <1>4. CASE RecordApplied(p)
    BY <1>0, <1>4, AdvanceType DEF RecordApplied, InRole, RunnerSteps, Stages
  <1>5. CASE VerifyAfter(p)
    BY <1>0, <1>5, AdvanceType DEF VerifyAfter, InRole, RunnerSteps, Stages
  <1>6. CASE VerifyAfterFails(p)
    <2> DEFINE next == IF ContentAddressed THEN "adapter_recovery" ELSE "restore_recovery"
    <2>1. InRole(p, next)
      BY DEF InRole, RunnerSteps
    <2>2. Move(p, next)
      BY <1>6 DEF VerifyAfterFails
    <2> HIDE DEF next
    <2> QED
      BY <1>0, <2>1, <2>2, MoveType
  <1>7. CASE RecordEvidence(p)
    BY <1>0, <1>7, AdvanceType DEF RecordEvidence, InRole, RunnerSteps, Stages
  <1>8. CASE FinalizeSuccess(p)
    BY <1>0, <1>8, AdvanceType DEF FinalizeSuccess, InRole, RunnerSteps, Stages
  <1> QED
    BY <1>1, <1>2, <1>3, <1>4, <1>5, <1>6, <1>7, <1>8 DEF Commit

LEMMA CompensationType ==
  ASSUME TypeOK, NEW p \in Runner, Compensation(p)
  PROVE  TypeOK'
  <1>0. p \in Process /\ txn[p] \in Txn /\ PcType
    BY DEF TypeOK, PcType, Process
  <1>1. CASE AdapterRecovery(p)
    BY <1>0, <1>1, AdvanceType DEF AdapterRecovery, InRole, RunnerSteps, Stages
  <1>2. CASE OrchestratorRecovery(p)
    BY <1>0, <1>2, AdvanceType, MoveType DEF OrchestratorRecovery, InRole, RunnerSteps, Stages
  <1>3. CASE RestoreRecovery(p)
    BY <1>0, <1>3, AdvanceType DEF RestoreRecovery, InRole, RunnerSteps, Stages
  <1>4. CASE Restore(p)
    <2>1. PcType'
      BY <1>0, <1>4, GotoType DEF Restore, InRole, RunnerSteps
    <2>2. worktree' \in Content /\ restores' \in [Txn -> Nat]
      <3>1. restores \in [Txn -> Nat] /\ Before[txn[p]] \in Content
        BY <1>0, ConstantsAssumption DEF TypeOK
      <3> QED
        BY <1>0, <1>4, <3>1 DEF Restore
    <2> QED
      BY <1>4, <2>1, <2>2 DEF Restore, TypeOK, PcType, identity
  <1>5. CASE RestoreDenied(p)
    BY <1>0, <1>5, MoveType DEF RestoreDenied, InRole, RunnerSteps
  <1>6. CASE RecordRestored(p)
    BY <1>0, <1>6, AdvanceType DEF RecordRestored, InRole, RunnerSteps, Stages
  <1>7. CASE RecordRestoredEvidence(p)
    BY <1>0, <1>7, AdvanceType DEF RecordRestoredEvidence, InRole, RunnerSteps, Stages
  <1>8. CASE FinalizeRestored(p)
    BY <1>0, <1>8, AdvanceType DEF FinalizeRestored, InRole, RunnerSteps, Stages
  <1> QED
    BY <1>1, <1>2, <1>3, <1>4, <1>5, <1>6, <1>7, <1>8 DEF Compensation

LEMMA ReleaseType ==
  ASSUME TypeOK, NEW p \in Runner, Release(p)
  PROVE  TypeOK'
  <1>0. p \in Process /\ PcType
    BY DEF TypeOK, PcType, Process
  <1>1. CASE ReleaseCheck(p)
    BY <1>0, <1>1, MoveType DEF ReleaseCheck, InRole, RunnerSteps
  <1>2. CASE ReleaseUnlink(p)
    <2>1. PcType'
      <3> DEFINE next == IF lock # NoLock /\ StageOf(memory[p]) = "FINALIZED_SUCCESS"
                         THEN "completed" ELSE "failed"
      <3>1. InRole(p, next) /\ InRole(p, "failed")
        BY DEF InRole, RunnerSteps
      <3>2. Goto(p, next) \/ Goto(p, "failed")
        BY <1>2 DEF ReleaseUnlink
      <3> HIDE DEF next
      <3> QED
        BY <1>0, <3>1, <3>2, GotoType
    <2>2. lock' \in LockType
      BY <1>2 DEF ReleaseUnlink, LockType, NoLock
    <2> QED
      BY <1>2, <2>1, <2>2 DEF ReleaseUnlink, LockType, TypeOK, PcType, physical, identity
  <1> QED
    BY <1>1, <1>2 DEF Release

LEMMA ClassifyType ==
  ASSUME NEW h, NEW observed
  PROVE  Classify(h, observed) \in Classifications
  BY DEF Classify, Classifications

LEMMA RecovererType ==
  ASSUME TypeOK, NEW p \in Recoverer, RecovererStep(p)
  PROVE  TypeOK'
  <1>0. p \in Process /\ txn[p] \in Txn /\ PcType
    BY DEF TypeOK, PcType, Process
  <1>1. CASE RecoverReopen(p)
    <2>1. PcType'
      BY <1>0, <1>1, GotoType DEF RecoverReopen, InRole, RecovererSteps
    <2>2. memory' \in [Process -> Seq(Event)]
      BY <1>0, <1>1 DEF RecoverReopen, TypeOK
    <2> QED
      BY <1>1, <2>1, <2>2 DEF RecoverReopen, TypeOK, PcType, physical, identity
  <1>2. CASE InspectTarget(p)
    <2>1. PcType'
      BY <1>0, <1>2, GotoType DEF InspectTarget, InRole, RecovererSteps
    <2>2. seen' \in [Recoverer -> Observations \union Classifications]
      BY <1>0, <1>2 DEF InspectTarget, Observed, Observations, TypeOK
    <2> QED
      BY <1>2, <2>1, <2>2 DEF InspectTarget, TypeOK, PcType, physical, identity
  <1>3. CASE InspectLock(p)
    <2>1. Move(p, "check_owner") \/ (EndCall(p) /\ UNCHANGED claim)
      BY <1>3 DEF InspectLock
    <2>2. InRole(p, "check_owner") /\ claim \in Recoverer \union {Unbound}
      BY DEF InRole, RecovererSteps, TypeOK
    <2> QED
      BY <1>0, <2>1, <2>2, MoveType, EndCallType
  <1>4. CASE CheckOwner(p)
    <2>1. CASE EndCall(p) /\ UNCHANGED claim
      BY <2>1, EndCallType DEF TypeOK
    <2>2. CASE /\ seen' = [seen EXCEPT ![p] = Classify(memory[p], seen[p])]
               /\ Goto(p, "claim")
               /\ UNCHANGED <<journal, memory, lock, claim, physical, identity>>
      <3>1. PcType'
        BY <1>0, <2>2, GotoType DEF InRole, RecovererSteps
      <3>2. seen' \in [Recoverer -> Observations \union Classifications]
        BY <1>0, <2>2, ClassifyType DEF TypeOK
      <3> QED
        BY <2>2, <3>1, <3>2 DEF TypeOK, PcType, physical, identity
    <2> QED
      BY <1>4, <2>1, <2>2 DEF CheckOwner
  <1>5. CASE AcquireClaim(p)
    <2>1. CASE EndCall(p) /\ UNCHANGED claim
      BY <2>1, EndCallType DEF TypeOK
    <2>2. CASE /\ claim' = p
               /\ Goto(p, AfterClaim(memory[p]))
               /\ UNCHANGED <<journal, memory, lock, seen, physical, identity>>
      <3>1. PcType'
        BY <1>0, <2>2, GotoType DEF InRole, RecovererSteps, AfterClaim
      <3> QED
        BY <2>2, <3>1 DEF TypeOK, PcType, physical, identity
    <2> QED
      BY <1>5, <2>1, <2>2 DEF AcquireClaim
  <1>6. CASE ClaimFails(p)
    <2>1. PcType'
      BY <1>0, <1>6, GotoType DEF ClaimFails, InRole, RecovererSteps
    <2> QED
      BY <1>6, <2>1 DEF ClaimFails, TypeOK, PcType, physical, identity
  <1>7. CASE RequireRecovery(p)
    BY <1>0, <1>7, AdvanceType DEF RequireRecovery, InRole, RecovererSteps, Stages
  <1>8. CASE BindEvidence(p)
    <2> DEFINE stage == RecoveredStage(seen[p])
               next == IF stage = "RECOVERED" THEN "recovered_evidence" ELSE "drop_claim"
    <2>1. stage \in Stages /\ "EVIDENCE" \in Bound
      BY DEF RecoveredStage, Stages, Bound
    <2>2. InRole(p, next) /\ InRole(p, "drop_claim")
      BY DEF InRole, RecovererSteps
    <2>3. Publish(p, stage, "EVIDENCE", next, "drop_claim")
      BY <1>8 DEF BindEvidence
    <2> HIDE DEF stage, next
    <2>4. /\ journal' \in [Txn -> Seq(Event)]
          /\ memory' \in [Process -> Seq(Event)]
          /\ PcType'
      BY <1>0, <2>1, <2>2, <2>3, PublishType, GotoType
    <2> QED
      BY <1>8, <2>4 DEF BindEvidence, TypeOK, PcType, physical, identity
  <1>9. CASE RecoveredEvidence(p)
    BY <1>0, <1>9, AdvanceType DEF RecoveredEvidence, InRole, RecovererSteps, Stages
  <1>10. CASE RecoveredFinal(p)
    <2>1. TerminalStage(seen[p]) \in Stages
      BY DEF TerminalStage, Stages
    <2> QED
      BY <1>0, <1>10, <2>1, AdvanceType DEF RecoveredFinal, InRole, RecovererSteps
  <1>11. CASE RecoveryReleaseCheck(p)
    BY <1>0, <1>11, MoveType DEF RecoveryReleaseCheck, InRole, RecovererSteps
  <1>12. CASE RecoveryReleaseUnlink(p)
    <2>1. PcType'
      BY <1>0, <1>12, GotoType DEF RecoveryReleaseUnlink, InRole, RecovererSteps
    <2>2. lock' \in LockType
      BY <1>12 DEF RecoveryReleaseUnlink, LockType, NoLock
    <2> QED
      BY <1>12, <2>1, <2>2
      DEF RecoveryReleaseUnlink, LockType, TypeOK, PcType, physical, identity
  <1>13. CASE DropClaim(p)
    BY <1>13, EndCallType DEF DropClaim, TypeOK
  <1> QED
    BY <1>1, <1>2, <1>3, <1>4, <1>5, <1>6, <1>7, <1>8, <1>9, <1>10, <1>11, <1>12, <1>13
    DEF RecovererStep

LEMMA CrashType ==
  ASSUME TypeOK, NEW p \in Process, Crash(p)
  PROVE  TypeOK'
  <1>1. PcType'
    BY GotoType DEF Crash, TypeOK, PcType, Process, InRole, RunnerSteps, RecovererSteps
  <1>2. memory' \in [Process -> Seq(Event)]
    BY DEF Crash, TypeOK
  <1> QED
    BY <1>1, <1>2 DEF Crash, TypeOK, PcType, physical, identity

LEMMA TypeStep == TypeOK /\ [Next]_vars => TypeOK'
  <1> SUFFICES ASSUME TypeOK, [Next]_vars PROVE TypeOK'
    OBVIOUS
  <1>1. ASSUME NEW p \in Runner, RunnerStep(p) PROVE TypeOK'
    BY <1>1, AcquisitionType, PreparationType, CommitType, CompensationType, ReleaseType
    DEF RunnerStep
  <1>2. ASSUME NEW p \in Recoverer, RecovererStep(p) PROVE TypeOK'
    BY <1>2, RecovererType
  <1>3. ASSUME NEW p \in Process, Crash(p) PROVE TypeOK'
    BY <1>3, CrashType
  <1>4. CASE EditWorktree
    BY <1>4, ConstantsAssumption DEF EditWorktree, TypeOK, identity
  <1>5. CASE UNCHANGED vars
    BY <1>5 DEF vars, TypeOK
  <1> QED
    BY <1>1, <1>2, <1>3, <1>4, <1>5 DEF Next

LEMMA TypeInit == Init => TypeOK
  BY ConstantsAssumption, PreparedType
  DEF Init, TypeOK, NoLock, RunnerSteps, RecovererSteps, Observations, Process

\* Every reachable state is well typed: each process is at a step of its own role, and
\* every journal and every in-memory transaction is a sequence of journal events.
THEOREM TypeCorrect == Spec => []TypeOK
  BY TypeInit, TypeStep, PTL DEF Spec

----------------------------------------------------------------------------
(***************************************************************************)
(* Histories.                                                              *)
(***************************************************************************)

LEMMA ExtendStage ==
  ASSUME NEW h \in Seq(Event), NEW stage \in Stages, NEW bound \in Bound
  PROVE  /\ StageOf(Extend(h, stage, bound)) = stage
         /\ Extend(h, stage, bound) # <<>>
         /\ Extend(h, stage, bound) # h
  <1> DEFINE g == Extend(h, stage, bound)
  <1>1. Len(h) \in Nat
    OBVIOUS
  <1>2. Len(g) = Len(h) + 1 /\ g[Len(h) + 1] = [stage |-> stage, bound |-> bound]
    BY ExtendType
  <1> HIDE DEF g
  <1>3. g[Len(g)].stage = stage
    BY <1>2
  <1>4. g # <<>> /\ g # h
    BY <1>1, <1>2
  <1> QED
    BY <1>3, <1>4 DEF StageOf, g

LEMMA ExtendBound ==
  ASSUME NEW h \in Seq(Event), NEW stage \in Stages, NEW bound \in Bound, IsBound(h)
  PROVE  /\ IsBound(Extend(h, stage, bound))
         /\ LockToken(Extend(h, stage, bound)) = LockToken(h)
  <1> DEFINE g == Extend(h, stage, bound)
  <1>1. Len(h) \in Nat /\ Len(h) >= 2
    BY DEF IsBound
  <1>2. Len(g) = Len(h) + 1 /\ \A i \in 1..Len(h) : g[i] = h[i]
    BY ExtendType
  <1> HIDE DEF g
  <1>3. Len(g) >= 2 /\ g[1] = h[1] /\ g[2] = h[2]
    BY <1>1, <1>2
  <1> QED
    BY <1>1, <1>3 DEF IsBound, LockToken, g

LEMMA LockedBound ==
  ASSUME NEW p \in Runner
  PROVE  /\ IsBound(Extend(Prepared, "LOCKED", p))
         /\ LockToken(Extend(Prepared, "LOCKED", p)) = p
         /\ StageOf(Extend(Prepared, "LOCKED", p)) = "LOCKED"
  <1>1. "LOCKED" \in Stages /\ p \in Bound
    BY DEF Stages, Bound
  <1>2. Len(Prepared) = 1
    BY DEF Prepared
  <1> DEFINE h == Extend(Prepared, "LOCKED", p)
  <1>3. /\ Len(h) = Len(Prepared) + 1
        /\ h[Len(Prepared) + 1] = [stage |-> "LOCKED", bound |-> p]
        /\ \A i \in 1..Len(Prepared) : h[i] = Prepared[i]
    BY <1>1, ExtendType, PreparedType
  <1> HIDE DEF h
  <1>4. Len(h) = 2 /\ h[1] = Prepared[1] /\ h[2] = [stage |-> "LOCKED", bound |-> p]
    BY <1>2, <1>3
  <1>5. IsBound(h) /\ LockToken(h) = p /\ StageOf(h) = "LOCKED"
    BY <1>4 DEF IsBound, LockToken, StageOf
  <1> QED
    BY <1>5 DEF h

LEMMA PreparedFacts ==
  /\ Prepared # <<>>
  /\ StageOf(Prepared) = "PREPARED"
  /\ LockToken(Prepared) = Unbound
  /\ LockToken(<<>>) = Unbound
  /\ ~IsBound(Prepared)
  /\ ~IsBound(<<>>)
  BY DEF Prepared, StageOf, LockToken, IsBound

LEMMA BoundFacts ==
  ASSUME NEW h, IsBound(h)
  PROVE  /\ LockToken(h) \in Runner
         /\ LockToken(h) = h[2].bound
         /\ h # <<>>
         /\ h # Prepared
  BY PreparedFacts DEF IsBound, LockToken

LEMMA Transitive ==
  ASSUME NEW h, NEW stage \in Stages, NEW candidate,
         StageOf(candidate) = stage, MayBecome(h, candidate), StageOf(h) \in Stages
  PROVE  /\ StageOf(h) \notin Terminal
         /\ StageOf(h) \notin Finalized
         /\ StageOf(h) = "EVIDENCE_RECORDED" => stage # "RECOVERY_UNRESOLVED"
  BY DEF MayBecome, Transitions, Terminal, Finalized, Stages

LEMMA StageType ==
  ASSUME NEW h \in Seq(Event), h # <<>>
  PROVE  StageOf(h) \in Stages
  <1>1. Len(h) \in 1..Len(h) /\ h[Len(h)] \in Event
    OBVIOUS
  <1> QED
    BY <1>1 DEF StageOf, Event

----------------------------------------------------------------------------
(***************************************************************************)
(* Appends.  Permitted(p, stage, bound) is what lets p extend its history. *)
(***************************************************************************)

Permitted(p, stage, bound) ==
  \/ IsBound(memory[p])
  \/ p \in Runner /\ memory[p] = Prepared /\ stage = "LOCKED" /\ bound = p
     /\ (~OpenFaults => Owns(p))

\* What an append leaves true of all journals and memories.
JournalSafe ==
  /\ Histories
  /\ TerminalIsCurrent
  /\ UnfinishedIsLocked
  /\ \A t \in Txn : journal[t] # <<>> => t \in directories

LEMMA CandidateFacts ==
  ASSUME IInv, NEW p \in Process, NEW stage \in Stages, NEW bound \in Bound,
         Permitted(p, stage, bound)
  PROVE  LET candidate == Extend(memory[p], stage, bound) IN
         /\ memory[p] \in Seq(Event) /\ memory[p] # <<>>
         /\ candidate # <<>> /\ candidate # memory[p]
         /\ IsBound(candidate)
         /\ StageOf(candidate) = stage
         /\ txn[LockToken(candidate)] = txn[p]
         /\ IsBound(memory[p]) => LockToken(candidate) = LockToken(memory[p])
         /\ ~IsBound(memory[p]) => OpenFaults \/ Owns(LockToken(candidate))
  <1>1. memory[p] \in Seq(Event)
    BY DEF IInv, TypeOK
  <1>2. CASE IsBound(memory[p])
    BY <1>1, <1>2, ExtendStage, ExtendBound, BoundFacts DEF IInv, Safe, Histories
  <1>3. CASE ~IsBound(memory[p])
    BY <1>1, <1>3, ExtendStage, LockedBound, PreparedFacts DEF Permitted
  <1> QED
    BY <1>2, <1>3

LEMMA PublishSafe ==
  ASSUME IInv, NEW p \in Process, NEW stage \in Stages, NEW bound \in Bound,
         NEW next, NEW error, Publish(p, stage, bound, next, error),
         Permitted(p, stage, bound), UNCHANGED <<lock, txn, directories>>
  PROVE  /\ JournalSafe'
         /\ \A t \in Txn : journal'[t] = <<>> <=> journal[t] = <<>>
         /\ \A q \in Process : q # p => memory'[q] = memory[q]
         /\ \/ /\ Goto(p, next)
               /\ memory'[p] = Extend(memory[p], stage, bound)
               /\ MayBecome(memory[p], memory'[p])
            \/ Goto(p, error) /\ memory'[p] = memory[p]
  <1> DEFINE candidate == Extend(memory[p], stage, bound)
  <1>1. /\ memory \in [Process -> Seq(Event)]
        /\ journal \in [Txn -> Seq(Event)]
        /\ txn \in [Process -> Txn]
    BY DEF IInv, TypeOK
  <1>2. /\ memory[p] \in Seq(Event) /\ memory[p] # <<>>
        /\ candidate # <<>> /\ candidate # memory[p]
        /\ IsBound(candidate)
        /\ StageOf(candidate) = stage
        /\ txn[LockToken(candidate)] = txn[p]
        /\ IsBound(memory[p]) => LockToken(candidate) = LockToken(memory[p])
        /\ ~IsBound(memory[p]) => OpenFaults \/ Owns(LockToken(candidate))
    BY CandidateFacts
  <1>3. \/ /\ Accepts(p, candidate)
           /\ journal' = [journal EXCEPT ![txn[p]] = candidate]
           /\ \/ memory' = [memory EXCEPT ![p] = candidate] /\ Goto(p, next)
              \/ memory' = memory /\ Goto(p, error)
        \/ journal' = journal /\ memory' = memory /\ Goto(p, error)
    BY DEF Publish
  <1>4. StageOf(memory[p]) \in Stages
    BY <1>2, StageType
  <1>5. Accepts(p, candidate) =>
          /\ MayBecome(memory[p], candidate)
          /\ StageOf(memory[p]) \notin Terminal
          /\ StageOf(memory[p]) \notin Finalized
          /\ journal[txn[p]] = memory[p] \/ journal[txn[p]] = candidate
    BY <1>2, <1>4, Transitive DEF Accepts
  <1> HIDE DEF candidate
  <1>6. /\ \A q \in Process : q # p => memory'[q] = memory[q]
        /\ \A t \in Txn : t # txn[p] => journal'[t] = journal[t]
        /\ memory'[p] = memory[p] \/ (memory'[p] = candidate /\ journal'[txn[p]] = candidate)
        /\ \/ journal'[txn[p]] = journal[txn[p]]
           \/ Accepts(p, candidate) /\ journal'[txn[p]] = candidate
    BY <1>1, <1>3
  <1>7. Histories'
    <2>1. ASSUME NEW t \in Txn
          PROVE  /\ journal'[t] = <<>> \/ journal'[t] = Prepared \/ IsBound(journal'[t])
                 /\ IsBound(journal'[t]) => txn[LockToken(journal'[t])] = t
      BY <1>1, <1>2, <1>6 DEF IInv, Safe, Histories
    <2>2. ASSUME NEW q \in Process
          PROVE  /\ memory'[q] = <<>> \/ memory'[q] = Prepared \/ IsBound(memory'[q])
                 /\ IsBound(memory'[q]) => txn[LockToken(memory'[q])] = txn[q]
      BY <1>1, <1>2, <1>6 DEF IInv, Safe, Histories
    <2> QED
      BY <2>1, <2>2 DEF Histories
  <1>8. TerminalIsCurrent'
    <2> SUFFICES ASSUME NEW q \in Process, memory'[q] # <<>>, StageOf(memory'[q]) \in Terminal
                 PROVE  journal'[txn[q]] = memory'[q]
      BY DEF TerminalIsCurrent
    <2>1. CASE q = p /\ memory'[p] = candidate /\ journal'[txn[p]] = candidate
      BY <2>1
    <2>2. CASE memory'[q] = memory[q]
      <3>1. journal[txn[q]] = memory[q]
        BY <2>2 DEF IInv, Safe, TerminalIsCurrent
      <3>2. CASE txn[q] # txn[p]
        BY <1>1, <1>6, <2>2, <3>1, <3>2
      <3>3. CASE txn[q] = txn[p]
        BY <1>5, <1>6, <2>2, <3>1, <3>3
      <3> QED
        BY <3>2, <3>3
    <2> QED
      BY <1>6, <2>1, <2>2
  <1>9. UnfinishedIsLocked'
    <2>1. ASSUME NEW t \in Txn, IsBound(journal'[t]), StageOf(journal'[t]) \notin Finalized,
                 ~OpenFaults
          PROVE  lock.complete /\ lock.owner = LockToken(journal'[t])
      <3>1. CASE journal'[t] = journal[t]
        BY <2>1, <3>1 DEF IInv, Safe, UnfinishedIsLocked, Owns
      <3>2. CASE t = txn[p] /\ journal'[t] = candidate /\ journal[t] = memory[p]
        <4>1. CASE IsBound(memory[p])
          BY <1>2, <2>1, <1>5, <1>6, <3>2, <4>1 DEF IInv, Safe, UnfinishedIsLocked, Owns
        <4>2. CASE ~IsBound(memory[p])
          BY <1>2, <2>1, <3>2, <4>2 DEF Owns
        <4> QED
          BY <4>1, <4>2
      <3> QED
        BY <1>5, <1>6, <3>1, <3>2
    <2>2. lock' = lock
      OBVIOUS
    <2> QED
      BY <2>1, <2>2 DEF UnfinishedIsLocked, Owns
  <1>10. \A t \in Txn : journal'[t] = <<>> <=> journal[t] = <<>>
    BY <1>2, <1>5, <1>6
  <1>11. \A t \in Txn : journal'[t] # <<>> => t \in directories'
    BY <1>10 DEF IInv, Safe, FirstRecord
  <1>12. \/ Goto(p, next) /\ memory'[p] = candidate /\ MayBecome(memory[p], memory'[p])
         \/ Goto(p, error) /\ memory'[p] = memory[p]
    BY <1>1, <1>3, <1>5
  <1> QED
    BY <1>6, <1>7, <1>8, <1>9, <1>10, <1>11, <1>12 DEF JournalSafe, candidate

----------------------------------------------------------------------------
(***************************************************************************)
(* A step of one process.  What it leaves of the others is in StepSafe, so *)
(* that an action has to be examined for its own process only.             *)
(***************************************************************************)

Ended == {"completed", "failed", "crashed"}

\* The parts of the invariant that speak of the process p alone.
Own(p) ==
  /\ p \in Runner => KnowsItself(p) /\ Holds(p)
  /\ p \in Recoverer => IsEntitled(p)

LEMMA StepSafe ==
  ASSUME IInv, NEW p \in Process, NEW next, Goto(p, next), UNCHANGED txn,
         \A q \in Process : q # p => memory'[q] = memory[q],
         pc[p] \notin Ended,
         claim' = claim \/ claim \in {p, Unbound},
         \/ OpenFaults \/ lock' = lock
         \/ \A q \in Process : q # p => pc[q] \notin HoldingSteps \union {"recovery_unlink"},
         Histories', TerminalIsCurrent', UnfinishedIsLocked', FirstRecord', LockIsOwned',
         Own(p)'
  PROVE  Safe'
  <1>1. /\ pc \in [Process -> RunnerSteps \union RecovererSteps]
        /\ Runner \subseteq Process /\ Recoverer \subseteq Process
    BY DEF IInv, TypeOK, Process
  <1>2. \A q \in Process : q # p => pc'[q] = pc[q]
    BY <1>1 DEF Goto
  <1>3. ASSUME NEW q \in Runner PROVE KnowsItself(q)' /\ Holds(q)'
    <2>1. CASE q = p
      BY <1>3, <2>1 DEF Own
    <2>2. CASE q # p
      <3>1. KnowsItself(q) /\ Holds(q) /\ pc'[q] = pc[q] /\ memory'[q] = memory[q]
        BY <1>1, <1>2, <1>3, <2>2 DEF IInv, Safe
      <3>2. KnowsItself(q)'
        BY <3>1 DEF KnowsItself
      <3>3. Holds(q)'
        BY <1>1, <2>2, <3>1 DEF Holds
      <3> QED
        BY <3>2, <3>3
    <2> QED
      BY <2>1, <2>2
  <1>4. ASSUME NEW q \in Recoverer PROVE IsEntitled(q)'
    <2>1. CASE q = p
      BY <1>4, <2>1 DEF Own
    <2>2. CASE q # p
      <3>1. IsEntitled(q) /\ pc'[q] = pc[q] /\ memory'[q] = memory[q] /\ q # Unbound
        BY <1>1, <1>2, <1>4, <2>2, ConstantsAssumption DEF IInv, Safe
      <3>2. pc[q] \in {"claim"} \union ClaimSteps =>
              LockToken(memory[q]) \in Runner /\ pc[LockToken(memory[q])] \in Ended
        BY <3>1, BoundFacts DEF IsEntitled, Terminated, Ended
      <3>3. pc[q] \in {"claim"} \union ClaimSteps =>
              pc'[LockToken(memory'[q])] \in Ended
        BY <1>1, <1>2, <3>1, <3>2
      <3>4. pc[q] \in ClaimSteps => claim' = q
        BY <2>2, <3>1 DEF IsEntitled
      <3>5. ~OpenFaults /\ pc[q] = "recovery_unlink" =>
              lock'.complete /\ lock'.owner = LockToken(memory[q])
        BY <1>1, <2>2, <3>1 DEF IsEntitled, Owns
      <3> QED
        BY <3>1, <3>3, <3>4, <3>5 DEF IsEntitled, Terminated, Ended, Owns
    <2> QED
      BY <2>1, <2>2
  <1> QED
    BY <1>3, <1>4 DEF Safe

LEMMA FirstRecordKept ==
  ASSUME IInv, NEW p \in Process, NEW next, Goto(p, next), next # "publish",
         UNCHANGED <<txn, directories>>,
         \A t \in Txn : journal'[t] = <<>> <=> journal[t] = <<>>
  PROVE  FirstRecord'
  <1>1. /\ pc \in [Process -> RunnerSteps \union RecovererSteps]
        /\ Runner \subseteq Process
        /\ \A q \in Process : txn[q] \in Txn
    BY DEF IInv, TypeOK, Process
  <1>2. \A q \in Runner : pc'[q] = "publish" => pc[q] = "publish"
    BY <1>1 DEF Goto
  <1> QED
    BY <1>1, <1>2 DEF IInv, Safe, FirstRecord

\* A step that leaves journals, memories and the lock file alone.
LEMMA MoveSafe ==
  ASSUME IInv, NEW p \in Process, NEW next, Goto(p, next), next # "publish",
         UNCHANGED <<journal, memory, lock, txn, directories>>,
         pc[p] \notin Ended,
         claim' = claim \/ claim \in {p, Unbound},
         Own(p)'
  PROVE  Safe'
  <1>1. Histories' /\ TerminalIsCurrent' /\ LockIsOwned'
    BY DEF IInv, Safe, Histories, TerminalIsCurrent, LockIsOwned
  <1>2. UnfinishedIsLocked'
    BY DEF IInv, Safe, UnfinishedIsLocked, Owns
  <1>3. FirstRecord'
    BY FirstRecordKept
  <1> QED
    BY <1>1, <1>2, <1>3, StepSafe

\* A step that replaces what its process remembers.
LEMMA RememberSafe ==
  ASSUME IInv, NEW p \in Process, NEW next, Goto(p, next), next # "publish",
         NEW m, m \in {<<>>, Prepared, journal[txn[p]]},
         memory' = [memory EXCEPT ![p] = m],
         UNCHANGED <<journal, lock, txn, directories>>,
         pc[p] \notin Ended,
         claim' = claim \/ claim \in {p, Unbound},
         Own(p)'
  PROVE  Safe'
  <1>1. memory \in [Process -> Seq(Event)] /\ txn[p] \in Txn
    BY DEF IInv, TypeOK
  <1>2. memory'[p] = m /\ \A q \in Process : q # p => memory'[q] = memory[q]
    BY <1>1
  <1>3. Histories'
    <2>1. /\ m = <<>> \/ m = Prepared \/ IsBound(m)
          /\ IsBound(m) => txn[LockToken(m)] = txn[p]
      BY <1>1, PreparedFacts DEF IInv, Safe, Histories
    <2> QED
      BY <1>2, <2>1 DEF IInv, Safe, Histories
  <1>4. TerminalIsCurrent'
    <2>1. m # <<>> /\ StageOf(m) \in Terminal => journal[txn[p]] = m
      BY PreparedFacts DEF Terminal, Finalized
    <2> QED
      BY <1>2, <2>1 DEF IInv, Safe, TerminalIsCurrent
  <1>5. UnfinishedIsLocked' /\ LockIsOwned'
    BY DEF IInv, Safe, UnfinishedIsLocked, Owns, LockIsOwned
  <1>6. FirstRecord'
    BY FirstRecordKept
  <1> QED
    BY <1>2, <1>3, <1>4, <1>5, <1>6, StepSafe

LEMMA PublishStepSafe ==
  ASSUME IInv, NEW p \in Process, NEW stage \in Stages, NEW bound \in Bound,
         NEW next, NEW error, Publish(p, stage, bound, next, error),
         next # "publish", error # "publish",
         Permitted(p, stage, bound), UNCHANGED <<lock, claim, txn, directories>>,
         pc[p] \notin Ended,
         Own(p)'
  PROVE  Safe'
  <1>1. /\ JournalSafe'
        /\ \A t \in Txn : journal'[t] = <<>> <=> journal[t] = <<>>
        /\ \A q \in Process : q # p => memory'[q] = memory[q]
        /\ Goto(p, next) \/ Goto(p, error)
    BY PublishSafe
  <1>2. Histories' /\ TerminalIsCurrent' /\ UnfinishedIsLocked'
    BY <1>1 DEF JournalSafe
  <1>3. FirstRecord'
    BY <1>1, FirstRecordKept
  <1>4. LockIsOwned'
    BY DEF IInv, Safe, LockIsOwned
  <1> QED
    BY <1>1, <1>2, <1>3, <1>4, StepSafe

----------------------------------------------------------------------------
(***************************************************************************)
(* Steps of a runner that holds its lock.                                  *)
(***************************************************************************)

Releasing == {"release", "unlink"}

LEMMA StepSets ==
  /\ BoundSteps \subseteq HoldingSteps
  /\ BoundSteps \intersect Ended = {}
  /\ HoldingSteps \intersect Ended = {}
  /\ BoundSteps \intersect UnboundSteps = {}
  /\ {"publish", "write_lock"} \intersect BoundSteps = {}
  /\ {"failed", "completed", "crashed"} \intersect (HoldingSteps \union UnboundSteps) = {}
  /\ Releasing \subseteq BoundSteps
  /\ ClaimSteps \intersect Ended = {}
  BY DEF BoundSteps, HoldingSteps, RunnerSteps, Ended, UnboundSteps, Releasing, ClaimSteps

LEMMA RunnerMove ==
  ASSUME IInv, NEW p \in Runner, pc[p] \in BoundSteps, NEW next, Goto(p, next),
         next \in BoundSteps \union {"failed"},
         next \in Releasing => pc[p] \in Releasing,
         UNCHANGED <<journal, memory, lock, claim, txn, directories>>
  PROVE  Safe'
  <1>1. p \in Process /\ p \notin Recoverer /\ pc'[p] = next
    BY ConstantsAssumption DEF Process, Goto, IInv, TypeOK
  <1>2. KnowsItself(p) /\ Holds(p)
    BY DEF IInv, Safe
  <1>3. KnowsItself(p)'
    BY <1>1, <1>2, StepSets DEF KnowsItself, Releasing
  <1>4. Holds(p)'
    BY <1>1, <1>2, StepSets DEF Holds
  <1> QED
    BY <1>1, <1>3, <1>4, MoveSafe, StepSets DEF Own

LEMMA RunnerAdvance ==
  ASSUME IInv, NEW p \in Runner, pc[p] \in BoundSteps, NEW stage \in Stages,
         NEW next, NEW error, Advance(p, stage, next, error),
         next \in BoundSteps \union {"failed"},
         error \in (BoundSteps \ Releasing) \union {"failed"},
         next \in Releasing => stage \in Finalized
  PROVE  Safe'
  <1>1. /\ p \in Process /\ p \notin Recoverer /\ Unbound \in Bound
        /\ pc \in [Process -> RunnerSteps \union RecovererSteps]
        /\ memory[p] \in Seq(Event)
    BY ConstantsAssumption DEF Process, Bound, IInv, TypeOK
  <1>2. KnowsItself(p) /\ Holds(p) /\ IsBound(memory[p]) /\ LockToken(memory[p]) = p
    BY DEF IInv, Safe, KnowsItself
  <1>3. /\ Publish(p, stage, Unbound, next, error)
        /\ UNCHANGED <<lock, claim, txn, directories>>
    BY DEF Advance, identity
  <1>4. Permitted(p, stage, Unbound)
    BY <1>2 DEF Permitted
  <1>5. \/ Goto(p, next) /\ memory'[p] = Extend(memory[p], stage, Unbound)
        \/ Goto(p, error) /\ memory'[p] = memory[p]
    BY <1>1, <1>3, <1>4, PublishSafe
  <1>6. \/ /\ pc'[p] = next
           /\ IsBound(memory'[p]) /\ LockToken(memory'[p]) = p
           /\ StageOf(memory'[p]) = stage
        \/ pc'[p] = error /\ memory'[p] = memory[p]
    BY <1>1, <1>2, <1>5, ExtendBound, ExtendStage DEF Goto
  <1>7. KnowsItself(p)'
    BY <1>2, <1>6, StepSets DEF KnowsItself, Releasing
  <1>8. Holds(p)'
    BY <1>2, <1>3, <1>6, StepSets DEF Holds
  <1> QED
    BY <1>1, <1>3, <1>4, <1>7, <1>8, PublishStepSafe, StepSets DEF Own

----------------------------------------------------------------------------
(***************************************************************************)
(* Steps of a recoverer.                                                   *)
(***************************************************************************)

\* What a recoverer needs to go on to the step next with the history h.
MayGo(p, next, h) ==
  /\ next \in ClaimSteps => claim' = p
  /\ next = "recovered_final" => StageOf(h) = "EVIDENCE_RECORDED"
  /\ next \in {"recovery_release", "recovery_unlink"} => StageOf(h) \in Finalized
  /\ ~OpenFaults /\ next = "recovery_unlink" => Owns(LockToken(h))

LEMMA EntitledNext ==
  ASSUME IInv, NEW p \in Recoverer, NEW next, Goto(p, next), UNCHANGED lock,
         IsBound(memory'[p]), LockToken(memory'[p]) = LockToken(memory[p]),
         Terminated(LockToken(memory[p])),
         next \in {"claim"} \union ClaimSteps,
         MayGo(p, next, memory'[p])
  PROVE  Own(p)'
  <1>1. /\ p \in Process /\ p \notin Runner
        /\ pc \in [Process -> RunnerSteps \union RecovererSteps]
        /\ LockToken(memory'[p]) \in Runner
    BY ConstantsAssumption, BoundFacts DEF Process, IInv, TypeOK
  <1>2. pc'[p] = next /\ pc'[LockToken(memory'[p])] = pc[LockToken(memory[p])]
    BY <1>1 DEF Goto, Process
  <1>3. pc'[LockToken(memory'[p])] \in Ended
    BY <1>2 DEF Terminated, Ended
  <1>4. ~OpenFaults /\ next = "recovery_unlink" =>
          lock'.complete /\ lock'.owner = LockToken(memory'[p])
    BY DEF MayGo, Owns
  <1>5. next # "check_owner"
    BY DEF ClaimSteps
  <1>6. IsEntitled(p)'
    BY <1>2, <1>3, <1>4, <1>5 DEF IsEntitled, MayGo, Terminated, Ended, Owns
  <1> QED
    BY <1>1, <1>6 DEF Own

LEMMA RecovererMove ==
  ASSUME IInv, NEW p \in Recoverer, pc[p] \in {"claim"} \union ClaimSteps,
         NEW next, Goto(p, next), next \in ClaimSteps,
         UNCHANGED <<journal, memory, lock, txn, directories>>,
         claim' = claim \/ claim \in {p, Unbound},
         MayGo(p, next, memory[p])
  PROVE  Safe'
  <1>1. p \in Process /\ IsEntitled(p)
    BY DEF Process, IInv, Safe
  <1>2. IsBound(memory[p]) /\ Terminated(LockToken(memory[p]))
    BY <1>1 DEF IsEntitled
  <1>3. Own(p)'
    BY <1>2, EntitledNext
  <1>4. pc[p] \notin Ended /\ next # "publish"
    BY DEF ClaimSteps, Ended
  <1> QED
    BY <1>1, <1>3, <1>4, MoveSafe

LEMMA RecovererAdvance ==
  ASSUME IInv, NEW p \in Recoverer, pc[p] \in ClaimSteps,
         NEW stage \in Stages, NEW bound \in Bound, NEW next,
         Publish(p, stage, bound, next, "drop_claim"),
         UNCHANGED <<lock, claim, txn, directories>>,
         next \in ClaimSteps \ {"recovery_unlink"},
         next = "recovered_final" => stage = "EVIDENCE_RECORDED",
         next = "recovery_release" /\ StageOf(memory[p]) = "EVIDENCE_RECORDED"
           /\ stage # "RECOVERY_UNRESOLVED" => stage \in Finalized,
         next = "recovery_release" => StageOf(memory[p]) = "EVIDENCE_RECORDED"
  PROVE  Safe'
  <1>1. /\ p \in Process /\ IsEntitled(p) /\ memory[p] \in Seq(Event)
    BY DEF Process, IInv, Safe, TypeOK
  <1>2. IsBound(memory[p]) /\ Terminated(LockToken(memory[p])) /\ claim = p
    BY <1>1 DEF IsEntitled
  <1>3. Permitted(p, stage, bound)
    BY <1>2 DEF Permitted
  <1>4. \/ /\ Goto(p, next)
           /\ memory'[p] = Extend(memory[p], stage, bound)
           /\ MayBecome(memory[p], memory'[p])
        \/ Goto(p, "drop_claim") /\ memory'[p] = memory[p]
    BY <1>1, <1>3, PublishSafe
  <1>5. ASSUME Goto(p, next),
               memory'[p] = Extend(memory[p], stage, bound),
               MayBecome(memory[p], memory'[p])
        PROVE  Own(p)'
    <2>1. /\ IsBound(memory'[p]) /\ LockToken(memory'[p]) = LockToken(memory[p])
          /\ StageOf(memory'[p]) = stage
      BY <1>1, <1>2, <1>5, ExtendBound, ExtendStage
    <2>2. StageOf(memory[p]) \in Stages
      BY <1>1, <1>2, StageType, BoundFacts
    <2>3. next = "recovery_release" => stage \in Finalized
      BY <1>5, <2>1, <2>2, Transitive
    <2>4. MayGo(p, next, memory'[p])
      BY <1>2, <2>1, <2>3 DEF MayGo
    <2> QED
      BY <1>2, <1>5, <2>1, <2>4, EntitledNext
  <1>6. ASSUME Goto(p, "drop_claim"), memory'[p] = memory[p]
        PROVE  Own(p)'
    <2>1. MayGo(p, "drop_claim", memory'[p])
      BY <1>2 DEF MayGo
    <2> QED
      BY <1>2, <1>6, <2>1, EntitledNext DEF ClaimSteps
  <1>7. Own(p)'
    BY <1>4, <1>5, <1>6
  <1>8. pc[p] \notin Ended /\ next # "publish"
    BY DEF ClaimSteps, Ended
  <1> QED
    BY <1>1, <1>3, <1>7, <1>8, PublishStepSafe

LEMMA EndCallSafe ==
  ASSUME IInv, NEW p \in Recoverer, EndCall(p), pc[p] \notin Ended,
         claim' = claim \/ claim \in {p, Unbound}
  PROVE  Safe'
  <1>1. p \in Process /\ p \notin Runner /\ pc'[p] = "idle"
    BY ConstantsAssumption DEF Process, EndCall, Goto, IInv, TypeOK
  <1>2. Own(p)'
    BY <1>1 DEF Own, IsEntitled, ClaimSteps
  <1> QED
    BY <1>1, <1>2, RememberSafe DEF EndCall, identity

----------------------------------------------------------------------------
(***************************************************************************)
(* The lock file appears and disappears.                                   *)
(***************************************************************************)

LEMMA AcquisitionSafe ==
  ASSUME IInv, NEW p \in Runner, Acquisition(p)
  PROVE  Safe'
  <1>0. /\ p \in Process /\ p \notin Recoverer /\ p # Unbound
        /\ pc \in [Process -> RunnerSteps \union RecovererSteps]
        /\ memory \in [Process -> Seq(Event)]
        /\ journal \in [Txn -> Seq(Event)]
        /\ txn \in [Process -> Txn]
        /\ Runner \subseteq Process
        /\ lock \in LockType
        /\ KnowsItself(p) /\ Holds(p)
    BY ConstantsAssumption DEF Process, IInv, TypeOK, LockType, Safe
  <1>1. CASE Reopen(p)
    <2>1. PICK next \in {"create", "acquire", "failed"} : Goto(p, next)
      BY <1>1 DEF Reopen
    <2>2. pc'[p] = next /\ memory'[p] = Prepared
      BY <1>0, <1>1, <2>1 DEF Goto, Reopen
    <2>3. Own(p)'
      BY <1>0, <2>2 DEF Own, KnowsItself, Holds, BoundSteps, HoldingSteps, RunnerSteps
    <2>4. pc[p] \notin Ended
      BY <1>1 DEF Reopen, Ended
    <2> QED
      BY <1>0, <1>1, <2>1, <2>3, <2>4, RememberSafe DEF Reopen, identity
  <1>2. CASE CreateDirectory(p)
    <2>1. PICK next \in {"publish", "acquire", "failed"} :
            /\ Goto(p, next)
            /\ next = "publish" => txn[p] \notin directories
            /\ next = "publish" => txn[p] \in directories'
      BY <1>2 DEF CreateDirectory
    <2>2. pc'[p] = next /\ memory' = memory /\ directories \subseteq directories'
          /\ \A q \in Process : q # p => pc'[q] = pc[q]
      BY <1>0, <1>2, <2>1 DEF Goto, CreateDirectory
    <2>3. memory[p] = Prepared
      BY <1>0, <1>2 DEF KnowsItself, UnboundSteps, CreateDirectory
    <2>4. Own(p)'
      BY <1>0, <2>2, <2>3 DEF Own, KnowsItself, Holds, BoundSteps, HoldingSteps, RunnerSteps
    <2>5. UNCHANGED <<journal, memory, lock, claim, txn>>
      BY <1>2 DEF CreateDirectory
    <2>6. Histories' /\ TerminalIsCurrent' /\ LockIsOwned'
      BY <2>5 DEF IInv, Safe, Histories, TerminalIsCurrent, LockIsOwned
    <2>7. UnfinishedIsLocked'
      BY <2>5 DEF IInv, Safe, UnfinishedIsLocked, Owns
    <2>8. FirstRecord'
      <3>1. \A t \in Txn : journal'[t] # <<>> => t \in directories'
        BY <2>2, <2>5 DEF IInv, Safe, FirstRecord
      <3>2. ASSUME NEW q \in Runner, pc'[q] = "publish"
            PROVE  /\ txn[q] \in directories'
                   /\ journal[txn[q]] = <<>>
                   /\ \A u \in Runner : pc'[u] = "publish" /\ txn[u] = txn[q] => u = q
        <4>1. CASE q = p
          BY <1>0, <2>1, <2>2, <3>2, <4>1 DEF IInv, Safe, FirstRecord
        <4>2. CASE q # p
          BY <1>0, <2>1, <2>2, <3>2, <4>2 DEF IInv, Safe, FirstRecord
        <4> QED
          BY <4>1, <4>2
      <3> QED
        BY <2>5, <3>1, <3>2 DEF FirstRecord
    <2>9. pc[p] \notin Ended
      BY <1>2 DEF CreateDirectory, Ended
    <2> QED
      BY <1>0, <2>1, <2>4, <2>5, <2>6, <2>7, <2>8, <2>9, StepSafe
  <1>3. CASE PublishPrepared(p)
    <2>1. PICK next \in {"acquire", "failed"} : Goto(p, next)
      BY <1>3 DEF PublishPrepared
    <2>2. /\ pc'[p] = next
          /\ \A q \in Process : q # p => pc'[q] = pc[q]
      BY <1>0, <2>1 DEF Goto
    <2>3. memory[p] = Prepared /\ pc[p] = "publish"
      BY <1>0, <1>3 DEF KnowsItself, UnboundSteps, PublishPrepared
    <2>4. UNCHANGED <<memory, lock, claim, txn, directories>>
      BY <1>3 DEF PublishPrepared, identity
    <2>5. Own(p)'
      BY <1>0, <2>2, <2>3, <2>4
      DEF Own, KnowsItself, Holds, BoundSteps, HoldingSteps, RunnerSteps
    <2>6. /\ \A t \in Txn : journal'[t] = journal[t] \/ (t = txn[p] /\ journal'[t] = Prepared)
          /\ journal[txn[p]] = <<>> /\ txn[p] \in directories
      BY <1>0, <1>3, <2>3 DEF PublishPrepared, IInv, Safe, FirstRecord
    <2>7. Histories'
      BY <2>4, <2>6, PreparedFacts DEF IInv, Safe, Histories
    <2>8. TerminalIsCurrent'
      BY <1>0, <2>4, <2>6 DEF IInv, Safe, TerminalIsCurrent
    <2>9. UnfinishedIsLocked'
      BY <2>4, <2>6, PreparedFacts DEF IInv, Safe, UnfinishedIsLocked, Owns
    <2>10. FirstRecord'
      <3>1. \A t \in Txn : journal'[t] # <<>> => t \in directories'
        BY <2>4, <2>6 DEF IInv, Safe, FirstRecord
      <3>2. ASSUME NEW q \in Runner, pc'[q] = "publish"
            PROVE  /\ txn[q] \in directories
                   /\ journal'[txn[q]] = <<>>
                   /\ \A u \in Runner : pc'[u] = "publish" /\ txn[u] = txn[q] => u = q
        <4>1. q # p /\ pc[q] = "publish"
          BY <1>0, <2>2, <3>2
        <4>2. txn[q] # txn[p]
          BY <2>3, <4>1 DEF IInv, Safe, FirstRecord
        <4> QED
          BY <1>0, <2>2, <2>6, <4>1, <4>2 DEF IInv, Safe, FirstRecord
      <3> QED
        BY <2>4, <3>1, <3>2 DEF FirstRecord
    <2>11. LockIsOwned' /\ pc[p] \notin Ended
      BY <2>3, <2>4 DEF IInv, Safe, LockIsOwned, Ended
    <2> QED
      BY <1>0, <2>1, <2>4, <2>5, <2>7, <2>8, <2>9, <2>10, <2>11, StepSafe
  <1>4. CASE OpenLock(p)
    <2>1. UNCHANGED <<journal, memory, claim, txn, directories>> /\ pc[p] = "acquire"
      BY <1>4 DEF OpenLock, identity
    <2>2. memory[p] = Prepared
      BY <1>0, <2>1 DEF KnowsItself, UnboundSteps
    <2>3. CASE lock # NoLock /\ Goto(p, "failed") /\ UNCHANGED lock
      <3>1. Own(p)'
        BY <1>0, <2>3, StepSets DEF Goto, Own, KnowsItself, Holds, Releasing
      <3> QED
        BY <1>0, <2>1, <2>3, <3>1, MoveSafe DEF Ended
    <2>4. CASE /\ lock = NoLock
               /\ lock' = [owner |-> p, complete |-> FALSE]
               /\ Goto(p, "write_lock")
      <3>1. ~lock.complete /\ lock.owner = Unbound /\ ~lock'.complete /\ lock'.owner = p
        BY <2>4 DEF NoLock
      <3>2. OpenFaults \/ \A q \in Process : pc[q] \notin HoldingSteps \union {"recovery_unlink"}
        BY <3>1, ConstantsAssumption
        DEF IInv, Safe, Holds, IsEntitled, Owns, TypeOK, RunnerSteps, RecovererSteps,
            HoldingSteps, Process
      <3>3. Own(p)'
        BY <1>0, <2>1, <2>2, <2>4, <3>1, StepSets
        DEF Goto, Own, KnowsItself, Holds, Releasing
      <3>4. Histories' /\ TerminalIsCurrent'
        BY <2>1 DEF IInv, Safe, Histories, TerminalIsCurrent
      <3>5. UnfinishedIsLocked' /\ LockIsOwned'
        BY <2>1, <3>1 DEF IInv, Safe, UnfinishedIsLocked, Owns, LockIsOwned
      <3>6. FirstRecord'
        BY <1>0, <2>1, <2>4, FirstRecordKept
      <3> QED
        BY <1>0, <2>1, <2>4, <3>2, <3>3, <3>4, <3>5, <3>6, StepSafe DEF Ended
    <2> QED
      BY <1>4, <2>3, <2>4 DEF OpenLock
  <1>5. CASE OpenLockFails(p)
    <2>1. /\ UNCHANGED <<journal, memory, claim, txn, directories>>
          /\ OpenFaults /\ lock' = NoLock /\ Goto(p, "failed") /\ pc[p] = "acquire"
      BY <1>5 DEF OpenLockFails, identity
    <2>2. Own(p)'
      BY <1>0, <2>1, StepSets DEF Goto, Own, KnowsItself, Holds, Releasing
    <2>3. Histories' /\ TerminalIsCurrent' /\ UnfinishedIsLocked' /\ LockIsOwned'
      BY <2>1
      DEF IInv, Safe, Histories, TerminalIsCurrent, UnfinishedIsLocked, LockIsOwned, NoLock
    <2>4. FirstRecord'
      BY <1>0, <2>1, FirstRecordKept
    <2> QED
      BY <1>0, <2>1, <2>2, <2>3, <2>4, StepSafe DEF Ended
  <1>6. CASE WriteLock(p)
    <2>1. UNCHANGED <<journal, memory, claim, txn, directories>> /\ pc[p] = "write_lock"
      BY <1>6 DEF WriteLock, identity
    <2>2. /\ memory[p] = Prepared
          /\ ~OpenFaults => lock.owner = p /\ ~lock.complete
      BY <1>0, <2>1 DEF KnowsItself, UnboundSteps, Holds, HoldingSteps, RunnerSteps, LockType
    <2>3. PICK next \in {"bind", "failed"} :
            /\ Goto(p, next)
            /\ next = "bind" /\ ~OpenFaults => lock'.complete = TRUE /\ lock'.owner = p
            /\ next = "failed" => lock' = lock \/ lock' = NoLock
            /\ next = "bind" => lock'.owner = lock.owner
            /\ lock'.complete => lock'.owner = p \/ lock' = lock
      <3>1. CASE /\ lock' = [lock EXCEPT !.complete = (lock.owner = p) \/ lock.complete]
                 /\ Goto(p, "bind")
        BY <1>0, <2>2, <3>1 DEF LockType
      <3>2. CASE lock' \in {NoLock, lock} /\ Goto(p, "failed")
        BY <3>2 DEF NoLock
      <3> QED
        BY <1>6, <3>1, <3>2 DEF WriteLock
    <2>4. pc'[p] = next
      BY <1>0, <2>3 DEF Goto
    <2>5. \/ OpenFaults
          \/ \A q \in Process : q # p => pc[q] \notin HoldingSteps \union {"recovery_unlink"}
      BY <2>2
      DEF IInv, Safe, Holds, IsEntitled, Owns, TypeOK, RunnerSteps, RecovererSteps,
          HoldingSteps, Process
    <2>6. Own(p)'
      BY <1>0, <2>1, <2>2, <2>3, <2>4, StepSets
      DEF Own, KnowsItself, Holds, Releasing, BoundSteps
    <2>7. Histories' /\ TerminalIsCurrent'
      BY <2>1 DEF IInv, Safe, Histories, TerminalIsCurrent
    <2>8. UnfinishedIsLocked' /\ LockIsOwned'
      BY <2>1, <2>2, <2>3 DEF IInv, Safe, UnfinishedIsLocked, Owns, LockIsOwned, NoLock
    <2>9. FirstRecord'
      BY <1>0, <2>1, <2>3, FirstRecordKept
    <2> QED
      BY <1>0, <2>1, <2>3, <2>5, <2>6, <2>7, <2>8, <2>9, StepSafe DEF Ended
  <1>7. CASE BindLock(p)
    <2>1. /\ Publish(p, "LOCKED", p, "before", "failed") /\ pc[p] = "bind"
          /\ UNCHANGED <<lock, claim, txn, directories>>
      BY <1>7 DEF BindLock, identity
    <2>2. memory[p] = Prepared /\ (~OpenFaults => lock.owner = p /\ lock.complete)
      BY <1>0, <2>1 DEF KnowsItself, UnboundSteps, Holds, HoldingSteps, RunnerSteps
    <2>3. Permitted(p, "LOCKED", p)
      BY <2>2 DEF Permitted, Owns
    <2>4. "LOCKED" \in Stages /\ p \in Bound
      BY DEF Stages, Bound
    <2>5. \/ /\ Goto(p, "before")
             /\ memory'[p] = Extend(memory[p], "LOCKED", p)
          \/ Goto(p, "failed") /\ memory'[p] = memory[p]
      BY <1>0, <2>1, <2>3, <2>4, PublishSafe
    <2>6. Own(p)'
      <3>1. CASE Goto(p, "before") /\ memory'[p] = Extend(memory[p], "LOCKED", p)
        <4>1. IsBound(memory'[p]) /\ LockToken(memory'[p]) = p /\ pc'[p] = "before"
          BY <1>0, <2>2, <3>1, LockedBound DEF Goto
        <4> QED
          BY <1>0, <2>1, <2>2, <4>1, StepSets
          DEF Own, KnowsItself, Holds, Releasing, UnboundSteps
      <3>2. CASE Goto(p, "failed") /\ memory'[p] = memory[p]
        <4>1. pc'[p] = "failed"
          BY <1>0, <3>2 DEF Goto
        <4> QED
          BY <1>0, <4>1, StepSets DEF Own, KnowsItself, Holds, Releasing
      <3> QED
        BY <2>5, <3>1, <3>2
    <2> QED
      BY <1>0, <2>1, <2>3, <2>4, <2>6, PublishStepSafe DEF Ended
  <1> QED
    BY <1>1, <1>2, <1>3, <1>4, <1>5, <1>6, <1>7 DEF Acquisition

LEMMA UnlinkSafe ==
  ASSUME IInv, NEW p \in Process, NEW next, Goto(p, next), next # "publish",
         UNCHANGED <<journal, memory, claim, txn, directories>>,
         lock' = NoLock,
         IsBound(memory[p]), StageOf(memory[p]) \in Finalized,
         OpenFaults \/ lock.owner = LockToken(memory[p]),
         pc[p] \notin Ended,
         \/ OpenFaults
         \/ \A q \in Process : q # p => pc[q] \notin HoldingSteps \union {"recovery_unlink"},
         Own(p)'
  PROVE  Safe'
  <1>1. ASSUME NEW t \in Txn, IsBound(journal[t]), StageOf(journal[t]) \notin Finalized,
               ~OpenFaults
        PROVE  FALSE
    <2>1. lock.owner = LockToken(journal[t])
      BY <1>1 DEF IInv, Safe, UnfinishedIsLocked, Owns
    <2>2. t = txn[p]
      BY <1>1, <2>1 DEF IInv, Safe, Histories
    <2>3. journal[t] = memory[p]
      BY <2>2, BoundFacts DEF IInv, Safe, TerminalIsCurrent, Terminal
    <2> QED
      BY <1>1, <2>3
  <1>2. UnfinishedIsLocked' /\ LockIsOwned'
    BY <1>1 DEF UnfinishedIsLocked, LockIsOwned, NoLock
  <1>3. Histories' /\ TerminalIsCurrent'
    BY DEF IInv, Safe, Histories, TerminalIsCurrent
  <1>4. FirstRecord'
    BY FirstRecordKept
  <1> QED
    BY <1>2, <1>3, <1>4, StepSafe

LEMMA ReleaseSafe ==
  ASSUME IInv, NEW p \in Runner, Release(p)
  PROVE  Safe'
  <1>0. /\ p \in Process /\ p \notin Recoverer
        /\ KnowsItself(p) /\ Holds(p)
        /\ pc \in [Process -> RunnerSteps \union RecovererSteps]
    BY ConstantsAssumption DEF Process, IInv, TypeOK, Safe
  <1>1. CASE ReleaseCheck(p)
    <2>1. PICK next \in {"unlink", "failed"} : Move(p, next)
      BY <1>1 DEF ReleaseCheck
    <2>2. pc[p] \in BoundSteps /\ pc[p] \in Releasing
      BY <1>1 DEF ReleaseCheck, BoundSteps, HoldingSteps, RunnerSteps, Releasing
    <2>3. next \in BoundSteps \union {"failed"}
      BY DEF BoundSteps, HoldingSteps, RunnerSteps
    <2> QED
      BY <2>1, <2>2, <2>3, RunnerMove DEF Move, identity
  <1>2. CASE ReleaseUnlink(p)
    <2>1. PICK next \in {"completed", "failed"} : Goto(p, next)
      BY <1>2 DEF ReleaseUnlink
    <2>2. /\ UNCHANGED <<journal, memory, claim, txn, directories>>
          /\ lock' = NoLock
          /\ pc[p] = "unlink"
      BY <1>2 DEF ReleaseUnlink, identity
    <2>3. /\ IsBound(memory[p]) /\ LockToken(memory[p]) = p
          /\ StageOf(memory[p]) \in Finalized
          /\ OpenFaults \/ lock.owner = p
      BY <1>0, <2>2 DEF KnowsItself, Holds, BoundSteps, HoldingSteps, RunnerSteps
    <2>4. ASSUME NEW q \in Process, q # p, ~OpenFaults
          PROVE  pc[q] \notin HoldingSteps \union {"recovery_unlink"}
      <3>1. CASE q \in Runner
        <4>1. lock.owner # q /\ Holds(q) /\ pc[q] \in RunnerSteps
          BY <2>3, <2>4, <3>1 DEF IInv, Safe, TypeOK
        <4> QED
          BY <2>4, <4>1 DEF Holds, RunnerSteps
      <3>2. CASE q \in Recoverer
        <4>1. IsEntitled(q) /\ pc[q] \in RecovererSteps
          BY <3>2 DEF IInv, Safe, TypeOK
        <4>2. pc[q] = "recovery_unlink" => pc[p] \in Ended
          BY <2>3, <2>4, <4>1 DEF IsEntitled, Owns, Terminated, Ended, ClaimSteps
        <4> QED
          BY <2>2, <4>1, <4>2 DEF Ended, HoldingSteps, RunnerSteps, RecovererSteps
      <3> QED
        BY <3>1, <3>2 DEF Process
    <2>5. Own(p)'
      BY <1>0, <2>1, StepSets DEF Goto, Own, KnowsItself, Holds, Releasing
    <2> QED
      BY <1>0, <2>1, <2>2, <2>3, <2>4, <2>5, UnlinkSafe DEF Ended
  <1> QED
    BY <1>1, <1>2 DEF Release

----------------------------------------------------------------------------
(***************************************************************************)
(* The other steps of a runner.                                            *)
(***************************************************************************)

LEMMA PreparationSafe ==
  ASSUME IInv, NEW p \in Runner, Preparation(p)
  PROVE  Safe'
  <1> USE DEF BoundSteps, HoldingSteps, RunnerSteps, Releasing, Stages, Finalized
  <1>1. CASE VerifyBefore(p)
    BY <1>1, RunnerAdvance DEF VerifyBefore
  <1>2. CASE DenyEntry(p)
    BY <1>2, RunnerMove DEF DenyEntry, Move, identity
  <1>3. CASE StartMutation(p)
    BY <1>3, RunnerAdvance DEF StartMutation
  <1>4. CASE DenyPreparation(p)
    BY <1>4, RunnerMove DEF DenyPreparation, Move, identity
  <1>5. CASE VerifyCommitAuthority(p)
    <2>1. PICK next \in {"bootstrap", "replace"} :
            Advance(p, "COMMIT_AUTHORITY_VERIFIED", next, "orchestrator_recovery")
      BY <1>5 DEF VerifyCommitAuthority
    <2> QED
      BY <1>5, <2>1, RunnerAdvance DEF VerifyCommitAuthority
  <1>6. CASE DenyCommit(p)
    BY <1>6, RunnerMove DEF DenyCommit, Move, identity
  <1>7. CASE FailBeforeCommit(p)
    BY <1>7, RunnerAdvance DEF FailBeforeCommit
  <1> QED
    BY <1>1, <1>2, <1>3, <1>4, <1>5, <1>6, <1>7 DEF Preparation

LEMMA CommitSafe ==
  ASSUME IInv, NEW p \in Runner, Commit(p)
  PROVE  Safe'
  <1> USE DEF BoundSteps, HoldingSteps, RunnerSteps, Releasing, Stages, Finalized
  <1>1. CASE Bootstrap(p)
    <2>1. PICK next \in {"replace", "orchestrator_recovery"} : Goto(p, next)
      BY <1>1 DEF Bootstrap
    <2> QED
      BY <1>1, <2>1, RunnerMove DEF Bootstrap, identity
  <1>2. CASE Replace(p)
    <2>1. PICK next \in {"record_applied", "adapter_recovery", "orchestrator_recovery"} :
            Goto(p, next)
      BY <1>2 DEF Replace
    <2> QED
      BY <1>2, <2>1, RunnerMove DEF Replace, identity
  <1>3. CASE ReplaceDenied(p)
    BY <1>3, RunnerMove DEF ReplaceDenied, Move, identity
  <1>4. CASE RecordApplied(p)
    BY <1>4, RunnerAdvance DEF RecordApplied
  <1>5. CASE VerifyAfter(p)
    BY <1>5, RunnerAdvance DEF VerifyAfter
  <1>6. CASE VerifyAfterFails(p)
    <2>1. PICK next \in {"adapter_recovery", "restore_recovery"} : Move(p, next)
      BY <1>6 DEF VerifyAfterFails
    <2> QED
      BY <1>6, <2>1, RunnerMove DEF VerifyAfterFails, Move, identity
  <1>7. CASE RecordEvidence(p)
    BY <1>7, RunnerAdvance DEF RecordEvidence
  <1>8. CASE FinalizeSuccess(p)
    BY <1>8, RunnerAdvance DEF FinalizeSuccess
  <1> QED
    BY <1>1, <1>2, <1>3, <1>4, <1>5, <1>6, <1>7, <1>8 DEF Commit

LEMMA CompensationSafe ==
  ASSUME IInv, NEW p \in Runner, Compensation(p)
  PROVE  Safe'
  <1> USE DEF BoundSteps, HoldingSteps, RunnerSteps, Releasing, Stages, Finalized
  <1>1. CASE AdapterRecovery(p)
    BY <1>1, RunnerAdvance DEF AdapterRecovery
  <1>2. CASE OrchestratorRecovery(p)
    BY <1>2, RunnerAdvance, RunnerMove DEF OrchestratorRecovery, Move, identity
  <1>3. CASE RestoreRecovery(p)
    BY <1>3, RunnerAdvance DEF RestoreRecovery
  <1>4. CASE Restore(p)
    <2>1. PICK next \in {"record_restored", "orchestrator_recovery"} : Goto(p, next)
      BY <1>4 DEF Restore
    <2> QED
      BY <1>4, <2>1, RunnerMove DEF Restore, identity
  <1>5. CASE RestoreDenied(p)
    BY <1>5, RunnerMove DEF RestoreDenied, Move, identity
  <1>6. CASE RecordRestored(p)
    BY <1>6, RunnerAdvance DEF RecordRestored
  <1>7. CASE RecordRestoredEvidence(p)
    BY <1>7, RunnerAdvance DEF RecordRestoredEvidence
  <1>8. CASE FinalizeRestored(p)
    BY <1>8, RunnerAdvance DEF FinalizeRestored
  <1> QED
    BY <1>1, <1>2, <1>3, <1>4, <1>5, <1>6, <1>7, <1>8 DEF Compensation

----------------------------------------------------------------------------
(***************************************************************************)
(* The steps of a recoverer, crashes, and the environment.                 *)
(***************************************************************************)

LEMMA RecovererSafe ==
  ASSUME IInv, NEW p \in Recoverer, RecovererStep(p)
  PROVE  Safe'
  <1>0. /\ p \in Process /\ p \notin Runner /\ p # Unbound /\ IsEntitled(p)
        /\ pc \in [Process -> RunnerSteps \union RecovererSteps]
        /\ memory \in [Process -> Seq(Event)]
    BY ConstantsAssumption DEF Process, IInv, TypeOK, Safe
  <1>1. CASE RecoverReopen(p)
    <2>1. Own(p)'
      BY <1>0, <1>1 DEF RecoverReopen, Goto, Own, IsEntitled, ClaimSteps
    <2>2. pc[p] \notin Ended
      BY <1>1 DEF RecoverReopen, Ended
    <2> QED
      BY <1>0, <1>1, <2>1, <2>2, RememberSafe DEF RecoverReopen, identity
  <1>2. CASE InspectTarget(p)
    <2>1. Own(p)'
      BY <1>0, <1>2 DEF InspectTarget, Goto, Own, IsEntitled, ClaimSteps
    <2>2. pc[p] \notin Ended
      BY <1>2 DEF InspectTarget, Ended
    <2> QED
      BY <1>0, <1>2, <2>1, <2>2, MoveSafe DEF InspectTarget, identity
  <1>3. CASE InspectLock(p)
    <2>1. pc[p] = "inspect_lock" /\ pc[p] \notin Ended
      BY <1>3 DEF InspectLock, Ended
    <2>2. CASE LockToken(memory[p]) # Unbound /\ Move(p, "check_owner")
      <3>1. IsBound(memory[p])
        BY <1>0, <2>2, PreparedFacts DEF IInv, Safe, Histories
      <3>2. Own(p)'
        BY <1>0, <2>2, <3>1 DEF Move, Goto, Own, IsEntitled, ClaimSteps
      <3> QED
        BY <1>0, <2>1, <2>2, <3>2, MoveSafe DEF Move, identity
    <2>3. CASE EndCall(p) /\ UNCHANGED claim
      BY <2>1, <2>3, EndCallSafe
    <2> QED
      BY <1>3, <2>2, <2>3 DEF InspectLock
  <1>4. CASE CheckOwner(p)
    <2>1. pc[p] = "check_owner" /\ pc[p] \notin Ended /\ IsBound(memory[p])
      BY <1>0, <1>4 DEF CheckOwner, Ended, IsEntitled
    <2>2. CASE /\ Terminated(LockToken(memory[p]))
               /\ Goto(p, "claim")
               /\ UNCHANGED <<journal, memory, lock, claim, physical, identity>>
      <3>1. Own(p)'
        BY <2>1, <2>2, EntitledNext DEF MayGo, ClaimSteps
      <3> QED
        BY <1>0, <2>1, <2>2, <3>1, MoveSafe DEF identity
    <2>3. CASE EndCall(p) /\ UNCHANGED claim
      BY <2>1, <2>3, EndCallSafe
    <2> QED
      BY <1>4, <2>2, <2>3 DEF CheckOwner
  <1>5. CASE AcquireClaim(p)
    <2>1. pc[p] = "claim" /\ pc[p] \notin Ended
      BY <1>5 DEF AcquireClaim, Ended
    <2>2. CASE /\ ClaimFree
               /\ claim' = p
               /\ Goto(p, AfterClaim(memory[p]))
               /\ UNCHANGED <<journal, memory, lock, seen, physical, identity>>
      <3> DEFINE next == AfterClaim(memory[p])
      <3>1. /\ next \in ClaimSteps \ {"recovered_final", "recovery_unlink"}
            /\ next = "recovery_release" => StageOf(memory[p]) \in Finalized
        BY DEF AfterClaim, ClaimSteps
      <3> HIDE DEF next
      <3>2. MayGo(p, next, memory[p])
        BY <2>2, <3>1 DEF MayGo
      <3>3. Goto(p, next)
        BY <2>2 DEF next
      <3> QED
        BY <2>1, <2>2, <3>1, <3>2, <3>3, RecovererMove DEF ClaimFree, identity
    <2>3. CASE EndCall(p) /\ UNCHANGED claim
      BY <2>1, <2>3, EndCallSafe
    <2> QED
      BY <1>5, <2>2, <2>3 DEF AcquireClaim
  <1>6. CASE ClaimFails(p)
    <2>1. Own(p)'
      BY <1>0, <1>6 DEF ClaimFails, Goto, Own, IsEntitled, ClaimSteps
    <2>2. pc[p] \notin Ended
      BY <1>6 DEF ClaimFails, Ended
    <2> QED
      BY <1>0, <1>6, <2>1, <2>2, MoveSafe DEF ClaimFails, ClaimFree, identity
  <1>7. CASE RequireRecovery(p)
    <2>1. /\ Publish(p, "RECOVERY_REQUIRED", Unbound, "bind_evidence", "drop_claim")
          /\ UNCHANGED <<lock, claim, txn, directories>>
          /\ pc[p] \in ClaimSteps
      BY <1>7 DEF RequireRecovery, Advance, identity, ClaimSteps
    <2>2. "RECOVERY_REQUIRED" \in Stages /\ Unbound \in Bound
      BY DEF Stages, Bound
    <2> QED
      BY <2>1, <2>2, RecovererAdvance DEF ClaimSteps
  <1>8. CASE BindEvidence(p)
    <2>1. PICK stage \in {"RECOVERED", "RECOVERY_UNRESOLVED"},
               next \in {"recovered_evidence", "drop_claim"} :
            Publish(p, stage, "EVIDENCE", next, "drop_claim")
      BY <1>8 DEF BindEvidence, RecoveredStage
    <2>2. UNCHANGED <<lock, claim, txn, directories>> /\ pc[p] \in ClaimSteps
      BY <1>8 DEF BindEvidence, identity, ClaimSteps
    <2>3. stage \in Stages /\ "EVIDENCE" \in Bound
      BY DEF Stages, Bound
    <2> QED
      BY <2>1, <2>2, <2>3, RecovererAdvance DEF ClaimSteps
  <1>9. CASE RecoveredEvidence(p)
    <2>1. /\ Publish(p, "EVIDENCE_RECORDED", Unbound, "recovered_final", "drop_claim")
          /\ UNCHANGED <<lock, claim, txn, directories>>
          /\ pc[p] \in ClaimSteps
      BY <1>9 DEF RecoveredEvidence, Advance, identity, ClaimSteps
    <2>2. "EVIDENCE_RECORDED" \in Stages /\ Unbound \in Bound
      BY DEF Stages, Bound
    <2> QED
      BY <2>1, <2>2, RecovererAdvance DEF ClaimSteps
  <1>10. CASE RecoveredFinal(p)
    <2>1. PICK stage \in Terminal :
            Publish(p, stage, Unbound, "recovery_release", "drop_claim")
      BY <1>10 DEF RecoveredFinal, Advance, TerminalStage, Terminal, Finalized
    <2>2. /\ UNCHANGED <<lock, claim, txn, directories>>
          /\ pc[p] = "recovered_final"
          /\ pc[p] \in ClaimSteps
          /\ StageOf(memory[p]) = "EVIDENCE_RECORDED"
      BY <1>0, <1>10 DEF RecoveredFinal, Advance, identity, ClaimSteps, IsEntitled
    <2>3. stage \in Stages /\ Unbound \in Bound
      BY DEF Stages, Bound, Terminal, Finalized
    <2> QED
      BY <2>1, <2>2, <2>3, RecovererAdvance DEF ClaimSteps, Terminal
  <1>11. CASE RecoveryReleaseCheck(p)
    <2>1. PICK next \in {"recovery_unlink", "drop_claim"} :
            Move(p, next) /\ (next = "recovery_unlink" => Owns(LockToken(memory[p])))
      BY <1>11 DEF RecoveryReleaseCheck
    <2>2. pc[p] \in ClaimSteps /\ claim = p /\ StageOf(memory[p]) \in Finalized
      BY <1>0, <1>11 DEF RecoveryReleaseCheck, IsEntitled, ClaimSteps
    <2>3. MayGo(p, next, memory[p])
      BY <2>1, <2>2 DEF MayGo, Move
    <2> QED
      BY <2>1, <2>2, <2>3, RecovererMove DEF Move, identity, ClaimSteps
  <1>12. CASE RecoveryReleaseUnlink(p)
    <2>1. /\ UNCHANGED <<journal, memory, claim, txn, directories>>
          /\ lock' = NoLock /\ Goto(p, "drop_claim")
          /\ pc[p] = "recovery_unlink"
      BY <1>12 DEF RecoveryReleaseUnlink, identity
    <2>2. /\ IsBound(memory[p]) /\ StageOf(memory[p]) \in Finalized
          /\ Terminated(LockToken(memory[p])) /\ claim = p
          /\ OpenFaults \/ lock.owner = LockToken(memory[p])
      BY <1>0, <2>1 DEF IsEntitled, ClaimSteps, Owns
    <2>3. ASSUME NEW q \in Process, q # p, ~OpenFaults
          PROVE  pc[q] \notin HoldingSteps \union {"recovery_unlink"}
      <3>1. CASE q \in Runner
        <4>1. Holds(q) /\ pc[q] \in RunnerSteps
          BY <3>1 DEF IInv, Safe, TypeOK
        <4>2. pc[q] \in HoldingSteps => pc[q] \in Ended
          BY <2>2, <2>3, <4>1 DEF Holds, Terminated, Ended
        <4> QED
          BY <4>1, <4>2, StepSets DEF RunnerSteps
      <3>2. CASE q \in Recoverer
        <4>1. IsEntitled(q) /\ pc[q] \in RecovererSteps /\ claim # q
          BY <2>2, <2>3, <3>2 DEF IInv, Safe, TypeOK
        <4> QED
          BY <4>1 DEF IsEntitled, ClaimSteps, HoldingSteps, RunnerSteps, RecovererSteps
      <3> QED
        BY <3>1, <3>2 DEF Process
    <2>4. pc[p] \notin Ended
      BY <2>1 DEF Ended
    <2>5. Own(p)'
      <3>1. pc'[p] = "drop_claim" /\ LockToken(memory[p]) \in Runner
        BY <1>0, <2>1, <2>2, BoundFacts DEF Goto
      <3>2. pc'[LockToken(memory[p])] = pc[LockToken(memory[p])]
        BY <1>0, <2>1, <3>1 DEF Goto
      <3> QED
        BY <1>0, <2>1, <2>2, <3>1, <3>2 DEF Own, IsEntitled, Terminated
    <2> QED
      BY <1>0, <2>1, <2>2, <2>3, <2>4, <2>5, UnlinkSafe
  <1>13. CASE DropClaim(p)
    <2>1. pc[p] \notin Ended
      BY <1>13 DEF DropClaim, Ended
    <2>2. claim' = claim \/ claim \in {p, Unbound}
      BY <1>13 DEF DropClaim
    <2> QED
      BY <1>13, <2>1, <2>2, EndCallSafe DEF DropClaim
  <1> QED
    BY <1>1, <1>2, <1>3, <1>4, <1>5, <1>6, <1>7, <1>8, <1>9, <1>10, <1>11, <1>12, <1>13
    DEF RecovererStep

LEMMA CrashSafe ==
  ASSUME IInv, NEW p \in Process, Crash(p)
  PROVE  Safe'
  <1>1. pc'[p] = "crashed" /\ pc[p] \notin Ended
    BY DEF Crash, Goto, IInv, TypeOK, Ended
  <1>2. Own(p)'
    BY <1>1, StepSets DEF Own, KnowsItself, Holds, IsEntitled, ClaimSteps, Releasing
  <1> QED
    BY <1>1, <1>2, RememberSafe DEF Crash, identity

LEMMA IdleSafe ==
  ASSUME IInv,
         UNCHANGED <<journal, memory, lock, claim, seen, pc, directories, txn>>
  PROVE  Safe'
  BY DEF IInv, Safe, Histories, TerminalIsCurrent, UnfinishedIsLocked, FirstRecord,
         KnowsItself, Holds, IsEntitled, LockIsOwned, Owns, Terminated

\* The inductive invariant: every conjunct of it is needed to carry some other one over a
\* step, down to the mkdir that decides who publishes the first record.
LEMMA InductiveStep == IInv /\ [Next]_vars => IInv'
  <1> SUFFICES ASSUME IInv, [Next]_vars PROVE IInv'
    OBVIOUS
  <1>1. TypeOK'
    BY TypeStep DEF IInv
  <1>2. ASSUME NEW p \in Runner, RunnerStep(p) PROVE Safe'
    BY <1>2, AcquisitionSafe, PreparationSafe, CommitSafe, CompensationSafe, ReleaseSafe
    DEF RunnerStep
  <1>3. ASSUME NEW p \in Recoverer, RecovererStep(p) PROVE Safe'
    BY <1>3, RecovererSafe
  <1>4. ASSUME NEW p \in Process, Crash(p) PROVE Safe'
    BY <1>4, CrashSafe
  <1>5. EditWorktree => Safe'
    BY IdleSafe DEF EditWorktree, identity
  <1>6. UNCHANGED vars => Safe'
    BY IdleSafe DEF vars
  <1>7. Safe'
    BY <1>2, <1>3, <1>4, <1>5, <1>6 DEF Next
  <1> QED
    BY <1>1, <1>7 DEF IInv

LEMMA InductiveInit == Init => IInv
  <1> SUFFICES ASSUME Init PROVE Safe
    BY TypeInit DEF IInv
  <1> USE DEF Init
  <1>1. Histories /\ TerminalIsCurrent
    BY PreparedFacts DEF Histories, TerminalIsCurrent
  <1>2. UnfinishedIsLocked /\ FirstRecord /\ LockIsOwned
    BY PreparedFacts DEF UnfinishedIsLocked, FirstRecord, LockIsOwned, NoLock, Process
  <1>3. ASSUME NEW p \in Runner PROVE KnowsItself(p) /\ Holds(p)
    BY <1>3
    DEF KnowsItself, Holds, UnboundSteps, BoundSteps, HoldingSteps, Process
  <1>4. ASSUME NEW p \in Recoverer PROVE IsEntitled(p)
    BY <1>4 DEF IsEntitled, ClaimSteps, Process
  <1> QED
    BY <1>1, <1>2, <1>3, <1>4 DEF Safe

\* Conflicting mutations of one target serialize: between the creation of its lock file
\* and its own unlink, no other runner and no recovery takes the file away from a runner,
\* for any number of processes, crashes and storage faults.  OpenFaults is excluded: the
\* handler of a failed open unlinks a file it did not create.
THEOREM Serialized ==
  ASSUME ~OpenFaults
  PROVE  Spec => []MutualExclusion
  <1>1. IInv => MutualExclusion
    BY DEF IInv, Safe, Holds, MutualExclusion
  <1>2. IInv /\ [Next]_vars => IInv'
    BY InductiveStep
  <1> QED
    BY <1>1, <1>2, InductiveInit, PTL DEF Spec

\* A transaction that was journaled as LOCKED keeps the complete lock file until its
\* journal is finalized, whoever crashes and whoever recovers.
THEOREM LockRetained ==
  ASSUME ~OpenFaults
  PROVE  Spec => []UnfinishedRetainsLock
  <1>1. IInv => UnfinishedRetainsLock
    <2> SUFFICES ASSUME IInv, NEW t \in Txn, Unfinished(t) PROVE Owns(LockToken(journal[t]))
      BY DEF UnfinishedRetainsLock
    <2>1. PICK i \in DOMAIN journal[t] : journal[t][i].stage = "LOCKED"
      BY DEF Unfinished, Reached
    <2>2. journal[t] # <<>>
      BY <2>1
    <2>3. journal[t] # Prepared
      BY <2>1 DEF Prepared
    <2> QED
      BY <2>2, <2>3 DEF IInv, Safe, Histories, UnfinishedIsLocked, Unfinished
  <1>2. IInv /\ [Next]_vars => IInv'
    BY InductiveStep
  <1> QED
    BY <1>1, <1>2, InductiveInit, PTL DEF Spec
=============================================================================
