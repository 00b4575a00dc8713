----------------------- MODULE GovernedMutationSafety -----------------------
(***************************************************************************)
(* What the journal of GovernedMutation says of the target, as theorems:   *)
(* records are only appended, the target is replaced under a durable       *)
(* authority, COMPLETED and the finalized stages are true, and the whole   *)
(* implements AtomicPatch.                                                 *)
(*                                                                         *)
(* The argument has two layers.  FullInv carries the account of commits;   *)
(* TruthInv adds what the runners did to the target and, while recovery is *)
(* NotMisled, what it concludes.  Neither needs the lock: a conflicting    *)
(* transaction that a failed open let in replaces nothing its grant does   *)
(* not name.  Every step of Next is first reduced to the turn of one       *)
(* process (OwnTurn) or to an edit from outside, so that each part of the  *)
(* invariants is carried over a few kinds of turn and not over forty       *)
(* actions.                                                                *)
(***************************************************************************)
EXTENDS GovernedMutationProofs, AtomicPatchRefinement

----------------------------------------------------------------------------
(***************************************************************************)
(* Histories end with their first terminal event.                          *)
(***************************************************************************)

LEMMA ExtendTerminalLast ==
  ASSUME NEW h \in Seq(Event), NEW stage \in Stages, NEW bound \in Bound,
         h # <<>>, TerminalLast(h), StageOf(h) \notin Terminal
  PROVE  /\ TerminalLast(Extend(h, stage, bound))
         /\ ~\E last \in Terminal : Reached(h, last)
         /\ Len(Extend(h, stage, bound)) = Len(h) + 1
         /\ SubSeq(Extend(h, stage, bound), 1, Len(h)) = h
  <1> DEFINE g == Extend(h, stage, bound)
  <1>1. /\ g \in Seq(Event) /\ Len(g) = Len(h) + 1
        /\ \A i \in 1..Len(h) : g[i] = h[i]
    BY ExtendType
  <1>2. Len(h) \in Nat /\ DOMAIN h = 1..Len(h) /\ DOMAIN g = 1..(Len(h) + 1)
    BY <1>1
  <1> HIDE DEF g
  <1>3. \A i \in DOMAIN h : h[i].stage \notin Terminal
    BY DEF TerminalLast, StageOf
  <1>4. TerminalLast(g)
    BY <1>1, <1>2, <1>3 DEF TerminalLast
  <1>5. ~\E last \in Terminal : Reached(h, last)
    BY <1>3 DEF Reached
  <1>6. SubSeq(g, 1, Len(h)) = h
    <2>1. SubSeq(g, 1, Len(h)) \in Seq(Event) /\ Len(SubSeq(g, 1, Len(h))) = Len(h)
      BY <1>1, <1>2
    <2>2. \A i \in 1..Len(h) : SubSeq(g, 1, Len(h))[i] = h[i]
      BY <1>1, <1>2
    <2> QED
      BY <2>1, <2>2
  <1> QED
    BY <1>1, <1>4, <1>5, <1>6 DEF g

LEMMA ShortTerminalLast == TerminalLast(<<>>) /\ TerminalLast(Prepared)
  BY DEF TerminalLast, Prepared

----------------------------------------------------------------------------
(***************************************************************************)
(* What one step does to journals and memories, and to the control of a    *)
(* runner on its way through the commit.                                   *)
(***************************************************************************)

PublishesNext(p, stage, bound) ==
  LET candidate == Extend(memory[p], stage, bound) IN
  /\ MayBecome(memory[p], candidate)
  /\ journal[txn[p]] \in {memory[p], candidate}
  /\ journal' = [journal EXCEPT ![txn[p]] = candidate]

\* Where the stages that speak of the target are published.
Justified(p, stage) ==
  /\ stage = "FINALIZED_SUCCESS" =>
       \/ p \in Runner /\ pc[p] = "finalize"
       \/ pc[p] = "recovered_final" /\ stage = TerminalStage(seen[p])
  /\ stage = "FINALIZED_FAILED" =>
       \/ p \in Runner /\ pc[p] \in {"fail_before", "restored_failed"}
       \/ pc[p] = "recovered_final" /\ stage = TerminalStage(seen[p])
  /\ stage = "RECOVERED" =>
       \/ p \in Runner /\ pc[p] = "record_restored"
       \/ pc[p] = "bind_evidence" /\ stage = RecoveredStage(seen[p])

Appends(p) ==
  \E stage \in Stages, bound \in Bound :
    /\ Permitted(p, stage, bound)
    /\ Justified(p, stage)
    /\ pc[p] \in {"bind"} \union BoundSteps \union ClaimSteps
    /\ PublishesNext(p, stage, bound)
    /\ memory'[p] \in {memory[p], Extend(memory[p], stage, bound)}

Keeps(p) ==
  /\ UNCHANGED journal
  /\ memory'[p] \in {memory[p], <<>>, Prepared, journal[txn[p]]}

Turn(p) ==
  /\ UNCHANGED txn
  /\ \A q \in Process : q # p => pc'[q] = pc[q] /\ memory'[q] = memory[q]
  /\ \A q \in Recoverer : q # p => seen'[q] = seen[q]
  /\ \/ Appends(p)
     \/ Keeps(p)
     \/ PublishPrepared(p) /\ UNCHANGED memory
  /\ \/ UNCHANGED physical
     \/ p \in Runner /\ (Bootstrap(p) \/ Replace(p) \/ Restore(p))
  /\ lock'.owner \in {lock.owner, p, Unbound}

\* Process p published its next event and remembers it.
Advances(p, stage, bound) ==
  PublishesNext(p, stage, bound) /\ memory'[p] = Extend(memory[p], stage, bound)

Binds(p) == pc[p] = "bind" /\ memory[p] = Prepared /\ Advances(p, "LOCKED", p)

Route(p) ==
  /\ pc[p] \in {"bind"} \union BoundSteps => pc'[p] \in BoundSteps \union Ended
  /\ pc'[p] \in BoundSteps => pc[p] \in BoundSteps \/ Binds(p)
  /\ pc'[p] \in {"bootstrap", "replace"} =>
       \/ Advances(p, "COMMIT_AUTHORITY_VERIFIED", Unbound)
       \/ pc[p] = "bootstrap" /\ UNCHANGED <<journal, memory>>
  /\ pc'[p] \in PreCommitSteps => pc[p] \in PreCommitSteps \/ Binds(p)
  /\ pc'[p] \in AppliedSteps => pc[p] \in AppliedSteps \/ Replace(p)
  /\ Succeeded(p)' => pc[p] = "finalize" \/ Succeeded(p)
  /\ pc'[p] = "fail_before" => pc[p] \in PreCommitSteps
  /\ pc'[p] \in RestoreSteps =>
       \/ pc[p] \in AppliedSteps /\ ~ContentAddressed
       \/ pc[p] \in RestoreSteps
  /\ pc'[p] \in RestoredSteps => pc[p] \in RestoredSteps \/ Restore(p)
  /\ pc'[p] \in OpenSteps =>
       /\ pc[p] \in OpenSteps \/ Binds(p)
       /\ journal'[txn[p]] = journal[txn[p]] \/ StageOf(journal'[txn[p]]) \notin Terminal
  /\ pc'[p] = "completed" =>
       /\ pc[p] = "unlink" /\ UNCHANGED memory
       /\ StageOf(memory[p]) = "FINALIZED_SUCCESS"
       /\ lock' = NoLock
  /\ pc[p] \notin Ended

LEMMA AdvanceTurn ==
  ASSUME IInv, NEW p \in Process, NEW stage \in Stages, NEW bound \in Bound,
         NEW next, NEW error, Publish(p, stage, bound, next, error),
         Permitted(p, stage, bound), Justified(p, stage),
         pc[p] \in {"bind"} \union BoundSteps \union ClaimSteps,
         UNCHANGED <<lock, txn, seen, physical>>
  PROVE  /\ Turn(p)
         /\ \/ pc'[p] = next /\ Advances(p, stage, bound)
            \/ /\ pc'[p] = error /\ memory'[p] = memory[p]
               /\ UNCHANGED journal \/ PublishesNext(p, stage, bound)
  <1>1. /\ memory \in [Process -> Seq(Event)]
        /\ pc \in [Process -> RunnerSteps \union RecovererSteps]
    BY DEF IInv, TypeOK
  <1> DEFINE candidate == Extend(memory[p], stage, bound)
  <1>2. \/ /\ Accepts(p, candidate)
           /\ journal' = [journal EXCEPT ![txn[p]] = candidate]
           /\ \/ memory' = [memory EXCEPT ![p] = candidate] /\ Goto(p, next)
              \/ memory' = memory /\ Goto(p, error)
        \/ journal' = journal /\ memory' = memory /\ Goto(p, error)
    BY DEF Publish
  <1>3. Accepts(p, candidate) =>
          MayBecome(memory[p], candidate) /\ journal[txn[p]] \in {memory[p], candidate}
    BY DEF Accepts
  <1> HIDE DEF candidate
  <1>4. /\ \A q \in Process : q # p => pc'[q] = pc[q] /\ memory'[q] = memory[q]
        /\ \/ /\ Accepts(p, candidate) /\ journal' = [journal EXCEPT ![txn[p]] = candidate]
              /\ \/ memory'[p] = candidate /\ pc'[p] = next
                 \/ memory'[p] = memory[p] /\ pc'[p] = error
           \/ UNCHANGED journal /\ memory'[p] = memory[p] /\ pc'[p] = error
    BY <1>1, <1>2 DEF Goto
  <1>5. \/ Advances(p, stage, bound) /\ pc'[p] = next
        \/ PublishesNext(p, stage, bound) /\ memory'[p] = memory[p] /\ pc'[p] = error
        \/ UNCHANGED journal /\ memory'[p] = memory[p] /\ pc'[p] = error
    BY <1>3, <1>4 DEF Advances, PublishesNext, candidate
  <1>6. Appends(p) \/ Keeps(p)
    BY <1>5 DEF Appends, Keeps, Advances
  <1> QED
    BY <1>4, <1>5, <1>6 DEF Turn

LEMMA QuietTurn ==
  ASSUME IInv, NEW p \in Process, NEW next, Goto(p, next),
         UNCHANGED <<journal, memory, txn>>,
         \A q \in Recoverer : q # p => seen'[q] = seen[q],
         \/ UNCHANGED physical
         \/ p \in Runner /\ (Bootstrap(p) \/ Replace(p) \/ Restore(p)),
         lock'.owner \in {lock.owner, p, Unbound}
  PROVE  Turn(p) /\ pc'[p] = next
  BY DEF Turn, Keeps, Goto, IInv, TypeOK

LEMMA ForgetTurn ==
  ASSUME IInv, NEW p \in Process, NEW next, Goto(p, next),
         NEW m, m \in {<<>>, Prepared, journal[txn[p]]},
         memory' = [memory EXCEPT ![p] = m],
         UNCHANGED <<journal, lock, txn, physical>>,
         \A q \in Recoverer : q # p => seen'[q] = seen[q]
  PROVE  Turn(p) /\ pc'[p] = next
  BY DEF Turn, Keeps, Goto, IInv, TypeOK

\* A runner's append outside the steps that lead to its commit authority.
LEMMA AdvanceRoute ==
  ASSUME IInv, NEW p \in Runner, pc[p] \in BoundSteps, NEW stage \in Stages,
         NEW next, NEW error, Advance(p, stage, next, error),
         next \in BoundSteps \union {"failed"}, error \in BoundSteps \union {"failed"},
         next \in {"bootstrap", "replace"} => stage = "COMMIT_AUTHORITY_VERIFIED",
         next \in PreCommitSteps => pc[p] \in PreCommitSteps,
         next \in AppliedSteps => pc[p] \in AppliedSteps,
         next \in Releasing /\ stage = "FINALIZED_SUCCESS" => pc[p] = "finalize",
         next \in RestoreSteps => pc[p] \in RestoreSteps,
         next \in RestoredSteps => pc[p] \in RestoredSteps,
         next # "fail_before",
         error = "fail_before" => pc[p] \in PreCommitSteps,
         error \in OpenSteps => pc[p] = "restore_recovery" /\ error = "restore",
         error \notin Releasing,
         Justified(p, stage),
         next \in OpenSteps \/ error \in OpenSteps => stage \notin Terminal
  PROVE  Turn(p) /\ Route(p)
  <1>1. /\ p \in Process /\ Unbound \in Bound /\ memory[p] \in Seq(Event)
        /\ Permitted(p, stage, Unbound)
    BY DEF Process, Bound, IInv, TypeOK, Safe, KnowsItself, Permitted
  <1>2. Publish(p, stage, Unbound, next, error) /\ UNCHANGED <<lock, txn, seen, physical>>
    BY DEF Advance, identity
  <1>3. /\ Turn(p)
        /\ \/ pc'[p] = next /\ Advances(p, stage, Unbound)
           \/ /\ pc'[p] = error /\ memory'[p] = memory[p]
              /\ UNCHANGED journal \/ PublishesNext(p, stage, Unbound)
    BY <1>1, <1>2, AdvanceTurn
  <1>4. pc'[p] = next /\ Advances(p, stage, Unbound) => StageOf(memory'[p]) = stage
    BY <1>1, ExtendStage DEF Advances
  <1>5. Succeeded(p)' => pc[p] = "finalize"
    BY <1>3, <1>4, StepSets DEF Succeeded, Releasing, BoundSteps, HoldingSteps, RunnerSteps
  <1>8. \/ journal'[txn[p]] = journal[txn[p]]
        \/ journal'[txn[p]] = Extend(memory[p], stage, Unbound)
    BY <1>1, <1>3 DEF Advances, PublishesNext, IInv, TypeOK
  <1>9. pc'[p] \in OpenSteps =>
          journal'[txn[p]] = journal[txn[p]] \/ StageOf(journal'[txn[p]]) \notin Terminal
    BY <1>1, <1>3, <1>8, ExtendStage
  <1>10. /\ pc'[p] \in PreCommitSteps => pc[p] \in PreCommitSteps
         /\ pc'[p] \in AppliedSteps => pc[p] \in AppliedSteps
         /\ pc'[p] \in RestoreSteps => pc[p] \in RestoreSteps
         /\ pc'[p] \in RestoredSteps => pc[p] \in RestoredSteps
         /\ pc'[p] = "fail_before" => pc[p] \in PreCommitSteps
    BY <1>3 DEF OpenSteps, PreCommitSteps, AppliedSteps, RestoreSteps, RestoredSteps
  <1>11. pc'[p] \in {"bootstrap", "replace"} =>
           Advances(p, "COMMIT_AUTHORITY_VERIFIED", Unbound)
    BY <1>3 DEF OpenSteps, PreCommitSteps
  <1>6. pc'[p] \in BoundSteps \union {"failed"} /\ "completed" \notin BoundSteps
    BY <1>3, StepSets
  <1>7. {"bootstrap", "replace"} \subseteq PreCommitSteps /\ pc[p] \notin Ended
    BY StepSets DEF PreCommitSteps
  <1> QED
    BY <1>3, <1>5, <1>6, <1>7, <1>9, <1>10, <1>11 DEF Route, Ended, OpenSteps

LEMMA MoveRoute ==
  ASSUME IInv, NEW p \in Runner, pc[p] \in BoundSteps, NEW next, Goto(p, next),
         UNCHANGED <<journal, memory, lock, txn, seen>>,
         UNCHANGED physical \/ Bootstrap(p) \/ Replace(p) \/ Restore(p),
         next \in BoundSteps \union {"failed"},
         next = "replace" => pc[p] = "bootstrap",
         next # "bootstrap",
         next \in PreCommitSteps => pc[p] \in PreCommitSteps,
         next \in AppliedSteps => Replace(p) /\ pc[p] \in PreCommitSteps,
         next = "fail_before" => pc[p] \in PreCommitSteps,
         next \in RestoreSteps => pc[p] \in AppliedSteps /\ ~ContentAddressed,
         next \in RestoredSteps => Restore(p) /\ pc[p] \in RestoreSteps,
         next \in Releasing => pc[p] \in Releasing
  PROVE  Turn(p) /\ Route(p)
  <1>1. p \in Process
    BY DEF Process
  <1>2. Turn(p) /\ pc'[p] = next
    BY <1>1, QuietTurn
  <1>3. next # "completed" /\ pc[p] \notin Ended
    BY StepSets DEF Ended
  <1>4. Succeeded(p)' => Succeeded(p)
    BY <1>2, <1>3 DEF Succeeded, Releasing
  <1> QED
    BY <1>2, <1>3, <1>4 DEF Route, Ended, OpenSteps

\* A step before the journal is bound, or one that does not touch it.
LEMMA UnboundRoute ==
  ASSUME NEW p \in Runner, pc[p] \in UnboundSteps \union {"idle"},
         pc'[p] \in (UnboundSteps \union {"failed"}),
         pc[p] = "bind" => pc'[p] = "failed"
  PROVE  Route(p)
  BY DEF Route, UnboundSteps, BoundSteps, HoldingSteps, RunnerSteps, Ended,
         PreCommitSteps, AppliedSteps, RestoreSteps, RestoredSteps, OpenSteps, Succeeded

LEMMA AcquisitionRoute ==
  ASSUME IInv, NEW p \in Runner, Acquisition(p)
  PROVE  Turn(p) /\ Route(p)
  <1>0. /\ p \in Process
        /\ pc \in [Process -> RunnerSteps \union RecovererSteps]
        /\ memory \in [Process -> Seq(Event)]
        /\ lock \in LockType
        /\ KnowsItself(p) /\ Holds(p)
    BY DEF Process, IInv, TypeOK, LockType, Safe
  <1>1. CASE Reopen(p)
    <2>1. PICK next \in {"create", "acquire", "failed"} : Goto(p, next)
      BY <1>1 DEF Reopen
    <2>2. Turn(p) /\ pc'[p] = next /\ pc[p] = "idle"
      BY <1>0, <1>1, <2>1, ForgetTurn DEF Reopen, identity
    <2> QED
      BY <2>2, UnboundRoute DEF UnboundSteps
  <1>2. CASE CreateDirectory(p)
    <2>1. PICK next \in {"publish", "acquire", "failed"} : Goto(p, next)
      BY <1>2 DEF CreateDirectory
    <2>2. Turn(p) /\ pc'[p] = next /\ pc[p] = "create"
      BY <1>0, <1>2, <2>1, QuietTurn DEF CreateDirectory
    <2> QED
      BY <2>2, UnboundRoute DEF UnboundSteps
  <1>3. CASE PublishPrepared(p)
    <2>1. PICK next \in {"acquire", "failed"} : Goto(p, next)
      BY <1>3 DEF PublishPrepared
    <2>2. Turn(p) /\ pc'[p] = next /\ pc[p] = "publish"
      BY <1>0, <1>3, <2>1 DEF PublishPrepared, identity, Turn, Goto
    <2> QED
      BY <2>2, UnboundRoute DEF UnboundSteps
  <1>4. CASE OpenLock(p)
    <2>1. PICK next \in {"write_lock", "failed"} : Goto(p, next)
      BY <1>4 DEF OpenLock
    <2>2. Turn(p) /\ pc'[p] = next /\ pc[p] = "acquire"
      BY <1>0, <1>4, <2>1, QuietTurn DEF OpenLock, identity
    <2> QED
      BY <2>2, UnboundRoute DEF UnboundSteps
  <1>5. CASE WriteLock(p)
    <2>1. PICK next \in {"bind", "failed"} : Goto(p, next)
      BY <1>5 DEF WriteLock
    <2>2. lock'.owner \in {lock.owner, p, Unbound}
      BY <1>0, <1>5 DEF WriteLock, LockType, NoLock
    <2>3. Turn(p) /\ pc'[p] = next /\ pc[p] = "write_lock"
      BY <1>0, <1>5, <2>1, <2>2, QuietTurn DEF WriteLock, identity
    <2> QED
      BY <2>3, UnboundRoute DEF UnboundSteps
  <1>6. CASE BindLock(p)
    <2>1. /\ Publish(p, "LOCKED", p, "before", "failed")
          /\ UNCHANGED <<lock, txn, seen, physical>>
          /\ pc[p] = "bind"
      BY <1>6 DEF BindLock, identity
    <2>2. memory[p] = Prepared /\ (~OpenFaults => Owns(p)) /\ "LOCKED" \in Stages /\ p \in Bound
      BY <1>0, <2>1
      DEF KnowsItself, UnboundSteps, Holds, HoldingSteps, RunnerSteps, Owns, Stages, Bound
    <2>3. Permitted(p, "LOCKED", p) /\ Justified(p, "LOCKED")
      BY <2>2 DEF Permitted, Justified
    <2>4. /\ Turn(p)
          /\ \/ pc'[p] = "before" /\ Advances(p, "LOCKED", p)
             \/ pc'[p] = "failed" /\ memory'[p] = memory[p]
      BY <1>0, <2>1, <2>2, <2>3, AdvanceTurn
    <2>5. CASE pc'[p] = "failed"
      BY <2>1, <2>4, <2>5, UnboundRoute DEF UnboundSteps
    <2>6. CASE pc'[p] = "before" /\ Binds(p)
      <3>1. StageOf(journal'[txn[p]]) = "LOCKED"
        BY <1>0, <2>2, <2>6, LockedBound DEF Binds, Advances, PublishesNext, IInv, TypeOK
      <3> QED
        BY <2>1, <2>4, <2>6, <3>1
        DEF Route, BoundSteps, HoldingSteps, RunnerSteps, PreCommitSteps, AppliedSteps,
            RestoreSteps, RestoredSteps, OpenSteps, Succeeded, Ended, Terminal, Finalized
    <2> QED
      BY <2>1, <2>2, <2>4, <2>5, <2>6 DEF Binds
  <1>7. CASE OpenLockFails(p)
    <2>1. Goto(p, "failed") /\ lock'.owner = Unbound
      BY <1>7 DEF OpenLockFails, NoLock
    <2>2. Turn(p) /\ pc'[p] = "failed" /\ pc[p] = "acquire"
      BY <1>0, <1>7, <2>1, QuietTurn DEF OpenLockFails, identity
    <2> QED
      BY <2>2, UnboundRoute DEF UnboundSteps
  <1> QED
    BY <1>1, <1>2, <1>3, <1>4, <1>5, <1>6, <1>7 DEF Acquisition

LEMMA PreparationRoute ==
  ASSUME IInv, NEW p \in Runner, Preparation(p)
  PROVE  Turn(p) /\ Route(p)
  <1> USE DEF BoundSteps, HoldingSteps, RunnerSteps, Releasing, Stages, PreCommitSteps,
              AppliedSteps, RestoreSteps, RestoredSteps, OpenSteps, Terminal, Finalized,
              Justified
  <1>1. CASE VerifyBefore(p)
    BY <1>1, AdvanceRoute DEF VerifyBefore
  <1>2. CASE DenyEntry(p)
    BY <1>2, MoveRoute DEF DenyEntry, Move, identity
  <1>3. CASE StartMutation(p)
    BY <1>3, AdvanceRoute DEF StartMutation
  <1>4. CASE DenyPreparation(p)
    BY <1>4, MoveRoute DEF DenyPreparation, Move, identity
  <1>5. CASE VerifyCommitAuthority(p)
    <2>1. PICK next \in {"bootstrap", "replace"} :
            Advance(p, "COMMIT_AUTHORITY_VERIFIED", next, "orchestrator_recovery")
      BY <1>5 DEF VerifyCommitAuthority
    <2> QED
      BY <1>5, <2>1, AdvanceRoute DEF VerifyCommitAuthority
  <1>6. CASE DenyCommit(p)
    <2>1. PICK next \in {"fail_before", "orchestrator_recovery"} : Move(p, next)
      BY <1>6 DEF DenyCommit
    <2> QED
      BY <1>6, <2>1, MoveRoute DEF DenyCommit, Move, identity
  <1>7. CASE FailBeforeCommit(p)
    BY <1>7, AdvanceRoute DEF FailBeforeCommit
  <1> QED
    BY <1>1, <1>2, <1>3, <1>4, <1>5, <1>6, <1>7 DEF Preparation

LEMMA CommitRoute ==
  ASSUME IInv, NEW p \in Runner, Commit(p)
  PROVE  Turn(p) /\ Route(p)
  <1> USE DEF BoundSteps, HoldingSteps, RunnerSteps, Releasing, Stages, PreCommitSteps,
              AppliedSteps, RestoreSteps, RestoredSteps, OpenSteps, Terminal, Finalized,
              Justified
  <1>1. CASE Bootstrap(p)
    <2>1. PICK next \in {"replace", "orchestrator_recovery"} : Goto(p, next)
      BY <1>1 DEF Bootstrap
    <2> QED
      BY <1>1, <2>1, MoveRoute DEF Bootstrap, identity
  <1>2. CASE Replace(p)
    <2>1. PICK next \in {"record_applied", "adapter_recovery", "orchestrator_recovery"} :
            Goto(p, next)
      BY <1>2 DEF Replace
    <2>2. UNCHANGED <<journal, memory, lock, txn, seen>> /\ pc[p] = "replace"
      BY <1>2 DEF Replace, identity
    <2> QED
      BY <1>2, <2>1, <2>2, MoveRoute
  <1>3. CASE ReplaceDenied(p)
    BY <1>3, MoveRoute DEF ReplaceDenied, Move, identity
  <1>4. CASE RecordApplied(p)
    BY <1>4, AdvanceRoute DEF RecordApplied
  <1>5. CASE VerifyAfter(p)
    BY <1>5, AdvanceRoute DEF VerifyAfter
  <1>6. CASE VerifyAfterFails(p)
    <2>1. PICK next \in {"adapter_recovery", "restore_recovery"} :
            Move(p, next) /\ (next = "restore_recovery" => ~ContentAddressed)
      BY <1>6 DEF VerifyAfterFails
    <2> QED
      BY <1>6, <2>1, MoveRoute DEF VerifyAfterFails, Move, identity
  <1>7. CASE RecordEvidence(p)
    BY <1>7, AdvanceRoute DEF RecordEvidence
  <1>8. CASE FinalizeSuccess(p)
    BY <1>8, AdvanceRoute DEF FinalizeSuccess
  <1> QED
    BY <1>1, <1>2, <1>3, <1>4, <1>5, <1>6, <1>7, <1>8 DEF Commit

LEMMA CompensationRoute ==
  ASSUME IInv, NEW p \in Runner, Compensation(p)
  PROVE  Turn(p) /\ Route(p)
  <1> USE DEF BoundSteps, HoldingSteps, RunnerSteps, Releasing, Stages, PreCommitSteps,
              AppliedSteps, RestoreSteps, RestoredSteps, OpenSteps, Terminal, Finalized,
              Justified
  <1>1. CASE AdapterRecovery(p)
    BY <1>1, AdvanceRoute DEF AdapterRecovery
  <1>2. CASE OrchestratorRecovery(p)
    <2>1. CASE Move(p, "failed")
      BY <1>2, <2>1, MoveRoute DEF OrchestratorRecovery, Move, identity
    <2>2. CASE Advance(p, "RECOVERY_REQUIRED", "failed", "failed")
      BY <1>2, <2>2, AdvanceRoute DEF OrchestratorRecovery
    <2> QED
      BY <1>2, <2>1, <2>2 DEF OrchestratorRecovery
  <1>3. CASE RestoreRecovery(p)
    BY <1>3, AdvanceRoute DEF RestoreRecovery
  <1>4. CASE Restore(p)
    <2>1. PICK next \in {"record_restored", "orchestrator_recovery"} : Goto(p, next)
      BY <1>4 DEF Restore
    <2> QED
      BY <1>4, <2>1, MoveRoute DEF Restore, identity
  <1>5. CASE RestoreDenied(p)
    BY <1>5, MoveRoute DEF RestoreDenied, Move, identity
  <1>6. CASE RecordRestored(p)
    BY <1>6, AdvanceRoute DEF RecordRestored
  <1>7. CASE RecordRestoredEvidence(p)
    BY <1>7, AdvanceRoute DEF RecordRestoredEvidence
  <1>8. CASE FinalizeRestored(p)
    BY <1>8, AdvanceRoute DEF FinalizeRestored
  <1> QED
    BY <1>1, <1>2, <1>3, <1>4, <1>5, <1>6, <1>7, <1>8 DEF Compensation

LEMMA ReleaseRoute ==
  ASSUME IInv, NEW p \in Runner, Release(p)
  PROVE  Turn(p) /\ Route(p)
  <1>0. p \in Process
    BY DEF Process
  <1>1. CASE ReleaseCheck(p)
    <2>1. PICK next \in {"unlink", "failed"} : Move(p, next)
      BY <1>1 DEF ReleaseCheck
    <2> QED
      BY <1>1, <2>1, MoveRoute
      DEF ReleaseCheck, Move, identity, BoundSteps, HoldingSteps, RunnerSteps,
          Releasing, PreCommitSteps, AppliedSteps, RestoreSteps, RestoredSteps, OpenSteps
  <1>2. CASE ReleaseUnlink(p)
    <2>1. PICK next \in {"completed", "failed"} :
            /\ Goto(p, next)
            /\ next = "completed" => StageOf(memory[p]) = "FINALIZED_SUCCESS"
      BY <1>2 DEF ReleaseUnlink
    <2>2. /\ UNCHANGED <<journal, memory, txn, seen, physical>>
          /\ lock' = NoLock /\ lock'.owner = Unbound
          /\ pc[p] = "unlink"
      BY <1>2 DEF ReleaseUnlink, identity, NoLock
    <2>3. Turn(p) /\ pc'[p] = next
      BY <1>0, <2>1, <2>2, QuietTurn
    <2> QED
      BY <2>1, <2>2, <2>3
      DEF Route, Succeeded, Ended, BoundSteps, HoldingSteps, RunnerSteps, PreCommitSteps,
          AppliedSteps, RestoreSteps, RestoredSteps, OpenSteps
  <1> QED
    BY <1>1, <1>2 DEF Release

LEMMA RunnerRoute ==
  ASSUME IInv, NEW p \in Runner, RunnerStep(p)
  PROVE  Turn(p) /\ Route(p)
  BY AcquisitionRoute, PreparationRoute, CommitRoute, CompensationRoute, ReleaseRoute
  DEF RunnerStep

LEMMA CrashRoute ==
  ASSUME IInv, NEW p \in Process, Crash(p)
  PROVE  /\ Turn(p)
         /\ pc'[p] = "crashed" /\ pc[p] \notin Ended /\ UNCHANGED physical
  BY ForgetTurn DEF Crash, identity, Ended

LEMMA EndCallTurn ==
  ASSUME IInv, NEW p \in Recoverer, EndCall(p)
  PROVE  Turn(p)
  BY ForgetTurn DEF EndCall, identity, Process, IInv, TypeOK

LEMMA RecovererTurn ==
  ASSUME IInv, NEW p \in Recoverer, RecovererStep(p)
  PROVE  Turn(p)
  <1>0. /\ p \in Process /\ IsEntitled(p) /\ lock \in LockType
        /\ seen \in [Recoverer -> Observations \union Classifications]
    BY DEF Process, IInv, Safe, TypeOK, LockType
  <1>1. ASSUME NEW next, Move(p, next) PROVE Turn(p)
    BY <1>0, <1>1, QuietTurn DEF Move, identity
  <1>2. ASSUME NEW stage \in Stages, NEW bound \in Bound, NEW next, NEW error,
               Publish(p, stage, bound, next, error), pc[p] \in ClaimSteps,
               Justified(p, stage),
               UNCHANGED <<lock, claim, seen, physical, identity>>
        PROVE  Turn(p)
    <2>1. Permitted(p, stage, bound)
      BY <1>0, <1>2 DEF IsEntitled, Permitted
    <2> QED
      BY <1>0, <1>2, <2>1, AdvanceTurn DEF identity, physical
  <1>3. CASE RecoverReopen(p)
    BY <1>0, <1>3, ForgetTurn DEF RecoverReopen, identity
  <1>4. CASE InspectTarget(p)
    BY <1>0, <1>4, QuietTurn DEF InspectTarget, identity
  <1>5. CASE InspectLock(p)
    BY <1>1, <1>5, EndCallTurn DEF InspectLock
  <1>6. CASE CheckOwner(p)
    BY <1>0, <1>6, EndCallTurn, QuietTurn DEF CheckOwner, identity
  <1>7. CASE AcquireClaim(p)
    BY <1>0, <1>7, EndCallTurn, QuietTurn DEF AcquireClaim, identity
  <1>8. CASE ClaimFails(p)
    BY <1>0, <1>8, QuietTurn DEF ClaimFails, identity
  <1>9. CASE RequireRecovery(p)
    BY <1>2, <1>9 DEF RequireRecovery, Advance, ClaimSteps, Stages, Bound, Justified
  <1>10. CASE BindEvidence(p)
    <2>1. PICK stage \in {"RECOVERED", "RECOVERY_UNRESOLVED"},
               next \in {"recovered_evidence", "drop_claim"} :
            /\ Publish(p, stage, "EVIDENCE", next, "drop_claim")
            /\ stage = RecoveredStage(seen[p])
      BY <1>10 DEF BindEvidence, RecoveredStage
    <2> QED
      BY <1>2, <1>10, <2>1 DEF BindEvidence, ClaimSteps, Bound, Stages, Justified
  <1>11. CASE RecoveredEvidence(p)
    BY <1>2, <1>11 DEF RecoveredEvidence, Advance, ClaimSteps, Stages, Bound, Justified
  <1>12. CASE RecoveredFinal(p)
    <2>1. PICK stage \in Terminal :
            /\ Advance(p, stage, "recovery_release", "drop_claim")
            /\ stage = TerminalStage(seen[p])
      BY <1>12 DEF RecoveredFinal, TerminalStage, Terminal, Finalized
    <2> QED
      BY <1>2, <1>12, <2>1
      DEF RecoveredFinal, Advance, ClaimSteps, Bound, Stages, Justified, Terminal, Finalized
  <1>13. CASE RecoveryReleaseCheck(p)
    BY <1>1, <1>13 DEF RecoveryReleaseCheck
  <1>14. CASE RecoveryReleaseUnlink(p)
    BY <1>0, <1>14, QuietTurn DEF RecoveryReleaseUnlink, identity, NoLock
  <1>15. CASE DropClaim(p)
    BY <1>15, EndCallTurn DEF DropClaim
  <1> QED
    BY <1>3, <1>4, <1>5, <1>6, <1>7, <1>8, <1>9, <1>10, <1>11, <1>12, <1>13, <1>14, <1>15
    DEF RecovererStep

----------------------------------------------------------------------------
(***************************************************************************)
(* One step keeps the account.                                             *)
(***************************************************************************)

\* What a step does to the journal of one transaction.
Written(p, t) ==
  \/ journal'[t] = journal[t]
  \/ t = txn[p] /\ journal[t] = <<>> /\ journal'[t] = Prepared
  \/ /\ t = txn[p] /\ journal[t] = memory[p]
     /\ pc[p] \in {"bind"} \union BoundSteps \union ClaimSteps
     /\ \E stage \in Stages, bound \in Bound :
          /\ Permitted(p, stage, bound)
          /\ Justified(p, stage)
          /\ MayBecome(memory[p], Extend(memory[p], stage, bound))
          /\ journal'[t] = Extend(memory[p], stage, bound)

LEMMA JournalWritten ==
  ASSUME IInv, NEW p \in Process, Turn(p), NEW t \in Txn
  PROVE  Written(p, t)
  <1>1. journal \in [Txn -> Seq(Event)] /\ txn[p] \in Txn
    BY DEF IInv, TypeOK
  <1>2. CASE Appends(p)
    BY <1>1, <1>2 DEF Appends, PublishesNext, Written
  <1>3. CASE Keeps(p)
    BY <1>3 DEF Keeps, Written
  <1>4. CASE PublishPrepared(p)
    <2>1. p \in Runner
      BY <1>4 DEF PublishPrepared, IInv, TypeOK, Process, RecovererSteps
    <2>2. journal[txn[p]] = <<>>
      BY <1>4, <2>1 DEF PublishPrepared, IInv, Safe, FirstRecord
    <2> QED
      BY <1>1, <1>4, <2>2 DEF PublishPrepared, Written
  <1> QED
    BY <1>2, <1>3, <1>4 DEF Turn

\* An append adds one event to a history that has not come to its end.
LEMMA AppendIsOpen ==
  ASSUME FullInv, NEW p \in Process, NEW stage \in Stages, NEW bound \in Bound,
         Permitted(p, stage, bound),
         MayBecome(memory[p], Extend(memory[p], stage, bound))
  PROVE  LET candidate == Extend(memory[p], stage, bound) IN
         /\ TerminalLast(candidate)
         /\ ~\E last \in Terminal : Reached(memory[p], last)
         /\ Len(candidate) = Len(memory[p]) + 1
         /\ SubSeq(candidate, 1, Len(memory[p])) = memory[p]
  <1>1. /\ memory[p] \in Seq(Event) /\ memory[p] # <<>>
        /\ StageOf(Extend(memory[p], stage, bound)) = stage
    BY CandidateFacts DEF FullInv
  <1>2. StageOf(memory[p]) \notin Terminal
    BY <1>1, StageType, Transitive
  <1>3. TerminalLast(memory[p])
    BY DEF FullInv, Accounted
  <1> QED
    BY <1>1, <1>2, <1>3, ExtendTerminalLast

LEMMA WrittenAppends ==
  ASSUME FullInv, NEW p \in Process, NEW t \in Txn, Written(p, t), journal'[t] # journal[t]
  PROVE  /\ TerminalLast(journal'[t])
         /\ Len(journal'[t]) = Len(journal[t]) + 1
         /\ SubSeq(journal'[t], 1, Len(journal[t])) = journal[t]
         /\ ~\E last \in Terminal : Reached(journal[t], last)
  <1>1. CASE journal[t] = <<>> /\ journal'[t] = Prepared
    BY <1>1, ShortTerminalLast DEF Prepared, Reached
  <1>2. CASE ~(journal[t] = <<>> /\ journal'[t] = Prepared)
    BY <1>2, AppendIsOpen DEF Written
  <1> QED
    BY <1>1, <1>2

\* A bound journal stays bound to its runner; it is bound by that runner's own append.
LEMMA WrittenBinds ==
  ASSUME FullInv, NEW p \in Process, NEW t \in Txn, Written(p, t)
  PROVE  /\ IsBound(journal[t]) =>
              IsBound(journal'[t]) /\ LockToken(journal'[t]) = LockToken(journal[t])
         /\ ~IsBound(journal[t]) /\ IsBound(journal'[t]) =>
              p \in Runner /\ LockToken(journal'[t]) = p /\ pc[p] = "bind"
  <1>1. CASE journal'[t] = journal[t]
    BY <1>1
  <1>2. CASE journal[t] = <<>> /\ journal'[t] = Prepared
    BY <1>2, PreparedFacts
  <1>3. ASSUME NEW stage \in Stages, NEW bound \in Bound, journal[t] = memory[p],
               Permitted(p, stage, bound), journal'[t] = Extend(memory[p], stage, bound),
               pc[p] \in {"bind"} \union BoundSteps \union ClaimSteps
        PROVE  /\ IsBound(journal[t]) =>
                    IsBound(journal'[t]) /\ LockToken(journal'[t]) = LockToken(journal[t])
               /\ ~IsBound(journal[t]) =>
                    p \in Runner /\ LockToken(journal'[t]) = p /\ pc[p] = "bind"
    <2>1. CASE IsBound(memory[p])
      BY <1>3, <2>1, ExtendBound DEF FullInv, IInv, TypeOK
    <2>2. CASE ~IsBound(memory[p])
      <3>1. /\ p \in Runner /\ memory[p] = Prepared /\ stage = "LOCKED" /\ bound = p
        BY <1>3, <2>2 DEF Permitted
      <3>2. pc[p] \notin BoundSteps
        BY <2>2, <3>1 DEF FullInv, IInv, Safe, KnowsItself
      <3>3. pc[p] \notin ClaimSteps \ BoundSteps
        BY <3>1 DEF FullInv, IInv, TypeOK, ClaimSteps, RunnerSteps
      <3> QED
        BY <1>3, <2>2, <3>1, <3>2, <3>3, LockedBound
    <2> QED
      BY <2>1, <2>2
  <1> QED
    BY <1>1, <1>2, <1>3 DEF Written

\* Nobody else writes the journal of a runner that knows the published history.
LEMMA ForeignWrite ==
  ASSUME FullInv, NEW p \in Process, NEW q \in Runner, q # p, pc[q] \in BoundSteps,
         journal[txn[q]] = memory[q], Written(p, txn[q])
  PROVE  journal'[txn[q]] = journal[txn[q]]
  <1>1. IsBound(memory[q]) /\ LockToken(memory[q]) = q
    BY DEF FullInv, IInv, Safe, KnowsItself
  <1>2. SUFFICES ASSUME memory[p] = memory[q],
                        pc[p] \in {"bind"} \union BoundSteps \union ClaimSteps
                 PROVE  FALSE
    BY <1>1, BoundFacts DEF Written
  <1>3. CASE p \in Runner
    <2>1. pc[p] \in BoundSteps => LockToken(memory[p]) = p
      BY <1>3 DEF FullInv, IInv, Safe, KnowsItself
    <2>2. pc[p] = "bind" => memory[p] = Prepared
      BY <1>3 DEF FullInv, IInv, Safe, KnowsItself, UnboundSteps
    <2>3. pc[p] \in RunnerSteps
      BY <1>3 DEF FullInv, IInv, TypeOK
    <2> QED
      BY <1>1, <1>2, <2>1, <2>2, <2>3, PreparedFacts DEF ClaimSteps, RunnerSteps
  <1>4. CASE p \in Recoverer
    <2>1. pc[p] \in ClaimSteps
      BY <1>2, <1>4 DEF FullInv, IInv, TypeOK, RecovererSteps, BoundSteps, HoldingSteps,
                        RunnerSteps
    <2>2. Terminated(LockToken(memory[p]))
      BY <1>4, <2>1 DEF FullInv, IInv, Safe, IsEntitled
    <2> QED
      BY <1>1, <1>2, <2>2, StepSets DEF Terminated, Ended
  <1> QED
    BY <1>3, <1>4 DEF Process

LEMMA OwnerSets ==
  /\ PreCommitSteps \subseteq BoundSteps
  /\ AppliedSteps \subseteq BoundSteps
  /\ {"release", "unlink"} \subseteq BoundSteps
  /\ "replace" \in PreCommitSteps
  /\ "finalize" \in AppliedSteps
  /\ {"bootstrap", "replace"} \subseteq PreCommitSteps
  /\ OwnerSteps \subseteq BoundSteps \union Ended
  /\ "bind" \notin BoundSteps \union Ended
  BY DEF PreCommitSteps, AppliedSteps, BoundSteps, HoldingSteps, RunnerSteps, OwnerSteps,
         Ended

\* What a step does to the target of one transaction.
LEMMA EffectCounted ==
  ASSUME IInv, NEW p \in Process, Turn(p), NEW t \in Txn
  PROVE  \/ commits'[t] = commits[t] /\ restores'[t] = restores[t]
         \/ /\ p \in Runner /\ t = txn[p] /\ Replace(p)
            /\ pc[p] = "replace"
            /\ commits'[t] = commits[t] + 1 /\ restores'[t] = restores[t]
            /\ pc'[p] \in {"record_applied", "adapter_recovery", "orchestrator_recovery"}
         \/ /\ p \in Runner /\ t = txn[p] /\ Restore(p)
            /\ pc[p] = "restore"
            /\ commits'[t] = commits[t] /\ restores'[t] = restores[t] + 1
            /\ pc'[p] \in {"record_restored", "orchestrator_recovery"}
  <1>1. /\ commits \in [Txn -> Nat] /\ restores \in [Txn -> Nat]
        /\ txn \in [Process -> Txn]
        /\ pc \in [Process -> RunnerSteps \union RecovererSteps]
    BY DEF IInv, TypeOK
  <1>2. Bootstrap(p) => UNCHANGED <<commits, restores>>
    BY DEF Bootstrap
  <1>3. Replace(p) =>
          /\ pc[p] = "replace"
          /\ commits' = [commits EXCEPT ![txn[p]] = @ + 1] /\ UNCHANGED restores
          /\ pc'[p] \in {"record_applied", "adapter_recovery", "orchestrator_recovery"}
    BY <1>1 DEF Replace, ReplaceTarget, Goto
  <1>4. Restore(p) =>
          /\ pc[p] = "restore"
          /\ restores' = [restores EXCEPT ![txn[p]] = @ + 1] /\ UNCHANGED commits
          /\ pc'[p] \in {"record_restored", "orchestrator_recovery"}
    BY <1>1 DEF Restore, Goto
  <1> QED
    BY <1>1, <1>2, <1>3, <1>4 DEF Turn, physical

LEMMA CommitCounted ==
  ASSUME IInv, NEW p \in Process, Turn(p), NEW t \in Txn
  PROVE  \/ commits'[t] = commits[t]
         \/ /\ p \in Runner /\ t = txn[p] /\ Replace(p)
            /\ pc[p] = "replace"
            /\ commits'[t] = commits[t] + 1
            /\ pc'[p] \in {"record_applied", "adapter_recovery", "orchestrator_recovery"}
  BY EffectCounted

LEMMA OthersAccount ==
  ASSUME FullInv, NEW p \in Process, Turn(p), NEW q \in Runner, q # p
  PROVE  Accounts(q)'
  <1>1. /\ pc'[q] = pc[q] /\ memory'[q] = memory[q] /\ txn' = txn
        /\ q \in Process /\ txn[q] \in Txn /\ q # Unbound
        /\ lock'.owner \in {lock.owner, p, Unbound}
        /\ Accounts(q)
    BY ConstantsAssumption DEF Turn, Process, FullInv, Accounted, IInv, TypeOK
  <1>2. Written(p, txn[q])
    BY <1>1, JournalWritten DEF FullInv
  <1>3. pc[q] \in OwnerSteps => IsBound(journal'[txn[q]]) /\ LockToken(journal'[txn[q]]) = q
    BY <1>1, <1>2, WrittenBinds DEF Accounts
  <1>4. pc[q] \in {"bootstrap", "replace"} => journal'[txn[q]] = memory[q]
    BY <1>1, <1>2, ForeignWrite, OwnerSets DEF Accounts
  <1>5. pc[q] \in OwnerSteps => commits'[txn[q]] = commits[txn[q]]
    <2>1. SUFFICES ASSUME pc[q] \in OwnerSteps, p \in Runner, txn[q] = txn[p],
                          pc[p] = "replace"
                   PROVE  FALSE
      BY <1>1, CommitCounted DEF FullInv
    <2>2. LockToken(journal[txn[p]]) = p
      BY <2>1, OwnerSets DEF FullInv, Accounted, Accounts, OwnerSteps
    <2> QED
      BY <1>1, <2>1, <2>2 DEF Accounts
  <1>6. PreCommitSteps \union AppliedSteps \union {"release", "unlink", "completed"}
          \subseteq OwnerSteps
    BY OwnerSets DEF OwnerSteps
  <1>7. Succeeded(q)' = Succeeded(q)
    BY <1>1 DEF Succeeded
  <1>8. Succeeded(q) => pc[q] \in OwnerSteps
    BY <1>6 DEF Succeeded
  <1> QED
    BY <1>1, <1>3, <1>4, <1>5, <1>6, <1>7, <1>8 DEF Accounts

LEMMA RunnerAccounts ==
  ASSUME FullInv, NEW p \in Runner, Turn(p), Route(p)
  PROVE  Accounts(p)'
  <1>1. /\ p \in Process /\ txn' = txn /\ txn[p] \in Txn /\ p # Unbound
        /\ memory[p] \in Seq(Event) /\ Accounts(p)
        /\ commits[txn[p]] \in Nat
        /\ journal \in [Txn -> Seq(Event)]
        /\ pc[p] \notin Ended
    BY ConstantsAssumption DEF Turn, Process, FullInv, Accounted, IInv, TypeOK, Route
  <1>2. Written(p, txn[p])
    BY <1>1, JournalWritten DEF FullInv
  <1>3. \/ commits'[txn[p]] = commits[txn[p]]
        \/ /\ pc[p] = "replace" /\ Replace(p)
           /\ commits'[txn[p]] = commits[txn[p]] + 1
           /\ pc'[p] \in {"record_applied", "adapter_recovery", "orchestrator_recovery"}
    BY <1>1, CommitCounted DEF FullInv
  <1>4. Binds(p) => /\ IsBound(journal'[txn[p]]) /\ LockToken(journal'[txn[p]]) = p
                    /\ commits[txn[p]] = 0
    <2> SUFFICES ASSUME Binds(p)
                 PROVE  /\ IsBound(journal'[txn[p]]) /\ LockToken(journal'[txn[p]]) = p
                        /\ commits[txn[p]] = 0
      OBVIOUS
    <2>1. /\ pc[p] = "bind" /\ memory[p] = Prepared
          /\ journal'[txn[p]] = Extend(Prepared, "LOCKED", p)
          /\ journal[txn[p]] \in {Prepared, Extend(Prepared, "LOCKED", p)}
      BY <1>1 DEF Binds, Advances, PublishesNext
    <2>2. /\ IsBound(Extend(Prepared, "LOCKED", p))
          /\ LockToken(Extend(Prepared, "LOCKED", p)) = p
      BY LockedBound
    <2>3. Published(txn[p])
      BY <1>1 DEF FullInv, Accounted
    <2>4. journal[txn[p]] = Prepared
      BY <2>1, <2>2, <2>3, OwnerSets DEF Published, Ended
    <2> QED
      BY <2>1, <2>2, <2>3, <2>4, PreparedFacts DEF Published
  <1>5. pc'[p] \in OwnerSteps => IsBound(journal'[txn[p]]) /\ LockToken(journal'[txn[p]]) = p
    <2>1. pc[p] \in BoundSteps =>
            IsBound(journal'[txn[p]]) /\ LockToken(journal'[txn[p]]) = p
      BY <1>1, <1>2, WrittenBinds DEF Accounts, OwnerSteps
    <2> QED
      BY <1>4, <2>1, OwnerSets DEF Route, OwnerSteps
  <1>6. pc'[p] \in {"bootstrap", "replace"} =>
          StageOf(memory'[p]) = "COMMIT_AUTHORITY_VERIFIED" /\ journal'[txn[p]] = memory'[p]
    <2>1. CASE Advances(p, "COMMIT_AUTHORITY_VERIFIED", Unbound)
      BY <1>1, <2>1, ExtendStage DEF Advances, PublishesNext, Stages, Bound
    <2>2. CASE pc[p] = "bootstrap" /\ UNCHANGED <<journal, memory>>
      BY <1>1, <2>2 DEF Accounts
    <2> QED
      BY <2>1, <2>2 DEF Route
  <1>7. pc'[p] \in PreCommitSteps => commits'[txn[p]] = 0
    BY <1>1, <1>3, <1>4 DEF Route, Accounts, PreCommitSteps, Binds
  <1>8. pc'[p] \in AppliedSteps => commits'[txn[p]] = 1
    <2>1. CASE pc[p] \in AppliedSteps
      BY <1>1, <1>3, <2>1 DEF Accounts, AppliedSteps
    <2>2. CASE Replace(p)
      <3>1. commits[txn[p]] = 0 /\ commits'[txn[p]] = commits[txn[p]] + 1
        BY <1>1, <2>2, OwnerSets DEF Accounts, Replace, ReplaceTarget, FullInv, IInv, TypeOK
      <3> QED
        BY <3>1
    <2> QED
      BY <2>1, <2>2 DEF Route
  <1>9. Succeeded(p)' => commits'[txn[p]] = 1
    <2>1. Succeeded(p)' => pc'[p] \in {"release", "unlink", "completed"}
      BY DEF Succeeded
    <2>2. CASE pc[p] = "finalize"
      BY <1>1, <1>3, <2>2, OwnerSets DEF Accounts
    <2>3. CASE Succeeded(p)
      BY <1>1, <1>3, <2>3 DEF Accounts, Succeeded
    <2> QED
      BY <2>1, <2>2, <2>3 DEF Route
  <1>10. pc'[p] = "completed" =>
           /\ IsBound(memory'[p]) /\ StageOf(memory'[p]) = "FINALIZED_SUCCESS"
           /\ lock'.owner # p
    <2>1. pc[p] = "unlink" => IsBound(memory[p])
      BY OwnerSets DEF FullInv, IInv, Safe, KnowsItself
    <2> QED
      BY <1>1, <2>1 DEF Route, NoLock
  <1> QED
    BY <1>1, <1>5, <1>6, <1>7, <1>8, <1>9, <1>10 DEF Accounts

\* What every step of a process tells of its own control.
LEMMA PublishedKept ==
  ASSUME FullInv, NEW p \in Process, Turn(p), NEW t \in Txn,
         p \in Runner /\ pc[p] \in {"bind"} \union BoundSteps \union Ended =>
           pc'[p] \in BoundSteps \union Ended
  PROVE  Published(t)'
  <1>1. /\ Published(t) /\ Written(p, t)
    BY JournalWritten DEF FullInv, Accounted
  <1>2. TerminalLast(journal'[t])
    BY <1>1, WrittenAppends DEF Published
  <1>3. ~IsBound(journal'[t]) => commits'[t] = 0
    <2> SUFFICES ASSUME ~IsBound(journal'[t]) PROVE commits'[t] = 0
      OBVIOUS
    <2>1. ~IsBound(journal[t])
      BY <1>1, WrittenBinds
    <2>2. p \in Runner /\ pc[p] = "replace" => IsBound(journal[txn[p]])
      BY OwnerSets DEF FullInv, Accounted, Accounts, OwnerSteps
    <2> QED
      BY <1>1, <2>1, <2>2, CommitCounted DEF Published, FullInv
  <1>4. ASSUME IsBound(journal'[t])
        PROVE  pc'[LockToken(journal'[t])] \in BoundSteps \union Ended
    <2>1. CASE IsBound(journal[t])
      <3> DEFINE q == LockToken(journal[t])
      <3>1. q \in Runner /\ q \in Process /\ pc[q] \in BoundSteps \union Ended
        BY <1>1, <2>1, BoundFacts DEF Published, Ended, Process
      <3>2. LockToken(journal'[t]) = q
        BY <1>1, <2>1, WrittenBinds
      <3> HIDE DEF q
      <3> QED
        BY <3>1, <3>2 DEF Turn
    <2>2. CASE ~IsBound(journal[t])
      BY <1>1, <1>4, <2>2, WrittenBinds
    <2> QED
      BY <2>1, <2>2
  <1> QED
    BY <1>2, <1>3, <1>4 DEF Published, Ended

LEMMA MemoriesKept ==
  ASSUME FullInv, NEW p \in Process, Turn(p), NEW q \in Process
  PROVE  TerminalLast(memory'[q])
  <1>1. /\ TerminalLast(memory[q]) /\ TerminalLast(memory[p]) /\ txn[p] \in Txn
        /\ TerminalLast(journal[txn[p]])
    BY DEF FullInv, Accounted, Published, IInv, TypeOK
  <1>2. CASE q # p
    BY <1>1, <1>2 DEF Turn
  <1>3. CASE q = p /\ Appends(p)
    BY <1>1, <1>3, AppendIsOpen DEF Appends, PublishesNext
  <1>4. CASE q = p /\ Keeps(p)
    BY <1>1, <1>4, ShortTerminalLast DEF Keeps
  <1>5. CASE UNCHANGED memory
    BY <1>1, <1>5
  <1> QED
    BY <1>2, <1>3, <1>4, <1>5 DEF Turn

\* Only the worktree file changes, and only someone outside the system changes it.
Outside ==
  /\ UNCHANGED <<journal, memory, lock, claim, seen, pc, txn, manifest, commits, restores>>
  /\ UNCHANGED worktree \/ worktree' \in EditorContent

OwnTurn(p) ==
  /\ Turn(p)
  /\ p \in Runner => \/ Route(p)
                     \/ pc'[p] = "crashed" /\ pc[p] \notin Ended /\ UNCHANGED physical
  /\ p \in Recoverer => RecovererStep(p) \/ Crash(p)

\* A step is a turn of one process, or an edit.
LEMMA StepIsTurn ==
  ASSUME FullInv, [Next]_vars
  PROVE  Outside \/ \E p \in Process : OwnTurn(p)
  <1>1. IInv /\ Runner \subseteq Process /\ Recoverer \subseteq Process
    BY DEF FullInv, Process
  <1>2. ASSUME NEW p \in Runner, RunnerStep(p) PROVE Turn(p) /\ Route(p) /\ p \notin Recoverer
    BY <1>1, <1>2, RunnerRoute, ConstantsAssumption
  <1>3. ASSUME NEW p \in Recoverer, RecovererStep(p) PROVE Turn(p) /\ p \notin Runner
    BY <1>1, <1>3, RecovererTurn, ConstantsAssumption
  <1>4. ASSUME NEW p \in Process, Crash(p)
        PROVE  /\ Turn(p)
               /\ pc'[p] = "crashed" /\ pc[p] \notin Ended /\ UNCHANGED physical
    BY <1>1, <1>4, CrashRoute
  <1>5. EditWorktree => Outside
    BY DEF EditWorktree, identity, Outside
  <1>6. UNCHANGED vars => Outside
    BY DEF vars, Outside
  <1> QED
    BY <1>1, <1>2, <1>3, <1>4, <1>5, <1>6 DEF Next, OwnTurn

LEMMA CrashedAccounts ==
  ASSUME FullInv, NEW p \in Runner, pc'[p] = "crashed"
  PROVE  Accounts(p)'
  BY StepSets, OwnerSets
  DEF Accounts, Succeeded, OwnerSteps, PreCommitSteps, AppliedSteps, BoundSteps, HoldingSteps

LEMMA FullStep == FullInv /\ [Next]_vars => FullInv'
  <1> SUFFICES ASSUME FullInv, [Next]_vars PROVE FullInv'
    OBVIOUS
  <1>1. IInv'
    BY InductiveStep DEF FullInv
  <1>2. ASSUME NEW p \in Process, OwnTurn(p)
        PROVE  Accounted'
    <2>1. ASSUME NEW t \in Txn PROVE Published(t)'
      BY <1>2, PublishedKept DEF Route, Ended, OwnTurn
    <2>2. ASSUME NEW q \in Process PROVE TerminalLast(memory'[q])
      BY <1>2, MemoriesKept DEF OwnTurn
    <2>3. ASSUME NEW q \in Runner PROVE Accounts(q)'
      BY <1>2, OthersAccount, RunnerAccounts, CrashedAccounts DEF OwnTurn
    <2> QED
      BY <2>1, <2>2, <2>3 DEF Accounted
  <1>3. Outside => Accounted'
    BY DEF Outside, FullInv, Accounted, Published, Accounts, Succeeded
  <1>4. Accounted'
    BY <1>2, <1>3, StepIsTurn
  <1> QED
    BY <1>1, <1>4 DEF FullInv

LEMMA FullInit == Init => FullInv
  <1> SUFFICES ASSUME Init PROVE Accounted
    BY InductiveInit DEF FullInv
  <1>1. ASSUME NEW t \in Txn PROVE Published(t)
    BY <1>1, ShortTerminalLast, PreparedFacts DEF Init, Published
  <1>2. ASSUME NEW p \in Process PROVE TerminalLast(memory[p])
    BY <1>2, ShortTerminalLast DEF Init
  <1>3. ASSUME NEW p \in Runner PROVE Accounts(p)
    <2>1. pc[p] = "idle"
      BY <1>3 DEF Init, Process
    <2> QED
      BY <2>1 DEF Accounts, Succeeded, OwnerSteps, PreCommitSteps, AppliedSteps, BoundSteps,
                  HoldingSteps
  <1> QED
    BY <1>1, <1>2, <1>3 DEF Accounted

\* The invariant as a whole, with what it says of the commits: a runner that is about to
\* replace the target remembers the very history that is published, and a replacement is
\* counted in the steps that follow it and nowhere else.
THEOREM Inductive == Spec => []FullInv
  <1>1. FullInv /\ [Next]_vars => FullInv'
    BY FullStep
  <1> QED
    BY <1>1, FullInit, PTL DEF Spec

\* No process, however stale the copy of the transaction it holds, rewrites or drops a
\* published record, or publishes one after a terminal record.
THEOREM AppendOnly == Spec => JournalIsAppendOnly
  <1> DEFINE Appended ==
        \A t \in Txn : journal'[t] # journal[t] =>
          /\ Len(journal'[t]) = Len(journal[t]) + 1
          /\ SubSeq(journal'[t], 1, Len(journal[t])) = journal[t]
          /\ ~\E stage \in Terminal : Reached(journal[t], stage)
  <1>1. FullInv /\ [Next]_vars => Appended
    <2> SUFFICES ASSUME FullInv, [Next]_vars, NEW t \in Txn, journal'[t] # journal[t]
                 PROVE  /\ Len(journal'[t]) = Len(journal[t]) + 1
                        /\ SubSeq(journal'[t], 1, Len(journal[t])) = journal[t]
                        /\ ~\E stage \in Terminal : Reached(journal[t], stage)
      OBVIOUS
    <2>1. PICK p \in Process : Turn(p)
      BY StepIsTurn DEF Outside, OwnTurn
    <2>2. Written(p, t)
      BY <2>1, JournalWritten DEF FullInv
    <2> QED
      BY <2>2, WrittenAppends
  <1>2. FullInv /\ [Next]_vars => [Appended]_vars
    BY <1>1
  <1> HIDE DEF Appended
  <1>3. Spec => [][Appended]_vars
    BY <1>2, FullStep, FullInit, PTL DEF Spec
  <1> QED
    BY <1>3 DEF JournalIsAppendOnly, Appended

\* The target is replaced only while the last published record of its transaction is the
\* commit authority, whoever took the lock away meanwhile.
CommitIsJournaled ==
  [][\A t \in Txn : commits'[t] # commits[t] =>
       StageOf(journal[t]) = "COMMIT_AUTHORITY_VERIFIED"]_vars

LEMMA CommitTurn ==
  ASSUME FullInv, [Next]_vars, NEW t \in Txn, commits'[t] # commits[t]
  PROVE  \E p \in Runner :
           /\ pc[p] = "replace"
           /\ LockToken(journal[t]) = p
           /\ StageOf(journal[t]) = "COMMIT_AUTHORITY_VERIFIED"
  <1>1. PICK p \in Process : Turn(p)
    BY StepIsTurn DEF Outside, OwnTurn
  <1>2. p \in Runner /\ t = txn[p] /\ pc[p] = "replace"
    BY <1>1, CommitCounted DEF FullInv
  <1>3. Accounts(p)
    BY <1>2 DEF FullInv, Accounted
  <1>4. LockToken(journal[t]) = p /\ StageOf(journal[t]) = "COMMIT_AUTHORITY_VERIFIED"
    BY <1>2, <1>3, OwnerSets DEF Accounts, OwnerSteps
  <1> QED
    BY <1>2, <1>4

\* An append that failed ambiguously never leads to a replacement, also when the lock of
\* the transaction was taken away by the handler of another process's failed open.
THEOREM JournaledCommit == Spec => CommitIsJournaled
  <1> DEFINE Journaled ==
        \A t \in Txn : commits'[t] # commits[t] =>
          StageOf(journal[t]) = "COMMIT_AUTHORITY_VERIFIED"
  <1>1. FullInv /\ [Next]_vars => [Journaled]_vars
    BY CommitTurn
  <1> HIDE DEF Journaled
  <1>2. Spec => [][Journaled]_vars
    BY <1>1, FullStep, FullInit, PTL DEF Spec
  <1> QED
    BY <1>2 DEF CommitIsJournaled, Journaled

\* The target is replaced only while the last published record of its transaction is the
\* commit authority, and while that transaction owns the complete lock file.
THEOREM AuthorizedCommit ==
  ASSUME ~OpenFaults
  PROVE  Spec => CommitUnderAuthority
  <1> DEFINE Authorized ==
        \A t \in Txn : commits'[t] # commits[t] =>
          /\ StageOf(journal[t]) = "COMMIT_AUTHORITY_VERIFIED"
          /\ Owns(LockToken(journal[t]))
  <1>1. FullInv /\ [Next]_vars => Authorized
    <2> SUFFICES ASSUME FullInv, [Next]_vars, NEW t \in Txn, commits'[t] # commits[t]
                 PROVE  /\ StageOf(journal[t]) = "COMMIT_AUTHORITY_VERIFIED"
                        /\ Owns(LockToken(journal[t]))
      OBVIOUS
    <2>1. PICK p \in Runner : /\ pc[p] = "replace"
                              /\ LockToken(journal[t]) = p
                              /\ StageOf(journal[t]) = "COMMIT_AUTHORITY_VERIFIED"
      BY CommitTurn
    <2>2. Holds(p)
      BY DEF FullInv, IInv, Safe
    <2>3. lock.owner = p /\ lock.complete
      BY <2>1, <2>2 DEF Holds, HoldingSteps, RunnerSteps
    <2> QED
      BY <2>1, <2>3 DEF Owns
  <1>2. FullInv /\ [Next]_vars => [Authorized]_vars
    BY <1>1
  <1> HIDE DEF Authorized
  <1>3. Spec => [][Authorized]_vars
    BY <1>2, FullStep, FullInit, PTL DEF Spec
  <1> QED
    BY <1>3 DEF CommitUnderAuthority, Authorized

\* COMPLETED is answered for a transaction whose journal says FINALIZED_SUCCESS, whose
\* replacement was applied exactly once, and whose lock is gone.
THEOREM ProvenCompletion == Spec => []CompletedIsProven
  <1>1. FullInv => CompletedIsProven
    <2> SUFFICES ASSUME FullInv, NEW p \in Runner, pc[p] = "completed"
                 PROVE  /\ Reached(journal[txn[p]], "FINALIZED_SUCCESS")
                        /\ commits[txn[p]] = 1
                        /\ lock.owner # p
      BY DEF CompletedIsProven
    <2>1. /\ p \in Process /\ txn[p] \in Txn /\ Accounts(p) /\ memory[p] \in Seq(Event)
      BY DEF FullInv, Accounted, IInv, TypeOK, Process
    <2>2. /\ IsBound(memory[p]) /\ StageOf(memory[p]) = "FINALIZED_SUCCESS"
          /\ lock.owner # p /\ commits[txn[p]] = 1
      BY <2>1 DEF Accounts, Succeeded
    <2>3. journal[txn[p]] = memory[p]
      BY <2>1, <2>2, BoundFacts DEF FullInv, IInv, Safe, TerminalIsCurrent, Terminal, Finalized
    <2>4. Len(memory[p]) \in DOMAIN memory[p]
      BY <2>1, <2>2 DEF IsBound
    <2>5. Reached(memory[p], "FINALIZED_SUCCESS")
      BY <2>2, <2>4 DEF Reached, StageOf
    <2> QED
      BY <2>2, <2>3, <2>5
  <1>2. FullInv /\ [Next]_vars => FullInv'
    BY FullStep
  <1> QED
    BY <1>1, <1>2, FullInit, PTL DEF Spec

----------------------------------------------------------------------------
(***************************************************************************)
(* One step keeps what the outcome of a transaction says of its target.    *)
(***************************************************************************)

LEMMA ExtendInOrder ==
  ASSUME NEW h \in Seq(Event), NEW stage \in Stages, NEW bound \in Bound,
         h # <<>>, InOrder(h), MayBecome(h, Extend(h, stage, bound))
  PROVE  /\ InOrder(Extend(h, stage, bound))
         /\ Uncommitted(Extend(h, stage, bound)) => Uncommitted(h)
         /\ stage # "COMMIT_AUTHORITY_VERIFIED" /\ Uncommitted(h) =>
              Uncommitted(Extend(h, stage, bound))
  <1> DEFINE g == Extend(h, stage, bound)
  <1>1. /\ g \in Seq(Event) /\ Len(g) = Len(h) + 1
        /\ g[Len(h) + 1] = [stage |-> stage, bound |-> bound]
        /\ \A i \in 1..Len(h) : g[i] = h[i]
    BY ExtendType
  <1>2. StageOf(g) = stage /\ StageOf(h) \in Stages
    BY ExtendStage, StageType
  <1>3. /\ g \in Seq(Event) /\ Len(g) = Len(h) + 1
        /\ g[Len(h) + 1].stage = stage
        /\ \A i \in 1..Len(h) : g[i] = h[i]
        /\ StageOf(g) = stage /\ StageOf(h) \in Stages
    BY <1>1, <1>2
  <1>4. stage \in PreCommit => StageOf(h) \in PreCommit
    BY <1>3 DEF MayBecome, Transitions, PreCommit, Stages
  <1> HIDE DEF g
  <1>5. Uncommitted(g) <=> Uncommitted(h) /\ stage # "COMMIT_AUTHORITY_VERIFIED"
    <2>1. /\ DOMAIN g = 1..(Len(h) + 1) /\ DOMAIN h = 1..Len(h) /\ Len(h) \in Nat
      BY <1>3
    <2> QED
      BY <1>3, <2>1 DEF Uncommitted, Reached
  <1>6. "COMMIT_AUTHORITY_VERIFIED" \notin PreCommit
    BY DEF PreCommit
  <1> QED
    BY <1>3, <1>4, <1>5, <1>6 DEF InOrder, g

LEMMA ShortInOrder ==
  /\ InOrder(<<>>) /\ Uncommitted(<<>>)
  /\ InOrder(Prepared) /\ Uncommitted(Prepared)
  BY DEF InOrder, Uncommitted, Reached, Prepared

\* Nobody else writes the journal that is bound to a runner at work.
LEMMA OwnJournal ==
  ASSUME FullInv, NEW p \in Process, NEW q \in Runner, q # p, pc[q] \in BoundSteps,
         Written(p, txn[q])
  PROVE  journal'[txn[q]] = journal[txn[q]]
  <1>1. IsBound(journal[txn[q]]) /\ LockToken(journal[txn[q]]) = q
    BY DEF FullInv, Accounted, Accounts, OwnerSteps
  <1>2. SUFFICES ASSUME memory[p] = journal[txn[q]],
                        pc[p] \in {"bind"} \union BoundSteps \union ClaimSteps
                 PROVE  FALSE
    BY <1>1, BoundFacts DEF Written
  <1>3. CASE p \in Runner
    <2>1. pc[p] \in BoundSteps => LockToken(memory[p]) = p
      BY <1>3 DEF FullInv, IInv, Safe, KnowsItself
    <2>2. pc[p] = "bind" => memory[p] = Prepared
      BY <1>3 DEF FullInv, IInv, Safe, KnowsItself, UnboundSteps
    <2>3. pc[p] \in RunnerSteps
      BY <1>3 DEF FullInv, IInv, TypeOK
    <2> QED
      BY <1>1, <1>2, <2>1, <2>2, <2>3, PreparedFacts DEF ClaimSteps, RunnerSteps
  <1>4. CASE p \in Recoverer
    <2>1. pc[p] \in ClaimSteps
      BY <1>2, <1>4 DEF FullInv, IInv, TypeOK, RecovererSteps, BoundSteps, HoldingSteps,
                        RunnerSteps
    <2>2. Terminated(LockToken(memory[p]))
      BY <1>4, <2>1 DEF FullInv, IInv, Safe, IsEntitled
    <2> QED
      BY <1>1, <1>2, <2>2, StepSets DEF Terminated, Ended
  <1> QED
    BY <1>3, <1>4 DEF Process

LEMMA EffectSets ==
  /\ OpenSteps \subseteq BoundSteps
  /\ OpenSteps = PreCommitSteps \union AppliedSteps \union RestoreSteps \union RestoredSteps
  /\ "fail_before" \in BoundSteps \ OpenSteps
  /\ "replace" \in PreCommitSteps /\ "restore" \in RestoreSteps
  /\ "finalize" \in AppliedSteps
  /\ {"record_restored", "restored_failed"} \subseteq RestoredSteps
  /\ "replace" \notin AppliedSteps \union RestoreSteps \union RestoredSteps
  /\ "restore" \notin PreCommitSteps \union AppliedSteps \union RestoredSteps
  BY DEF OpenSteps, BoundSteps, HoldingSteps, RunnerSteps, PreCommitSteps, AppliedSteps,
         RestoreSteps, RestoredSteps

\* Whoever changes the target does so for its own open journal.
LEMMA EffectOwned ==
  ASSUME TruthInv, NEW p \in Process, Turn(p), NEW t \in Txn,
         commits'[t] # commits[t] \/ restores'[t] # restores[t]
  PROVE  /\ p \in Runner /\ t = txn[p] /\ pc[p] \in OpenSteps
         /\ IsBound(journal[t]) /\ LockToken(journal[t]) = p
         /\ StageOf(journal[t]) \notin Terminal
         /\ \/ /\ Replace(p) /\ pc[p] = "replace"
               /\ StageOf(journal[t]) = "COMMIT_AUTHORITY_VERIFIED"
               /\ commits[t] = 0 /\ commits'[t] = 1
               /\ restores[t] = 0 /\ restores'[t] = 0
            \/ /\ Restore(p) /\ pc[p] = "restore" /\ ~ContentAddressed
               /\ commits[t] = 1 /\ commits'[t] = 1
               /\ restores[t] = 0 /\ restores'[t] = 1
  <1>1. /\ p \in Runner /\ t = txn[p]
        /\ \/ /\ Replace(p) /\ pc[p] = "replace"
              /\ commits'[t] = commits[t] + 1 /\ restores'[t] = restores[t]
           \/ /\ Restore(p) /\ pc[p] = "restore"
              /\ commits'[t] = commits[t] /\ restores'[t] = restores[t] + 1
    BY EffectCounted DEF TruthInv, FullInv
  <1>2. /\ Accounts(p) /\ Effects(p) /\ Settled(t)
        /\ commits[t] \in Nat /\ restores[t] \in Nat
    BY <1>1 DEF TruthInv, Truthful, FullInv, Accounted, IInv, TypeOK
  <1>3. pc[p] \in OpenSteps /\ pc[p] \in OwnerSteps
    BY <1>1, EffectSets DEF OwnerSteps
  <1>4. /\ IsBound(journal[t]) /\ LockToken(journal[t]) = p
        /\ StageOf(journal[t]) \notin Terminal
    BY <1>1, <1>2, <1>3 DEF Accounts, Effects
  <1>5. CASE Replace(p) /\ pc[p] = "replace"
    <2>1. commits[t] = 0 /\ StageOf(journal[t]) = "COMMIT_AUTHORITY_VERIFIED"
      BY <1>1, <1>2, <1>5, EffectSets DEF Accounts
    <2>2. restores[t] = 0
      BY <1>2, <2>1 DEF Settled
    <2> QED
      BY <1>1, <1>3, <1>4, <1>5, <2>1, <2>2
  <1>6. CASE Restore(p) /\ pc[p] = "restore"
    <2>1. commits[t] = 1 /\ restores[t] = 0 /\ ~ContentAddressed
      BY <1>1, <1>2, <1>6, EffectSets DEF Effects
    <2> QED
      BY <1>1, <1>3, <1>4, <1>6, <2>1
  <1> QED
    BY <1>1, <1>5, <1>6

\* Ended processes stay ended.
LEMMA EndedStays ==
  ASSUME TruthInv, NEW p \in Process, OwnTurn(p), NEW q \in Runner, Terminated(q)
  PROVE  Terminated(q)' /\ q # p
  <1>1. pc[q] \in Ended /\ q \in Process
    BY DEF Terminated, Ended, Process
  <1>2. q # p
    BY <1>1 DEF OwnTurn, Route
  <1>3. pc'[q] = pc[q]
    BY <1>1, <1>2 DEF OwnTurn, Turn
  <1> QED
    BY <1>2, <1>3 DEF Terminated

\* A step that publishes a record leaves the target alone.
LEMMA EffectKept ==
  ASSUME TruthInv, NEW p \in Process, Turn(p), NEW t \in Txn, journal'[t] # journal[t]
  PROVE  commits'[t] = commits[t] /\ restores'[t] = restores[t]
  <1>1. Replace(p) \/ Restore(p) => UNCHANGED journal
    BY DEF Replace, Restore
  <1> QED
    BY <1>1, EffectOwned

LEMMA AppendSettles ==
  ASSUME TruthInv, NEW p \in Process, OwnTurn(p), NEW t \in Txn,
         NEW stage \in Stages, NEW bound \in Bound,
         t = txn[p], journal[t] = memory[p],
         pc[p] \in {"bind"} \union BoundSteps \union ClaimSteps,
         Permitted(p, stage, bound), Justified(p, stage),
         MayBecome(memory[p], Extend(memory[p], stage, bound)),
         journal'[t] = Extend(memory[p], stage, bound)
  PROVE  Settled(t)'
  <1>1. /\ memory[p] \in Seq(Event) /\ memory[p] # <<>>
        /\ journal'[t] # journal[t]
        /\ StageOf(journal'[t]) = stage
        /\ IsBound(memory[p]) => LockToken(journal'[t]) = LockToken(memory[p])
    BY CandidateFacts DEF TruthInv, FullInv
  <1>2. commits'[t] = commits[t] /\ restores'[t] = restores[t]
    BY <1>1, EffectKept DEF OwnTurn
  <1>3. Settled(t) /\ commits[t] \in Nat /\ restores[t] \in Nat
    BY DEF TruthInv, Truthful, FullInv, IInv, TypeOK
  <1>4. InOrder(memory[p])
    BY <1>3 DEF Settled
  <1>5. InOrder(journal'[t]) /\ (Uncommitted(journal'[t]) => Uncommitted(journal[t]))
    BY <1>1, <1>4, ExtendInOrder
  <1>6. NotMisled /\ pc[p] \in {"recovered_final", "bind_evidence"} =>
          /\ p \in Recoverer
          /\ Evidence(p)
          /\ seen[p] \in {"NOT_APPLIED", "RESTORED", "RECOVERY_UNRESOLVED"}
          /\ seen[p] # "RECOVERY_UNRESOLVED" => commits[t] = 0
          /\ IsBound(memory[p]) /\ Terminated(LockToken(memory[p]))
    <2> SUFFICES ASSUME NotMisled, pc[p] \in {"recovered_final", "bind_evidence"}
                 PROVE  /\ p \in Recoverer
                        /\ Evidence(p)
                        /\ seen[p] \in {"NOT_APPLIED", "RESTORED", "RECOVERY_UNRESOLVED"}
                        /\ seen[p] # "RECOVERY_UNRESOLVED" => commits[t] = 0
                        /\ IsBound(memory[p]) /\ Terminated(LockToken(memory[p]))
      OBVIOUS
    <2>1. p \in Recoverer
      BY DEF TruthInv, FullInv, IInv, TypeOK, Process, RunnerSteps
    <2>2. Evidence(p) /\ IsEntitled(p) /\ pc[p] \in ClaimSteps
      BY <2>1 DEF TruthInv, Truthful, FullInv, IInv, Safe, ClaimSteps
    <2>3. seen[p] \in {"NOT_APPLIED", "RESTORED", "RECOVERY_UNRESOLVED"}
      BY <2>2 DEF Evidence, Classifications
    <2>4. seen[p] # "RECOVERY_UNRESOLVED" => commits[t] = 0
      BY <2>2, <2>3 DEF Evidence
    <2> QED
      BY <2>1, <2>2, <2>3, <2>4 DEF IsEntitled
  <1>7. NotMisled /\ stage = "FINALIZED_SUCCESS" => commits[t] = 1 /\ restores[t] = 0
    <2>1. CASE p \in Runner /\ pc[p] = "finalize"
      BY <2>1, EffectSets DEF TruthInv, Truthful, Effects
    <2>2. CASE pc[p] = "recovered_final" /\ stage = TerminalStage(seen[p])
      BY <1>6, <2>2 DEF TerminalStage
    <2> QED
      BY <2>1, <2>2 DEF Justified
  <1>8. NotMisled /\ stage = "FINALIZED_FAILED" => restores[t] = commits[t]
    <2>1. CASE p \in Runner /\ pc[p] = "fail_before"
      <3>1. commits[t] = 0
        BY <2>1 DEF TruthInv, Truthful, Effects
      <3> QED
        BY <1>3, <3>1 DEF Settled
    <2>2. CASE p \in Runner /\ pc[p] = "restored_failed"
      BY <2>2, EffectSets DEF TruthInv, Truthful, Effects
    <2>3. CASE pc[p] = "recovered_final" /\ stage = TerminalStage(seen[p])
      <3>1. NotMisled /\ stage = "FINALIZED_FAILED" => commits[t] = 0
        BY <1>6, <2>3 DEF TerminalStage
      <3> QED
        BY <1>3, <3>1 DEF Settled
    <2> QED
      BY <2>1, <2>2, <2>3 DEF Justified
  <1>9. NotMisled /\ stage = "RECOVERED" /\ ContentAddressed => Prevented(journal[t], t)'
    <2> SUFFICES ASSUME NotMisled, stage = "RECOVERED", ContentAddressed
                 PROVE  Prevented(journal[t], t)'
      OBVIOUS
    <2>1. pc[p] = "bind_evidence" /\ stage = RecoveredStage(seen[p])
      BY EffectSets DEF Justified, TruthInv, Truthful, Effects
    <2>2. commits[t] = 0 /\ IsBound(memory[p]) /\ Terminated(LockToken(memory[p]))
      BY <1>6, <2>1 DEF RecoveredStage
    <2>3. Terminated(LockToken(journal[t]))'
      <3>1. PICK owner \in Runner : owner = LockToken(memory[p])
        BY <2>2, BoundFacts
      <3>2. pc'[owner] \in {"completed", "failed", "crashed"}
        BY <2>2, <3>1, EndedStays DEF Terminated
      <3>3. LockToken(journal'[t]) = owner
        BY <1>1, <2>2, <3>1
      <3> QED
        BY <3>2, <3>3 DEF Terminated
    <2> QED
      BY <1>1, <1>2, <2>2, <2>3 DEF Prevented
  <1> QED
    BY <1>1, <1>2, <1>3, <1>5, <1>7, <1>8, <1>9 DEF Settled

LEMMA SettledKept ==
  ASSUME TruthInv, NEW p \in Process, OwnTurn(p), NEW t \in Txn
  PROVE  Settled(t)'
  <1>1. Settled(t) /\ Published(t)
    BY DEF TruthInv, Truthful, FullInv, Accounted
  <1>2. CASE journal'[t] = journal[t]
    <2>1. CASE commits'[t] = commits[t] /\ restores'[t] = restores[t]
      <3>1. IsBound(journal[t]) /\ Prevented(journal[t], t) => Prevented(journal[t], t)'
        <4> SUFFICES ASSUME IsBound(journal[t]), Prevented(journal[t], t)
                     PROVE  Prevented(journal[t], t)'
          OBVIOUS
        <4>1. PICK owner \in Runner : owner = LockToken(journal[t])
          BY BoundFacts
        <4>2. pc'[owner] \in {"completed", "failed", "crashed"}
          BY <4>1, EndedStays DEF Prevented, Terminated
        <4> QED
          BY <1>2, <2>1, <4>1, <4>2 DEF Prevented, Terminated
      <3> QED
        BY <1>1, <1>2, <2>1, <3>1 DEF Settled
    <2>2. CASE commits'[t] # commits[t] \/ restores'[t] # restores[t]
      <3>1. /\ IsBound(journal[t]) /\ StageOf(journal[t]) \notin Terminal
            /\ commits'[t] = 1 /\ restores'[t] \in {0, 1}
            /\ \/ StageOf(journal[t]) = "COMMIT_AUTHORITY_VERIFIED"
               \/ ~ContentAddressed /\ commits[t] = 1
        BY <2>2, EffectOwned DEF OwnTurn
      <3>2. ~Uncommitted(journal[t])
        <4>1. CASE StageOf(journal[t]) = "COMMIT_AUTHORITY_VERIFIED"
          <5>1. journal[t] \in Seq(Event) /\ Len(journal[t]) >= 2
            BY <3>1 DEF TruthInv, FullInv, IInv, TypeOK, IsBound
          <5>2. Len(journal[t]) \in DOMAIN journal[t]
            BY <5>1
          <5> QED
            BY <4>1, <5>2 DEF Uncommitted, Reached, StageOf
        <4>2. CASE commits[t] = 1
          BY <1>1, <4>2 DEF Settled
        <4> QED
          BY <3>1, <4>1, <4>2
      <3>3. /\ StageOf(journal[t]) \notin {"FINALIZED_SUCCESS", "FINALIZED_FAILED"}
            /\ StageOf(journal[t]) = "RECOVERED" => ~ContentAddressed
        BY <3>1 DEF Terminal, Finalized
      <3> QED
        BY <1>1, <1>2, <3>1, <3>2, <3>3 DEF Settled
    <2> QED
      BY <2>1, <2>2
  <1>3. CASE journal[t] = <<>> /\ journal'[t] = Prepared
    <2>1. commits'[t] = commits[t] /\ restores'[t] = restores[t]
      BY <1>3, EffectOwned, PreparedFacts DEF OwnTurn
    <2> QED
      BY <1>1, <1>3, <2>1, ShortInOrder, PreparedFacts DEF Settled
  <1>4. Written(p, t)
    BY JournalWritten DEF OwnTurn, TruthInv, FullInv
  <1> QED
    BY <1>2, <1>3, <1>4, AppendSettles DEF Written

LEMMA RememberedKept ==
  ASSUME TruthInv, NEW p \in Process, OwnTurn(p), NEW q \in Process
  PROVE  Remembered(q)'
  <1>1. /\ txn[q] \in Txn /\ txn' = txn /\ memory[q] \in Seq(Event) /\ Remembered(q)
        /\ journal \in [Txn -> Seq(Event)]
    BY DEF TruthInv, Truthful, FullInv, IInv, TypeOK, OwnTurn, Turn
  <1>2. Written(p, txn[q])
    BY <1>1, JournalWritten DEF OwnTurn, TruthInv, FullInv
  <1>3. IsBound(journal[txn[q]]) =>
          /\ IsBound(journal'[txn[q]])
          /\ LockToken(journal'[txn[q]]) = LockToken(journal[txn[q]])
    BY <1>1, <1>2, WrittenBinds DEF TruthInv
  <1>4. CASE memory'[q] = memory[q]
    BY <1>1, <1>3, <1>4 DEF Remembered
  <1>5. CASE q = p /\ Appends(p)
    <2>1. PICK stage \in Stages, bound \in Bound :
            /\ Permitted(p, stage, bound)
            /\ PublishesNext(p, stage, bound)
            /\ memory'[p] \in {memory[p], Extend(memory[p], stage, bound)}
      BY <1>5 DEF Appends
    <2>2. CASE memory'[p] = Extend(memory[p], stage, bound)
      <3>1. /\ memory[p] # <<>> /\ MayBecome(memory[p], Extend(memory[p], stage, bound))
            /\ journal'[txn[p]] = memory'[p]
        BY <1>1, <1>5, <2>1, <2>2, CandidateFacts DEF TruthInv, FullInv, PublishesNext
      <3>2. InOrder(memory'[p])
        BY <1>1, <1>5, <2>2, <3>1, ExtendInOrder DEF Remembered
      <3> QED
        BY <1>1, <1>5, <3>1, <3>2 DEF Remembered
    <2> QED
      BY <1>4, <1>5, <2>1, <2>2
  <1>6. CASE q = p /\ Keeps(p)
    <2>1. UNCHANGED journal /\ memory'[p] \in {memory[p], <<>>, Prepared, journal[txn[p]]}
      BY <1>6 DEF Keeps
    <2>2. InOrder(journal[txn[p]])
      BY <1>1, <1>6 DEF TruthInv, Truthful, Settled
    <2>3. CASE memory'[p] \in {<<>>, Prepared}
      BY <1>6, <2>3, ShortInOrder, PreparedFacts DEF Remembered
    <2>4. CASE memory'[p] = journal[txn[p]]
      BY <1>1, <1>6, <2>1, <2>2, <2>4 DEF Remembered
    <2> QED
      BY <1>4, <1>6, <2>1, <2>3, <2>4
  <1> QED
    BY <1>4, <1>5, <1>6 DEF OwnTurn, Turn

LEMMA OthersEffects ==
  ASSUME TruthInv, NEW p \in Process, OwnTurn(p), NEW q \in Runner, q # p
  PROVE  Effects(q)'
  <1>1. /\ txn[q] \in Txn /\ txn' = txn /\ q \in Process /\ pc'[q] = pc[q]
        /\ Effects(q) /\ Accounts(q)
    BY DEF TruthInv, Truthful, FullInv, Accounted, IInv, TypeOK, OwnTurn, Turn, Process
  <1>2. pc[q] \in BoundSteps => commits'[txn[q]] = commits[txn[q]]
                                 /\ restores'[txn[q]] = restores[txn[q]]
    BY <1>1, EffectOwned DEF Accounts, OwnerSteps, OwnTurn
  <1>3. pc[q] \in BoundSteps => journal'[txn[q]] = journal[txn[q]]
    BY <1>1, OwnJournal, JournalWritten DEF OwnTurn, TruthInv, FullInv
  <1>4. pc[q] \in {"fail_before"} \union AppliedSteps \union RestoreSteps \union RestoredSteps
                  \union OpenSteps => pc[q] \in BoundSteps
    BY EffectSets
  <1> QED
    BY <1>1, <1>2, <1>3, <1>4 DEF Effects

LEMMA RunnerEffects ==
  ASSUME TruthInv, NEW p \in Runner, OwnTurn(p)
  PROVE  Effects(p)'
  <1>1. /\ txn[p] \in Txn /\ txn' = txn /\ p \in Process
        /\ Effects(p) /\ Accounts(p) /\ Settled(txn[p])
        /\ commits[txn[p]] \in Nat /\ restores[txn[p]] \in Nat
        /\ journal \in [Txn -> Seq(Event)] /\ Turn(p)
    BY DEF TruthInv, Truthful, FullInv, Accounted, IInv, TypeOK, OwnTurn, Turn, Process
  <1>2. CASE pc'[p] = "crashed"
    BY <1>2 DEF Effects, OpenSteps, PreCommitSteps, AppliedSteps, RestoreSteps, RestoredSteps
  <1>3. CASE Route(p)
    <2> DEFINE same == commits'[txn[p]] = commits[txn[p]]
                       /\ restores'[txn[p]] = restores[txn[p]]
    <2>1. \/ same
          \/ /\ pc[p] = "replace" /\ Replace(p)
             /\ commits'[txn[p]] = 1 /\ restores'[txn[p]] = 0
             /\ pc'[p] \in {"record_applied", "adapter_recovery", "orchestrator_recovery"}
          \/ /\ pc[p] = "restore" /\ Restore(p)
             /\ commits'[txn[p]] = 1 /\ restores'[txn[p]] = 1
             /\ pc'[p] \in {"record_restored", "orchestrator_recovery"}
      BY <1>1, EffectOwned, EffectCounted DEF TruthInv, FullInv
    <2>2. /\ Replace(p) => pc[p] = "replace" /\ ~same
          /\ Restore(p) => pc[p] = "restore" /\ ~same
      <3>1. Replace(p) => pc[p] = "replace" /\ commits'[txn[p]] = commits[txn[p]] + 1
        BY <1>1 DEF Replace, ReplaceTarget, TruthInv, FullInv, IInv, TypeOK
      <3>2. Restore(p) => pc[p] = "restore" /\ restores'[txn[p]] = restores[txn[p]] + 1
        BY <1>1 DEF Restore, TruthInv, FullInv, IInv, TypeOK
      <3> QED
        BY <1>1, <3>1, <3>2
    <2> HIDE DEF same
    <2>3. pc'[p] = "fail_before" => commits'[txn[p]] = 0
      BY <1>1, <1>3, <2>1 DEF Route, Accounts, same
    <2>4. pc'[p] \in AppliedSteps => commits'[txn[p]] = 1 /\ restores'[txn[p]] = 0
      <3>1. CASE pc[p] \in AppliedSteps
        BY <1>1, <2>1, <3>1, EffectSets DEF Effects, same
      <3>2. CASE Replace(p)
        BY <2>1, <2>2, <3>2
      <3> QED
        BY <1>3, <3>1, <3>2 DEF Route
    <2>5. pc'[p] \in RestoreSteps =>
            commits'[txn[p]] = 1 /\ restores'[txn[p]] = 0 /\ ~ContentAddressed
      BY <1>1, <1>3, <2>1 DEF Route, Effects, same, RestoreSteps
    <2>6. pc'[p] \in RestoredSteps =>
            commits'[txn[p]] = 1 /\ restores'[txn[p]] = 1 /\ ~ContentAddressed
      <3>1. CASE pc[p] \in RestoredSteps
        BY <1>1, <2>1, <3>1, EffectSets DEF Effects, same
      <3>2. CASE Restore(p)
        BY <1>1, <2>1, <2>2, <3>2, EffectSets DEF Effects
      <3> QED
        BY <1>3, <3>1, <3>2 DEF Route
    <2>7. pc'[p] \in OpenSteps => StageOf(journal'[txn[p]]) \notin Terminal
      <3> SUFFICES ASSUME pc'[p] \in OpenSteps, journal'[txn[p]] = journal[txn[p]]
                   PROVE  StageOf(journal'[txn[p]]) \notin Terminal
        BY <1>3 DEF Route
      <3>1. CASE pc[p] \in OpenSteps
        BY <1>1, <3>1 DEF Effects
      <3>2. CASE Binds(p)
        BY <1>1, <3>2, LockedBound DEF Binds, Advances, PublishesNext, Terminal, Finalized
      <3> QED
        BY <1>3, <3>1, <3>2 DEF Route
    <2> QED
      BY <1>1, <2>3, <2>4, <2>5, <2>6, <2>7 DEF Effects
  <1> QED
    BY <1>2, <1>3 DEF OwnTurn

\* A transaction whose owner has ended can no longer commit.
LEMMA EndedOwner ==
  ASSUME TruthInv, NEW p \in Process, OwnTurn(p), NEW q \in Recoverer,
         IsBound(memory[q]), Terminated(LockToken(memory[q]))
  PROVE  /\ commits'[txn[q]] = commits[txn[q]]
         /\ \A h : LockToken(h) = LockToken(memory[q]) => pc'[LockToken(h)] \in Ended
  <1>1. PICK owner \in Runner : owner = LockToken(memory[q])
    BY BoundFacts
  <1>2. pc'[owner] \in Ended /\ pc[owner] \in Ended
    BY <1>1, EndedStays DEF Terminated, Ended
  <1>3. txn[q] \in Txn /\ LockToken(journal[txn[q]]) = owner
    BY <1>1 DEF TruthInv, Truthful, Remembered, FullInv, IInv, TypeOK, Process
  <1>4. commits'[txn[q]] = commits[txn[q]]
    BY <1>2, <1>3, EffectOwned, EffectSets, StepSets DEF OwnTurn
  <1> QED
    BY <1>1, <1>2, <1>4

LEMMA OthersEvidence ==
  ASSUME TruthInv, NotMisled, NEW p \in Process, OwnTurn(p), NEW q \in Recoverer, q # p
  PROVE  Evidence(q)'
  <1>1. /\ txn' = txn /\ q \in Process
        /\ pc'[q] = pc[q] /\ memory'[q] = memory[q] /\ seen'[q] = seen[q]
        /\ Evidence(q) /\ IsEntitled(q)
    BY DEF TruthInv, Truthful, FullInv, IInv, Safe, OwnTurn, Turn, Process
  <1>2. IsBound(memory[q]) /\ Terminated(LockToken(memory[q])) =>
          commits'[txn[q]] = commits[txn[q]] /\ pc'[LockToken(memory[q])] \in Ended
    BY EndedOwner
  <1>3. IsBound(memory[q]) /\ Prevented(memory[q], txn[q]) => Prevented(memory[q], txn[q])'
    BY <1>1, <1>2 DEF Prevented, Terminated, Ended
  <1>4. pc[q] \in {"claim"} \union ClaimSteps => commits'[txn[q]] = commits[txn[q]]
    BY <1>1, <1>2 DEF IsEntitled
  <1>5. {"bind_evidence", "recovered_evidence", "recovered_final"} \subseteq ClaimSteps
    BY DEF ClaimSteps
  <1> QED
    BY <1>1, <1>3, <1>4, <1>5 DEF Evidence

\* A recoverer's step that keeps what it has seen.
LEMMA EvidenceKept ==
  ASSUME TruthInv, NotMisled, NEW p \in Recoverer, OwnTurn(p), UNCHANGED <<seen, txn, commits>>,
         \/ memory'[p] = memory[p]
         \/ StageOf(memory'[p]) # "RECOVERED",
         pc'[p] \in {"claim"} \union ClaimSteps => pc[p] \in {"claim"} \union ClaimSteps,
         pc'[p] \notin {"claim", "require"},
         pc'[p] \in {"bind_evidence", "recovered_evidence", "recovered_final"} =>
           \/ pc[p] \in {"bind_evidence", "recovered_evidence", "recovered_final"}
           \/ seen[p] = "NOT_APPLIED" => commits[txn[p]] = 0
  PROVE  Evidence(p)'
  <1>1. Evidence(p) /\ p \in Process
    BY DEF TruthInv, Truthful, Process
  <1>2. IsBound(memory'[p]) /\ StageOf(memory'[p]) = "RECOVERED" => Prevented(memory[p], txn[p])'
    <2> SUFFICES ASSUME IsBound(memory'[p]), StageOf(memory'[p]) = "RECOVERED"
                 PROVE  Prevented(memory[p], txn[p])'
      OBVIOUS
    <2>1. memory'[p] = memory[p]
      OBVIOUS
    <2>2. Prevented(memory[p], txn[p]) /\ IsBound(memory[p])
      BY <1>1, <2>1 DEF Evidence
    <2> QED
      BY <1>1, <2>1, <2>2, EndedOwner DEF Prevented, Terminated, Ended
  <1>3. {"bind_evidence", "recovered_evidence", "recovered_final"} \subseteq ClaimSteps
    BY DEF ClaimSteps
  <1> QED
    BY <1>1, <1>2, <1>3 DEF Evidence

LEMMA EndCallEvidence ==
  ASSUME TruthInv, NotMisled, NEW p \in Recoverer, EndCall(p)
  PROVE  Evidence(p)'
  <1>1. p \in Process /\ pc'[p] = "idle" /\ memory'[p] = <<>> /\ seen'[p] = "UNAVAILABLE"
    BY DEF EndCall, Goto, Process, TruthInv, FullInv, IInv, TypeOK
  <1> QED
    BY <1>1, PreparedFacts DEF Evidence, ClaimSteps

LEMMA InspectionEvidence ==
  ASSUME TruthInv, NotMisled, NEW p \in Recoverer, OwnTurn(p),
         RecoverReopen(p) \/ InspectTarget(p) \/ InspectLock(p) \/ CheckOwner(p)
  PROVE  Evidence(p)'
  <1>1. /\ Evidence(p) /\ IsEntitled(p) /\ p \in Process /\ txn[p] \in Txn
        /\ pc \in [Process -> RunnerSteps \union RecovererSteps]
        /\ seen \in [Recoverer -> Observations \union Classifications]
        /\ memory \in [Process -> Seq(Event)]
    BY DEF TruthInv, Truthful, FullInv, IInv, Safe, TypeOK, Process
  <1>2. /\ ContentAddressed /\ Replacement[txn[p]] # worktree
    BY <1>1 DEF NotMisled, TruthInv, Truthful
  <1>3. CASE RecoverReopen(p)
    <2>1. /\ memory'[p] = journal[txn[p]] /\ pc'[p] = "inspect_target"
          /\ UNCHANGED <<seen, txn, commits, journal>>
      BY <1>1, <1>3 DEF RecoverReopen, Goto, physical, identity
    <2>2. IsBound(journal[txn[p]]) /\ StageOf(journal[txn[p]]) = "RECOVERED" =>
            Prevented(memory[p], txn[p])'
      <3> SUFFICES ASSUME IsBound(journal[txn[p]]), StageOf(journal[txn[p]]) = "RECOVERED"
                   PROVE  Prevented(memory[p], txn[p])'
        OBVIOUS
      <3>1. Prevented(journal[txn[p]], txn[p])
        BY <1>1, <1>2 DEF TruthInv, Truthful, Settled
      <3>2. PICK owner \in Runner : owner = LockToken(journal[txn[p]])
        BY BoundFacts
      <3>3. pc'[owner] \in Ended
        BY <1>1, <3>1, <3>2, EndedStays DEF Prevented, Terminated, Ended
      <3> QED
        BY <2>1, <3>1, <3>2, <3>3 DEF Prevented, Terminated, Ended
    <2> QED
      BY <1>1, <2>1, <2>2 DEF Evidence, ClaimSteps
  <1>4. CASE InspectTarget(p)
    <2>1. /\ memory'[p] = memory[p] /\ pc'[p] = "inspect_lock"
          /\ UNCHANGED <<txn, commits>>
          /\ seen'[p] \in {Observed(txn[p]), "UNAVAILABLE"}
      BY <1>1, <1>4 DEF InspectTarget, Goto, physical, identity
    <2>2. seen'[p] \in {"BEFORE", "OTHER", "UNAVAILABLE"}
      BY <1>2, <2>1 DEF Observed
    <2>3. IsBound(memory[p]) /\ StageOf(memory[p]) = "RECOVERED" =>
            Prevented(memory[p], txn[p])'
      BY <1>1, <2>1, EndedOwner DEF Evidence, Prevented, Terminated, Ended
    <2> QED
      BY <2>1, <2>2, <2>3 DEF Evidence, ClaimSteps
  <1>5. CASE InspectLock(p)
    <2>1. CASE Move(p, "check_owner")
      <3>1. /\ memory'[p] = memory[p] /\ pc'[p] = "check_owner"
            /\ UNCHANGED <<seen, txn, commits>>
        BY <1>1, <2>1 DEF Move, Goto, physical, identity
      <3> QED
        BY <3>1, EvidenceKept DEF ClaimSteps
    <2> QED
      BY <1>5, <2>1, EndCallEvidence DEF InspectLock
  <1>6. CASE CheckOwner(p)
    <2>1. CASE /\ Terminated(LockToken(memory[p]))
               /\ seen' = [seen EXCEPT ![p] = Classify(memory[p], seen[p])]
               /\ Goto(p, "claim")
               /\ UNCHANGED <<journal, memory, lock, claim, physical, identity>>
      <3>1. /\ memory'[p] = memory[p] /\ pc'[p] = "claim" /\ pc[p] = "check_owner"
            /\ UNCHANGED <<txn, commits>>
            /\ seen'[p] = Classify(memory[p], seen[p])
        BY <1>1, <1>6, <2>1 DEF CheckOwner, Goto, physical, identity
      <3>2. seen[p] # "REPLACEMENT"
        BY <1>1 DEF Evidence
      <3>3. /\ seen'[p] \in {"NOT_APPLIED", "RESTORED", "RECOVERY_UNRESOLVED"}
            /\ seen'[p] = "NOT_APPLIED" => StageOf(memory[p]) \in PreCommit
            /\ seen'[p] = "RESTORED" => StageOf(memory[p]) = "RECOVERED"
        BY <3>1, <3>2 DEF Classify
      <3>4. IsBound(memory[p])
        BY <1>1, <3>1 DEF IsEntitled
      <3>5. StageOf(memory[p]) = "RECOVERED" => commits[txn[p]] = 0
        BY <1>1, <3>4 DEF Evidence, Prevented
      <3>6. StageOf(memory[p]) = "RECOVERED" => Prevented(memory[p], txn[p])'
        BY <1>1, <3>1, <3>4, EndedOwner DEF Evidence, Prevented, Terminated, Ended
      <3> QED
        BY <3>1, <3>3, <3>5, <3>6 DEF Evidence, ClaimSteps, Classifications
    <2> QED
      BY <1>6, <2>1, EndCallEvidence DEF CheckOwner
  <1> QED
    BY <1>3, <1>4, <1>5, <1>6

\* A recoverer that publishes one more record knows what it read before.
LEMMA PublishEvidence ==
  ASSUME TruthInv, NotMisled, NEW p \in Recoverer, OwnTurn(p),
         NEW stage \in Stages, NEW bound \in Bound, NEW next, Publish(p, stage, bound, next, "drop_claim"),
         UNCHANGED <<lock, claim, seen, physical, identity>>,
         pc[p] \in ClaimSteps,
         next \in ClaimSteps \ {"require"},
         pc[p] = "require" => stage = "RECOVERY_REQUIRED",
         stage = "RECOVERED" =>
           pc[p] = "bind_evidence" /\ seen[p] # "RECOVERY_UNRESOLVED",
         next \in {"bind_evidence", "recovered_evidence", "recovered_final"} =>
           \/ pc[p] \in {"bind_evidence", "recovered_evidence", "recovered_final"}
           \/ pc[p] = "require"
  PROVE  Evidence(p)'
  <1>1. /\ Evidence(p) /\ IsEntitled(p) /\ Remembered(p) /\ p \in Process /\ txn[p] \in Txn
        /\ pc \in [Process -> RunnerSteps \union RecovererSteps]
        /\ memory \in [Process -> Seq(Event)] /\ journal \in [Txn -> Seq(Event)]
        /\ Settled(txn[p])
        /\ UNCHANGED <<seen, txn, commits>>
    BY DEF TruthInv, Truthful, FullInv, IInv, Safe, TypeOK, Process, physical, identity
  <1>2. IsBound(memory[p]) /\ Terminated(LockToken(memory[p]))
    BY <1>1 DEF IsEntitled
  <1>3. Permitted(p, stage, bound)
    BY <1>2 DEF Permitted
  <1> DEFINE candidate == Extend(memory[p], stage, bound)
  <1>4. /\ StageOf(candidate) = stage /\ memory[p] # <<>> /\ candidate \notin {<<>>, memory[p]}
        /\ IsBound(candidate) /\ LockToken(candidate) = LockToken(memory[p])
    BY <1>1, <1>2, <1>3, CandidateFacts DEF TruthInv, FullInv
  <1>5. \/ pc'[p] = "drop_claim" /\ memory'[p] = memory[p]
        \/ /\ pc'[p] \in {next, "drop_claim"}
           /\ memory'[p] \in {memory[p], candidate}
           /\ memory'[p] = memory[p] => pc'[p] = "drop_claim"
           /\ MayBecome(memory[p], candidate)
           /\ journal[txn[p]] \in {memory[p], candidate}
    <2>1. \/ /\ Accepts(p, candidate) /\ pc' = [pc EXCEPT ![p] = next]
             /\ memory' = [memory EXCEPT ![p] = candidate]
          \/ pc' = [pc EXCEPT ![p] = "drop_claim"] /\ memory' = memory
      BY DEF Publish, Goto
    <2> HIDE DEF candidate
    <2>2. Accepts(p, candidate) =>
            MayBecome(memory[p], candidate) /\ journal[txn[p]] \in {memory[p], candidate}
      BY DEF Accepts
    <2> QED
      BY <1>1, <1>4, <2>1, <2>2
  <1>6. MayBecome(memory[p], candidate) /\ journal[txn[p]] \in {memory[p], candidate}
        /\ stage # "COMMIT_AUTHORITY_VERIFIED" /\ StageOf(memory[p]) \in PreCommit
          => commits[txn[p]] = 0
    <2> SUFFICES ASSUME MayBecome(memory[p], candidate),
                        journal[txn[p]] \in {memory[p], candidate},
                        stage # "COMMIT_AUTHORITY_VERIFIED", StageOf(memory[p]) \in PreCommit
                 PROVE  commits[txn[p]] = 0
      OBVIOUS
    <2>1. InOrder(memory[p]) /\ Uncommitted(memory[p])
      BY <1>1, <1>4 DEF Remembered, InOrder
    <2>2. Uncommitted(candidate)
      BY <1>1, <1>4, <2>1, ExtendInOrder
    <2> QED
      BY <1>1, <2>1, <2>2 DEF Settled
  <1> HIDE DEF candidate
  <1>7. stage = "RECOVERED" => commits[txn[p]] = 0
    BY <1>1 DEF Evidence, Classifications
  <1>8. IsBound(memory'[p]) /\ StageOf(memory'[p]) = "RECOVERED" => Prevented(memory[p], txn[p])'
    <2> SUFFICES ASSUME IsBound(memory'[p]), StageOf(memory'[p]) = "RECOVERED"
                 PROVE  Prevented(memory[p], txn[p])'
      OBVIOUS
    <2>1. LockToken(memory'[p]) = LockToken(memory[p])
      BY <1>4, <1>5
    <2>2. pc'[LockToken(memory'[p])] \in Ended
      <3>1. \A h : LockToken(h) = LockToken(memory[p]) => pc'[LockToken(h)] \in Ended
        BY <1>1, <1>2, EndedOwner
      <3> QED
        BY <2>1, <3>1
    <2>3. commits[txn[p]] = 0
      BY <1>1, <1>2, <1>4, <1>5, <1>7 DEF Evidence, Prevented
    <2> QED
      BY <1>1, <2>2, <2>3 DEF Prevented, Terminated, Ended
  <1>9. {"bind_evidence", "recovered_evidence", "recovered_final", "require", "drop_claim"}
          \subseteq ClaimSteps /\ "claim" \notin ClaimSteps
    BY DEF ClaimSteps
  <1>10. pc'[p] \in {"bind_evidence", "recovered_evidence", "recovered_final"}
         /\ seen[p] = "NOT_APPLIED" => commits[txn[p]] = 0
    <2> SUFFICES ASSUME pc'[p] \in {"bind_evidence", "recovered_evidence", "recovered_final"},
                        seen[p] = "NOT_APPLIED"
                 PROVE  commits[txn[p]] = 0
      OBVIOUS
    <2>1. pc'[p] = next
      BY <1>5
    <2>2. CASE pc[p] \in {"bind_evidence", "recovered_evidence", "recovered_final"}
      BY <1>1, <2>2 DEF Evidence
    <2>3. CASE pc[p] = "require"
      <3>1. StageOf(memory[p]) \in PreCommit
        BY <1>1, <2>3 DEF Evidence
      <3>2. stage # "COMMIT_AUTHORITY_VERIFIED"
        BY <2>3
      <3> QED
        BY <1>5, <1>6, <3>1, <3>2
    <2> QED
      BY <2>1, <2>2, <2>3
  <1> QED
    BY <1>1, <1>5, <1>8, <1>9, <1>10 DEF Evidence

LEMMA ClaimEvidence ==
  ASSUME TruthInv, NotMisled, NEW p \in Recoverer, OwnTurn(p), RecovererStep(p),
         ~(RecoverReopen(p) \/ InspectTarget(p) \/ InspectLock(p) \/ CheckOwner(p))
  PROVE  Evidence(p)'
  <1>1. /\ Evidence(p) /\ p \in Process /\ txn[p] \in Txn
        /\ pc \in [Process -> RunnerSteps \union RecovererSteps]
        /\ seen \in [Recoverer -> Observations \union Classifications]
    BY DEF TruthInv, Truthful, FullInv, IInv, TypeOK, Process
  <1>2. ASSUME NEW next, Goto(p, next), next \in ClaimSteps \union {"crashed"},
               next \notin {"require", "bind_evidence", "recovered_evidence", "recovered_final"},
               pc[p] \in {"claim"} \union ClaimSteps,
               UNCHANGED <<memory, seen, physical, identity>>
        PROVE  Evidence(p)'
    <2>1. pc'[p] = next /\ UNCHANGED <<seen, txn, commits>> /\ memory'[p] = memory[p]
      BY <1>1, <1>2 DEF Goto, physical, identity
    <2> QED
      BY <1>2, <2>1, EvidenceKept DEF ClaimSteps
  <1>3. CASE AcquireClaim(p)
    <2>1. CASE Goto(p, AfterClaim(memory[p])) /\ UNCHANGED <<memory, seen, physical, identity>>
      <3>1. /\ pc[p] = "claim" /\ pc'[p] = AfterClaim(memory[p])
            /\ UNCHANGED <<seen, txn, commits, memory>>
        BY <1>1, <1>3, <2>1 DEF AcquireClaim, Goto, physical, identity
      <3>2. StageOf(memory[p]) \in PreCommit => AfterClaim(memory[p]) = "require"
        BY DEF PreCommit, AfterClaim, Finalized
      <3>3. AfterClaim(memory[p]) \in ClaimSteps /\ AfterClaim(memory[p]) # "claim"
        BY DEF AfterClaim, ClaimSteps
      <3>4. IsBound(memory[p]) /\ StageOf(memory[p]) = "RECOVERED" =>
              Prevented(memory[p], txn[p])'
        BY <1>1, <3>1, EndedOwner DEF Evidence, Prevented, Terminated, Ended
      <3> QED
        BY <1>1, <3>1, <3>2, <3>3, <3>4 DEF Evidence
    <2> QED
      BY <1>3, <2>1, EndCallEvidence DEF AcquireClaim
  <1>4. CASE ClaimFails(p)
    BY <1>2, <1>4 DEF ClaimFails
  <1>5. CASE RequireRecovery(p)
    BY <1>5, PublishEvidence DEF RequireRecovery, Advance, Stages, Bound, ClaimSteps
  <1>6. CASE BindEvidence(p)
    <2>1. PICK stage \in {"RECOVERED", "RECOVERY_UNRESOLVED"},
               next \in {"recovered_evidence", "drop_claim"} :
            /\ Publish(p, stage, "EVIDENCE", next, "drop_claim")
            /\ stage = "RECOVERED" => seen[p] # "RECOVERY_UNRESOLVED"
      BY <1>6 DEF BindEvidence, RecoveredStage
    <2>2. pc[p] = "bind_evidence" /\ UNCHANGED <<lock, claim, seen, physical, identity>>
      BY <1>6 DEF BindEvidence
    <2> QED
      BY <2>1, <2>2, PublishEvidence DEF Stages, Bound, ClaimSteps
  <1>7. CASE RecoveredEvidence(p)
    BY <1>7, PublishEvidence DEF RecoveredEvidence, Advance, Stages, Bound, ClaimSteps
  <1>8. CASE RecoveredFinal(p)
    <2>1. PICK stage \in Terminal : Advance(p, stage, "recovery_release", "drop_claim")
      BY <1>8 DEF RecoveredFinal, TerminalStage, Terminal, Finalized
    <2>2. stage \in Stages /\ stage # "RECOVERED" /\ pc[p] = "recovered_final"
      BY <1>8 DEF RecoveredFinal, Stages, Terminal, Finalized
    <2> QED
      BY <2>1, <2>2, PublishEvidence DEF Advance, Bound, ClaimSteps
  <1>9. CASE RecoveryReleaseCheck(p)
    <2>1. PICK next \in {"recovery_unlink", "drop_claim"} : Move(p, next)
      BY <1>9 DEF RecoveryReleaseCheck
    <2>2. pc[p] = "recovery_release"
      BY <1>9 DEF RecoveryReleaseCheck
    <2> QED
      BY <1>2, <2>1, <2>2 DEF Move, ClaimSteps
  <1>10. CASE RecoveryReleaseUnlink(p)
    BY <1>2, <1>10 DEF RecoveryReleaseUnlink, ClaimSteps
  <1>11. CASE DropClaim(p)
    BY <1>11, EndCallEvidence DEF DropClaim
  <1> QED
    BY <1>3, <1>4, <1>5, <1>6, <1>7, <1>8, <1>9, <1>10, <1>11 DEF RecovererStep

LEMMA CrashedEvidence ==
  ASSUME TruthInv, NotMisled, NEW p \in Recoverer, Crash(p)
  PROVE  Evidence(p)'
  <1>1. /\ p \in Process /\ pc'[p] = "crashed" /\ memory'[p] = <<>> /\ seen' = seen
        /\ Evidence(p)
    BY DEF Crash, Goto, Process, TruthInv, Truthful, FullInv, IInv, TypeOK
  <1> QED
    BY <1>1, PreparedFacts DEF Evidence, ClaimSteps

LEMMA WorktreeKept ==
  ASSUME TruthInv, NotMisled, NEW p \in Process, OwnTurn(p), Recoverer # {}
  PROVE  worktree' = worktree
  <1>1. ContentAddressed
    BY DEF NotMisled
  <1>2. Bootstrap(p) => UNCHANGED worktree
    BY DEF Bootstrap
  <1>3. Replace(p) => UNCHANGED worktree
    BY <1>1 DEF Replace, ReplaceTarget
  <1>4. p \in Runner => ~Restore(p)
    BY <1>1, EffectSets DEF Restore, TruthInv, Truthful, Effects
  <1> QED
    BY <1>2, <1>3, <1>4 DEF OwnTurn, Turn, physical

LEMMA TruthStep == TruthInv /\ [Next]_vars => TruthInv'
  <1> SUFFICES ASSUME TruthInv, [Next]_vars PROVE TruthInv'
    OBVIOUS
  <1>1. FullInv'
    BY FullStep DEF TruthInv
  <1>2. ASSUME NEW p \in Process, OwnTurn(p)
        PROVE  Truthful'
    <2>1. ASSUME NEW t \in Txn PROVE Settled(t)'
      BY <1>2, SettledKept
    <2>2. ASSUME NEW q \in Process PROVE Remembered(q)'
      BY <1>2, RememberedKept
    <2>3. ASSUME NEW q \in Runner PROVE Effects(q)'
      BY <1>2, OthersEffects, RunnerEffects
    <2>4. ASSUME NotMisled, NEW q \in Recoverer PROVE Evidence(q)'
      <3>1. CASE q # p
        BY <1>2, <2>4, <3>1, OthersEvidence
      <3>2. CASE q = p
        BY <1>2, <2>4, <3>2, InspectionEvidence, ClaimEvidence, CrashedEvidence DEF OwnTurn
      <3> QED
        BY <3>1, <3>2
    <2>5. NotMisled /\ Recoverer # {} => worktree' = worktree
      BY <1>2, WorktreeKept
    <2> QED
      BY <2>1, <2>2, <2>3, <2>4, <2>5 DEF Truthful, TruthInv
  <1>3. Outside => Truthful'
    BY DEF Outside, TruthInv, Truthful, Settled, Remembered, Effects, Evidence, Prevented,
           Terminated, NotMisled
  <1>4. Truthful'
    BY <1>2, <1>3, StepIsTurn DEF TruthInv
  <1> QED
    BY <1>1, <1>4 DEF TruthInv

LEMMA TruthInit == Init => TruthInv
  <1> SUFFICES ASSUME Init PROVE Truthful
    BY FullInit DEF TruthInv
  <1>1. ASSUME NEW t \in Txn PROVE Settled(t)
    BY <1>1, ShortInOrder, PreparedFacts DEF Init, Settled
  <1>2. ASSUME NEW p \in Process PROVE Remembered(p)
    BY <1>2, ShortInOrder, PreparedFacts DEF Init, Remembered
  <1>3. ASSUME NEW p \in Runner PROVE Effects(p)
    <2>1. pc[p] = "idle"
      BY <1>3 DEF Init, Process
    <2> QED
      BY <2>1 DEF Effects, OpenSteps, PreCommitSteps, AppliedSteps, RestoreSteps, RestoredSteps
  <1>4. ASSUME NEW p \in Recoverer PROVE Evidence(p)
    BY <1>4, PreparedFacts DEF Init, Evidence, Process, ClaimSteps
  <1> QED
    BY <1>1, <1>2, <1>3, <1>4 DEF Init, Truthful

LEMMA ReachedTerminal ==
  ASSUME TruthInv, NEW t \in Txn, NEW stage \in Terminal, Reached(journal[t], stage)
  PROVE  StageOf(journal[t]) = stage /\ IsBound(journal[t])
  <1>1. journal[t] \in Seq(Event) /\ TerminalLast(journal[t])
    BY DEF TruthInv, FullInv, Accounted, Published, IInv, TypeOK
  <1>2. journal[t] # <<>> /\ journal[t] # Prepared
    BY DEF Reached, Prepared, Terminal, Finalized
  <1> QED
    BY <1>1, <1>2 DEF Reached, TerminalLast, StageOf, TruthInv, FullInv, IInv, Safe, Histories

\* The invariant behind the outcome: runners know what they did to the target, and a
\* recoverer that will answer FINALIZED_FAILED has evidence that nothing was applied and
\* that nobody is left who could apply it.
THEOREM Truth == Spec => []TruthInv
  BY TruthStep, TruthInit, PTL DEF Spec

\* What runners and recoverers know of the target while they are still at work is right: a
\* runner knows whether its replacement stands, a recoverer about to call a transaction
\* failed that it cannot be applied any more.
THEOREM KnownEffects == Spec => []Truthful
  <1>1. TruthInv => Truthful
    BY DEF TruthInv
  <1> QED
    BY <1>1, Truth, PTL

\* No replacement is applied twice, and none is taken back that was not applied or that was
\* taken back before: whatever crashes, fails, or misleads a recovery.
THEOREM AppliedOnce == Spec => []EffectsOnce
  <1>1. TruthInv => EffectsOnce
    BY DEF EffectsOnce, TruthInv, Truthful, Settled
  <1> QED
    BY <1>1, Truth, PTL

\* No replacement is applied twice, FINALIZED_SUCCESS means that it was applied and not
\* taken back, and FINALIZED_FAILED that it was not applied or was taken back: for every
\* number of processes and transactions, whatever crashes or fails, while recovery cannot
\* meet an authorized replacement in a file that is not the authority.
THEOREM TruthfulOutcome ==
  ASSUME NotMisled
  PROVE  Spec => []EvidencedOutcome
  <1>1. TruthInv => EvidencedOutcome
    <2> SUFFICES ASSUME TruthInv, NEW t \in Txn
                 PROVE  /\ commits[t] <= 1
                        /\ Reached(journal[t], "FINALIZED_SUCCESS") =>
                             commits[t] = 1 /\ restores[t] = 0
                        /\ Reached(journal[t], "FINALIZED_FAILED") => restores[t] = commits[t]
      BY DEF EvidencedOutcome
    <2>1. Settled(t)
      BY DEF TruthInv, Truthful
    <2> QED
      BY <2>1, ReachedTerminal DEF Settled, Terminal, Finalized
  <1> QED
    BY <1>1, Truth, PTL

----------------------------------------------------------------------------
(***************************************************************************)
(* The refinement.                                                         *)
(***************************************************************************)

LEMMA OutcomeFacts ==
  /\ OutcomeOf(<<>>) = "OPEN"
  /\ OutcomeOf(Prepared) = "OPEN"
  /\ \A h \in Seq(Event) : IsBound(h) =>
       /\ StageOf(h) \notin Terminal => OutcomeOf(h) = "STARTED"
       /\ StageOf(h) = "FINALIZED_SUCCESS" => OutcomeOf(h) = "SUCCESS"
       /\ StageOf(h) = "FINALIZED_FAILED" => OutcomeOf(h) = "FAILED"
       /\ StageOf(h) = "RECOVERY_UNRESOLVED" => OutcomeOf(h) = "UNRESOLVED"
  <1>1. ~Reached(<<>>, "LOCKED") /\ ~Reached(Prepared, "LOCKED")
    BY DEF Reached, Prepared
  <1>2. ASSUME NEW h \in Seq(Event), IsBound(h) PROVE Reached(h, "LOCKED")
    BY <1>2 DEF IsBound, Reached
  <1>3. OutcomeOf(<<>>) = "OPEN" /\ OutcomeOf(Prepared) = "OPEN"
    BY <1>1 DEF OutcomeOf
  <1>4. ASSUME NEW h \in Seq(Event), IsBound(h)
        PROVE  OutcomeOf(h) = CASE StageOf(h) = "FINALIZED_SUCCESS" -> "SUCCESS"
                                [] StageOf(h) = "FINALIZED_FAILED" -> "FAILED"
                                [] StageOf(h) = "RECOVERY_UNRESOLVED" -> "UNRESOLVED"
                                [] OTHER -> "STARTED"
    BY <1>2, <1>4 DEF OutcomeOf
  <1>5. ASSUME NEW h \in Seq(Event), IsBound(h)
        PROVE  /\ StageOf(h) \notin Terminal => OutcomeOf(h) = "STARTED"
               /\ StageOf(h) = "FINALIZED_SUCCESS" => OutcomeOf(h) = "SUCCESS"
               /\ StageOf(h) = "FINALIZED_FAILED" => OutcomeOf(h) = "FAILED"
               /\ StageOf(h) = "RECOVERY_UNRESOLVED" => OutcomeOf(h) = "UNRESOLVED"
    BY <1>4, <1>5 DEF Terminal, Finalized
  <1> QED
    BY <1>3, <1>5

\* A step that changes the outcome of one transaction.
LEMMA OutcomeChange ==
  ASSUME NEW t \in Txn, NEW candidate, journal \in [Txn -> Seq(Event)],
         journal' = [journal EXCEPT ![t] = candidate]
  PROVE  [u \in Txn |-> OutcomeOf(journal[u])]' =
           [[u \in Txn |-> OutcomeOf(journal[u])] EXCEPT ![t] = OutcomeOf(candidate)]
  <1>1. \A u \in Txn : journal'[u] = IF u = t THEN candidate ELSE journal[u]
    OBVIOUS
  <1>2. \A u \in Txn : OutcomeOf(journal'[u]) =
                         IF u = t THEN OutcomeOf(candidate) ELSE OutcomeOf(journal[u])
    BY <1>1
  <1> QED
    BY <1>2

\* A step that changes the effect of one transaction.
LEMMA EffectChange ==
  ASSUME NEW t \in Txn, NEW effect, EffectOf(t)' = effect,
         \A u \in Txn : u # t => commits'[u] = commits[u] /\ restores'[u] = restores[u]
  PROVE  [u \in Txn |-> EffectOf(u)]' = [[u \in Txn |-> EffectOf(u)] EXCEPT ![t] = effect]
  <1>1. \A u \in Txn : u # t => EffectOf(u)' = EffectOf(u)
    BY DEF EffectOf
  <1>2. \A u \in Txn : EffectOf(u)' = IF u = t THEN effect ELSE EffectOf(u)
    BY <1>1
  <1> QED
    BY <1>2

LEMMA BusyOutcome ==
  ASSUME FullInv, NEW t \in Txn, OutcomeOf(journal[t]) \in {"STARTED", "UNRESOLVED"}
  PROVE  OpenFaults \/ (Owns(LockToken(journal[t])) /\ txn[LockToken(journal[t])] = t)
  <1>1. journal[t] \in Seq(Event)
    BY DEF FullInv, IInv, TypeOK
  <1>2. IsBound(journal[t])
    BY OutcomeFacts DEF FullInv, IInv, Safe, Histories
  <1>3. StageOf(journal[t]) \notin Finalized
    BY <1>1, <1>2, OutcomeFacts DEF Finalized
  <1> QED
    BY <1>2, <1>3 DEF FullInv, IInv, Safe, Histories, UnfinishedIsLocked

\* The first record that names a lock begins the transaction.
LEMMA BindBegins ==
  ASSUME TruthInv, NEW p \in Runner, NEW t \in Txn, t = txn[p],
         journal[t] = Prepared, OpenFaults \/ Owns(p),
         journal' = [journal EXCEPT ![t] = Extend(Prepared, "LOCKED", p)],
         UNCHANGED <<commits, restores, worktree, manifest>>
  PROVE  Patch!Begin(t)
  <1>1. journal \in [Txn -> Seq(Event)]
    BY DEF TruthInv, FullInv, IInv, TypeOK
  <1>2. OutcomeOf(journal[t]) = "OPEN"
    BY OutcomeFacts
  <1>3. ASSUME NEW u \in Txn, OutcomeOf(journal[u]) \in {"STARTED", "UNRESOLVED"}, ~OpenFaults
        PROVE  FALSE
    <2>1. Owns(LockToken(journal[u])) /\ txn[LockToken(journal[u])] = u
      BY <1>3, BusyOutcome DEF TruthInv
    <2>2. u = t
      BY <1>3, <2>1 DEF Owns
    <2> QED
      BY <1>2, <1>3, <2>2
  <1>4. OutcomeOf(Extend(Prepared, "LOCKED", p)) = "STARTED"
    <2>1. "LOCKED" \in Stages /\ p \in Bound
      BY DEF Stages, Bound
    <2>2. Extend(Prepared, "LOCKED", p) \in Seq(Event)
      BY <2>1, PreparedType, ExtendType
    <2> QED
      BY <2>2, LockedBound, OutcomeFacts DEF Terminal, Finalized
  <1>6. [u \in Txn |-> OutcomeOf(journal[u])]' =
          [[u \in Txn |-> OutcomeOf(journal[u])] EXCEPT ![t] = "STARTED"]
    BY <1>1, <1>4, OutcomeChange
  <1>7. UNCHANGED <<[u \in Txn |-> EffectOf(u)], AuthoritativeContent>>
    BY DEF EffectOf, AuthoritativeContent
  <1> QED
    BY <1>2, <1>3, <1>6, <1>7 DEF Patch!Begin

\* A terminal record is the answer, and it is true of the target.
LEMMA TerminalAnswers ==
  ASSUME TruthInv, NEW t \in Txn, Settled(t)', NEW candidate \in Seq(Event),
         NEW stage \in Terminal, StageOf(candidate) = stage, IsBound(candidate),
         IsBound(journal[t]), StageOf(journal[t]) \notin Terminal,
         journal' = [journal EXCEPT ![t] = candidate],
         UNCHANGED <<commits, restores, worktree, manifest>>
  PROVE  Patch!Answer(t)
  <1>1. /\ journal \in [Txn -> Seq(Event)]
        /\ commits[t] \in Nat /\ restores[t] \in Nat
    BY DEF TruthInv, FullInv, IInv, TypeOK
  <1>2. OutcomeOf(journal[t]) = "STARTED" /\ journal'[t] = candidate
    BY <1>1, OutcomeFacts
  <1> DEFINE answer == OutcomeOf(candidate)
  <1>3. NotMisled => /\ stage = "FINALIZED_SUCCESS" => EffectOf(t) = "APPLIED"
                     /\ stage = "FINALIZED_FAILED" => EffectOf(t) # "APPLIED"
    <2> SUFFICES ASSUME NotMisled
                 PROVE  /\ stage = "FINALIZED_SUCCESS" => EffectOf(t) = "APPLIED"
                        /\ stage = "FINALIZED_FAILED" => EffectOf(t) # "APPLIED"
      OBVIOUS
    <2>1. /\ stage = "FINALIZED_SUCCESS" => commits[t] = 1 /\ restores[t] = 0
          /\ stage = "FINALIZED_FAILED" => restores[t] = commits[t]
      BY <1>2 DEF Settled, NotMisled
    <2> QED
      BY <1>1, <2>1 DEF EffectOf
  <1>4. /\ answer \in {"SUCCESS", "FAILED", "UNRESOLVED"}
        /\ NotMisled => answer # (IF EffectOf(t) = "APPLIED" THEN "FAILED" ELSE "SUCCESS")
    <2>1. /\ stage = "FINALIZED_SUCCESS" => answer = "SUCCESS"
          /\ stage = "FINALIZED_FAILED" => answer = "FAILED"
          /\ stage = "RECOVERY_UNRESOLVED" => answer = "UNRESOLVED"
      BY OutcomeFacts
    <2> HIDE DEF answer
    <2> QED
      BY <1>3, <2>1 DEF Terminal, Finalized
  <1>5. [u \in Txn |-> OutcomeOf(journal[u])]' =
          [[u \in Txn |-> OutcomeOf(journal[u])] EXCEPT ![t] = answer]
    BY <1>1, OutcomeChange
  <1> HIDE DEF answer
  <1>6. UNCHANGED <<[u \in Txn |-> EffectOf(u)], AuthoritativeContent>>
    BY DEF EffectOf, AuthoritativeContent
  <1> QED
    BY <1>2, <1>4, <1>5, <1>6 DEF Patch!Answer

LEMMA AppendImplements ==
  ASSUME TruthInv, NEW p \in Process, OwnTurn(p), journal' # journal
  PROVE  [Patch!ANext]_(Patch!avars)
  <1>1. /\ journal \in [Txn -> Seq(Event)] /\ txn[p] \in Txn /\ Turn(p)
        /\ UNCHANGED <<commits, restores, worktree, manifest>>
    BY DEF OwnTurn, Turn, physical, Bootstrap, Replace, Restore, TruthInv, FullInv, IInv, TypeOK
  <1>2. UNCHANGED <<[u \in Txn |-> EffectOf(u)], AuthoritativeContent>>
    BY <1>1 DEF EffectOf, AuthoritativeContent
  <1>3. ASSUME OutcomeOf(journal'[txn[p]]) = OutcomeOf(journal[txn[p]]),
               \A u \in Txn : u # txn[p] => journal'[u] = journal[u]
        PROVE  UNCHANGED Patch!avars
    BY <1>2, <1>3 DEF Patch!avars
  <1>4. CASE Appends(p)
    <2>1. PICK stage \in Stages, bound \in Bound :
            /\ Permitted(p, stage, bound)
            /\ PublishesNext(p, stage, bound)
      BY <1>4 DEF Appends
    <2> DEFINE candidate == Extend(memory[p], stage, bound)
    <2>2. /\ MayBecome(memory[p], candidate)
          /\ journal[txn[p]] \in {memory[p], candidate}
          /\ journal' = [journal EXCEPT ![txn[p]] = candidate]
      BY <2>1 DEF PublishesNext
    <2>3. /\ memory[p] \in Seq(Event) /\ memory[p] # <<>>
          /\ StageOf(candidate) = stage /\ IsBound(candidate)
          /\ candidate \in Seq(Event)
      BY <2>1, CandidateFacts, ExtendType DEF TruthInv, FullInv
    <2> HIDE DEF candidate
    <2>4. journal[txn[p]] = memory[p] /\ journal'[txn[p]] = candidate
      BY <1>1, <2>2
    <2>5. \A u \in Txn : u # txn[p] => journal'[u] = journal[u]
      BY <1>1, <2>2
    <2>6. CASE ~IsBound(memory[p])
      <3>1. /\ p \in Runner /\ memory[p] = Prepared /\ stage = "LOCKED" /\ bound = p
            /\ OpenFaults \/ Owns(p)
        BY <2>1, <2>6 DEF Permitted
      <3>2. Patch!Begin(txn[p])
        BY <1>1, <2>2, <2>4, <3>1, BindBegins DEF candidate
      <3> QED
        BY <1>1, <3>2 DEF Patch!ANext
    <2>7. CASE IsBound(memory[p])
      <3>1. StageOf(memory[p]) \notin Terminal
        BY <2>2, <2>3, Transitive, StageType
      <3>2. CASE stage \in Terminal
        <4>1. PICK t \in Txn : t = txn[p]
          BY <1>1
        <4>2. Settled(t)'
          BY SettledKept
        <4>3. Patch!Answer(t)
          BY <1>1, <2>2, <2>3, <2>4, <2>7, <3>1, <3>2, <4>1, <4>2, TerminalAnswers
        <4> QED
          BY <4>3 DEF Patch!ANext
      <3>3. CASE stage \notin Terminal
        BY <1>3, <2>3, <2>4, <2>5, <2>7, <3>1, <3>3, OutcomeFacts
      <3> QED
        BY <3>2, <3>3
    <2> QED
      BY <2>6, <2>7
  <1>5. CASE ~Appends(p)
    <2>1. \A u \in Txn :
            \/ journal'[u] = journal[u]
            \/ u = txn[p] /\ journal[u] = <<>> /\ journal'[u] = Prepared
      <3>1. Keeps(p) \/ PublishPrepared(p)
        BY <1>1, <1>5 DEF Turn
      <3>2. CASE PublishPrepared(p)
        <4>1. p \in Runner
          BY <3>2 DEF PublishPrepared, TruthInv, FullInv, IInv, TypeOK, Process, RecovererSteps
        <4>2. journal[txn[p]] = <<>>
          BY <3>2, <4>1 DEF PublishPrepared, TruthInv, FullInv, IInv, Safe, FirstRecord
        <4>3. journal' \in {journal, [journal EXCEPT ![txn[p]] = Prepared]}
          BY <3>2 DEF PublishPrepared
        <4> QED
          BY <1>1, <4>2, <4>3
      <3> QED
        BY <3>1, <3>2 DEF Keeps
    <2>2. OutcomeOf(journal'[txn[p]]) = OutcomeOf(journal[txn[p]])
      BY <1>1, <2>1, OutcomeFacts
    <2> QED
      BY <1>3, <2>1, <2>2
  <1> QED
    BY <1>4, <1>5

LEMMA ReplaceApplies ==
  ASSUME TruthInv, NEW p \in Runner, OwnTurn(p), Replace(p)
  PROVE  Patch!Apply(txn[p])
  <1> DEFINE t == txn[p]
  <1>1. /\ p \in Process /\ t \in Txn /\ Before[t] # NoManifest /\ Replacement[t] # NoManifest
        /\ commits \in [Txn -> Nat] /\ restores \in [Txn -> Nat]
        /\ journal[t] \in Seq(Event)
        /\ UNCHANGED <<journal, restores>>
        /\ commits' = [commits EXCEPT ![t] = @ + 1]
    <2>1. /\ p \in Process /\ t \in Txn
          /\ commits \in [Txn -> Nat] /\ restores \in [Txn -> Nat]
          /\ journal[t] \in Seq(Event)
      BY DEF Process, TruthInv, FullInv, IInv, TypeOK
    <2>2. Before[t] # NoManifest /\ Replacement[t] # NoManifest
      BY <2>1, ConstantsAssumption
    <2> QED
      BY <2>1, <2>2 DEF Replace, ReplaceTarget
  <1>2. /\ IsBound(journal[t]) /\ StageOf(journal[t]) = "COMMIT_AUTHORITY_VERIFIED"
        /\ commits[t] = 0 /\ restores[t] = 0
    <2>1. commits'[t] # commits[t] /\ pc[p] # "restore"
      BY <1>1 DEF Replace
    <2> QED
      BY <1>1, <2>1, EffectOwned DEF OwnTurn
  <1>3. OutcomeOf(journal[t]) = "STARTED"
    BY <1>1, <1>2, OutcomeFacts DEF Terminal, Finalized
  <1>4. AuthoritativeContent = Before[t] /\ AuthoritativeContent' = Replacement[t]
    BY <1>1 DEF Replace, ReplaceTarget, AuthoritativeContent
  <1>5. PICK u \in Txn : u = t
    BY <1>1
  <1>6. EffectOf(u) = "NONE" /\ EffectOf(u)' = "APPLIED"
    BY <1>1, <1>2, <1>5 DEF EffectOf
  <1> HIDE DEF t
  <1>7. [v \in Txn |-> EffectOf(v)]' = [[v \in Txn |-> EffectOf(v)] EXCEPT ![u] = "APPLIED"]
    BY <1>1, <1>5, <1>6, EffectChange
  <1>8. Patch!Apply(u)
    BY <1>1, <1>3, <1>4, <1>5, <1>6, <1>7 DEF Patch!Apply
  <1> QED
    BY <1>5, <1>8 DEF t

LEMMA RestoreTakesBack ==
  ASSUME TruthInv, NEW p \in Runner, OwnTurn(p), Restore(p)
  PROVE  Patch!TakeBack(txn[p])
  <1> DEFINE t == txn[p]
  <1>1. /\ p \in Process /\ t \in Txn
        /\ commits \in [Txn -> Nat] /\ restores \in [Txn -> Nat]
        /\ journal[t] \in Seq(Event)
        /\ UNCHANGED <<journal, commits, manifest>>
        /\ restores' = [restores EXCEPT ![t] = @ + 1]
    BY DEF Process, Restore, TruthInv, FullInv, IInv, TypeOK
  <1>2. /\ IsBound(journal[t]) /\ StageOf(journal[t]) \notin Terminal
        /\ commits[t] = 1 /\ restores[t] = 0 /\ ~ContentAddressed
    <2>1. restores'[t] # restores[t] /\ pc[p] # "replace"
      BY <1>1 DEF Restore
    <2> QED
      BY <1>1, <2>1, EffectOwned DEF OwnTurn
  <1>3. OutcomeOf(journal[t]) = "STARTED"
    BY <1>1, <1>2, OutcomeFacts
  <1>4. AuthoritativeContent = Replacement[t] /\ AuthoritativeContent' = Before[t]
    BY <1>1, <1>2 DEF Restore, AuthoritativeContent
  <1>5. PICK u \in Txn : u = t
    BY <1>1
  <1>6. EffectOf(u) = "APPLIED" /\ EffectOf(u)' = "UNDONE"
    BY <1>1, <1>2, <1>5 DEF EffectOf
  <1> HIDE DEF t
  <1>7. [v \in Txn |-> EffectOf(v)]' = [[v \in Txn |-> EffectOf(v)] EXCEPT ![u] = "UNDONE"]
    BY <1>1, <1>5, <1>6, EffectChange
  <1>8. Patch!TakeBack(u)
    BY <1>1, <1>3, <1>4, <1>5, <1>6, <1>7 DEF Patch!TakeBack
  <1> QED
    BY <1>5, <1>8 DEF t

LEMMA PatchStep ==
  ASSUME TruthInv, [Next]_vars
  PROVE  [Patch!ANext]_(Patch!avars)
  <1>1. CASE Outside
    <2>1. UNCHANGED <<[u \in Txn |-> OutcomeOf(journal[u])], [u \in Txn |-> EffectOf(u)]>>
      BY <1>1 DEF Outside, EffectOf
    <2>2. UNCHANGED AuthoritativeContent \/ AuthoritativeContent' \in EditorContent
      BY <1>1 DEF Outside, AuthoritativeContent
    <2> QED
      BY <2>1, <2>2 DEF Patch!ANext, Patch!Edit, Patch!avars
  <1>2. ASSUME NEW p \in Process, OwnTurn(p)
        PROVE  [Patch!ANext]_(Patch!avars)
    <2>1. CASE journal' # journal
      BY <1>2, <2>1, AppendImplements
    <2>2. CASE UNCHANGED <<journal, physical>>
      BY <2>2 DEF Patch!avars, EffectOf, AuthoritativeContent, physical
    <2>3. CASE p \in Runner /\ Replace(p)
      BY <1>2, <2>3, ReplaceApplies DEF Patch!ANext, TruthInv, FullInv, IInv, TypeOK
    <2>4. CASE p \in Runner /\ Restore(p)
      BY <1>2, <2>4, RestoreTakesBack DEF Patch!ANext, TruthInv, FullInv, IInv, TypeOK
    <2>5. CASE p \in Runner /\ Bootstrap(p)
      <3>1. UNCHANGED <<journal, commits, restores, worktree>>
        BY <2>5 DEF Bootstrap
      <3>2. txn[p] \in Txn /\ Before[txn[p]] # NoManifest
        BY <1>2, ConstantsAssumption DEF TruthInv, FullInv, IInv, TypeOK
      <3>3. UNCHANGED AuthoritativeContent
        BY <2>5, <3>1, <3>2 DEF Bootstrap, AuthoritativeContent
      <3> QED
        BY <3>1, <3>3 DEF Patch!avars, EffectOf
    <2> QED
      BY <1>2, <2>1, <2>2, <2>3, <2>4, <2>5 DEF OwnTurn, Turn
  <1> QED
    BY <1>1, <1>2, StepIsTurn DEF TruthInv

\* To someone who looks only at the last word of each journal and at the authoritative
\* content, locks, journals, crashes and recovery are atomic patches: taken one at a time
\* without OpenFaults, and each applied at most once and answered truthfully with them.
THEOREM Implements == Spec => ImplementsAtomicPatch
  <1>1. Init => Patch!AInit
    BY OutcomeFacts DEF Init, Patch!AInit, EffectOf, AuthoritativeContent
  <1>2. TruthInv /\ [Next]_vars => TruthInv'
    BY TruthStep
  <1>3. TruthInv /\ [Next]_vars => [Patch!ANext]_(Patch!avars)
    BY PatchStep
  <1> QED
    BY <1>1, <1>2, <1>3, TruthInit, PTL DEF Spec, ImplementsAtomicPatch, Patch!ASpec
=============================================================================
