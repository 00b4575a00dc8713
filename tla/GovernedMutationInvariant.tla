--------------------- MODULE GovernedMutationInvariant ---------------------
(***************************************************************************)
(* The inductive invariants of GovernedMutation, each an addition to the   *)
(* one before: IInv for the lock, FullInv for the journal and the commits, *)
(* TruthInv for what the outcome of a transaction says of its target.      *)
(* What they say of the lock file depends on ~OpenFaults: the handler of a *)
(* failed open unlinks the lock of whoever holds it.  The journal and the  *)
(* outcome do not rest on the lock, so that the rest holds with OpenFaults *)
(* too.  What they say of a recovery's answers depends on NotMisled.       *)
(***************************************************************************)
EXTENDS GovernedMutation

UnboundSteps == {"create", "publish", "acquire", "write_lock", "bind"}
BoundSteps == HoldingSteps \ {"write_lock", "bind"}
ClaimSteps == {"require", "bind_evidence", "recovered_evidence", "recovered_final",
               "recovery_release", "recovery_unlink", "drop_claim"}

\* A history that was bound to the lock of a runner.
IsBound(h) ==
  /\ Len(h) >= 2
  /\ h[1] = Prepared[1]
  /\ h[2].stage = "LOCKED"
  /\ h[2].bound \in Runner

\* Histories are empty, or PREPARED, or bound to a runner of their own transaction.
Histories ==
  /\ \A t \in Txn :
       /\ journal[t] = <<>> \/ journal[t] = Prepared \/ IsBound(journal[t])
       /\ IsBound(journal[t]) => txn[LockToken(journal[t])] = t
  /\ \A p \in Process :
       /\ memory[p] = <<>> \/ memory[p] = Prepared \/ IsBound(memory[p])
       /\ IsBound(memory[p]) => txn[LockToken(memory[p])] = txn[p]

\* Nothing follows a terminal record, so whoever remembers one remembers the journal.
TerminalIsCurrent ==
  \A p \in Process :
    memory[p] # <<>> /\ StageOf(memory[p]) \in Terminal => journal[txn[p]] = memory[p]

UnfinishedIsLocked ==
  ~OpenFaults => \A t \in Txn : IsBound(journal[t]) /\ StageOf(journal[t]) \notin Finalized
                                  => Owns(LockToken(journal[t]))

\* The first record is published once, by the process that made the directory.
FirstRecord ==
  /\ \A t \in Txn : journal[t] # <<>> => t \in directories
  /\ \A p \in Runner : pc[p] = "publish" =>
       /\ txn[p] \in directories
       /\ journal[txn[p]] = <<>>
       /\ \A q \in Runner : pc[q] = "publish" /\ txn[q] = txn[p] => q = p

KnowsItself(p) ==
  /\ pc[p] \in UnboundSteps => memory[p] = Prepared
  /\ pc[p] \in BoundSteps => IsBound(memory[p]) /\ LockToken(memory[p]) = p
  /\ pc[p] \in {"release", "unlink"} => StageOf(memory[p]) \in Finalized

Holds(p) ==
  /\ ~OpenFaults /\ pc[p] \in HoldingSteps => lock.owner = p
  /\ ~OpenFaults /\ pc[p] \in HoldingSteps => lock.complete = (pc[p] # "write_lock")

\* A recoverer past its checks has the claim to a lock whose owner has ended.
IsEntitled(p) ==
  /\ pc[p] \in {"check_owner", "claim"} \union ClaimSteps => IsBound(memory[p])
  /\ pc[p] \in {"claim"} \union ClaimSteps => Terminated(LockToken(memory[p]))
  /\ pc[p] \in ClaimSteps => claim = p
  /\ pc[p] = "recovered_final" => StageOf(memory[p]) = "EVIDENCE_RECORDED"
  /\ pc[p] \in {"recovery_release", "recovery_unlink"} => StageOf(memory[p]) \in Finalized
  /\ ~OpenFaults /\ pc[p] = "recovery_unlink" => Owns(LockToken(memory[p]))

LockIsOwned == lock.complete => lock.owner \in Runner

Safe ==
  /\ Histories
  /\ TerminalIsCurrent
  /\ UnfinishedIsLocked
  /\ FirstRecord
  /\ \A p \in Runner : KnowsItself(p) /\ Holds(p)
  /\ \A p \in Recoverer : IsEntitled(p)
  /\ LockIsOwned

IInv == TypeOK /\ Safe

----------------------------------------------------------------------------
(***************************************************************************)
(* What the journal says of the physical commits.                          *)
(***************************************************************************)

PreCommitSteps == {"before", "start", "authorize", "bootstrap", "replace"}
AppliedSteps == {"record_applied", "verify_after", "evidence", "finalize"}
OwnerSteps == BoundSteps \union {"completed"}

TerminalLast(h) == \A i \in DOMAIN h : h[i].stage \in Terminal => i = Len(h)

Succeeded(p) ==
  pc[p] \in {"release", "unlink", "completed"} /\ StageOf(memory[p]) = "FINALIZED_SUCCESS"

\* A runner that works on a bound journal is the one it is bound to; it reaches the
\* replacement with the very history that is published, and knows whether it was applied.
Accounts(p) ==
  /\ pc[p] \in OwnerSteps => IsBound(journal[txn[p]]) /\ LockToken(journal[txn[p]]) = p
  /\ pc[p] \in {"bootstrap", "replace"} =>
       StageOf(memory[p]) = "COMMIT_AUTHORITY_VERIFIED" /\ journal[txn[p]] = memory[p]
  /\ pc[p] \in PreCommitSteps => commits[txn[p]] = 0
  /\ pc[p] \in AppliedSteps \/ Succeeded(p) => commits[txn[p]] = 1
  /\ pc[p] = "completed" =>
       IsBound(memory[p]) /\ StageOf(memory[p]) = "FINALIZED_SUCCESS" /\ lock.owner # p

\* A transaction that no lock was journaled for was not applied, and a journal names a
\* runner only after that runner has bound it.
Published(t) ==
  /\ TerminalLast(journal[t])
  /\ ~IsBound(journal[t]) => commits[t] = 0
  /\ IsBound(journal[t]) =>
       pc[LockToken(journal[t])] \in BoundSteps \union {"completed", "failed", "crashed"}

Accounted ==
  /\ \A t \in Txn : Published(t)
  /\ \A p \in Process : TerminalLast(memory[p])
  /\ \A p \in Runner : Accounts(p)

FullInv == IInv /\ Accounted

----------------------------------------------------------------------------
(***************************************************************************)
(* What the outcome of a transaction says of its target.  What a runner    *)
(* did, and how often, is known in any case; whether a recovery is right   *)
(* about it is known while recovery is NotMisled.                          *)
(***************************************************************************)

RestoreSteps == {"restore_recovery", "restore"}
RestoredSteps == {"record_restored", "restored_evidence", "restored_failed"}
OpenSteps == PreCommitSteps \union AppliedSteps \union RestoreSteps \union RestoredSteps

Uncommitted(h) == ~Reached(h, "COMMIT_AUTHORITY_VERIFIED")

\* Nothing leads back to a stage before the commit authority.
InOrder(h) == h # <<>> /\ StageOf(h) \in PreCommit => Uncommitted(h)

\* The commit of a transaction that has this history can no longer happen.
Prevented(h, t) == commits[t] = 0 /\ Terminated(LockToken(h))

Settled(t) ==
  /\ InOrder(journal[t])
  /\ Uncommitted(journal[t]) => commits[t] = 0
  /\ restores[t] <= commits[t]
  /\ commits[t] <= 1
  /\ NotMisled /\ IsBound(journal[t]) =>
       /\ StageOf(journal[t]) = "FINALIZED_SUCCESS" => commits[t] = 1 /\ restores[t] = 0
       /\ StageOf(journal[t]) = "FINALIZED_FAILED" => restores[t] = commits[t]
       /\ StageOf(journal[t]) = "RECOVERED" /\ ContentAddressed => Prevented(journal[t], t)

Remembered(p) ==
  /\ InOrder(memory[p])
  /\ IsBound(memory[p]) =>
       IsBound(journal[txn[p]]) /\ LockToken(journal[txn[p]]) = LockToken(memory[p])

\* A runner knows whether its replacement was applied and taken back, and as long as it
\* works on the target its journal is open.
Effects(p) ==
  /\ pc[p] = "fail_before" => commits[txn[p]] = 0
  /\ pc[p] \in AppliedSteps \union RestoreSteps => commits[txn[p]] = 1 /\ restores[txn[p]] = 0
  /\ pc[p] \in RestoredSteps => commits[txn[p]] = 1 /\ restores[txn[p]] = 1
  /\ pc[p] \in OpenSteps => StageOf(journal[txn[p]]) \notin Terminal
  /\ ContentAddressed => pc[p] \notin RestoreSteps \union RestoredSteps

\* A recoverer that will call the transaction failed has made sure that it cannot commit.
Evidence(p) ==
  /\ seen[p] \notin {"REPLACEMENT", "PREVIOUSLY_AUTHORIZED_APPLIED"}
  /\ pc[p] \in {"claim"} \union ClaimSteps => seen[p] \in Classifications
  /\ IsBound(memory[p]) /\ StageOf(memory[p]) = "RECOVERED" => Prevented(memory[p], txn[p])
  /\ pc[p] \in {"claim", "require"} /\ seen[p] = "NOT_APPLIED" => StageOf(memory[p]) \in PreCommit
  /\ \/ /\ pc[p] \in {"bind_evidence", "recovered_evidence", "recovered_final"}
        /\ seen[p] = "NOT_APPLIED"
     \/ pc[p] \in {"claim"} \union ClaimSteps /\ seen[p] = "RESTORED"
     => commits[txn[p]] = 0

Truthful ==
  /\ \A t \in Txn : Settled(t)
  /\ \A p \in Process : Remembered(p)
  /\ \A p \in Runner : Effects(p)
  /\ NotMisled => \A p \in Recoverer : Evidence(p)
  /\ NotMisled /\ Recoverer # {} => worktree \in EditorContent \union {InitialContent}

TruthInv == FullInv /\ Truthful
=============================================================================
