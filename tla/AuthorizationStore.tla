------------------------- MODULE AuthorizationStore -------------------------
(***************************************************************************)
(* The durable store that spends a human authorization once.               *)
(*                                                                         *)
(* adapters/natural-development-authorization-consumption-store.js keeps   *)
(* one envelope per authorization; natural-development-monotonic-witness.js*)
(* keeps, outside the store, a PREPARED and a COMMITTED event per change   *)
(* of it and a pointer to the last one; a lock file per authorization      *)
(* (natural-development-linearizable-consumption.js) surrounds the second  *)
(* change.  cli/natural-development-r3-composition.js claims the           *)
(* authorization, dispatches the mutation, and records its consumption.    *)
(*                                                                         *)
(* Processes interleave between the file operations.  A process ends       *)
(* anywhere, any call may throw, the key may be revoked and the store,     *)
(* but not the witness, may be put back to an earlier state.  An envelope  *)
(* or event that is half written, and a temporary file that is left, is    *)
(* refused by every load exactly as the PREPARED event or the pointer      *)
(* behind it is, so that neither is told apart here.                       *)
(***************************************************************************)
EXTENDS Naturals, Sequences

CONSTANTS
  Process,          \* processes working on the repository
  Authorization,    \* fingerprints of exact human authorizations
  NoAuthorization,  \* a process that works on none
  MaxGenerations    \* bound on the transitions prepared, for TLC

ASSUME StoreAssumption ==
  /\ NoAuthorization \notin Authorization
  /\ MaxGenerations \in Nat

VARIABLES
  provisioned,  \* does the store have an integrity context
  key,          \* lifecycle of the integrity key
  record,       \* the envelopes in the store
  witness,      \* generation -> its event: envelope, whole-store root, committed or not
  pointer,      \* generation the pointer names
  lock,         \* authorization -> owner of its lock file, or "none"
  pc,           \* process -> the operation it performs next
  job,          \* process -> the authorization it works on
  view,         \* process -> generation of the store it loaded
  dispatched    \* authorization -> mutations dispatched under it

storeVars == <<provisioned, key, record, witness, pointer, lock, pc, job, view, dispatched>>
durableVars == <<provisioned, key, record, witness, pointer>>

Claiming == {"claim_prepare", "claim_write", "claim_commit", "claim_point", "claim_reopen"}
Consuming == {"consume_load", "consume_prepare", "consume_write", "consume_commit",
              "consume_point", "consume_reopen", "consume_release"}
Steps == Claiming \union Consuming \union
         {"idle", "look", "looked", "prepared", "claimed", "dispatching", "evidence", "consumed"}

Envelope == [authorization : Authorization, generation : Nat, type : {"CLAIM", "CONSUME"}]
Event == [envelope : Envelope, root : SUBSET Envelope, committed : BOOLEAN]

\* The one type invariant.
StoreTypeOK ==
  /\ provisioned \in BOOLEAN
  /\ key \in {"ACTIVE", "REVOKED"}
  /\ record \in SUBSET Envelope
  /\ witness \in Seq(Event)
  /\ pointer \in Nat
  /\ lock \in [Authorization -> Process \union {"none"}]
  /\ pc \in [Process -> Steps]
  /\ job \in [Process -> Authorization \union {NoAuthorization}]
  /\ \A p \in Process : pc[p] = "idle" \/ job[p] \in Authorization
  /\ view \in [Process -> Nat]
  /\ dispatched \in [Authorization -> Nat]

StoreInit ==
  /\ provisioned \in BOOLEAN
  /\ key = "ACTIVE"
  /\ record = {}
  /\ witness = <<>>
  /\ pointer = 0
  /\ lock = [a \in Authorization |-> "none"]
  /\ pc = [p \in Process |-> "idle"]
  /\ job = [p \in Process |-> NoAuthorization]
  /\ view = [p \in Process |-> 0]
  /\ dispatched = [a \in Authorization |-> 0]

----------------------------------------------------------------------------
(***************************************************************************)
(* What a load of the store verifies, and the envelope a change makes.     *)
(***************************************************************************)

\* The whole-store root the witness committed at generation g.
CommittedRoot(g) == IF g = 0 THEN {} ELSE witness[g].root

WitnessVerifies ==
  /\ key = "ACTIVE"
  /\ \A g \in DOMAIN witness : witness[g].committed
  /\ pointer = Len(witness)

\* A mutation for TLC's runs: the store is believed whatever the witness says of it.
StoreVerifiesAlone == provisioned /\ WitnessVerifies

StoreVerifies ==
  /\ provisioned
  /\ WitnessVerifies
  /\ record = CommittedRoot(pointer)

Records(a) == {e \in record : e.authorization = a}

\* A change replaces whatever envelope the authorization had.
Replaced(envelopes, e) ==
  {x \in envelopes : x.authorization # e.authorization} \union {e}

NewEnvelope(p, type) ==
  [authorization |-> job[p], generation |-> view[p] + 1, type |-> type]

Goto(p, step) == pc' = [pc EXCEPT ![p] = step]

\* The process's call ends, whatever its answer.
End(p) ==
  /\ Goto(p, "idle")
  /\ job' = [job EXCEPT ![p] = NoAuthorization]
  /\ view' = [view EXCEPT ![p] = 0]

----------------------------------------------------------------------------
(***************************************************************************)
(* One change of the store: prepare, write, commit, point, load again.     *)
(***************************************************************************)

\* Compared with the view and created exclusively: one process wins each generation.
Prepare(p, from, to, type) ==
  /\ pc[p] = from
  /\ WitnessVerifies
  /\ pointer = view[p]
  /\ Len(witness) < MaxGenerations
  /\ LET e == NewEnvelope(p, type) IN
       witness' = Append(witness, [envelope |-> e, committed |-> FALSE,
                                   root |-> Replaced(CommittedRoot(view[p]), e)])
  /\ Goto(p, to)
  /\ UNCHANGED <<provisioned, key, record, pointer, lock, job, view, dispatched>>

\* The file of a claim is created exclusively, that of a consumption renamed over it.
Write(p, from, to, type) ==
  /\ pc[p] = from
  /\ type = "CLAIM" => Records(job[p]) = {}
  /\ record' = Replaced(record, NewEnvelope(p, type))
  /\ Goto(p, to)
  /\ UNCHANGED <<provisioned, key, witness, pointer, lock, job, view, dispatched>>

CommitEvent(p, from, to) ==
  /\ pc[p] = from
  /\ key = "ACTIVE"
  /\ pointer = view[p]
  /\ witness' = [witness EXCEPT ![view[p] + 1] =
                  [envelope |-> @.envelope, root |-> @.root, committed |-> TRUE]]
  /\ Goto(p, to)
  /\ UNCHANGED <<provisioned, key, record, pointer, lock, job, view, dispatched>>

MovePointer(p, from, to) ==
  /\ pc[p] = from
  /\ pointer' = view[p] + 1
  /\ Goto(p, to)
  /\ UNCHANGED <<provisioned, key, record, witness, lock, job, view, dispatched>>

\* The change is confirmed only while it is still the last one.
Reopen(p, from, to) ==
  /\ pc[p] = from
  /\ StoreVerifies
  /\ pointer = view[p] + 1
  /\ Goto(p, to)
  /\ UNCHANGED <<durableVars, lock, job, view, dispatched>>

Transition(p) ==
  \/ Prepare(p, "claim_prepare", "claim_write", "CLAIM")
  \/ Write(p, "claim_write", "claim_commit", "CLAIM")
  \/ CommitEvent(p, "claim_commit", "claim_point")
  \/ MovePointer(p, "claim_point", "claim_reopen")
  \/ Reopen(p, "claim_reopen", "claimed")
  \/ Prepare(p, "consume_prepare", "consume_write", "CONSUME")
  \/ Write(p, "consume_write", "consume_commit", "CONSUME")
  \/ CommitEvent(p, "consume_commit", "consume_point")
  \/ MovePointer(p, "consume_point", "consume_reopen")
  \/ Reopen(p, "consume_reopen", "consume_release")

----------------------------------------------------------------------------
(***************************************************************************)
(* One development: refuse a replay, claim, dispatch, consume.             *)
(***************************************************************************)

Start(p, a) ==
  /\ pc[p] = "idle"
  /\ Goto(p, "look")
  /\ job' = [job EXCEPT ![p] = a]
  /\ UNCHANGED <<durableVars, lock, view, dispatched>>

\* A prior envelope ends the call before anything is prepared; a repository that never
\* had a store has none.
Look(p) ==
  /\ pc[p] = "look"
  /\ provisioned => StoreVerifies /\ Records(job[p]) = {}
  /\ Goto(p, "looked")
  /\ UNCHANGED <<durableVars, lock, job, view, dispatched>>

\* The request is prepared: the observation, the clock and the grants are not the store's.
PrepareRequest(p) ==
  /\ pc[p] = "looked"
  /\ Goto(p, "prepared")
  /\ UNCHANGED <<durableVars, lock, job, view, dispatched>>

ClaimLoad(p) ==
  /\ pc[p] = "prepared"
  /\ StoreVerifies
  /\ Records(job[p]) = {}
  /\ view' = [view EXCEPT ![p] = pointer]
  /\ Goto(p, "claim_prepare")
  /\ UNCHANGED <<durableVars, lock, job, dispatched>>

\* A mutation for TLC's runs: the mutation is dispatched before it is claimed.
DispatchFirst(p) ==
  /\ pc[p] \in {"prepared", "claimed"}
  /\ dispatched' = [dispatched EXCEPT ![job[p]] = @ + 1]
  /\ Goto(p, "dispatching")
  /\ UNCHANGED <<durableVars, lock, job, view>>

Dispatch(p) ==
  /\ pc[p] = "claimed"
  /\ dispatched' = [dispatched EXCEPT ![job[p]] = @ + 1]
  /\ Goto(p, "dispatching")
  /\ UNCHANGED <<durableVars, lock, job, view>>

\* The orchestrator answered COMPLETED with the evidence of the swap.
Evidenced(p) ==
  /\ pc[p] = "dispatching"
  /\ Goto(p, "evidence")
  /\ UNCHANGED <<durableVars, lock, job, view, dispatched>>

\* Created exclusively; a lock that is left is never taken over.
AcquireLock(p) ==
  /\ pc[p] = "evidence"
  /\ lock[job[p]] = "none"
  /\ lock' = [lock EXCEPT ![job[p]] = p]
  /\ Goto(p, "consume_load")
  /\ UNCHANGED <<durableVars, job, view, dispatched>>

\* Only the claim may be consumed.
ConsumeLoad(p) ==
  /\ pc[p] = "consume_load"
  /\ StoreVerifies
  /\ \E e \in Records(job[p]) : e.type = "CLAIM"
  /\ view' = [view EXCEPT ![p] = pointer]
  /\ Goto(p, "consume_prepare")
  /\ UNCHANGED <<durableVars, lock, job, dispatched>>

\* The envelope is read once more before the lock goes.
ReleaseLock(p) ==
  /\ pc[p] = "consume_release"
  /\ StoreVerifies
  /\ \E e \in Records(job[p]) : e.type = "CONSUME"
  /\ lock' = [lock EXCEPT ![job[p]] = "none"]
  /\ Goto(p, "consumed")
  /\ UNCHANGED <<durableVars, job, view, dispatched>>

Finish(p) ==
  /\ pc[p] = "consumed"
  /\ End(p)
  /\ UNCHANGED <<durableVars, lock, dispatched>>

\* A mutation for TLC's runs: a call that throws withdraws the event it prepared.
FailWithdrawing(p) ==
  /\ pc[p] # "idle"
  /\ End(p)
  /\ lock' = IF pc[p] \in Consuming THEN [lock EXCEPT ![job[p]] = "none"] ELSE lock
  /\ witness' = SelectSeq(witness, LAMBDA e : e.committed)
  /\ UNCHANGED <<provisioned, key, record, pointer, dispatched>>

\* Any call may throw: a check refuses, a disk fails, another process was faster.  The
\* lock is released on the way out.
Fail(p) ==
  /\ pc[p] # "idle"
  /\ End(p)
  /\ lock' = IF pc[p] \in Consuming THEN [lock EXCEPT ![job[p]] = "none"] ELSE lock
  /\ UNCHANGED <<durableVars, dispatched>>

\* The process ends, and another takes its place: the lock file stays.
Crash(p) ==
  /\ pc[p] # "idle"
  /\ End(p)
  /\ UNCHANGED <<durableVars, lock, dispatched>>

----------------------------------------------------------------------------
(***************************************************************************)
(* What happens to the files from outside.                                 *)
(***************************************************************************)

\* The store is put back to what it was at a committed generation; the witness is not.
Rollback ==
  /\ \E g \in 0 .. pointer : record' = CommittedRoot(g)
  /\ UNCHANGED <<provisioned, key, witness, pointer, lock, pc, job, view, dispatched>>

Revoke ==
  /\ key = "ACTIVE"
  /\ key' = "REVOKED"
  /\ UNCHANGED <<provisioned, record, witness, pointer, lock, pc, job, view, dispatched>>

Develop(p) ==
  \/ \E a \in Authorization : Start(p, a)
  \/ Look(p)
  \/ PrepareRequest(p)
  \/ ClaimLoad(p)
  \/ Dispatch(p)
  \/ Evidenced(p)
  \/ AcquireLock(p)
  \/ ConsumeLoad(p)
  \/ ReleaseLock(p)
  \/ Finish(p)
  \/ Fail(p)
  \/ Crash(p)

StoreNext ==
  \/ \E p \in Process : Transition(p) \/ Develop(p)
  \/ Rollback
  \/ Revoke

StoreSpec == StoreInit /\ [][StoreNext]_storeVars

----------------------------------------------------------------------------
(***************************************************************************)
(* Properties.                                                             *)
(***************************************************************************)

Committed(type) ==
  {witness[g].envelope.authorization :
     g \in {i \in DOMAIN witness : witness[i].committed /\ witness[i].envelope.type = type}}

\* Whatever processes race, end or throw, and whatever earlier state the store is put
\* back to, no authorization dispatches a second mutation.
DispatchedAtMostOnce == \A a \in Authorization : dispatched[a] <= 1

\* What the witness has committed stays committed, and its pointer only moves forward.
WitnessIsAppendOnly ==
  [][/\ pointer' \in {pointer, pointer + 1}
     /\ Len(witness') >= Len(witness)
     /\ \A g \in DOMAIN witness :
          /\ witness'[g].envelope = witness[g].envelope
          /\ witness'[g].root = witness[g].root
          /\ witness[g].committed => witness'[g].committed]_storeVars

(***************************************************************************)
(* The same store as a ledger: what the events and the dispatches say of   *)
(* an authorization.                                                       *)
(***************************************************************************)
Standing(a) ==
  IF a \in Committed("CONSUME") THEN "CONSUMED"
  ELSE IF dispatched[a] > 0 THEN "DISPATCHED"
  ELSE IF a \in Committed("CLAIM") THEN "CLAIMED"
  ELSE "FREE"

Ledger == INSTANCE AuthorizationLedger
            WITH standing <- [a \in Authorization |-> Standing(a)]

\* The store implements the ledger: a mutation is dispatched only under a committed claim,
\* once, and only a dispatched authorization is recorded as consumed.
ImplementsLedger == Ledger!LSpec
=============================================================================
