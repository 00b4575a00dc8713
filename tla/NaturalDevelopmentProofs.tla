---------------------- MODULE NaturalDevelopmentProofs ----------------------
(***************************************************************************)
(* Proofs, for every set of processes, authorizations and contents, that   *)
(* natural development uses the store as the store allows, so that what is *)
(* proved of the store holds of a development with its mutation, its       *)
(* projection and its recovery; and that the invariant of                  *)
(* NaturalDevelopmentInvariant is inductive: what is consumed was applied, *)
(* a target that cannot be read belongs to somebody, the reconciliation    *)
(* says what is so, and from end to end a development is what              *)
(* AuthorizedPatch promises.                                               *)
(***************************************************************************)
EXTENDS NaturalDevelopmentInvariant, AuthorizationStoreProofs

\* Every step of a development is a step of the store or leaves it alone.
LEMMA StepIsStores ==
  ASSUME [Next]_devVars
  PROVE  [StoreNext]_storeVars
<1>1. CASE StoreStep
  BY <1>1 DEF StoreStep, StoreNext, Develop
<1>2. ASSUME NEW p \in Process, Prepared(p) PROVE StoreNext
  BY <1>2 DEF Prepared, StoreNext, Develop
<1>3. ASSUME NEW p \in Process,
             BeginPatch(p) \/ VerifyBefore(p) \/ Bootstrap(p) \/ Swap(p) \/ Project(p)
             \/ WriteProjection(p)
      PROVE  UNCHANGED storeVars
  BY <1>3 DEF BeginPatch, VerifyBefore, Bootstrap, Swap, Project, WriteProjection
<1>4. ASSUME NEW p \in Process, AnswerPatch(p) PROVE StoreNext
  BY <1>4 DEF AnswerPatch, StoreNext, Develop
<1>5. ASSUME NEW p \in Process, PatchEnds(p) PROVE StoreNext
  BY <1>5 DEF PatchEnds, StoreNext, Develop
<1>6. ASSUME NEW p \in Process, Validate(p) PROVE StoreNext
  BY <1>6 DEF Validate, StoreNext, Develop
<1>7. CASE (\E a \in Authorization : RecoverPatch(a)) \/ Synchronize \/ Materialize
  BY <1>7 DEF RecoverPatch, Synchronize, Materialize
<1>8. CASE UNCHANGED devVars
  BY <1>8 DEF devVars
<1> QED BY <1>1, <1>2, <1>3, <1>4, <1>5, <1>6, <1>7, <1>8 DEF Next

----------------------------------------------------------------------------
(***************************************************************************)
(* How a step of the store moves the processes of a development.           *)
(***************************************************************************)
Evidence == After \ {"dispatching"}

\* A process goes on to where nothing is known of it, dispatches what it has claimed, or
\* goes from one place after the evidence to another.
MovesOn(p) ==
  /\ \A q \in Process : q # p => pc'[q] = pc[q] /\ job'[q] = job[q]
  /\ \/ pc'[p] \notin After
     \/ pc[p] = "claimed" /\ pc'[p] = "dispatching" /\ job'[p] = job[p]
     \/ pc[p] \in Evidence /\ pc'[p] \in Evidence /\ job'[p] = job[p]

LEMMA TransitionMoves ==
  ASSUME StoreTypeOK, NEW p \in Process, Transition(p)
  PROVE  MovesOn(p) /\ pc[p] # "dispatching"
<1>1. ASSUME NEW from \in Steps, NEW to \in Steps, from # "dispatching",
             to \notin After \/ {from, to} \subseteq Evidence,
             pc[p] = from, Goto(p, to), UNCHANGED job
      PROVE  MovesOn(p) /\ pc[p] # "dispatching"
  BY <1>1 DEF MovesOn, Goto, StoreTypeOK
<1>2. PICK from \in Steps, to \in Steps :
        /\ pc[p] = from /\ Goto(p, to) /\ UNCHANGED job
        /\ \/ from = "claim_prepare" /\ to = "claim_write"
           \/ from = "claim_write" /\ to = "claim_commit"
           \/ from = "claim_commit" /\ to = "claim_point"
           \/ from = "claim_point" /\ to = "claim_reopen"
           \/ from = "claim_reopen" /\ to = "claimed"
           \/ from \in Consuming /\ to \in Consuming
  BY DEF Transition, Prepare, Write, CommitEvent, MovePointer, Reopen, Steps, Claiming, Consuming
<1>3. from # "dispatching" /\ (to \notin After \/ {from, to} \subseteq Evidence)
  BY <1>2 DEF After, Evidence, Consuming
<1> QED BY <1>1, <1>2, <1>3

LEMMA EndMoves ==
  ASSUME StoreTypeOK, NEW p \in Process, End(p)
  PROVE  MovesOn(p) /\ pc'[p] = "idle"
BY DEF MovesOn, End, Goto, StoreTypeOK, After, Consuming

LEMMA StoreStepMoves ==
  ASSUME StoreTypeOK, StoreStep \/ \E r \in Process : Prepared(r) \/ Validate(r)
  PROVE  \/ UNCHANGED <<pc, job>>
         \/ \E p \in Process : MovesOn(p) /\ pc[p] # "dispatching"
<1>1. ASSUME NEW p \in Process, Transition(p) PROVE MovesOn(p) /\ pc[p] # "dispatching"
  BY <1>1, TransitionMoves
<1>2. ASSUME NEW p \in Process,
             (\E a \in Authorization : Start(p, a)) \/ Look(p) \/ Prepared(p) \/ ClaimLoad(p)
             \/ Dispatch(p) \/ AcquireLock(p) \/ ConsumeLoad(p) \/ ReleaseLock(p)
      PROVE  MovesOn(p) /\ pc[p] # "dispatching"
  BY <1>2 DEF Start, Look, Prepared, PrepareRequest, ClaimLoad, Dispatch, AcquireLock,
              ConsumeLoad, ReleaseLock, MovesOn, Goto, StoreTypeOK, Evidence, After, Consuming
<1>3. ASSUME NEW p \in Process, (pc[p] # "dispatching" /\ (Fail(p) \/ Crash(p))) \/ Validate(p)
      PROVE  MovesOn(p) /\ pc[p] # "dispatching"
  <2>1. End(p) /\ pc[p] # "dispatching"
    BY <1>3 DEF Fail, Crash, Validate, Finish
  <2> QED BY <2>1, EndMoves
<1>4. Rollback \/ Revoke => UNCHANGED <<pc, job>>
  BY DEF Rollback, Revoke
<1> QED BY <1>1, <1>2, <1>3, <1>4 DEF StoreStep

\* A step adds an event of a consumption only for a process that was about to prepare it.
LEMMA ConsumptionsArePrepared ==
  ASSUME StoreInv, [StoreNext]_storeVars, NEW g \in DOMAIN witness',
         witness'[g].envelope.type = "CONSUME"
  PROVE  \/ g \in DOMAIN witness /\ witness'[g].envelope = witness[g].envelope
         \/ \E p \in Process : /\ pc[p] = "consume_prepare"
                               /\ witness'[g].envelope.authorization = job[p]
<1>1. StoreTypeOK /\ DOMAIN witness = 1 .. Len(witness) /\ Len(witness) \in Nat
  BY WitnessLength DEF StoreInv
<1>2. \A h \in DOMAIN witness : witness'[h].envelope = witness[h].envelope
  BY WitnessGrows
<1>3. ASSUME NEW p \in Process, NEW type \in {"CLAIM", "CONSUME"},
             NEW from \in {"claim_prepare", "consume_prepare"},
             NEW to \in {"claim_write", "consume_write"},
             Prepare(p, from, to, type), type = "CLAIM" \/ from = "consume_prepare"
      PROVE  \/ g \in DOMAIN witness
             \/ pc[p] = "consume_prepare" /\ witness'[g].envelope.authorization = job[p]
  <2>1. from \in Steps /\ to \in Steps /\ from # "idle"
    BY DEF Steps, Claiming, Consuming
  <2>2. /\ DOMAIN witness' = 1 .. Len(witness) + 1
        /\ view[p] = Len(witness)
        /\ witness'[view[p] + 1] =
             [envelope |-> NewEnvelope(p, type), committed |-> FALSE,
              root |-> Replaced(CommittedRoot(view[p]), NewEnvelope(p, type))]
    BY <1>1, <1>3, <2>1, PrepareAppends
  <2>3. witness'[view[p] + 1].envelope = NewEnvelope(p, type)
    BY <2>2
  <2>4. CASE g = view[p] + 1
    BY <1>3, <2>3, <2>4 DEF NewEnvelope, Prepare
  <2> QED BY <1>1, <2>2, <2>4
<1>4. ASSUME DOMAIN witness' = DOMAIN witness PROVE g \in DOMAIN witness
  BY <1>4
<1>5. ASSUME NEW p \in Process, Transition(p)
      PROVE  \/ UNCHANGED witness
             \/ Prepare(p, "claim_prepare", "claim_write", "CLAIM")
             \/ Prepare(p, "consume_prepare", "consume_write", "CONSUME")
             \/ CommitEvent(p, "claim_commit", "claim_point")
             \/ CommitEvent(p, "consume_commit", "consume_point")
  BY <1>5 DEF Transition, Write, MovePointer, Reopen, durableVars
<1>6. ASSUME NEW p \in Process, NEW from \in {"claim_commit", "consume_commit"}, NEW to,
             CommitEvent(p, from, to)
      PROVE  DOMAIN witness' = DOMAIN witness
  <2>1. pc[p] \in Pending
    BY <1>6 DEF CommitEvent, Pending
  <2>2. view[p] + 1 \in DOMAIN witness
    BY <2>1, PendingEvent
  <2> QED BY <1>1, <1>6, <2>2, CommitMarks DEF CommitEvent
<1>7. ASSUME NEW p \in Process, Develop(p) PROVE UNCHANGED witness
  BY <1>7 DEF Develop, Start, Look, PrepareRequest, ClaimLoad, Dispatch, Evidenced,
              AcquireLock, ConsumeLoad, ReleaseLock, Finish, Fail, Crash, durableVars
<1>8. CASE Rollback \/ Revoke \/ UNCHANGED storeVars
  BY <1>2, <1>8 DEF Rollback, Revoke, storeVars
<1>9. CASE \E p \in Process : Transition(p) \/ Develop(p)
  <2> PICK p \in Process : Transition(p) \/ Develop(p)
    BY <1>9
  <2>1. CASE UNCHANGED witness
    BY <1>2, <2>1
  <2>2. CASE Prepare(p, "claim_prepare", "claim_write", "CLAIM")
    BY <1>2, <1>3, <2>2
  <2>3. CASE Prepare(p, "consume_prepare", "consume_write", "CONSUME")
    BY <1>2, <1>3, <2>3
  <2>4. CASE \/ CommitEvent(p, "claim_commit", "claim_point")
             \/ CommitEvent(p, "consume_commit", "consume_point")
    BY <1>2, <1>4, <1>6, <2>4
  <2> QED BY <1>5, <1>7, <2>1, <2>2, <2>3, <2>4
<1> QED BY <1>8, <1>9 DEF StoreNext

----------------------------------------------------------------------------
(***************************************************************************)
(* What no step takes back.                                                *)
(***************************************************************************)

\* The steps of the governed mutation of one process.
PatchStep(p) ==
  BeginPatch(p) \/ VerifyBefore(p) \/ Bootstrap(p) \/ Swap(p) \/ Project(p)
  \/ WriteProjection(p) \/ AnswerPatch(p) \/ PatchEnds(p)

LEMMA InMutation ==
  ASSUME TypeOK, NEW p \in Process, stage[p] # "none"
  PROVE  pc[p] = "dispatching" /\ job[p] \in Authorization
BY DEF TypeOK, StoreTypeOK

LEMMA AnsweredStays ==
  ASSUME TypeOK, [Next]_devVars, NEW a \in Authorization, Answered(a)
  PROVE  Answered(a)'
<1>1. CASE \/ StoreStep
           \/ \E p \in Process : Prepared(p) \/ VerifyBefore(p) \/ Bootstrap(p) \/ Validate(p)
           \/ Synchronize \/ UNCHANGED devVars
  BY <1>1 DEF StoreStep, Prepared, VerifyBefore, Bootstrap, Validate, Synchronize, devVars,
              patchVars, treeVars, Answered
<1>2. ASSUME NEW p \in Process,
             BeginPatch(p) \/ Swap(p) \/ AnswerPatch(p) \/ PatchEnds(p)
      PROVE  Answered(a)'
  BY <1>2 DEF BeginPatch, Swap, AnswerPatch, PatchEnds, Patch!Begin, Patch!Apply, Patch!Answer,
              patchVars, treeVars, Answered, TypeOK
<1>3. ASSUME NEW p \in Process, Project(p) \/ WriteProjection(p) PROVE Answered(a)'
  <2>1. /\ projection \in [Content -> {"MISSING", "TORN", "MATCHED"}]
        /\ projection[Replacement[a]] = "MATCHED"
    BY DEF TypeOK, Answered
  <2>2. \/ UNCHANGED projection
        \/ /\ projection[content] # "MATCHED"
           /\ projection' = [projection EXCEPT ![content] = "TORN"]
        \/ projection' = [projection EXCEPT ![content] = "MATCHED"]
    BY <1>3 DEF Project, WriteProjection
  <2>3. Replacement[a] \in Content
    BY DEF Content
  <2>4. projection'[Replacement[a]] = "MATCHED"
    BY <2>1, <2>2, <2>3
  <2> QED BY <1>3, <2>4 DEF Project, WriteProjection, patchVars, Answered
<1>4. ASSUME NEW b \in Authorization, RecoverPatch(b) PROVE Answered(a)'
  BY <1>4 DEF RecoverPatch, treeVars, Answered, TypeOK
<1>5. CASE Materialize
  <2>1. projection'[Replacement[a]] = "MATCHED"
    BY <1>5 DEF Materialize, Answered, TypeOK
  <2> QED BY <1>5, <2>1 DEF Materialize, patchVars, Answered
<1> QED BY <1>1, <1>2, <1>3, <1>4, <1>5 DEF Next

\* The evidence stands for every process that is not new to it, for every event that is not
\* new, and for every report that is not new.
LEMMA EvidenceStands ==
  ASSUME IInv, [Next]_devVars, StoreInv',
         \A p \in Process : pc'[p] \in Evidence =>
           \/ pc[p] \in Evidence /\ job'[p] = job[p]
           \/ \E a \in Authorization : a = job'[p] /\ Answered(a)',
         \A a \in Authorization : report'[a] # "NONE" =>
           report[a] # "NONE" \/ Answered(a)
  PROVE  EvidenceFirst'
<1>1. TypeOK /\ StoreInv /\ EvidenceFirst /\ StoreTypeOK
  BY DEF IInv, StoreInv
<1>2. \A a \in Authorization : Answered(a) => Answered(a)'
  BY <1>1, AnsweredStays
<1>3. ASSUME NEW p \in Process, pc'[p] \in Evidence 
      PROVE  \E a \in Authorization : a = job'[p] /\ Answered(a)'
  <2>1. CASE pc[p] \in Evidence /\ job'[p] = job[p]
    <3>1. job[p] \in Authorization
      BY <1>1, <2>1 DEF StoreTypeOK, Evidence, After, Consuming
    <3>2. Answered(job[p])
      BY <1>1, <2>1 DEF EvidenceFirst, Evidence
    <3>3. PICK a \in Authorization : a = job[p]
      BY <3>1
    <3>4. Answered(a)'
      BY <1>2, <3>2, <3>3
    <3> QED BY <2>1, <3>3, <3>4
  <2> QED BY <1>3, <2>1
<1>4. ASSUME NEW g \in DOMAIN witness', witness'[g].envelope.type = "CONSUME"
      PROVE  \E a \in Authorization :
               a = witness'[g].envelope.authorization /\ Answered(a)'
  <2>1. [StoreNext]_storeVars
    BY StepIsStores
  <2>2. witness'[g].envelope.authorization \in Authorization
    <3>1. witness'[g] \in Event
      BY DEF StoreInv, StoreTypeOK
    <3> QED BY <3>1 DEF Event, Envelope
  <2>3. PICK a \in Authorization : a = witness'[g].envelope.authorization
    BY <2>2
  <2>4. Answered(a)
    <3>1. CASE g \in DOMAIN witness /\ witness'[g].envelope = witness[g].envelope
      BY <1>1, <1>4, <2>3, <3>1 DEF EvidenceFirst
    <3>2. ASSUME NEW p \in Process, pc[p] = "consume_prepare", a = job[p] PROVE Answered(a)
      BY <1>1, <3>2 DEF EvidenceFirst, After, Consuming
    <3> QED BY <1>1, <1>4, <2>1, <2>3, <3>1, <3>2, ConsumptionsArePrepared
  <2>5. Answered(a)'
    BY <1>2, <2>4
  <2> QED BY <2>3, <2>5
<1>5. ASSUME NEW a \in Authorization, report'[a] # "NONE" PROVE Answered(a)'
  BY <1>1, <1>2, <1>5 DEF EvidenceFirst
<1> QED BY <1>3, <1>4, <1>5 DEF EvidenceFirst, Evidence, Answered

----------------------------------------------------------------------------
(***************************************************************************)
(* The target.  A process that is in its mutation is there alone, since    *)
(* its transaction is the open one.                                        *)
(***************************************************************************)
TargetInv ==
  /\ OneOpen
  /\ StagesAreOpen
  /\ AuthorityFirst
  /\ StageProgress
  /\ FileIsAuthority
  /\ UnreadableIsOpen
  /\ UnreadableIsUnresolved

LEMMA MutatesAlone ==
  ASSUME IInv, NEW p \in Process, NEW q \in Process, stage[p] # "none", stage[q] # "none"
  PROVE  p = q
<1>1. /\ pc[p] = "dispatching" /\ pc[q] = "dispatching"
      /\ job[p] \in Authorization /\ job[q] \in Authorization
  BY InMutation DEF IInv
<1>2. outcome[job[p]] = "STARTED" /\ outcome[job[q]] = "STARTED"
  BY DEF IInv, StagesAreOpen
<1> QED BY <1>1, <1>2 DEF IInv, OneOpen, Open, DispatchersAreAlone

\* Steps that the mutations have no part in.
LEMMA SameTarget ==
  ASSUME IInv, UNCHANGED <<patchVars, worktree, manifested, projection, stage>>,
         \A p \in Process : stage[p] # "none" => job'[p] = job[p]
  PROVE  TargetInv'
<1>1. Observable' = Observable
  BY DEF Observable, patchVars
<1>2. OneOpen' /\ AuthorityFirst' /\ FileIsAuthority'
  BY DEF IInv, OneOpen, AuthorityFirst, FileIsAuthority, patchVars
<1>3. StagesAreOpen'
  BY DEF IInv, StagesAreOpen, patchVars
<1>4. StageProgress'
  BY <1>1 DEF IInv, StageProgress, patchVars, Swapped
<1>5. UnreadableIsOpen' /\ UnreadableIsUnresolved'
  BY <1>1 DEF IInv, UnreadableIsOpen, UnreadableIsUnresolved, patchVars
<1> QED BY <1>2, <1>3, <1>4, <1>5 DEF TargetInv

LEMMA BeginPatchStep ==
  ASSUME IInv, NEW p \in Process, BeginPatch(p)
  PROVE  TargetInv'
<1> DEFINE a == job[p]
<1>1. /\ a \in Authorization /\ outcome[a] = "OPEN"
      /\ \A b \in Authorization : outcome[b] \notin Open
      /\ outcome' = [outcome EXCEPT ![a] = "STARTED"]
      /\ UNCHANGED <<effect, content, authorized, job, worktree, manifested, projection>>
      /\ stage[p] = "none" /\ stage' = [stage EXCEPT ![p] = "before"]
      /\ stage \in [Process -> Stages]
      /\ outcome \in [Authorization -> Patch!Outcomes]
  BY DEF BeginPatch, Stage, Patch!Begin, Open, storeVars, treeVars, IInv, TypeOK, StoreTypeOK
<1>2. Observable /\ Observable'
  BY <1>1 DEF IInv, UnreadableIsUnresolved, Observable, Open
<1>3. \A q \in Process : stage[q] = "none"
  BY <1>1, InMutation DEF IInv, StagesAreOpen, Open
<1>4. a \notin authorized
  BY <1>1 DEF IInv, AuthorityFirst
<1>5. OneOpen'
  BY <1>1 DEF OneOpen, Open
<1>6. StagesAreOpen'
  BY <1>1, <1>3 DEF StagesAreOpen
<1>7. AuthorityFirst'
  BY <1>1 DEF IInv, AuthorityFirst
<1>8. StageProgress'
  BY <1>1, <1>2, <1>3, <1>4 DEF StageProgress, Swapped
<1>9. FileIsAuthority' /\ UnreadableIsOpen' /\ UnreadableIsUnresolved'
  BY <1>1, <1>2 DEF IInv, FileIsAuthority, UnreadableIsOpen, UnreadableIsUnresolved
<1> QED BY <1>5, <1>6, <1>7, <1>8, <1>9 DEF TargetInv

\* What a step within a mutation starts from.
LEMMA WithinMutation ==
  ASSUME IInv, NEW p \in Process, stage[p] # "none"
  PROVE  /\ job[p] \in Authorization /\ outcome[job[p]] = "STARTED" /\ pc[p] = "dispatching"
         /\ \A b \in Authorization : outcome[b] \in Open => b = job[p]
         /\ \A q \in Process : stage[q] # "none" => q = p
         /\ stage \in [Process -> Stages]
BY InMutation, MutatesAlone DEF IInv, TypeOK, StagesAreOpen, OneOpen, Open

LEMMA VerifyBeforeStep ==
  ASSUME IInv, NEW p \in Process, VerifyBefore(p)
  PROVE  TargetInv'
<1> DEFINE a == job[p]
<1>1. /\ stage[p] = "before" /\ stage' = [stage EXCEPT ![p] = "bootstrap"]
      /\ worktree = Before[a] /\ authorized' = authorized \union {a}
      /\ UNCHANGED <<outcome, effect, content, job, worktree, manifested, projection>>
  BY DEF VerifyBefore, Stage, storeVars, treeVars
<1>2. /\ a \in Authorization /\ outcome[a] = "STARTED" /\ pc[p] = "dispatching"
      /\ \A b \in Authorization : outcome[b] \in Open => b = a
      /\ \A q \in Process : stage[q] # "none" => q = p
      /\ stage \in [Process -> Stages]
  BY <1>1, WithinMutation
<1>3. a \notin authorized /\ Observable /\ Observable'
  BY <1>1 DEF IInv, StageProgress, Observable
<1>4. effect[a] = "NONE"
  BY <1>2, <1>3 DEF IInv, AuthorityFirst
<1>5. OneOpen' /\ StagesAreOpen'
  BY <1>1, <1>2 DEF IInv, OneOpen, StagesAreOpen
<1>6. AuthorityFirst'
  BY <1>1, <1>2 DEF IInv, AuthorityFirst
<1>7. StageProgress'
  BY <1>1, <1>2, <1>3, <1>4 DEF StageProgress, Swapped
<1>8. FileIsAuthority' /\ UnreadableIsOpen' /\ UnreadableIsUnresolved'
  BY <1>1, <1>3 DEF IInv, FileIsAuthority, UnreadableIsOpen, UnreadableIsUnresolved
<1> QED BY <1>5, <1>6, <1>7, <1>8 DEF TargetInv

LEMMA BootstrapStep ==
  ASSUME IInv, NEW p \in Process, Bootstrap(p)
  PROVE  TargetInv'
<1> DEFINE a == job[p]
<1>1. /\ stage[p] = "bootstrap" /\ stage' = [stage EXCEPT ![p] = "swap"]
      /\ IF manifested THEN Reads(a) ELSE worktree = Before[a]
      /\ manifested' = TRUE
      /\ UNCHANGED <<outcome, effect, content, authorized, job, worktree, projection>>
  BY DEF Bootstrap, Stage, storeVars, patchVars
<1>2. /\ a \in Authorization /\ outcome[a] = "STARTED" /\ pc[p] = "dispatching"
      /\ \A b \in Authorization : outcome[b] \in Open => b = a
      /\ \A q \in Process : stage[q] # "none" => q = p
      /\ stage \in [Process -> Stages]
  BY <1>1, WithinMutation
<1>3. a \in authorized /\ effect[a] = "NONE" /\ worktree \in {Before[a], content}
  BY <1>1 DEF IInv, StageProgress
<1>4. worktree = Before[a] /\ content = Before[a]
  BY <1>1, <1>3 DEF IInv, FileIsAuthority, Reads
<1>5. OneOpen' /\ StagesAreOpen' /\ AuthorityFirst' /\ FileIsAuthority'
  BY <1>1, <1>2 DEF IInv, OneOpen, StagesAreOpen, AuthorityFirst, FileIsAuthority
<1>6. StageProgress'
  BY <1>1, <1>2, <1>3, <1>4 DEF StageProgress, Swapped
<1>7. UnreadableIsOpen' /\ UnreadableIsUnresolved'
  BY <1>1, <1>2, <1>3, <1>4 DEF UnreadableIsOpen, UnreadableIsUnresolved, Open
<1> QED BY <1>5, <1>6, <1>7 DEF TargetInv

LEMMA SwapStep ==
  ASSUME IInv, NEW p \in Process, Swap(p)
  PROVE  TargetInv'
<1> DEFINE a == job[p]
<1>1. /\ stage[p] = "swap" /\ stage' = [stage EXCEPT ![p] = "project"]
      /\ content' = Replacement[a] /\ effect' = [effect EXCEPT ![a] = "APPLIED"]
      /\ UNCHANGED <<outcome, authorized, job, worktree, manifested, projection>>
      /\ effect \in [Authorization -> {"NONE", "APPLIED", "UNDONE"}]
  BY DEF Swap, Stage, Patch!Apply, storeVars, treeVars, IInv, TypeOK
<1>2. /\ a \in Authorization /\ outcome[a] = "STARTED" /\ pc[p] = "dispatching"
      /\ \A b \in Authorization : outcome[b] \in Open => b = a
      /\ \A q \in Process : stage[q] # "none" => q = p
      /\ stage \in [Process -> Stages]
  BY <1>1, WithinMutation
<1>3. a \in authorized /\ manifested /\ worktree = Before[a]
  BY <1>1 DEF IInv, StageProgress
<1>4. OneOpen' /\ StagesAreOpen' /\ FileIsAuthority'
  BY <1>1, <1>2, <1>3 DEF IInv, OneOpen, StagesAreOpen, FileIsAuthority
<1>5. AuthorityFirst'
  BY <1>1, <1>2, <1>3 DEF IInv, AuthorityFirst
<1>6. StageProgress'
  BY <1>1, <1>2, <1>3 DEF StageProgress, Swapped
<1>7. UnreadableIsOpen' /\ UnreadableIsUnresolved'
  BY <1>1, <1>2, <1>3 DEF UnreadableIsOpen, UnreadableIsUnresolved, Open
<1> QED BY <1>4, <1>5, <1>6, <1>7 DEF TargetInv

LEMMA ProjectStep ==
  ASSUME IInv, NEW p \in Process, Project(p) \/ WriteProjection(p)
  PROVE  TargetInv'
<1> DEFINE a == job[p]
<1>1. /\ stage[p] \in {"project", "write"}
      /\ \/ stage' = [stage EXCEPT ![p] = "write"] /\ projection[content] # "MATCHED"
         \/ stage' = [stage EXCEPT ![p] = "answer"] /\ projection'[content] = "MATCHED"
      /\ UNCHANGED <<outcome, effect, content, authorized, job, worktree, manifested>>
  BY DEF Project, WriteProjection, Stage, storeVars, patchVars, IInv, TypeOK
<1>2. /\ a \in Authorization /\ outcome[a] = "STARTED" /\ pc[p] = "dispatching"
      /\ \A b \in Authorization : outcome[b] \in Open => b = a
      /\ \A q \in Process : stage[q] # "none" => q = p
      /\ stage \in [Process -> Stages]
  BY <1>1, WithinMutation
<1>3. effect[a] = "APPLIED" /\ manifested /\ content = Replacement[a]
  BY <1>1 DEF IInv, StageProgress, Swapped
<1>4. Observable => Observable' /\ stage' = [stage EXCEPT ![p] = "answer"]
  BY <1>1, <1>3 DEF Observable
<1>5. OneOpen' /\ StagesAreOpen' /\ AuthorityFirst' /\ FileIsAuthority'
  BY <1>1, <1>2 DEF IInv, OneOpen, StagesAreOpen, AuthorityFirst, FileIsAuthority
<1>6. StageProgress'
  BY <1>1, <1>2, <1>3 DEF StageProgress, Swapped
<1>7. UnreadableIsOpen' /\ UnreadableIsUnresolved'
  BY <1>1, <1>2, <1>4 DEF IInv, UnreadableIsOpen, UnreadableIsUnresolved, Open
<1> QED BY <1>5, <1>6, <1>7 DEF TargetInv

\* A process leaves its mutation with an answer, or without one.
LEMMA LeavesStep ==
  ASSUME IInv, NEW p \in Process, AnswerPatch(p) \/ PatchEnds(p)
  PROVE  TargetInv'
<1> DEFINE a == job[p]
<1>1. /\ stage' = [stage EXCEPT ![p] = "none"]
      /\ pc[p] = "dispatching" /\ a \in Authorization
      /\ stage \in [Process -> Stages]
      /\ outcome \in [Authorization -> Patch!Outcomes]
      /\ UNCHANGED <<effect, content, authorized, worktree, manifested, projection>>
  BY DEF AnswerPatch, PatchEnds, Stage, Evidenced, Patch!Answer, storeVars, patchVars, treeVars,
         IInv, TypeOK, StoreTypeOK
<1>2. \A q \in Process : q # p => job'[q] = job[q]
  BY DEF AnswerPatch, PatchEnds, Evidenced, Fail, Crash, End, IInv, TypeOK, StoreTypeOK
<1>3. Observable' = Observable
  BY <1>1 DEF Observable
<1>4. CASE UNCHANGED outcome
  <2>1. OneOpen' /\ AuthorityFirst' /\ FileIsAuthority'
    BY <1>1, <1>4 DEF IInv, OneOpen, AuthorityFirst, FileIsAuthority
  <2>2. StagesAreOpen'
    BY <1>1, <1>2, <1>4 DEF IInv, StagesAreOpen
  <2>3. StageProgress'
    BY <1>1, <1>2, <1>3 DEF IInv, StageProgress, Swapped
  <2>4. UnreadableIsOpen' /\ UnreadableIsUnresolved'
    BY <1>1, <1>3, <1>4 DEF IInv, UnreadableIsOpen, UnreadableIsUnresolved
  <2> QED BY <2>1, <2>2, <2>3, <2>4 DEF TargetInv
<1>5. ASSUME NEW answer \in {"SUCCESS", "FAILED"},
             outcome' = [outcome EXCEPT ![a] = answer],
             stage[p] # "none", Observable, answer = "FAILED" => a \notin authorized
      PROVE  TargetInv'
  <2>1. \A q \in Process : stage[q] # "none" => q = p
    BY <1>5, WithinMutation
  <2>2. \A q \in Process : stage'[q] = "none"
    BY <1>1, <2>1
  <2>3. OneOpen'
    BY <1>1, <1>5 DEF IInv, OneOpen, Open
  <2>4. AuthorityFirst'
    BY <1>1, <1>5 DEF IInv, AuthorityFirst
  <2>5. FileIsAuthority' /\ StagesAreOpen' /\ StageProgress'
    BY <1>1, <2>2 DEF IInv, FileIsAuthority, StagesAreOpen, StageProgress, Swapped
  <2>6. UnreadableIsOpen' /\ UnreadableIsUnresolved'
    BY <1>3, <1>5 DEF UnreadableIsOpen, UnreadableIsUnresolved
  <2> QED BY <2>3, <2>4, <2>5, <2>6 DEF TargetInv
<1>6. CASE AnswerPatch(p)
  <2>1. stage[p] = "answer" /\ outcome' = [outcome EXCEPT ![a] = "SUCCESS"]
    BY <1>1, <1>6 DEF AnswerPatch, Stage, Patch!Answer
  <2>2. Observable
    BY <2>1 DEF IInv, StageProgress, Observable
  <2> QED BY <1>5, <2>1, <2>2
<1>7. CASE PatchEnds(p) /\ ~UNCHANGED outcome
  <2>1. stage[p] = "before" /\ outcome' = [outcome EXCEPT ![a] = "FAILED"]
    BY <1>1, <1>7 DEF PatchEnds, patchVars, Patch!Answer
  <2>2. Observable /\ a \notin authorized
    BY <2>1 DEF IInv, StageProgress
  <2> QED BY <1>5, <2>1, <2>2
<1> QED BY <1>4, <1>6, <1>7

LEMMA RecoverPatchStep ==
  ASSUME IInv, NEW a \in Authorization, RecoverPatch(a)
  PROVE  TargetInv'
<1>1. /\ outcome[a] = "STARTED" /\ outcome' = [outcome EXCEPT ![a] = Recovered(a)]
      /\ UNCHANGED <<effect, content, authorized, worktree, manifested, projection, stage, job>>
      /\ outcome \in [Authorization -> Patch!Outcomes]
  BY DEF RecoverPatch, storeVars, treeVars, IInv, TypeOK
<1>2. \A q \in Process : stage[q] = "none"
  <2> SUFFICES ASSUME NEW q \in Process, stage[q] # "none" PROVE FALSE
    OBVIOUS
  <2>1. pc[q] = "dispatching" /\ job[q] = a
    BY <1>1, WithinMutation DEF Open
  <2> QED BY <2>1 DEF RecoverPatch, Dispatching
<1>3. /\ Recovered(a) \in {"SUCCESS", "FAILED", "UNRESOLVED"}
      /\ Recovered(a) = "FAILED" => a \notin authorized
      /\ a \in authorized /\ worktree = Before[a] => Recovered(a) = "UNRESOLVED"
  BY DevelopmentAssumption DEF Recovered
<1>4. Observable' = Observable
  BY <1>1 DEF Observable
<1>5. OneOpen'
  BY <1>1 DEF IInv, OneOpen, Open
<1>6. AuthorityFirst'
  BY <1>1, <1>3 DEF IInv, AuthorityFirst
<1>7. FileIsAuthority' /\ StagesAreOpen' /\ StageProgress'
  BY <1>1, <1>2 DEF IInv, FileIsAuthority, StagesAreOpen, StageProgress, Swapped
<1>8. UnreadableIsOpen'
  BY <1>1, <1>3, <1>4 DEF IInv, UnreadableIsOpen
<1>9. UnreadableIsUnresolved'
  <2>1. CASE Observable
    BY <1>4, <2>1 DEF UnreadableIsUnresolved
  <2>2. CASE ~Observable
    <3>1. Recovered(a) = "UNRESOLVED"
      BY <1>1, <1>3, <2>2 DEF IInv, UnreadableIsOpen
    <3> QED BY <1>1, <3>1 DEF UnreadableIsUnresolved
  <2> QED BY <2>1, <2>2
<1> QED BY <1>5, <1>6, <1>7, <1>8, <1>9 DEF TargetInv

LEMMA HumanStep ==
  ASSUME IInv, Synchronize \/ Materialize
  PROVE  TargetInv'
<1>1. /\ Observable' /\ UNCHANGED <<outcome, effect, content, authorized, manifested, stage, job>>
      /\ worktree' \in {worktree, content}
      /\ projection[content] = "MATCHED" => projection'[content] = "MATCHED"
      /\ ~manifested => worktree' = content
  BY DEF Synchronize, Materialize, Observable, storeVars, patchVars, IInv, TypeOK, FileIsAuthority
<1>2. OneOpen' /\ StagesAreOpen' /\ AuthorityFirst' /\ FileIsAuthority'
  BY <1>1 DEF IInv, OneOpen, StagesAreOpen, AuthorityFirst, FileIsAuthority
<1>3. StageProgress'
  BY <1>1 DEF IInv, StageProgress, Swapped
<1>4. UnreadableIsOpen' /\ UnreadableIsUnresolved'
  BY <1>1 DEF UnreadableIsOpen, UnreadableIsUnresolved
<1> QED BY <1>2, <1>3, <1>4 DEF TargetInv

----------------------------------------------------------------------------
(***************************************************************************)
(* The processes and the evidence.                                         *)
(***************************************************************************)
LEMMA StoreStepKeepsTarget ==
  ASSUME IInv, StoreStep \/ \E r \in Process : Prepared(r) \/ Validate(r)
  PROVE  TargetInv' /\ \A p \in Process : stage'[p] # "none" => pc'[p] = "dispatching"
<1>1. TypeOK /\ StoreTypeOK
  BY DEF IInv, TypeOK
<1>2. UNCHANGED <<patchVars, worktree, manifested, projection, stage>>
  BY DEF StoreStep, Prepared, Validate, treeVars
<1>3. \A p \in Process : stage[p] # "none" => job'[p] = job[p] /\ pc'[p] = pc[p]
  BY <1>1, StoreStepMoves DEF MovesOn, TypeOK
<1>4. TargetInv'
  BY <1>2, <1>3, SameTarget
<1> QED BY <1>1, <1>2, <1>3, <1>4 DEF TypeOK

LEMMA TargetStep ==
  ASSUME IInv, [Next]_devVars
  PROVE  TargetInv'
<1>1. CASE StoreStep \/ \E p \in Process : Prepared(p) \/ Validate(p)
  BY <1>1, StoreStepKeepsTarget
<1>2. ASSUME NEW p \in Process, PatchStep(p) PROVE TargetInv'
  BY <1>2, BeginPatchStep, VerifyBeforeStep, BootstrapStep, SwapStep, ProjectStep, LeavesStep
     DEF PatchStep
<1>3. CASE (\E a \in Authorization : RecoverPatch(a)) \/ Synchronize \/ Materialize
  BY <1>3, RecoverPatchStep, HumanStep
<1>4. CASE UNCHANGED devVars
  BY <1>4, SameTarget DEF devVars, storeVars, patchVars
<1> QED BY <1>1, <1>2, <1>3, <1>4 DEF Next, PatchStep

\* Where the processes are after a step of a mutation.
LEMMA PatchStepMoves ==
  ASSUME IInv, NEW p \in Process, PatchStep(p)
  PROVE  /\ \A q \in Process : q # p => pc'[q] = pc[q] /\ job'[q] = job[q]
         /\ \/ pc'[p] = pc[p] /\ job'[p] = job[p] /\ pc[p] = "dispatching"
            \/ pc'[p] = "idle" /\ stage'[p] = "none"
            \/ AnswerPatch(p) /\ pc'[p] = "evidence" /\ job'[p] = job[p] /\ stage'[p] = "none"
         /\ \A q \in Process : q # p => stage'[q] = stage[q]
<1>1. TypeOK /\ StoreTypeOK
  BY DEF IInv, TypeOK
<1>2. CASE BeginPatch(p) \/ VerifyBefore(p) \/ Bootstrap(p) \/ Swap(p) \/ Project(p)
           \/ WriteProjection(p)
  BY <1>1, <1>2 DEF BeginPatch, VerifyBefore, Bootstrap, Swap, Project, WriteProjection, Stage,
                    TypeOK, storeVars
<1>3. CASE AnswerPatch(p)
  BY <1>1, <1>3 DEF AnswerPatch, Evidenced, Goto, Stage, TypeOK, StoreTypeOK
<1>4. CASE PatchEnds(p)
  BY <1>1, <1>4 DEF PatchEnds, Fail, Crash, End, Goto, TypeOK, StoreTypeOK
<1> QED BY <1>2, <1>3, <1>4 DEF PatchStep

LEMMA DispatchersStep ==
  ASSUME IInv, [Next]_devVars
  PROVE  DispatchersAreAlone'
<1>1. TypeOK /\ StoreInv /\ StoreTypeOK /\ DispatchersAreAlone
  BY DEF IInv, StoreInv
<1>2. CASE UNCHANGED <<pc, job>>
  BY <1>1, <1>2 DEF DispatchersAreAlone
<1>3. ASSUME NEW p \in Process, MovesOn(p) PROVE DispatchersAreAlone'
  <2>1. CASE pc'[p] # "dispatching"
    BY <1>1, <1>3, <2>1 DEF MovesOn, DispatchersAreAlone
  <2>2. CASE pc'[p] = "dispatching"
    <3>1. pc[p] = "claimed" /\ job'[p] = job[p]
      BY <1>3, <2>2 DEF MovesOn, After, Evidence
    <3>2. dispatched[job[p]] = 0
      BY <1>1, <3>1 DEF StoreInv, OwnersHoldClaims, ClaimOwner
    <3>3. \A q \in Process : pc[q] = "dispatching" => dispatched[job[q]] > 0
      BY <1>1 DEF StoreInv, AfterDispatch, After
    <3> QED BY <1>1, <1>3, <3>1, <3>2, <3>3 DEF MovesOn, DispatchersAreAlone
  <2> QED BY <2>1, <2>2
<1>4. ASSUME NEW p \in Process, PatchStep(p) PROVE DispatchersAreAlone'
  BY <1>1, <1>4, PatchStepMoves DEF DispatchersAreAlone
<1>5. CASE StoreStep \/ \E r \in Process : Prepared(r) \/ Validate(r)
  BY <1>1, <1>2, <1>3, <1>5, StoreStepMoves
<1>6. CASE (\E a \in Authorization : RecoverPatch(a)) \/ Synchronize \/ Materialize
           \/ UNCHANGED devVars
  BY <1>2, <1>6 DEF RecoverPatch, Synchronize, Materialize, devVars, storeVars
<1> QED BY <1>4, <1>5, <1>6 DEF Next, PatchStep

LEMMA EvidenceStep ==
  ASSUME IInv, [Next]_devVars, StoreInv'
  PROVE  EvidenceFirst'
<1>1. TypeOK /\ StoreInv /\ StoreTypeOK /\ EvidenceFirst
  BY DEF IInv, StoreInv
<1>2. CASE StoreStep \/ \E p \in Process : Prepared(p)
  <2>1. UNCHANGED report
    BY <1>2 DEF StoreStep, Prepared, treeVars
  <2>2. \A p \in Process : pc'[p] \in Evidence => pc[p] \in Evidence /\ job'[p] = job[p]
    BY <1>1, <1>2, StoreStepMoves DEF MovesOn, Evidence
  <2> QED BY <2>1, <2>2, EvidenceStands
<1>3. ASSUME NEW p \in Process, Validate(p) PROVE EvidenceFirst'
  <2>1. \A q \in Process : pc'[q] \in Evidence => pc[q] \in Evidence /\ job'[q] = job[q]
    BY <1>1, <1>3, StoreStepMoves DEF MovesOn, Evidence
  <2>2. job[p] \in Authorization /\ Answered(job[p])
    BY <1>1, <1>3 DEF Validate, Finish, EvidenceFirst, After, StoreTypeOK
  <2>3. \A a \in Authorization : a # job[p] => report'[a] = report[a]
    BY <1>1, <1>3 DEF Validate, TypeOK
  <2> QED BY <2>1, <2>2, <2>3, EvidenceStands
<1>4. ASSUME NEW p \in Process, PatchStep(p) PROVE EvidenceFirst'
  <2>1. UNCHANGED report
    BY <1>4 DEF PatchStep, BeginPatch, VerifyBefore, Bootstrap, Swap, Project, WriteProjection,
                AnswerPatch, PatchEnds, treeVars
  <2>2. ASSUME AnswerPatch(p)
        PROVE  \E a \in Authorization : a = job'[p] /\ Answered(a)'
    <3>1. stage[p] = "answer" /\ job'[p] = job[p] /\ job[p] \in Authorization
          /\ outcome'[job[p]] = "SUCCESS" /\ UNCHANGED <<effect, content, projection>>
      BY <1>1, <2>2 DEF AnswerPatch, Stage, Evidenced, Patch!Answer, treeVars, TypeOK,
                        StoreTypeOK
    <3>2. /\ effect[job[p]] = "APPLIED" /\ content = Replacement[job[p]]
          /\ projection[content] = "MATCHED"
      BY <3>1 DEF IInv, StageProgress, Swapped
    <3> QED BY <3>1, <3>2 DEF Answered
  <2>3. \A q \in Process : pc'[q] \in Evidence =>
          \/ pc[q] \in Evidence /\ job'[q] = job[q]
          \/ \E a \in Authorization : a = job'[q] /\ Answered(a)'
    BY <1>4, <2>2, PatchStepMoves DEF Evidence, After, Consuming
  <2> QED BY <2>1, <2>3, EvidenceStands
<1>5. CASE (\E a \in Authorization : RecoverPatch(a)) \/ Synchronize \/ Materialize
           \/ UNCHANGED devVars
  <2>1. UNCHANGED <<pc, job, report>>
    BY <1>5 DEF RecoverPatch, Synchronize, Materialize, devVars, storeVars, treeVars
  <2> QED BY <2>1, EvidenceStands
<1> QED BY <1>2, <1>3, <1>4, <1>5 DEF Next, PatchStep

----------------------------------------------------------------------------
(***************************************************************************)
(* The types, and the invariant.                                           *)
(***************************************************************************)
LEMMA ContentTypes ==
  ASSUME NEW a \in Authorization
  PROVE  Replacement[a] \in Content /\ InitialContent \in Content
BY DEF Content

LEMMA DevelopmentTypes ==
  ASSUME IInv, [Next]_devVars, StoreInv'
  PROVE  TypeOK'
<1>1. TypeOK /\ StoreTypeOK /\ StoreTypeOK'
  BY DEF IInv, TypeOK, StoreInv
<1>2. CASE StoreStep \/ \E p \in Process : Prepared(p)
  <2>1. UNCHANGED <<patchVars, treeVars, stage>>
    BY <1>2 DEF StoreStep, Prepared
  <2>2. \A p \in Process : stage'[p] # "none" => pc'[p] = "dispatching"
    BY <1>2, StoreStepKeepsTarget
  <2> QED BY <1>1, <2>1, <2>2 DEF TypeOK, patchVars, treeVars
<1>3. ASSUME NEW p \in Process, Validate(p) PROVE TypeOK'
  <2>1. UNCHANGED <<patchVars, worktree, manifested, projection, stage>>
    BY <1>3 DEF Validate
  <2>2. \A q \in Process : stage'[q] # "none" => pc'[q] = "dispatching"
    BY <1>3, StoreStepKeepsTarget
  <2>3. report' \in [Authorization -> {"NONE", "VALIDATED", "CORRECTION_REQUIRED", "STOPPED"}]
    BY <1>1, <1>3 DEF Validate, TypeOK
  <2> QED BY <1>1, <2>1, <2>2, <2>3 DEF TypeOK, patchVars
<1>4. ASSUME NEW p \in Process, PatchStep(p) PROVE TypeOK'
  <2>1. \A q \in Process : stage'[q] # "none" => pc'[q] = "dispatching"
    BY <1>1, <1>4, PatchStepMoves DEF TypeOK
  <2>2. stage' \in [Process -> Stages]
    BY <1>1, <1>4 DEF PatchStep, BeginPatch, VerifyBefore, Bootstrap, Swap, Project,
                      WriteProjection, AnswerPatch, PatchEnds, Stage, TypeOK, Stages
  <2>3. outcome' \in [Authorization -> Patch!Outcomes]
    BY <1>1, <1>4 DEF PatchStep, BeginPatch, VerifyBefore, Bootstrap, Swap, Project,
                      WriteProjection, AnswerPatch, PatchEnds, patchVars, TypeOK, Patch!Outcomes,
                      Patch!Begin, Patch!Apply, Patch!Answer
  <2>4. /\ effect' \in [Authorization -> {"NONE", "APPLIED", "UNDONE"}]
        /\ authorized' \subseteq Authorization /\ manifested' \in BOOLEAN
        /\ UNCHANGED <<worktree, report>>
    <3>1. VerifyBefore(p) => job[p] \in Authorization
      BY <1>1, InMutation DEF VerifyBefore, Stage
    <3> QED BY <1>1, <1>4, <3>1 DEF PatchStep, BeginPatch, VerifyBefore, Bootstrap, Swap,
              Project, WriteProjection, AnswerPatch, PatchEnds, patchVars, treeVars, TypeOK,
              Patch!Begin, Patch!Apply, Patch!Answer
  <2>5. content' \in Content
    <3>1. CASE Swap(p)
      <4>1. job[p] \in Authorization /\ content' = Replacement[job[p]]
        BY <1>1, <3>1, InMutation DEF Swap, Stage, Patch!Apply
      <4> QED BY <4>1, ContentTypes
    <3>2. CASE UNCHANGED content
      BY <1>1, <3>2 DEF TypeOK
    <3> QED BY <1>4, <3>1, <3>2 DEF PatchStep, BeginPatch, VerifyBefore, Bootstrap, Project,
              WriteProjection, AnswerPatch, PatchEnds, patchVars, Patch!Begin, Patch!Answer
  <2>6. projection' \in [Content -> {"MISSING", "TORN", "MATCHED"}]
    BY <1>1, <1>4 DEF PatchStep, BeginPatch, VerifyBefore, Bootstrap, Swap, Project,
                      WriteProjection, AnswerPatch, PatchEnds, treeVars, TypeOK
  <2> QED BY <1>1, <2>1, <2>2, <2>3, <2>4, <2>5, <2>6 DEF TypeOK
<1>5. ASSUME NEW a \in Authorization, RecoverPatch(a) PROVE TypeOK'
  <2>1. Recovered(a) \in {"SUCCESS", "FAILED", "UNRESOLVED"}
    BY DEF Recovered
  <2>2. outcome' \in [Authorization -> Patch!Outcomes]
    BY <1>1, <1>5, <2>1 DEF RecoverPatch, TypeOK, Patch!Outcomes
  <2> QED BY <1>1, <1>5, <2>2 DEF RecoverPatch, TypeOK, storeVars, treeVars
<1>6. CASE Synchronize \/ Materialize
  BY <1>1, <1>6 DEF Synchronize, Materialize, TypeOK, storeVars, patchVars
<1>7. CASE UNCHANGED devVars
  BY <1>1, <1>7 DEF TypeOK, devVars, storeVars, patchVars
<1> QED BY <1>2, <1>3, <1>4, <1>5, <1>6, <1>7 DEF Next, PatchStep

LEMMA DevelopmentInit == Init => IInv
<1> SUFFICES ASSUME Init PROVE IInv
  OBVIOUS
<1>1. StoreInv /\ StoreTypeOK
  BY InitHolds DEF Init, StoreInv
<1>2. /\ outcome = [a \in Authorization |-> "OPEN"] /\ effect = [a \in Authorization |-> "NONE"]
      /\ content = InitialContent /\ worktree = InitialContent /\ authorized = {}
      /\ manifested = FALSE /\ projection = [c \in Content |-> "MISSING"]
      /\ stage = [p \in Process |-> "none"] /\ report = [a \in Authorization |-> "NONE"]
      /\ \A p \in Process : pc[p] = "idle"
      /\ DOMAIN witness = {}
  BY DEF Init, Patch!AInit, StoreInit
<1>3. TypeOK
  BY <1>1, <1>2 DEF TypeOK, Patch!Outcomes, Stages, Content
<1>4. Observable
  BY <1>2 DEF Observable
<1>5. OneOpen /\ DispatchersAreAlone /\ StagesAreOpen /\ AuthorityFirst
  BY <1>2 DEF OneOpen, Open, DispatchersAreAlone, StagesAreOpen, AuthorityFirst
<1>6. StageProgress /\ FileIsAuthority
  BY <1>2 DEF StageProgress, Swapped, FileIsAuthority
<1>7. UnreadableIsOpen /\ UnreadableIsUnresolved /\ EvidenceFirst
  BY <1>2, <1>4 DEF UnreadableIsOpen, UnreadableIsUnresolved, EvidenceFirst, After, Consuming
<1> QED BY <1>1, <1>3, <1>5, <1>6, <1>7 DEF IInv

LEMMA DevelopmentNext == IInv /\ [Next]_devVars => IInv'
<1> SUFFICES ASSUME IInv, [Next]_devVars PROVE IInv'
  OBVIOUS
<1>1. StoreInv'
  BY StepIsStores, NextHolds DEF IInv
<1> QED BY <1>1, DevelopmentTypes, TargetStep, DispatchersStep, EvidenceStep DEF IInv, TargetInv

\* composeAndDispatch(), patchFileWithGrant() and the recovery: what the processes, the target
\* and the answers are, after any interleaving of any number of developments, endings,
\* recoveries and synchronizations.
THEOREM DevelopmentInductive == Spec => []IInv
  BY DevelopmentInit, DevelopmentNext, PTL DEF Spec

\* recordConsumption() and the validation loop: what is consumed or reported was applied, was
\* answered as a success and can be read.
THEOREM ConsumesApplied == Spec => []ConsumedIsApplied
<1>1. IInv => ConsumedIsApplied
  <2> SUFFICES ASSUME IInv, NEW a \in Authorization,
                      a \in Committed("CONSUME") \/ report[a] # "NONE"
               PROVE  Answered(a)
    BY DEF ConsumedIsApplied, Answered
  <2>1. CASE report[a] # "NONE"
    BY <2>1 DEF IInv, EvidenceFirst
  <2>2. CASE a \in Committed("CONSUME")
    BY <2>2, CommittedIs DEF IInv, EvidenceFirst
  <2> QED BY <2>1, <2>2
<1> QED BY <1>1, DevelopmentInductive, PTL

\* observeCurrentAuthoritativeTarget(): nobody answers a mutation and leaves its target unreadable.
THEOREM UnreadableHasOwner == Spec => []UnreadableIsUnresolved
<1>1. IInv => UnreadableIsUnresolved
  BY DEF IInv
<1> QED BY <1>1, DevelopmentInductive, PTL

----------------------------------------------------------------------------
(***************************************************************************)
(* The reconciliation.  What recovery answers from the ordinary file is    *)
(* true when no two authorizations have the same replacement.              *)
(***************************************************************************)
Truth == ContentHasAuthor /\ NoFalseReplacement /\ SuccessIsApplied

LEMMA TruthFrame ==
  ASSUME Truth, UNCHANGED <<effect, content, authorized, outcome, worktree>>
  PROVE  Truth'
BY DEF Truth, ContentHasAuthor, NoFalseReplacement, SuccessIsApplied

LEMMA TruthStep ==
  ASSUME OwnReplacements, IInv, Truth, [Next]_devVars
  PROVE  Truth'
<1>1. TypeOK /\ StoreTypeOK
  BY DEF IInv, TypeOK
<1>2. CASE \/ StoreStep
           \/ \E p \in Process : Prepared(p) \/ Validate(p) \/ Bootstrap(p) \/ Project(p)
                                 \/ WriteProjection(p)
           \/ Materialize \/ UNCHANGED devVars
  BY <1>2, TruthFrame DEF StoreStep, Prepared, Validate, Bootstrap, Project, WriteProjection,
                          Materialize, devVars, patchVars, treeVars
<1>3. ASSUME NEW p \in Process, BeginPatch(p) PROVE Truth'
  <2>1. /\ job[p] \in Authorization /\ outcome' = [outcome EXCEPT ![job[p]] = "STARTED"]
        /\ UNCHANGED <<effect, content, authorized, worktree>>
    BY <1>1, <1>3 DEF BeginPatch, Patch!Begin, treeVars, StoreTypeOK
  <2> QED BY <1>1, <2>1 DEF Truth, ContentHasAuthor, NoFalseReplacement, SuccessIsApplied, TypeOK
<1>4. ASSUME NEW p \in Process, VerifyBefore(p) PROVE Truth'
  <2> DEFINE a == job[p]
  <2>1. /\ a \in Authorization /\ worktree = Before[a] /\ authorized' = authorized \union {a}
        /\ UNCHANGED <<effect, content, outcome, worktree>>
    BY <1>1, <1>4, InMutation DEF VerifyBefore, Stage, treeVars
  <2>2. worktree # Replacement[a]
    BY <2>1, DevelopmentAssumption
  <2>3. effect[a] = "NONE" => content # Replacement[a]
    BY <2>1, <2>2 DEF Truth, ContentHasAuthor, OwnReplacements
  <2> QED BY <2>1, <2>2, <2>3 DEF Truth, ContentHasAuthor, NoFalseReplacement, SuccessIsApplied
<1>5. ASSUME NEW p \in Process, Swap(p) PROVE Truth'
  <2> DEFINE a == job[p]
  <2>1. /\ a \in Authorization /\ content' = Replacement[a]
        /\ effect' = [effect EXCEPT ![a] = "APPLIED"]
        /\ UNCHANGED <<outcome, authorized, worktree>>
    BY <1>1, <1>5, InMutation DEF Swap, Stage, Patch!Apply, treeVars
  <2>2. effect'[a] = "APPLIED" /\ \A b \in Authorization : b # a => effect'[b] = effect[b]
    BY <1>1, <2>1 DEF TypeOK
  <2>3. ContentHasAuthor'
    BY <2>1, <2>2 DEF ContentHasAuthor
  <2>4. NoFalseReplacement'
    <3> SUFFICES ASSUME NEW b \in authorized, effect'[b] = "NONE"
                 PROVE  worktree # Replacement[b] /\ content' # Replacement[b]
      BY <2>1 DEF NoFalseReplacement
    <3>1. b \in Authorization /\ b # a /\ effect[b] = "NONE"
      BY <1>1, <2>2 DEF TypeOK
    <3> QED BY <2>1, <3>1 DEF Truth, NoFalseReplacement, OwnReplacements
  <2>5. SuccessIsApplied'
    BY <2>1, <2>2 DEF Truth, SuccessIsApplied
  <2> QED BY <2>3, <2>4, <2>5 DEF Truth
<1>6. ASSUME NEW p \in Process, AnswerPatch(p) \/ PatchEnds(p) PROVE Truth'
  <2>1. UNCHANGED <<effect, content, authorized, worktree>>
    BY <1>6 DEF AnswerPatch, PatchEnds, Patch!Answer, patchVars, treeVars
  <2>2. ContentHasAuthor' /\ NoFalseReplacement'
    BY <2>1 DEF Truth, ContentHasAuthor, NoFalseReplacement
  <2>3. \A a \in Authorization : outcome'[a] = "SUCCESS" =>
          outcome[a] = "SUCCESS" \/ effect[a] = "APPLIED"
    BY <1>1, <1>6 DEF AnswerPatch, PatchEnds, Patch!Answer, patchVars, TypeOK
  <2> QED BY <2>1, <2>2, <2>3 DEF Truth, SuccessIsApplied
<1>7. ASSUME NEW a \in Authorization, RecoverPatch(a) PROVE Truth'
  <2>1. /\ outcome' = [outcome EXCEPT ![a] = Recovered(a)]
        /\ UNCHANGED <<effect, content, authorized, worktree>>
    BY <1>7 DEF RecoverPatch, treeVars
  <2>2. ContentHasAuthor' /\ NoFalseReplacement'
    BY <2>1 DEF Truth, ContentHasAuthor, NoFalseReplacement
  <2>3. Recovered(a) = "SUCCESS" => worktree = Replacement[a] /\ a \in authorized
    BY DEF Recovered
  <2>4. Recovered(a) = "SUCCESS" => effect[a] = "APPLIED"
    BY <2>3 DEF Truth, NoFalseReplacement, IInv, AuthorityFirst
  <2> QED BY <1>1, <2>1, <2>2, <2>4 DEF Truth, SuccessIsApplied, TypeOK
<1>8. CASE Synchronize
  <2>1. UNCHANGED <<effect, content, authorized, outcome>> /\ worktree' = content
    BY <1>8 DEF Synchronize, patchVars
  <2> QED BY <2>1 DEF Truth, ContentHasAuthor, NoFalseReplacement, SuccessIsApplied
<1> QED BY <1>2, <1>3, <1>4, <1>5, <1>6, <1>7, <1>8 DEF Next

\* patchFileWithGrant() and recoverTransactionalMutation(): when every authorization has a
\* replacement of its own, a mutation that recovery called a success took effect, and no
\* replacement is seen that did not happen.
THEOREM TruthHolds ==
  ASSUME OwnReplacements
  PROVE  Spec => []TruthInv
<1>1. Init => TruthInv
  <2> SUFFICES ASSUME Init PROVE Truth
    BY DevelopmentInit DEF TruthInv, Truth
  <2> QED BY DEF Init, Patch!AInit, Truth, ContentHasAuthor, NoFalseReplacement, SuccessIsApplied
<1>2. TruthInv /\ [Next]_devVars => TruthInv'
  BY DevelopmentNext, TruthStep DEF TruthInv, Truth
<1> QED BY <1>1, <1>2, PTL DEF Spec

\* A mutation that was answered as failed is never applied.
LEMMA FailedStaysUnapplied ==
  ASSUME IInv, [Next]_devVars, NEW a \in Authorization, outcome[a] = "FAILED"
  PROVE  effect'[a] = "NONE"
<1>1. effect[a] = "NONE" /\ TypeOK
  BY DEF IInv, AuthorityFirst
<1>2. ASSUME NEW p \in Process, Swap(p) PROVE effect'[a] = "NONE"
  BY <1>1, <1>2 DEF Swap, Patch!Apply, TypeOK
<1>3. CASE UNCHANGED effect
  BY <1>1, <1>3
<1> QED BY <1>2, <1>3 DEF Next, devVars, StoreStep, Prepared, BeginPatch, VerifyBefore,
      Bootstrap, Project, WriteProjection, AnswerPatch, PatchEnds, Validate, RecoverPatch,
      Synchronize, Materialize, patchVars, Patch!Begin, Patch!Answer

\* reconcileNaturalDevelopmentRecovery(): COMPLETED is said of an effect that took place,
\* NOT_APPLIED when none follows.
THEOREM ReconciliationIsTrue ==
  ASSUME OwnReplacements
  PROVE  Spec => ReconciliationStands
<1>1. TruthInv /\ [Next]_devVars =>
        [\A a \in Authorization :
           /\ Reconciled(a) = "COMPLETED" => effect[a] = "APPLIED"
           /\ Reconciled(a) = "NOT_APPLIED_REAUTH_REQUIRED" => effect'[a] = "NONE"]_devVars
  <2> SUFFICES ASSUME TruthInv, [Next]_devVars, NEW a \in Authorization
               PROVE  /\ Reconciled(a) = "COMPLETED" => effect[a] = "APPLIED"
                      /\ Reconciled(a) = "NOT_APPLIED_REAUTH_REQUIRED" => effect'[a] = "NONE"
    OBVIOUS
  <2>1. Reconciled(a) = "COMPLETED" => outcome[a] = "SUCCESS"
    BY DEF Reconciled
  <2>2. Reconciled(a) = "NOT_APPLIED_REAUTH_REQUIRED" => outcome[a] = "FAILED"
    BY DEF Reconciled
  <2> QED BY <2>1, <2>2, FailedStaysUnapplied DEF TruthInv, SuccessIsApplied
<1>2. Spec => []TruthInv
  BY TruthHolds
<1>3. Spec => [][Next]_devVars
  BY PTL DEF Spec
<1> QED BY <1>1, <1>2, <1>3, PTL DEF ReconciliationStands

----------------------------------------------------------------------------
\* cli/natural-development-r3-composition.js: claim, dispatch and consumption are the
\* store's, whatever the mutation, the projection and the recovery do between them.
THEOREM DevelopmentUsesStore == Spec => StoreSpec
<1>1. Init => StoreInit
  BY DEF Init
<1> QED BY <1>1, StepIsStores, PTL DEF Spec, StoreSpec

\* composeAndDispatch(): one exact human authorization, one mutation.
THEOREM DevelopedAtMostOnce == Spec => []DispatchedAtMostOnce
  BY DevelopmentUsesStore, OnceDispatched, PTL

\* The development implements the ledger of authorizations.
THEOREM DevelopmentImplementsLedger == Spec => ImplementsLedger
  BY DevelopmentUsesStore, StoreImplementsLedger, PTL

\* No development takes anything back from the witness.
THEOREM DevelopmentKeepsWitness == Spec => WitnessIsAppendOnly
  BY DevelopmentUsesStore, WitnessGrowsOnly, PTL

----------------------------------------------------------------------------
(***************************************************************************)
(* The development from end to end: every step is one of AuthorizedPatch.  *)
(***************************************************************************)
OpenedIsDispatched == \A a \in Authorization : outcome[a] # "OPEN" => dispatched[a] > 0

LEMMA DispatchesStay ==
  ASSUME StoreTypeOK, [StoreNext]_storeVars, NEW a \in Authorization, dispatched[a] > 0
  PROVE  dispatched'[a] > 0
<1>1. ASSUME NEW p \in Process, Dispatch(p) PROVE dispatched'[a] > 0
  BY <1>1 DEF Dispatch, StoreTypeOK
<1>2. CASE UNCHANGED dispatched
  BY <1>2
<1> QED BY <1>1, <1>2 DEF StoreNext, Transition, Develop, Prepare, Write, CommitEvent,
      MovePointer, Reopen, Start, Look, PrepareRequest, ClaimLoad, Evidenced, AcquireLock,
      ConsumeLoad, ReleaseLock, Finish, Fail, Crash, Rollback, Revoke, storeVars

LEMMA OpenedStep ==
  ASSUME IInv, OpenedIsDispatched, [Next]_devVars
  PROVE  OpenedIsDispatched'
<1>1. TypeOK /\ StoreInv /\ StoreTypeOK
  BY DEF IInv, StoreInv
<1>2. \A a \in Authorization : dispatched[a] > 0 => dispatched'[a] > 0
  BY <1>1, StepIsStores, DispatchesStay
<1>3. ASSUME NEW p \in Process, stage[p] # "none" \/ BeginPatch(p)
      PROVE  job[p] \in Authorization /\ dispatched[job[p]] > 0
  <2>1. pc[p] = "dispatching"
    BY <1>1, <1>3, InMutation DEF BeginPatch
  <2> QED BY <1>1, <2>1 DEF StoreInv, AfterDispatch, After, StoreTypeOK
<1>4. CASE UNCHANGED outcome
  BY <1>2, <1>4 DEF OpenedIsDispatched
<1>5. ASSUME NEW a \in Authorization, dispatched[a] > 0,
             \A b \in Authorization : b # a => outcome'[b] = outcome[b]
      PROVE  OpenedIsDispatched'
  BY <1>2, <1>5 DEF OpenedIsDispatched
<1>6. ASSUME NEW p \in Process, BeginPatch(p) \/ AnswerPatch(p) \/ PatchEnds(p), ~UNCHANGED outcome
      PROVE  OpenedIsDispatched'
  <2>1. stage[p] # "none" \/ BeginPatch(p)
    BY <1>6 DEF AnswerPatch, PatchEnds, Stage, patchVars
  <2>2. \A b \in Authorization : b # job[p] => outcome'[b] = outcome[b]
    BY <1>1, <1>6 DEF BeginPatch, AnswerPatch, PatchEnds, Patch!Begin, Patch!Answer, patchVars,
                      TypeOK
  <2>3. job[p] \in Authorization /\ dispatched[job[p]] > 0
    BY <1>3, <2>1
  <2> QED BY <1>5, <2>2, <2>3
<1>7. ASSUME NEW a \in Authorization, RecoverPatch(a) PROVE OpenedIsDispatched'
  <2>1. dispatched[a] > 0 /\ \A b \in Authorization : b # a => outcome'[b] = outcome[b]
    BY <1>1, <1>7 DEF RecoverPatch, OpenedIsDispatched, TypeOK
  <2> QED BY <1>5, <2>1
<1> QED BY <1>4, <1>6, <1>7 DEF Next, StoreStep, Prepared, VerifyBefore, Bootstrap, Swap, Project,
      WriteProjection, Validate, Synchronize, Materialize, devVars, patchVars, Patch!Apply

\* While its transaction is not answered an authorization stands dispatched.
LEMMA OpenStanding ==
  ASSUME IInv, NEW a \in Authorization, dispatched[a] > 0, outcome[a] \in {"OPEN", "STARTED"}
  PROVE  Standing(a) = "DISPATCHED"
<1>1. a \notin Committed("CONSUME")
  BY DEF Committed, IInv, EvidenceFirst, Answered
<1> QED BY <1>1 DEF Standing

\* A step that the target has no part in: what the ledger does, under the evidence.
LEMMA LedgerStepKept ==
  ASSUME IInv, IInv', [Next]_devVars, UNCHANGED <<outcome, effect, content>>
  PROVE  [Promise!PNext]_(Promise!pvars)
<1>1. CASE \A a \in Authorization : Standing(a)' = Standing(a)
  BY <1>1 DEF Promise!pvars
<1>2. CASE Ledger!LNext
  <2> PICK a \in Authorization : \/ Ledger!Moves(a, "FREE", "CLAIMED")
                                 \/ Ledger!Moves(a, "CLAIMED", "DISPATCHED")
                                 \/ Ledger!Moves(a, "DISPATCHED", "CONSUMED")
    BY <1>2 DEF Ledger!LNext
  <2>1. CASE Ledger!Moves(a, "FREE", "CLAIMED") \/ Ledger!Moves(a, "CLAIMED", "DISPATCHED")
    BY <2>1 DEF Promise!PNext, Promise!Spend, Promise!Ledger!Moves, Promise!Patch!avars,
                Ledger!Moves
  <2>2. CASE Ledger!Moves(a, "DISPATCHED", "CONSUMED")
    <3>1. Standing(a)' = "CONSUMED"
      BY <2>2 DEF Ledger!Moves
    <3>2. a \in Committed("CONSUME")'
      BY <3>1 DEF Standing
    <3>3. outcome'[a] = "SUCCESS"
      BY <3>2 DEF Committed, IInv, EvidenceFirst, Answered
    <3> QED BY <2>2, <3>3 DEF Promise!PNext, Promise!Consume, Promise!Ledger!Moves,
                              Promise!Patch!avars, Ledger!Moves
  <2> QED BY <2>1, <2>2
<1> QED BY <1>1, <1>2, StepIsStores, StepIsLedgers DEF IInv

\* A step of the target under an authorization that stands dispatched.
LEMMA PatchMutates ==
  ASSUME NEW a \in Authorization, Patch!Begin(a) \/ Patch!Apply(a) \/ Patch!Answer(a),
         Standing(a) = "DISPATCHED", UNCHANGED <<witness, dispatched>>
  PROVE  Promise!PNext
<1>1. [b \in Authorization |-> Standing(b)]' = [b \in Authorization |-> Standing(b)]
  BY DEF Standing, Committed
<1>2. Promise!Patch!Begin(a) \/ Promise!Patch!Apply(a) \/ Promise!Patch!Answer(a)
  BY DEF Promise!Patch!Begin, Promise!Patch!Apply, Promise!Patch!Answer, Patch!Begin,
         Patch!Apply, Patch!Answer
<1>3. Promise!Mutate(a)
  BY <1>1, <1>2 DEF Promise!Mutate
<1> QED BY <1>3 DEF Promise!PNext

\* What recovery answers is an answer of the patch, as long as it is not misled.
LEMMA RecoveryAnswers ==
  ASSUME TruthInv, NEW a \in Authorization, RecoverPatch(a), TruthInv'
  PROVE  Patch!Answer(a)
<1>1. /\ outcome[a] = "STARTED" /\ outcome' = [outcome EXCEPT ![a] = Recovered(a)]
      /\ UNCHANGED <<effect, content>>
  BY DEF RecoverPatch
<1>2. outcome'[a] = Recovered(a)
  BY <1>1 DEF TruthInv, IInv, TypeOK
<1>3. Recovered(a) \in {"SUCCESS", "FAILED", "UNRESOLVED"}
  BY DEF Recovered
<1>4. Recovered(a) = "SUCCESS" => effect[a] = "APPLIED"
  BY <1>1, <1>2 DEF TruthInv, SuccessIsApplied
<1>5. Recovered(a) = "FAILED" => effect[a] # "APPLIED"
  BY DEF Recovered, TruthInv, IInv, AuthorityFirst
<1> QED BY <1>1, <1>3, <1>4, <1>5 DEF Patch!Answer

\* A step of the mutation or of its recovery that changes more than the ordinary file and
\* the projection is one of the patch, and the store stands still.
LEMMA TargetMoves ==
  ASSUME TruthInv, TruthInv', [Next]_devVars, ~UNCHANGED <<outcome, effect, content>>
  PROVE  \E a \in Authorization :
           /\ Patch!Begin(a) \/ Patch!Apply(a) \/ Patch!Answer(a)
           /\ UNCHANGED <<witness, dispatched>>
           /\ outcome[a] \in {"OPEN", "STARTED"}
           /\ outcome[a] = "OPEN" => dispatched[a] > 0
<1>1. TypeOK /\ StoreInv /\ StoreTypeOK
  BY DEF TruthInv, IInv, StoreInv
<1>2. ASSUME NEW p \in Process, BeginPatch(p)
      PROVE  /\ job[p] \in Authorization /\ dispatched[job[p]] > 0
             /\ Patch!Begin(job[p]) /\ UNCHANGED <<witness, dispatched>>
  BY <1>1, <1>2 DEF BeginPatch, StoreInv, AfterDispatch, After, StoreTypeOK, storeVars
<1>3. ASSUME NEW p \in Process, Swap(p)
      PROVE  /\ job[p] \in Authorization
             /\ Patch!Apply(job[p]) /\ UNCHANGED <<witness, dispatched>>
  BY <1>1, <1>3, InMutation DEF Swap, Stage, storeVars
<1>4. ASSUME NEW p \in Process, AnswerPatch(p) \/ PatchEnds(p), ~UNCHANGED patchVars
      PROVE  /\ job[p] \in Authorization
             /\ Patch!Answer(job[p]) /\ UNCHANGED <<witness, dispatched>>
  <2>1. pc[p] = "dispatching"
    BY <1>4 DEF AnswerPatch, PatchEnds, Evidenced
  <2> QED BY <1>1, <1>4, <2>1 DEF AnswerPatch, PatchEnds, Evidenced, Fail, durableVars,
                                  StoreTypeOK
<1>5. ASSUME NEW a \in Authorization, RecoverPatch(a)
      PROVE  Patch!Answer(a) /\ UNCHANGED <<witness, dispatched>>
  BY <1>5, RecoveryAnswers DEF RecoverPatch, storeVars
<1>6. PICK a \in Authorization :
        /\ \/ Patch!Begin(a) /\ dispatched[a] > 0
           \/ Patch!Apply(a) \/ Patch!Answer(a)
        /\ UNCHANGED <<witness, dispatched>>
  <2>1. CASE \E p \in Process : BeginPatch(p)
    BY <1>2, <2>1
  <2>2. CASE \E p \in Process : Swap(p)
    BY <1>3, <2>2
  <2>3. CASE \E p \in Process : AnswerPatch(p) \/ PatchEnds(p)
    BY <1>4, <2>3 DEF patchVars
  <2>4. CASE \E a \in Authorization : RecoverPatch(a)
    BY <1>5, <2>4
  <2> QED BY <2>1, <2>2, <2>3, <2>4 DEF Next, StoreStep, Prepared, VerifyBefore, Bootstrap,
        Project, WriteProjection, Validate, Synchronize, Materialize, devVars, patchVars
<1>7. outcome[a] \in {"OPEN", "STARTED"} /\ (outcome[a] = "OPEN" => dispatched[a] > 0)
  BY <1>6 DEF Patch!Begin, Patch!Apply, Patch!Answer
<1>8. Patch!Begin(a) \/ Patch!Apply(a) \/ Patch!Answer(a)
  BY <1>6
<1> QED BY <1>6, <1>7, <1>8

\* composeAndDispatchNaturalDevelopmentPatch(), from the claim to the consumption: as long as
\* recovery is not misled by two authorizations of one replacement, the target changes only
\* under a dispatched authorization, every answer says what happened to it, and only an
\* authorization whose patch took effect is recorded as consumed.
THEOREM DevelopmentImplementsPatch ==
  ASSUME OwnReplacements
  PROVE  Spec => ImplementsAuthorizedPatch
<1>1. Init => OpenedIsDispatched /\ Promise!PInit
  <2> SUFFICES ASSUME Init PROVE OpenedIsDispatched /\ Promise!PInit
    OBVIOUS
  <2>1. /\ outcome = [a \in Authorization |-> "OPEN"] /\ effect = [a \in Authorization |-> "NONE"]
        /\ content = InitialContent
        /\ witness = <<>> /\ dispatched = [a \in Authorization |-> 0]
    BY DEF Init, StoreInit, Patch!AInit
  <2> QED BY <2>1 DEF OpenedIsDispatched, Promise!PInit, Promise!Ledger!LInit,
                      Promise!Patch!AInit, Standing, Committed
<1>2. TruthInv /\ OpenedIsDispatched /\ [Next]_devVars => OpenedIsDispatched'
  BY OpenedStep DEF TruthInv
<1>3. TruthInv /\ TruthInv' /\ OpenedIsDispatched /\ [Next]_devVars
        => [Promise!PNext]_(Promise!pvars)
  <2> SUFFICES ASSUME TruthInv, TruthInv', OpenedIsDispatched, [Next]_devVars
               PROVE  [Promise!PNext]_(Promise!pvars)
    OBVIOUS
  <2>1. IInv /\ IInv'
    BY DEF TruthInv
  <2>2. CASE UNCHANGED <<outcome, effect, content>>
    BY <2>1, <2>2, LedgerStepKept
  <2>3. CASE ~UNCHANGED <<outcome, effect, content>>
    <3>1. PICK a \in Authorization :
            /\ Patch!Begin(a) \/ Patch!Apply(a) \/ Patch!Answer(a)
            /\ UNCHANGED <<witness, dispatched>>
            /\ outcome[a] \in {"OPEN", "STARTED"}
            /\ outcome[a] = "OPEN" => dispatched[a] > 0
      BY <2>3, TargetMoves
    <3>2. dispatched[a] > 0
      BY <3>1 DEF OpenedIsDispatched
    <3>3. Standing(a) = "DISPATCHED"
      BY <2>1, <3>1, <3>2, OpenStanding
    <3> QED BY <3>1, <3>3, PatchMutates
  <2> QED BY <2>2, <2>3
<1>4. Spec => []TruthInv
  BY TruthHolds
<1> QED BY <1>1, <1>2, <1>3, <1>4, PTL DEF Spec, ImplementsAuthorizedPatch, Promise!PSpec

\* The promise contains both of its parts: who only looks at the authorizations sees the ledger
\* of the store, who only looks at the target sees the atomic patches that a governed mutation
\* implements (composeAndDispatchNaturalDevelopmentPatch over the store and the orchestrator).
THEOREM PromiseHasBothParts == ImplementsAuthorizedPatch => ImplementsLedger /\ Patch!ASpec
<1>1. Promise!PInit => Ledger!LInit /\ Patch!AInit
  BY DEF Promise!PInit, Promise!Ledger!LInit, Promise!Patch!AInit, Ledger!LInit, Patch!AInit
<1>2. [Promise!PNext]_(Promise!pvars)
        => /\ [Ledger!LNext]_([a \in Authorization |-> Standing(a)])
           /\ [Patch!ANext]_(Patch!avars)
  <2>1. CASE UNCHANGED Promise!pvars
    BY <2>1 DEF Promise!pvars, Patch!avars
  <2>2. ASSUME NEW a \in Authorization, Promise!Spend(a) \/ Promise!Consume(a)
        PROVE  Ledger!LNext /\ UNCHANGED Patch!avars
    BY <2>2 DEF Promise!Spend, Promise!Consume, Promise!Ledger!Moves, Promise!Patch!avars,
                Ledger!LNext, Ledger!Moves, Patch!avars
  <2>3. ASSUME NEW a \in Authorization, Promise!Mutate(a)
        PROVE  /\ UNCHANGED [b \in Authorization |-> Standing(b)]
               /\ Patch!ANext
    BY <2>3 DEF Promise!Mutate, Promise!Patch!Begin, Promise!Patch!Apply, Promise!Patch!Answer,
                Patch!ANext, Patch!Begin, Patch!Apply, Patch!Answer
  <2> QED BY <2>1, <2>2, <2>3 DEF Promise!PNext
<1> QED BY <1>1, <1>2, PTL DEF ImplementsAuthorizedPatch, ImplementsLedger, Promise!PSpec,
                                Ledger!LSpec, Patch!ASpec
=============================================================================
