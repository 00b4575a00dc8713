---------------------- MODULE AuthorizationStoreProofs ----------------------
(***************************************************************************)
(* Proofs, for every set of processes and authorizations, that the         *)
(* invariant of AuthorizationStore is inductive, that no authorization     *)
(* dispatches twice, that the witness only grows, and that the store       *)
(* implements the ledger.                                                  *)
(***************************************************************************)
EXTENDS AuthorizationStoreInvariant, SequenceTheorems, TLAPS

\* What the actions change of one process.
LEMMA GotoType ==
  ASSUME NEW p \in Process, NEW s \in Steps, pc \in [Process -> Steps], Goto(p, s)
  PROVE  /\ pc' \in [Process -> Steps]
         /\ pc'[p] = s
         /\ \A q \in Process : q # p => pc'[q] = pc[q]
BY DEF Goto

\* A replaced envelope is in the result and every other authorization keeps its own.
LEMMA ReplacedCovers ==
  ASSUME NEW E, NEW e, NEW x \in E
  PROVE  \E y \in Replaced(E, e) : y.authorization = x.authorization
BY DEF Replaced

LEMMA CommittedRootType ==
  ASSUME StoreTypeOK, NEW g \in Nat, g <= Len(witness)
  PROVE  CommittedRoot(g) \in SUBSET Envelope
<1>1. g = 0 \/ g \in DOMAIN witness
  BY DEF StoreTypeOK
<1>2. g \in DOMAIN witness => witness[g] \in Event
  BY DEF StoreTypeOK
<1> QED BY <1>1, <1>2 DEF CommittedRoot, Event

----------------------------------------------------------------------------
(***************************************************************************)
(* Steps that leave the witness, the pointer and the dispatches alone and  *)
(* move one process to a step that the invariant says nothing about.       *)
(***************************************************************************)
Quiet == Steps \ (Pending \union ClaimOwner \union After \union {"claim_prepare"})

LEMMA QuietStep ==
  ASSUME StoreInv, NEW p \in Process, NEW s \in Quiet, Goto(p, s), StoreTypeOK',
         UNCHANGED <<witness, pointer, dispatched>>,
         \A q \in Process : q # p => job'[q] = job[q] /\ view'[q] = view[q]
  PROVE  StoreInv'
<1>1. pc'[p] = s /\ \A q \in Process : q # p => pc'[q] = pc[q]
  BY DEF Goto, StoreInv, StoreTypeOK
<1>2. s \notin Pending /\ s \notin ClaimOwner /\ s \notin After /\ s # "claim_prepare"
      /\ s \notin PendingConsume
  BY DEF Quiet, PendingConsume, Pending
<1>3. (WitnessIsAChain /\ RootsCover /\ ClaimsAreUnique)'
  BY DEF StoreInv, WitnessIsAChain, RootsCover, ClaimsAreUnique, Claims
<1>4. PendingIsAlone'
  BY <1>1, <1>2 DEF StoreInv, PendingIsAlone
<1>5. PreparesUnseen'
  BY <1>1, <1>2 DEF StoreInv, PreparesUnseen, CommittedRoot
<1>6. OwnersHoldClaims'
  BY <1>1, <1>2 DEF StoreInv, OwnersHoldClaims, NewEnvelope
<1>7. OwnersAreAlone'
  BY <1>1, <1>2 DEF StoreInv, OwnersAreAlone
<1>8. ConsumersHoldEvents'
  BY <1>1, <1>2 DEF StoreInv, ConsumersHoldEvents, NewEnvelope
<1>9. DispatchIsClaimed' /\ ConsumptionsWereDispatched'
  BY DEF StoreInv, DispatchIsClaimed, Claims, ConsumptionsWereDispatched
<1>10. AfterDispatch'
  BY <1>1, <1>2 DEF StoreInv, AfterDispatch
<1> QED BY <1>3, <1>4, <1>5, <1>6, <1>7, <1>8, <1>9, <1>10 DEF StoreInv

\* A step from one place after the dispatch to another.
LEMMA AfterStep ==
  ASSUME StoreInv, NEW p \in Process, NEW s \in After \ PendingConsume, Goto(p, s),
         pc[p] \in After, StoreTypeOK', UNCHANGED <<witness, pointer, dispatched, job>>,
         \A q \in Process : q # p => view'[q] = view[q]
  PROVE  StoreInv'
<1>1. pc'[p] = s /\ \A q \in Process : q # p => pc'[q] = pc[q]
  BY DEF Goto, StoreInv, StoreTypeOK
<1>2. s \notin Pending /\ s \notin ClaimOwner /\ s # "claim_prepare" /\ s \in After
      /\ s \notin PendingConsume
  BY DEF After, Consuming, PendingConsume, Pending, ClaimOwner
<1>3. (WitnessIsAChain /\ RootsCover /\ ClaimsAreUnique)'
  BY DEF StoreInv, WitnessIsAChain, RootsCover, ClaimsAreUnique, Claims
<1>4. PendingIsAlone'
  BY <1>1, <1>2 DEF StoreInv, PendingIsAlone
<1>5. PreparesUnseen'
  BY <1>1, <1>2 DEF StoreInv, PreparesUnseen, CommittedRoot
<1>6. OwnersHoldClaims'
  BY <1>1, <1>2 DEF StoreInv, OwnersHoldClaims, NewEnvelope
<1>7. OwnersAreAlone'
  BY <1>1, <1>2 DEF StoreInv, OwnersAreAlone
<1>8. ConsumersHoldEvents'
  BY <1>1, <1>2 DEF StoreInv, ConsumersHoldEvents, NewEnvelope
<1>9. DispatchIsClaimed' /\ ConsumptionsWereDispatched'
  BY DEF StoreInv, DispatchIsClaimed, Claims, ConsumptionsWereDispatched
<1>10. AfterDispatch'
  BY <1>1, <1>2 DEF StoreInv, AfterDispatch
<1> QED BY <1>3, <1>4, <1>5, <1>6, <1>7, <1>8, <1>9, <1>10 DEF StoreInv

----------------------------------------------------------------------------
(***************************************************************************)
(* The two ways the witness changes.                                       *)
(***************************************************************************)
LEMMA WitnessLength ==
  ASSUME StoreTypeOK
  PROVE  Len(witness) \in Nat /\ DOMAIN witness = 1 .. Len(witness)
BY LenProperties DEF StoreTypeOK

LEMMA EventType ==
  ASSUME StoreTypeOK, NEW g \in DOMAIN witness
  PROVE  witness[g] \in Event
BY WitnessLength DEF StoreTypeOK

LEMMA NewEnvelopeType ==
  ASSUME StoreTypeOK, NEW p \in Process, pc[p] # "idle", NEW type \in {"CLAIM", "CONSUME"}
  PROVE  NewEnvelope(p, type) \in Envelope
BY DEF NewEnvelope, Envelope, StoreTypeOK

\* A new event comes last and leaves the others as they are.
LEMMA PrepareAppends ==
  ASSUME StoreTypeOK, NEW p \in Process, NEW from \in Steps, NEW to \in Steps,
         NEW type \in {"CLAIM", "CONSUME"}, from # "idle", Prepare(p, from, to, type)
  PROVE  /\ witness' \in Seq(Event)
         /\ Len(witness') = Len(witness) + 1
         /\ DOMAIN witness' = 1 .. Len(witness) + 1
         /\ view[p] = Len(witness)
         /\ \A g \in DOMAIN witness : witness'[g] = witness[g]
         /\ witness'[view[p] + 1] =
              [envelope |-> NewEnvelope(p, type), committed |-> FALSE,
               root |-> Replaced(CommittedRoot(view[p]), NewEnvelope(p, type))]
<1> DEFINE e == NewEnvelope(p, type)
           event == [envelope |-> e, committed |-> FALSE,
                     root |-> Replaced(CommittedRoot(view[p]), e)]
<1>1. e \in Envelope
  BY NewEnvelopeType DEF Prepare
<1>2. view[p] = Len(witness) /\ view[p] \in Nat
  BY DEF Prepare, WitnessVerifies, StoreTypeOK
<1>3. CommittedRoot(view[p]) \in SUBSET Envelope
  BY <1>2, CommittedRootType
<1>4. event \in Event
  BY <1>1, <1>3 DEF Event, Replaced
<1>5. witness \in Seq(Event) /\ witness' = Append(witness, event)
  BY DEF Prepare, StoreTypeOK
<1>6. /\ witness' \in Seq(Event)
      /\ Len(witness') = Len(witness) + 1
      /\ \A g \in 1 .. Len(witness) : witness'[g] = witness[g]
      /\ witness'[Len(witness) + 1] = event
  BY <1>4, <1>5, AppendProperties
<1>7. DOMAIN witness' = 1 .. Len(witness')
  BY <1>6, LenProperties
<1> QED BY <1>2, <1>6, <1>7, WitnessLength

LEMMA ExceptOfSeq ==
  ASSUME NEW s \in Seq(Event), NEW i \in 1 .. Len(s), NEW e \in Event
  PROVE  /\ [s EXCEPT ![i] = e] \in Seq(Event)
         /\ Len([s EXCEPT ![i] = e]) = Len(s)
         /\ \A j \in 1 .. Len(s) : [s EXCEPT ![i] = e][j] = IF j = i THEN e ELSE s[j]
BY ExceptSeq

\* A commitment changes nothing else of its event.
LEMMA CommitMarks ==
  ASSUME StoreTypeOK, NEW i \in DOMAIN witness,
         witness' = [witness EXCEPT ![i] =
                       [envelope |-> @.envelope, root |-> @.root, committed |-> TRUE]]
  PROVE  /\ witness' \in Seq(Event)
         /\ Len(witness') = Len(witness)
         /\ DOMAIN witness' = DOMAIN witness
         /\ \A g \in DOMAIN witness :
              /\ witness'[g].envelope = witness[g].envelope
              /\ witness'[g].root = witness[g].root
              /\ witness[g].committed => witness'[g].committed
         /\ witness'[i].committed
<1>1. witness \in Seq(Event) /\ i \in 1 .. Len(witness) /\ witness[i] \in Event
  BY WitnessLength DEF StoreTypeOK
<1> DEFINE e == [envelope |-> witness[i].envelope, root |-> witness[i].root,
                 committed |-> TRUE]
<1>2. e \in Event
  BY <1>1 DEF Event
<1>3. witness' = [witness EXCEPT ![i] = e]
  OBVIOUS
<1>4. /\ [witness EXCEPT ![i] = e] \in Seq(Event)
      /\ Len([witness EXCEPT ![i] = e]) = Len(witness)
      /\ \A g \in 1 .. Len(witness) :
           [witness EXCEPT ![i] = e][g] = IF g = i THEN e ELSE witness[g]
  <2> HIDE DEF e
  <2> QED BY ONLY <1>1, <1>2, ExceptOfSeq
<1>5. DOMAIN witness' = 1 .. Len(witness')
  BY <1>3, <1>4, LenProperties
<1> QED BY <1>1, <1>3, <1>4, <1>5, WitnessLength

\* What an event that is prepared and not yet pointed to is.
LEMMA PendingEvent ==
  ASSUME StoreInv, NEW p \in Process, pc[p] \in Pending
  PROVE  /\ view[p] + 1 \in DOMAIN witness
         /\ view[p] = pointer
         /\ Len(witness) = view[p] + 1
BY WitnessLength DEF StoreInv, PendingIsAlone, StoreTypeOK

----------------------------------------------------------------------------
(***************************************************************************)
(* The types.                                                              *)
(***************************************************************************)
LEMMA EndType ==
  ASSUME StoreTypeOK, NEW p \in Process, End(p)
  PROVE  /\ pc' \in [Process -> Steps]
         /\ job' \in [Process -> Authorization \union {NoAuthorization}]
         /\ \A q \in Process : pc'[q] = "idle" \/ job'[q] \in Authorization
         /\ view' \in [Process -> Nat]
BY DEF End, Goto, Steps, StoreTypeOK

LEMMA TransitionType ==
  ASSUME StoreInv, StoreTypeOK, NEW p \in Process, Transition(p)
  PROVE  StoreTypeOK'
<1> USE DEF StoreTypeOK
<1>1. ASSUME NEW from \in Steps \ {"idle"}, NEW to \in Steps, NEW type \in {"CLAIM", "CONSUME"},
             Prepare(p, from, to, type)
      PROVE  StoreTypeOK'
  <2>1. witness' \in Seq(Event)
    <3> HIDE DEF StoreTypeOK
    <3>1. from \in Steps /\ from # "idle"
      OBVIOUS
    <3> QED BY <1>1, <3>1, PrepareAppends
  <2> QED BY <1>1, <2>1 DEF Prepare, Goto
<1>2. ASSUME NEW from \in Steps \ {"idle"}, NEW to \in Steps, NEW type \in {"CLAIM", "CONSUME"},
             Write(p, from, to, type)
      PROVE  StoreTypeOK'
  <2>1. NewEnvelope(p, type) \in Envelope
    BY <1>2, NewEnvelopeType DEF Write
  <2> QED BY <1>2, <2>1 DEF Write, Goto, Replaced
<1>3. ASSUME NEW from \in Pending, NEW to \in Steps, CommitEvent(p, from, to)
      PROVE  StoreTypeOK'
  <2>1. witness' \in Seq(Event)
    <3> HIDE DEF StoreTypeOK
    <3> QED BY <1>3, CommitMarks, PendingEvent DEF CommitEvent
  <2>2. Goto(p, to) /\ UNCHANGED <<provisioned, key, record, pointer, lock, job, view, dispatched>>
        /\ pc[p] # "idle"
    BY <1>3 DEF CommitEvent, Pending
  <2> QED BY ONLY StoreTypeOK, <2>1, <2>2, to \in Steps DEF Goto
<1>4. ASSUME NEW from \in Steps \ {"idle"}, NEW to \in Steps, MovePointer(p, from, to)
      PROVE  StoreTypeOK'
  BY <1>4 DEF MovePointer, Goto
<1>5. ASSUME NEW from \in Steps \ {"idle"}, NEW to \in Steps, Reopen(p, from, to)
      PROVE  StoreTypeOK'
  BY <1>5 DEF Reopen, Goto, durableVars
<1> QED BY <1>1, <1>2, <1>3, <1>4, <1>5 DEF Transition, Steps, Claiming, Consuming, Pending

LEMMA DevelopType ==
  ASSUME StoreTypeOK, NEW p \in Process, Develop(p)
  PROVE  StoreTypeOK'
<1> USE DEF StoreTypeOK, durableVars
<1>1. ASSUME NEW a \in Authorization, Start(p, a) PROVE StoreTypeOK'
  BY <1>1 DEF Start, Goto, Steps
<1>2. ASSUME Look(p) PROVE StoreTypeOK'
  BY <1>2 DEF Look, Goto, Steps
<1>3. ASSUME PrepareRequest(p) PROVE StoreTypeOK'
  BY <1>3 DEF PrepareRequest, Goto, Steps
<1>4. ASSUME ClaimLoad(p) PROVE StoreTypeOK'
  BY <1>4 DEF ClaimLoad, Goto, Steps, Claiming
<1>5. ASSUME Dispatch(p) PROVE StoreTypeOK'
  BY <1>5 DEF Dispatch, Goto, Steps
<1>6. ASSUME Evidenced(p) PROVE StoreTypeOK'
  BY <1>6 DEF Evidenced, Goto, Steps
<1>7. ASSUME AcquireLock(p) PROVE StoreTypeOK'
  BY <1>7 DEF AcquireLock, Goto, Steps, Consuming
<1>8. ASSUME ConsumeLoad(p) PROVE StoreTypeOK'
  BY <1>8 DEF ConsumeLoad, Goto, Steps, Consuming
<1>9. ASSUME ReleaseLock(p) PROVE StoreTypeOK'
  BY <1>9 DEF ReleaseLock, Goto, Steps
<1>10. ASSUME Finish(p) \/ Fail(p) \/ Crash(p) PROVE StoreTypeOK'
  <2>1. End(p) /\ UNCHANGED <<durableVars, dispatched>>
        /\ lock' \in [Authorization -> Process \union {"none"}]
    BY <1>10 DEF Finish, Fail, Crash
  <2> QED BY <2>1, EndType
<1> QED BY <1>1, <1>2, <1>3, <1>4, <1>5, <1>6, <1>7, <1>8, <1>9, <1>10 DEF Develop

LEMMA OutsideType ==
  ASSUME StoreTypeOK, pointer <= Len(witness), Rollback \/ Revoke
  PROVE  StoreTypeOK'
<1>1. CASE Rollback
  <2>1. PICK g \in 0 .. pointer : record' = CommittedRoot(g)
    BY <1>1 DEF Rollback
  <2>2. g \in Nat /\ g <= Len(witness)
    BY WitnessLength DEF StoreTypeOK
  <2>3. record' \in SUBSET Envelope
    BY <2>1, <2>2, CommittedRootType
  <2> QED BY <1>1, <2>3 DEF Rollback, StoreTypeOK
<1>2. CASE Revoke
  BY <1>2 DEF Revoke, StoreTypeOK
<1> QED BY <1>1, <1>2

LEMMA TypeStep == StoreInv /\ [StoreNext]_storeVars => StoreTypeOK'
<1> SUFFICES ASSUME StoreInv, [StoreNext]_storeVars PROVE StoreTypeOK'
  OBVIOUS
<1>1. StoreTypeOK /\ pointer <= Len(witness)
  BY DEF StoreInv, WitnessIsAChain
<1>2. CASE UNCHANGED storeVars
  BY <1>1, <1>2 DEF storeVars, StoreTypeOK
<1> QED BY <1>1, <1>2, TransitionType, DevelopType, OutsideType DEF StoreNext

----------------------------------------------------------------------------
(***************************************************************************)
(* The steps of a change.                                                  *)
(***************************************************************************)

\* The pairs of steps between which the process stays in the same classes.
SameClass(from, to) ==
  \/ from = "claim_write" /\ to = "claim_commit"
  \/ from = "consume_write" /\ to = "consume_commit"
  \/ from = "claim_reopen" /\ to = "claimed"

LEMMA SameClassStep ==
  ASSUME StoreInv, StoreTypeOK', NEW p \in Process, NEW s \in Steps, Goto(p, s),
         SameClass(pc[p], s), UNCHANGED <<witness, pointer, dispatched, job, view>>
  PROVE  StoreInv'
<1>1. pc'[p] = s /\ \A q \in Process : q # p => pc'[q] = pc[q]
  BY DEF Goto, StoreInv, StoreTypeOK
<1>2. /\ s \in Pending <=> pc[p] \in Pending
      /\ s \in PendingConsume <=> pc[p] \in PendingConsume
      /\ s \in ClaimOwner <=> pc[p] \in ClaimOwner
      /\ s \in ClaimCommitted <=> pc[p] \in ClaimCommitted
      /\ s \in After <=> pc[p] \in After
      /\ s # "claim_prepare" /\ s # "consume_point"
  BY DEF SameClass, Pending, PendingConsume, ClaimOwner, ClaimCommitted, After, Consuming
<1>3. (WitnessIsAChain /\ RootsCover /\ ClaimsAreUnique)'
  BY DEF StoreInv, WitnessIsAChain, RootsCover, ClaimsAreUnique, Claims
<1>4. PendingIsAlone'
  BY <1>1, <1>2 DEF StoreInv, PendingIsAlone
<1>5. PreparesUnseen'
  BY <1>1, <1>2 DEF StoreInv, PreparesUnseen, CommittedRoot
<1>6. OwnersHoldClaims'
  BY <1>1, <1>2 DEF StoreInv, OwnersHoldClaims, NewEnvelope
<1>7. OwnersAreAlone'
  BY <1>1, <1>2 DEF StoreInv, OwnersAreAlone
<1>8. ConsumersHoldEvents'
  BY <1>1, <1>2 DEF StoreInv, ConsumersHoldEvents, NewEnvelope
<1>9. DispatchIsClaimed' /\ ConsumptionsWereDispatched'
  BY DEF StoreInv, DispatchIsClaimed, Claims, ConsumptionsWereDispatched
<1>10. AfterDispatch'
  BY <1>1, <1>2 DEF StoreInv, AfterDispatch
<1> QED BY <1>3, <1>4, <1>5, <1>6, <1>7, <1>8, <1>9, <1>10 DEF StoreInv

LEMMA MovePointerStep ==
  ASSUME StoreInv, StoreTypeOK', NEW p \in Process, NEW from \in {"claim_point", "consume_point"},
         NEW to \in {"claim_reopen", "consume_reopen"}, MovePointer(p, from, to),
         from = "claim_point" <=> to = "claim_reopen"
  PROVE  StoreInv'
<1>1. /\ pc[p] = from /\ pc'[p] = to
      /\ \A q \in Process : q # p => pc'[q] = pc[q]
      /\ pointer' = view[p] + 1
      /\ UNCHANGED <<witness, job, view, dispatched>>
  BY DEF MovePointer, Goto, StoreInv, StoreTypeOK
<1>2. /\ from \in Pending /\ to \notin Pending /\ to \notin PendingConsume
      /\ to # "claim_prepare"
      /\ to \in ClaimOwner <=> from \in ClaimOwner
      /\ to \in ClaimCommitted <=> from \in ClaimCommitted
      /\ to \in After <=> from \in After
  BY DEF Pending, PendingConsume, ClaimOwner, ClaimCommitted, After, Consuming
<1>3. view[p] + 1 \in DOMAIN witness /\ view[p] = pointer /\ Len(witness) = view[p] + 1
  BY <1>1, <1>2, PendingEvent
<1>4. witness[view[p] + 1].committed
  BY <1>1 DEF StoreInv, OwnersHoldClaims, ConsumersHoldEvents, ClaimOwner, ClaimCommitted,
              PendingConsume
<1>5. WitnessIsAChain'
  <2>1. pointer \in Nat /\ Len(witness) \in Nat /\ DOMAIN witness = 1 .. Len(witness)
    BY WitnessLength DEF StoreInv, StoreTypeOK
  <2>2. \A g \in DOMAIN witness : g <= pointer' => witness[g].committed
    BY <1>1, <1>3, <1>4, <2>1 DEF StoreInv, WitnessIsAChain
  <2> QED BY <1>1, <1>3, <2>1, <2>2 DEF StoreInv, WitnessIsAChain
<1>6. (RootsCover /\ ClaimsAreUnique)'
  BY <1>1 DEF StoreInv, RootsCover, ClaimsAreUnique, Claims
<1>7. PendingIsAlone'
  BY <1>1, <1>2 DEF StoreInv, PendingIsAlone
<1>8. PreparesUnseen'
  BY <1>1, <1>2 DEF StoreInv, PreparesUnseen, CommittedRoot
<1>9. OwnersHoldClaims'
  BY <1>1, <1>2 DEF StoreInv, OwnersHoldClaims, NewEnvelope
<1>10. OwnersAreAlone'
  BY <1>1, <1>2 DEF StoreInv, OwnersAreAlone
<1>11. ConsumersHoldEvents'
  BY <1>1, <1>2 DEF StoreInv, ConsumersHoldEvents, NewEnvelope
<1>12. DispatchIsClaimed' /\ ConsumptionsWereDispatched'
  BY <1>1 DEF StoreInv, DispatchIsClaimed, Claims, ConsumptionsWereDispatched
<1>13. AfterDispatch'
  BY <1>1, <1>2 DEF StoreInv, AfterDispatch
<1> QED BY <1>5, <1>6, <1>7, <1>8, <1>9, <1>10, <1>11, <1>12, <1>13 DEF StoreInv

LEMMA CommitStep ==
  ASSUME StoreInv, StoreTypeOK', NEW p \in Process,
         NEW from \in {"claim_commit", "consume_commit"},
         NEW to \in {"claim_point", "consume_point"}, CommitEvent(p, from, to),
         from = "claim_commit" <=> to = "claim_point"
  PROVE  StoreInv'
<1> DEFINE i == view[p] + 1
<1>1. /\ pc[p] = from /\ pc'[p] = to
      /\ \A q \in Process : q # p => pc'[q] = pc[q]
      /\ UNCHANGED <<pointer, job, view, dispatched>>
  BY DEF CommitEvent, Goto, StoreInv, StoreTypeOK
<1>2. /\ from \in Pending /\ to \in Pending
      /\ to \in PendingConsume <=> from \in PendingConsume
      /\ to # "claim_prepare"
      /\ to \in ClaimOwner <=> from \in ClaimOwner
      /\ to \in After <=> from \in After
  BY DEF Pending, PendingConsume, ClaimOwner, After, Consuming
<1>3. i \in DOMAIN witness
  BY <1>1, <1>2, PendingEvent
<1>4. /\ Len(witness') = Len(witness)
      /\ DOMAIN witness' = DOMAIN witness
      /\ \A g \in DOMAIN witness :
           /\ witness'[g].envelope = witness[g].envelope
           /\ witness'[g].root = witness[g].root
           /\ witness[g].committed => witness'[g].committed
      /\ witness'[i].committed
  BY <1>3, CommitMarks DEF StoreInv, CommitEvent
<1>5. DOMAIN witness = 1 .. Len(witness) /\ Len(witness) \in Nat
  BY WitnessLength DEF StoreInv
<1>6. WitnessIsAChain'
  BY <1>1, <1>4 DEF StoreInv, WitnessIsAChain
<1>7. RootsCover'
  BY <1>4 DEF StoreInv, RootsCover
<1>8. ClaimsAreUnique'
  BY <1>4 DEF StoreInv, ClaimsAreUnique, Claims
<1>9. PendingIsAlone'
  BY <1>1, <1>2, <1>4 DEF StoreInv, PendingIsAlone
<1>10. PreparesUnseen'
  <2> SUFFICES ASSUME NEW q \in Process, pc'[q] = "claim_prepare"
               PROVE  view[q] <= Len(witness) /\
                      \A e \in CommittedRoot(view[q])' : e.authorization # job[q]
    BY <1>1, <1>4 DEF PreparesUnseen
  <2>1. pc[q] = "claim_prepare"
    BY <1>1, <1>2
  <2>2. view[q] \in Nat /\ view[q] <= Len(witness)
        /\ \A e \in CommittedRoot(view[q]) : e.authorization # job[q]
    BY <2>1 DEF StoreInv, PreparesUnseen, StoreTypeOK
  <2>3. view[q] = 0 \/ view[q] \in DOMAIN witness
    BY <2>2, <1>5
  <2> QED BY <1>1, <1>4, <2>2, <2>3 DEF CommittedRoot
<1>11. OwnersHoldClaims'
  BY <1>1, <1>2, <1>4 DEF StoreInv, OwnersHoldClaims, NewEnvelope, ClaimCommitted
<1>12. OwnersAreAlone'
  BY <1>1, <1>2 DEF StoreInv, OwnersAreAlone
<1>13. ConsumersHoldEvents'
  <2> SUFFICES ASSUME NEW q \in Process, pc'[q] \in PendingConsume
               PROVE  /\ witness'[view[q] + 1].envelope = NewEnvelope(q, "CONSUME")
                      /\ pc'[q] = "consume_point" => witness'[view[q] + 1].committed
    BY <1>1 DEF ConsumersHoldEvents, NewEnvelope
  <2>1. pc[q] \in PendingConsume /\ pc[q] \in Pending
    BY <1>1, <1>2 DEF PendingConsume, Pending
  <2>2. view[q] + 1 \in DOMAIN witness
    BY <2>1, PendingEvent
  <2> QED BY <1>1, <1>4, <2>1, <2>2 DEF StoreInv, ConsumersHoldEvents
<1>14. DispatchIsClaimed'
  BY <1>1, <1>4 DEF StoreInv, DispatchIsClaimed, Claims
<1>15. ConsumptionsWereDispatched'
  BY <1>1, <1>4 DEF StoreInv, ConsumptionsWereDispatched
<1>16. AfterDispatch'
  BY <1>1, <1>2 DEF StoreInv, AfterDispatch
<1> QED BY <1>6, <1>7, <1>8, <1>9, <1>10, <1>11, <1>12, <1>13, <1>14, <1>15, <1>16 DEF StoreInv

\* What every preparation does, whatever it prepares: the new event is the last one, nobody
\* else has one outstanding, and its root covers every authorization before it.
LEMMA PrepareCommon ==
  ASSUME StoreInv, StoreTypeOK', NEW p \in Process,
         NEW from \in {"claim_prepare", "consume_prepare"},
         NEW to \in {"claim_write", "consume_write"}, NEW type \in {"CLAIM", "CONSUME"},
         Prepare(p, from, to, type)
  PROVE  /\ WitnessIsAChain' /\ RootsCover' /\ PendingIsAlone' /\ PreparesUnseen'
         /\ \A q \in Process : pc[q] \notin Pending
<1>1. /\ pc[p] = from /\ pc'[p] = to /\ from # "idle" /\ to \in Pending
      /\ \A q \in Process : q # p => pc'[q] = pc[q]
      /\ UNCHANGED <<pointer, job, view, dispatched>>
      /\ pointer = Len(witness) /\ view[p] = pointer
      /\ \A g \in DOMAIN witness : witness[g].committed
  BY DEF Prepare, WitnessVerifies, Goto, StoreInv, StoreTypeOK, Pending
<1>2. from \in Steps /\ to \in Steps
  BY DEF Steps, Claiming, Consuming
<1>3. /\ Len(witness') = Len(witness) + 1
      /\ DOMAIN witness' = 1 .. Len(witness) + 1
      /\ \A g \in DOMAIN witness : witness'[g] = witness[g]
      /\ witness'[view[p] + 1] =
           [envelope |-> NewEnvelope(p, type), committed |-> FALSE,
            root |-> Replaced(CommittedRoot(view[p]), NewEnvelope(p, type))]
  BY <1>1, <1>2, PrepareAppends DEF StoreInv
<1>4. DOMAIN witness = 1 .. Len(witness) /\ Len(witness) \in Nat /\ view[p] = Len(witness)
      /\ \A g \in DOMAIN witness' : g \in DOMAIN witness \/ g = view[p] + 1
  BY <1>1, <1>3, WitnessLength DEF StoreInv
<1>5. \A q \in Process : pc[q] \notin Pending
  BY <1>1, <1>4 DEF StoreInv, PendingIsAlone
<1>6. WitnessIsAChain'
  <2>1. witness'[view[p] + 1].envelope.generation = view[p] + 1
    BY <1>3 DEF NewEnvelope
  <2>2. \A g \in DOMAIN witness' : witness'[g].envelope.generation = g
    BY <1>3, <1>4, <2>1 DEF StoreInv, WitnessIsAChain
  <2>3. \A g \in DOMAIN witness' : g <= pointer' => witness'[g].committed
    BY <1>1, <1>3, <1>4
  <2> QED BY <1>1, <1>3, <1>4, <2>2, <2>3 DEF WitnessIsAChain
<1>7. RootsCover'
  <2> DEFINE n == view[p] + 1
             new == NewEnvelope(p, type)
  <2> SUFFICES ASSUME NEW g \in DOMAIN witness', NEW h \in DOMAIN witness', h <= g
               PROVE  \E x \in witness'[g].root :
                        x.authorization = witness'[h].envelope.authorization
    BY DEF RootsCover
  <2>1. CASE g \in DOMAIN witness
    <3>1. h \in DOMAIN witness
      BY <1>3, <1>4, <2>1
    <3> QED BY <1>3, <2>1, <3>1 DEF StoreInv, RootsCover
  <2>2. CASE g = n /\ h = n
    BY <1>3, <2>2 DEF Replaced
  <2>3. CASE g = n /\ h # n
    <3>1. h \in DOMAIN witness /\ view[p] \in DOMAIN witness /\ h <= view[p]
      BY <1>3, <1>4, <2>3
    <3>2. PICK x \in witness[view[p]].root :
                 x.authorization = witness[h].envelope.authorization
      BY <3>1 DEF StoreInv, RootsCover
    <3>3. CommittedRoot(view[p]) = witness[view[p]].root
      BY <1>4, <3>1 DEF CommittedRoot
    <3>4. \E y \in Replaced(CommittedRoot(view[p]), new) : y.authorization = x.authorization
      BY <3>2, <3>3, ReplacedCovers
    <3>5. witness'[g].root = Replaced(CommittedRoot(view[p]), new)
          /\ witness'[h] = witness[h]
      BY <1>3, <2>3, <3>1
    <3> QED BY <3>2, <3>4, <3>5
  <2> QED BY <1>4, <2>1, <2>2, <2>3
<1>8. PendingIsAlone'
  BY <1>1, <1>3, <1>5 DEF PendingIsAlone
<1>9. PreparesUnseen'
  <2> SUFFICES ASSUME NEW q \in Process, pc'[q] = "claim_prepare"
               PROVE  view[q] <= Len(witness) + 1 /\
                      \A e \in CommittedRoot(view[q])' : e.authorization # job[q]
    BY <1>1, <1>3 DEF PreparesUnseen
  <2>1. pc[q] = "claim_prepare"
    BY <1>1
  <2>2. view[q] \in Nat /\ view[q] <= Len(witness)
        /\ \A e \in CommittedRoot(view[q]) : e.authorization # job[q]
    BY <2>1 DEF StoreInv, PreparesUnseen, StoreTypeOK
  <2>3. view[q] = 0 \/ view[q] \in DOMAIN witness
    BY <2>2, <1>4
  <2> QED BY <1>1, <1>3, <1>4, <2>2, <2>3 DEF CommittedRoot
<1> QED BY <1>5, <1>6, <1>7, <1>8, <1>9

LEMMA PrepareClaimStep ==
  ASSUME StoreInv, StoreTypeOK', NEW p \in Process,
         Prepare(p, "claim_prepare", "claim_write", "CLAIM")
  PROVE  StoreInv'
<1> DEFINE new == NewEnvelope(p, "CLAIM")
<1>1. /\ pc[p] = "claim_prepare" /\ pc'[p] = "claim_write"
      /\ \A q \in Process : q # p => pc'[q] = pc[q]
      /\ UNCHANGED <<pointer, job, view, dispatched>>
      /\ view[p] \in Nat /\ job[p] \in Authorization
  BY DEF Prepare, Goto, StoreInv, StoreTypeOK
<1>2. /\ Len(witness') = Len(witness) + 1
      /\ DOMAIN witness' = 1 .. Len(witness) + 1
      /\ view[p] = Len(witness)
      /\ \A g \in DOMAIN witness : witness'[g] = witness[g]
      /\ witness'[view[p] + 1].envelope = new
  <2>1. StoreTypeOK /\ "claim_prepare" \in Steps /\ "claim_write" \in Steps
    BY DEF StoreInv, Steps, Claiming
  <2>2. witness'[view[p] + 1] =
          [envelope |-> new, committed |-> FALSE,
           root |-> Replaced(CommittedRoot(view[p]), new)]
    BY <2>1, PrepareAppends
  <2>3. witness'[view[p] + 1].envelope = new
    BY <2>2
  <2>4. /\ Len(witness') = Len(witness) + 1
        /\ DOMAIN witness' = 1 .. Len(witness) + 1
        /\ view[p] = Len(witness)
        /\ \A g \in DOMAIN witness : witness'[g] = witness[g]
    BY <2>1, PrepareAppends
  <2> QED BY <2>3, <2>4
<1>3. /\ DOMAIN witness = 1 .. Len(witness) /\ Len(witness) \in Nat
      /\ \A g \in DOMAIN witness' : g \in DOMAIN witness \/ g = view[p] + 1
      /\ DOMAIN witness \subseteq DOMAIN witness'
      /\ view[p] + 1 \in DOMAIN witness' /\ view[p] + 1 \notin DOMAIN witness
  BY <1>2, WitnessLength DEF StoreInv
<1>4. \A g \in DOMAIN witness : witness[g].envelope.authorization # job[p]
  <2> SUFFICES ASSUME NEW g \in DOMAIN witness, witness[g].envelope.authorization = job[p]
               PROVE  FALSE
    OBVIOUS
  <2>1. view[p] \in DOMAIN witness /\ g <= view[p] /\ view[p] # 0
    BY <1>2, <1>3
  <2>2. \E e \in witness[view[p]].root : e.authorization = job[p]
    BY <2>1 DEF StoreInv, RootsCover
  <2> QED BY <1>1, <2>1, <2>2 DEF StoreInv, PreparesUnseen, CommittedRoot
<1>5. dispatched[job[p]] = 0
  <2>1. ~ \E g \in DOMAIN witness : witness[g].committed /\ Claims(g, job[p])
    BY <1>4 DEF Claims
  <2>2. ~(dispatched[job[p]] > 0)
    BY <1>1, <2>1 DEF StoreInv, DispatchIsClaimed
  <2> QED BY <1>1, <2>2 DEF StoreInv, StoreTypeOK
<1>6. /\ WitnessIsAChain' /\ RootsCover' /\ PendingIsAlone' /\ PreparesUnseen'
      /\ \A q \in Process : pc[q] \notin Pending
  BY PrepareCommon
<1>7. ClaimsAreUnique'
  <2>1. new.authorization = job[p]
    BY DEF NewEnvelope
  <2> QED BY <1>2, <1>3, <1>4, <2>1 DEF StoreInv, ClaimsAreUnique, Claims
<1>8. OwnersHoldClaims'
  <2> SUFFICES ASSUME NEW q \in Process, pc'[q] \in ClaimOwner
               PROVE  /\ view[q] + 1 \in DOMAIN witness'
                      /\ witness'[view[q] + 1].envelope = NewEnvelope(q, "CLAIM")
                      /\ pc'[q] \in ClaimCommitted => witness'[view[q] + 1].committed
                      /\ dispatched[job[q]] = 0
    BY <1>1 DEF OwnersHoldClaims, NewEnvelope
  <2>1. CASE q = p
    BY <1>1, <1>2, <1>3, <1>5, <2>1 DEF ClaimCommitted
  <2>2. CASE q # p
    <3>1. pc[q] \in ClaimOwner /\ pc'[q] = pc[q]
      BY <1>1, <2>2
    <3> QED BY <1>2, <1>3, <3>1 DEF StoreInv, OwnersHoldClaims
  <2> QED BY <2>1, <2>2
<1>9. OwnersAreAlone'
  <2>1. \A q \in Process : q # p /\ pc'[q] \in ClaimOwner => view[q] # view[p]
    BY <1>1, <1>3 DEF StoreInv, OwnersHoldClaims
  <2> QED BY <1>1, <2>1 DEF StoreInv, OwnersAreAlone
<1>10. ConsumersHoldEvents'
  BY <1>1, <1>6 DEF ConsumersHoldEvents, PendingConsume, Pending
<1>11. DispatchIsClaimed'
  BY <1>1, <1>2, <1>3 DEF StoreInv, DispatchIsClaimed, Claims
<1>12. ConsumptionsWereDispatched'
  <2>1. new.type # "CONSUME"
    BY DEF NewEnvelope
  <2> QED BY <1>1, <1>2, <1>3, <2>1 DEF StoreInv, ConsumptionsWereDispatched
<1>13. AfterDispatch'
  BY <1>1 DEF StoreInv, AfterDispatch, After, Consuming
<1> QED BY <1>6, <1>7, <1>8, <1>9, <1>10, <1>11, <1>12, <1>13 DEF StoreInv

LEMMA PrepareConsumeStep ==
  ASSUME StoreInv, StoreTypeOK', NEW p \in Process,
         Prepare(p, "consume_prepare", "consume_write", "CONSUME")
  PROVE  StoreInv'
<1> DEFINE new == NewEnvelope(p, "CONSUME")
<1>1. /\ pc[p] = "consume_prepare" /\ pc'[p] = "consume_write"
      /\ \A q \in Process : q # p => pc'[q] = pc[q]
      /\ UNCHANGED <<pointer, job, view, dispatched>>
      /\ view[p] \in Nat /\ job[p] \in Authorization
  BY DEF Prepare, Goto, StoreInv, StoreTypeOK
<1>2. /\ Len(witness') = Len(witness) + 1
      /\ DOMAIN witness' = 1 .. Len(witness) + 1
      /\ view[p] = Len(witness)
      /\ \A g \in DOMAIN witness : witness'[g] = witness[g]
      /\ witness'[view[p] + 1].envelope = new
  <2>1. StoreTypeOK /\ "consume_prepare" \in Steps /\ "consume_write" \in Steps
    BY DEF StoreInv, Steps, Consuming
  <2>2. witness'[view[p] + 1] =
          [envelope |-> new, committed |-> FALSE,
           root |-> Replaced(CommittedRoot(view[p]), new)]
    BY <2>1, PrepareAppends
  <2>3. witness'[view[p] + 1].envelope = new
    BY <2>2
  <2>4. /\ Len(witness') = Len(witness) + 1
        /\ DOMAIN witness' = 1 .. Len(witness) + 1
        /\ view[p] = Len(witness)
        /\ \A g \in DOMAIN witness : witness'[g] = witness[g]
    BY <2>1, PrepareAppends
  <2> QED BY <2>3, <2>4
<1>3. /\ DOMAIN witness = 1 .. Len(witness) /\ Len(witness) \in Nat
      /\ \A g \in DOMAIN witness' : g \in DOMAIN witness \/ g = view[p] + 1
      /\ DOMAIN witness \subseteq DOMAIN witness'
  BY <1>2, WitnessLength DEF StoreInv
<1>4. /\ WitnessIsAChain' /\ RootsCover' /\ PendingIsAlone' /\ PreparesUnseen'
      /\ \A q \in Process : pc[q] \notin Pending
  BY PrepareCommon
<1>5. new.type = "CONSUME" /\ new.authorization = job[p]
  BY DEF NewEnvelope
<1>6. ClaimsAreUnique'
  BY <1>2, <1>3, <1>5 DEF StoreInv, ClaimsAreUnique, Claims
<1>7. OwnersHoldClaims'
  <2> SUFFICES ASSUME NEW q \in Process, pc'[q] \in ClaimOwner
               PROVE  /\ view[q] + 1 \in DOMAIN witness'
                      /\ witness'[view[q] + 1].envelope = NewEnvelope(q, "CLAIM")
                      /\ pc'[q] \in ClaimCommitted => witness'[view[q] + 1].committed
                      /\ dispatched[job[q]] = 0
    BY <1>1 DEF OwnersHoldClaims, NewEnvelope
  <2>1. q # p /\ pc[q] \in ClaimOwner /\ pc'[q] = pc[q]
    BY <1>1 DEF ClaimOwner
  <2> QED BY <1>2, <1>3, <2>1 DEF StoreInv, OwnersHoldClaims
<1>8. OwnersAreAlone'
  BY <1>1 DEF StoreInv, OwnersAreAlone, ClaimOwner
<1>9. ConsumersHoldEvents'
  <2> SUFFICES ASSUME NEW q \in Process, pc'[q] \in PendingConsume
               PROVE  /\ witness'[view[q] + 1].envelope = NewEnvelope(q, "CONSUME")
                      /\ pc'[q] = "consume_point" => witness'[view[q] + 1].committed
    BY <1>1 DEF ConsumersHoldEvents, NewEnvelope
  <2>1. q = p
    BY <1>1, <1>4 DEF PendingConsume, Pending
  <2> QED BY <1>1, <1>2, <2>1
<1>10. DispatchIsClaimed'
  BY <1>1, <1>2, <1>3 DEF StoreInv, DispatchIsClaimed, Claims
<1>11. dispatched[job[p]] > 0
  BY <1>1 DEF StoreInv, AfterDispatch, After, Consuming
<1>12. ConsumptionsWereDispatched'
  BY <1>1, <1>2, <1>3, <1>5, <1>11 DEF StoreInv, ConsumptionsWereDispatched
<1>13. AfterDispatch'
  BY <1>1 DEF StoreInv, AfterDispatch, After, Consuming
<1> QED BY <1>4, <1>6, <1>7, <1>8, <1>9, <1>10, <1>12, <1>13 DEF StoreInv

----------------------------------------------------------------------------
(***************************************************************************)
(* The steps of a development.                                             *)
(***************************************************************************)
LEMMA ClaimLoadStep ==
  ASSUME StoreInv, StoreTypeOK', NEW p \in Process, ClaimLoad(p)
  PROVE  StoreInv'
<1>1. /\ pc[p] = "prepared" /\ pc'[p] = "claim_prepare"
      /\ \A q \in Process : q # p => pc'[q] = pc[q]
      /\ view'[p] = pointer
      /\ \A q \in Process : q # p => view'[q] = view[q]
      /\ UNCHANGED <<witness, pointer, job, dispatched>>
      /\ record = CommittedRoot(pointer) /\ Records(job[p]) = {}
      /\ pointer = Len(witness)
  BY DEF ClaimLoad, Goto, StoreVerifies, WitnessVerifies, durableVars, StoreInv, StoreTypeOK
<1>2. /\ "claim_prepare" \notin Pending /\ "claim_prepare" \notin PendingConsume
      /\ "claim_prepare" \notin ClaimOwner /\ "claim_prepare" \notin After
  BY DEF Pending, PendingConsume, ClaimOwner, After, Consuming
<1>3. (WitnessIsAChain /\ RootsCover /\ ClaimsAreUnique)'
  BY <1>1 DEF StoreInv, WitnessIsAChain, RootsCover, ClaimsAreUnique, Claims
<1>4. PendingIsAlone'
  BY <1>1, <1>2 DEF StoreInv, PendingIsAlone
<1>5. PreparesUnseen'
  <2> SUFFICES ASSUME NEW q \in Process, pc'[q] = "claim_prepare"
               PROVE  view'[q] <= Len(witness) /\
                      \A e \in CommittedRoot(view'[q]) : e.authorization # job[q]
    BY <1>1 DEF PreparesUnseen, CommittedRoot
  <2>1. CASE q = p
    <3>1. view'[q] <= Len(witness)
      BY <1>1, <2>1, WitnessLength DEF StoreInv
    <3>2. \A e \in CommittedRoot(pointer) : e.authorization # job[p]
      BY <1>1 DEF Records
    <3> QED BY <1>1, <2>1, <3>1, <3>2
  <2>2. CASE q # p
    BY <1>1, <2>2 DEF StoreInv, PreparesUnseen
  <2> QED BY <2>1, <2>2
<1>6. OwnersHoldClaims'
  BY <1>1, <1>2 DEF StoreInv, OwnersHoldClaims, NewEnvelope
<1>7. OwnersAreAlone'
  BY <1>1, <1>2 DEF StoreInv, OwnersAreAlone
<1>8. ConsumersHoldEvents'
  BY <1>1, <1>2 DEF StoreInv, ConsumersHoldEvents, NewEnvelope
<1>9. DispatchIsClaimed' /\ ConsumptionsWereDispatched'
  BY <1>1 DEF StoreInv, DispatchIsClaimed, Claims, ConsumptionsWereDispatched
<1>10. AfterDispatch'
  BY <1>1, <1>2 DEF StoreInv, AfterDispatch
<1> QED BY <1>3, <1>4, <1>5, <1>6, <1>7, <1>8, <1>9, <1>10 DEF StoreInv

\* Nobody else holds a claim of the authorization that is dispatched.
LEMMA DispatchStep ==
  ASSUME StoreInv, StoreTypeOK', NEW p \in Process, Dispatch(p)
  PROVE  StoreInv'
<1>1. /\ pc[p] = "claimed" /\ pc'[p] = "dispatching"
      /\ \A q \in Process : q # p => pc'[q] = pc[q]
      /\ UNCHANGED <<witness, pointer, job, view>>
      /\ job[p] \in Authorization
  BY DEF Dispatch, Goto, durableVars, StoreInv, StoreTypeOK
<1>2. /\ view[p] + 1 \in DOMAIN witness
      /\ witness[view[p] + 1].envelope = NewEnvelope(p, "CLAIM")
      /\ witness[view[p] + 1].committed
      /\ dispatched[job[p]] = 0
      /\ Claims(view[p] + 1, job[p])
  BY <1>1 DEF StoreInv, OwnersHoldClaims, ClaimOwner, ClaimCommitted, Claims, NewEnvelope
<1>3. /\ dispatched'[job[p]] = 1
      /\ \A a \in Authorization : a # job[p] => dispatched'[a] = dispatched[a]
  BY <1>1, <1>2 DEF Dispatch, StoreInv, StoreTypeOK
<1>4. /\ "dispatching" \notin Pending /\ "dispatching" \notin PendingConsume
      /\ "dispatching" \notin ClaimOwner /\ "dispatching" # "claim_prepare"
  BY DEF Pending, PendingConsume, ClaimOwner
<1>5. (WitnessIsAChain /\ RootsCover /\ ClaimsAreUnique)'
  BY <1>1 DEF StoreInv, WitnessIsAChain, RootsCover, ClaimsAreUnique, Claims
<1>6. PendingIsAlone'
  BY <1>1, <1>4 DEF StoreInv, PendingIsAlone
<1>7. PreparesUnseen'
  BY <1>1, <1>4 DEF StoreInv, PreparesUnseen, CommittedRoot
<1>8. OwnersHoldClaims'
  <2> SUFFICES ASSUME NEW q \in Process, pc'[q] \in ClaimOwner
               PROVE  /\ view[q] + 1 \in DOMAIN witness
                      /\ witness[view[q] + 1].envelope = NewEnvelope(q, "CLAIM")
                      /\ pc'[q] \in ClaimCommitted => witness[view[q] + 1].committed
                      /\ dispatched'[job[q]] = 0
    BY <1>1 DEF OwnersHoldClaims, NewEnvelope
  <2>1. q # p /\ pc[q] \in ClaimOwner /\ pc'[q] = pc[q]
    BY <1>1, <1>4
  <2>2. /\ view[q] + 1 \in DOMAIN witness
        /\ witness[view[q] + 1].envelope = NewEnvelope(q, "CLAIM")
        /\ pc'[q] \in ClaimCommitted => witness[view[q] + 1].committed
        /\ dispatched[job[q]] = 0
    BY <2>1 DEF StoreInv, OwnersHoldClaims
  <2>3. job[q] \in Authorization
    BY <2>1 DEF StoreInv, StoreTypeOK, ClaimOwner
  <2>4. job[q] # job[p]
    <3> SUFFICES ASSUME job[q] = job[p] PROVE FALSE
      OBVIOUS
    <3>1. Claims(view[q] + 1, job[p])
      BY <2>2 DEF Claims, NewEnvelope
    <3>2. view[q] + 1 = view[p] + 1
      BY <1>1, <1>2, <2>2, <3>1 DEF StoreInv, ClaimsAreUnique
    <3>3. view[q] = view[p]
      BY <3>2 DEF StoreInv, StoreTypeOK
    <3>4. pc[p] \in ClaimOwner
      BY <1>1 DEF ClaimOwner
    <3> QED BY <2>1, <3>3, <3>4 DEF StoreInv, OwnersAreAlone
  <2> QED BY <1>3, <2>2, <2>3, <2>4
<1>9. OwnersAreAlone'
  BY <1>1, <1>4 DEF StoreInv, OwnersAreAlone
<1>10. ConsumersHoldEvents'
  BY <1>1, <1>4 DEF StoreInv, ConsumersHoldEvents, NewEnvelope
<1>11. DispatchIsClaimed'
  <2> SUFFICES ASSUME NEW a \in Authorization
               PROVE  /\ dispatched'[a] <= 1
                      /\ dispatched'[a] > 0 =>
                           \E g \in DOMAIN witness : witness[g].committed /\ Claims(g, a)
    BY <1>1 DEF DispatchIsClaimed, Claims
  <2>1. CASE a = job[p]
    BY <1>2, <1>3, <2>1
  <2>2. CASE a # job[p]
    BY <1>3, <2>2 DEF StoreInv, DispatchIsClaimed
  <2> QED BY <2>1, <2>2
<1>12. \A a \in Authorization : dispatched[a] > 0 => dispatched'[a] > 0
  BY <1>2, <1>3
<1>13. ConsumptionsWereDispatched'
  <2>1. \A g \in DOMAIN witness : witness[g].envelope.authorization \in Authorization
    BY EventType DEF StoreInv, Event, Envelope
  <2> QED BY <1>1, <1>12, <2>1 DEF StoreInv, ConsumptionsWereDispatched
<1>14. AfterDispatch'
  <2>1. \A q \in Process : pc'[q] \in After => job[q] \in Authorization
    BY <1>1 DEF StoreInv, StoreTypeOK, After, Consuming
  <2> QED BY <1>1, <1>3, <1>12, <2>1 DEF StoreInv, AfterDispatch
<1> QED BY <1>5, <1>6, <1>7, <1>8, <1>9, <1>10, <1>11, <1>13, <1>14 DEF StoreInv

\* What happens to the store and the key from outside, and what stutters.
LEMMA OutsideStep ==
  ASSUME StoreInv, StoreTypeOK', UNCHANGED <<witness, pointer, pc, job, view, dispatched>>
  PROVE  StoreInv'
<1>1. (WitnessIsAChain /\ RootsCover /\ ClaimsAreUnique)'
  BY DEF StoreInv, WitnessIsAChain, RootsCover, ClaimsAreUnique, Claims
<1>2. PendingIsAlone' /\ PreparesUnseen'
  BY DEF StoreInv, PendingIsAlone, PreparesUnseen, CommittedRoot
<1>3. OwnersHoldClaims' /\ OwnersAreAlone' /\ ConsumersHoldEvents'
  BY DEF StoreInv, OwnersHoldClaims, OwnersAreAlone, ConsumersHoldEvents, NewEnvelope
<1>4. DispatchIsClaimed' /\ ConsumptionsWereDispatched' /\ AfterDispatch'
  BY DEF StoreInv, DispatchIsClaimed, Claims, ConsumptionsWereDispatched, AfterDispatch
<1> QED BY <1>1, <1>2, <1>3, <1>4 DEF StoreInv

----------------------------------------------------------------------------
(***************************************************************************)
(* The invariant is inductive.                                             *)
(***************************************************************************)
LEMMA TransitionStep ==
  ASSUME StoreInv, StoreTypeOK', NEW p \in Process, Transition(p)
  PROVE  StoreInv'
<1>1. CASE Prepare(p, "claim_prepare", "claim_write", "CLAIM")
  BY <1>1, PrepareClaimStep
<1>2. CASE Prepare(p, "consume_prepare", "consume_write", "CONSUME")
  BY <1>2, PrepareConsumeStep
<1>3. CASE \/ Write(p, "claim_write", "claim_commit", "CLAIM")
           \/ Write(p, "consume_write", "consume_commit", "CONSUME")
           \/ Reopen(p, "claim_reopen", "claimed")
  <2>1. PICK s \in Steps : Goto(p, s) /\ SameClass(pc[p], s)
    BY <1>3 DEF Write, Reopen, SameClass, Steps, Claiming, Consuming
  <2>2. UNCHANGED <<witness, pointer, dispatched, job, view>>
    BY <1>3 DEF Write, Reopen, durableVars
  <2> QED BY <2>1, <2>2, SameClassStep
<1>4. CASE CommitEvent(p, "claim_commit", "claim_point")
  BY <1>4, CommitStep
<1>5. CASE CommitEvent(p, "consume_commit", "consume_point")
  BY <1>5, CommitStep
<1>6. CASE MovePointer(p, "claim_point", "claim_reopen")
  BY <1>6, MovePointerStep
<1>7. CASE MovePointer(p, "consume_point", "consume_reopen")
  BY <1>7, MovePointerStep
<1>8. CASE Reopen(p, "consume_reopen", "consume_release")
  <2>1. /\ Goto(p, "consume_release") /\ pc[p] \in After
        /\ "consume_release" \in After \ PendingConsume
        /\ UNCHANGED <<witness, pointer, dispatched, job, view>>
    BY <1>8 DEF Reopen, durableVars, After, Consuming, PendingConsume
  <2> QED BY <2>1, AfterStep
<1> QED BY <1>1, <1>2, <1>3, <1>4, <1>5, <1>6, <1>7, <1>8 DEF Transition

LEMMA DevelopStep ==
  ASSUME StoreInv, StoreTypeOK', NEW p \in Process, Develop(p)
  PROVE  StoreInv'
<1>1. CASE (\E a \in Authorization : Start(p, a)) \/ Look(p) \/ PrepareRequest(p)
  <2>1. \E s \in Quiet : Goto(p, s)
    BY <1>1 DEF Start, Look, PrepareRequest, Quiet, Steps, Pending, ClaimOwner, After, Consuming
  <2>2. /\ UNCHANGED <<witness, pointer, dispatched>>
        /\ \A q \in Process : q # p => job'[q] = job[q] /\ view'[q] = view[q]
    BY <1>1 DEF Start, Look, PrepareRequest, durableVars, StoreInv, StoreTypeOK
  <2> QED BY <2>1, <2>2, QuietStep
<1>2. CASE Finish(p) \/ Fail(p) \/ Crash(p)
  <2>1. End(p) /\ UNCHANGED <<witness, pointer, dispatched>>
    BY <1>2 DEF Finish, Fail, Crash, durableVars
  <2>2. Goto(p, "idle") /\ "idle" \in Quiet
    BY <2>1 DEF End, Quiet, Steps, Pending, ClaimOwner, After, Consuming
  <2>3. \A q \in Process : q # p => job'[q] = job[q] /\ view'[q] = view[q]
    BY <2>1 DEF End, StoreInv, StoreTypeOK
  <2> QED BY <2>1, <2>2, <2>3, QuietStep
<1>3. CASE ClaimLoad(p)
  BY <1>3, ClaimLoadStep
<1>4. CASE Dispatch(p)
  BY <1>4, DispatchStep
<1>5. CASE Evidenced(p) \/ AcquireLock(p) \/ ConsumeLoad(p) \/ ReleaseLock(p)
  <2>1. /\ \E s \in After \ PendingConsume : Goto(p, s)
        /\ pc[p] \in After
    BY <1>5 DEF Evidenced, AcquireLock, ConsumeLoad, ReleaseLock, After, Consuming,
                PendingConsume
  <2>2. /\ UNCHANGED <<witness, pointer, dispatched, job>>
        /\ \A q \in Process : q # p => view'[q] = view[q]
    BY <1>5 DEF Evidenced, AcquireLock, ConsumeLoad, ReleaseLock, durableVars,
                StoreInv, StoreTypeOK
  <2> QED BY <2>1, <2>2, AfterStep
<1> QED BY <1>1, <1>2, <1>3, <1>4, <1>5 DEF Develop

LEMMA InitHolds == StoreInit => StoreInv
<1> SUFFICES ASSUME StoreInit PROVE StoreInv
  OBVIOUS
<1>1. StoreTypeOK
  BY DEF StoreInit, StoreTypeOK, Steps
<1>2. Len(witness) = 0 /\ DOMAIN witness = {}
  BY DEF StoreInit
<1>3. WitnessIsAChain /\ RootsCover /\ ClaimsAreUnique /\ ConsumptionsWereDispatched
  BY <1>2 DEF StoreInit, WitnessIsAChain, RootsCover, ClaimsAreUnique,
              ConsumptionsWereDispatched
<1>4. PendingIsAlone /\ PreparesUnseen /\ OwnersHoldClaims /\ OwnersAreAlone
      /\ ConsumersHoldEvents /\ AfterDispatch
  BY DEF StoreInit, PendingIsAlone, PreparesUnseen, OwnersHoldClaims, OwnersAreAlone,
         ConsumersHoldEvents, AfterDispatch, Pending, ClaimOwner, PendingConsume, After,
         Consuming
<1>5. DispatchIsClaimed
  BY DEF StoreInit, DispatchIsClaimed
<1> QED BY <1>1, <1>3, <1>4, <1>5 DEF StoreInv

LEMMA NextHolds == StoreInv /\ [StoreNext]_storeVars => StoreInv'
<1> SUFFICES ASSUME StoreInv, [StoreNext]_storeVars PROVE StoreInv'
  OBVIOUS
<1>1. StoreTypeOK'
  BY TypeStep
<1>2. CASE \E p \in Process : Transition(p) \/ Develop(p)
  BY <1>1, <1>2, TransitionStep, DevelopStep
<1>3. CASE Rollback \/ Revoke \/ UNCHANGED storeVars
  BY <1>1, <1>3, OutsideStep DEF Rollback, Revoke, storeVars
<1> QED BY <1>2, <1>3 DEF StoreNext

\* What the store, its witness and the processes are, after any interleaving of any number
\* of developments, endings, failures, revocations and rollbacks.
THEOREM StoreIsSound == StoreSpec => []StoreInv
  BY InitHolds, NextHolds, PTL DEF StoreSpec

\* claimExactAuthorization() and dispatchR3AfterClaim(): no authorization dispatches twice.
THEOREM OnceDispatched == StoreSpec => []DispatchedAtMostOnce
<1>1. StoreInv => DispatchedAtMostOnce
  BY DEF StoreInv, DispatchIsClaimed, DispatchedAtMostOnce
<1> QED BY <1>1, StoreIsSound, PTL

----------------------------------------------------------------------------
(***************************************************************************)
(* The witness only grows, and the store is a ledger.                      *)
(***************************************************************************)

\* Every step leaves the witness alone, prepares an event, or commits the outstanding one.
LEMMA WitnessMoves ==
  ASSUME StoreInv, [StoreNext]_storeVars
  PROVE  \/ UNCHANGED witness
         \/ \E p \in Process, type \in {"CLAIM", "CONSUME"} :
              \E from, to \in Steps \ {"idle"} : Prepare(p, from, to, type)
         \/ \E p \in Process : CommitEvent(p, "claim_commit", "claim_point")
         \/ \E p \in Process : CommitEvent(p, "consume_commit", "consume_point")
<1>1. ASSUME NEW p \in Process, Transition(p)
      PROVE  \/ UNCHANGED witness
             \/ Prepare(p, "claim_prepare", "claim_write", "CLAIM")
             \/ Prepare(p, "consume_prepare", "consume_write", "CONSUME")
             \/ CommitEvent(p, "claim_commit", "claim_point")
             \/ CommitEvent(p, "consume_commit", "consume_point")
  BY <1>1 DEF Transition, Write, MovePointer, Reopen, durableVars
<1>2. ASSUME NEW p \in Process, Develop(p) PROVE UNCHANGED witness
  BY <1>2 DEF Develop, Start, Look, PrepareRequest, ClaimLoad, Dispatch, Evidenced,
              AcquireLock, ConsumeLoad, ReleaseLock, Finish, Fail, Crash, durableVars
<1>3. CASE Rollback \/ Revoke \/ UNCHANGED storeVars
  BY <1>3 DEF Rollback, Revoke, storeVars
<1>4. {"claim_prepare", "claim_write", "consume_prepare", "consume_write"}
        \subseteq Steps \ {"idle"}
  BY DEF Steps, Claiming, Consuming
<1> QED BY <1>1, <1>2, <1>3, <1>4 DEF StoreNext

LEMMA WitnessGrows ==
  ASSUME StoreInv, [StoreNext]_storeVars
  PROVE  /\ Len(witness') >= Len(witness)
         /\ \A g \in DOMAIN witness :
              /\ witness'[g].envelope = witness[g].envelope
              /\ witness'[g].root = witness[g].root
              /\ witness[g].committed => witness'[g].committed
<1>1. Len(witness) \in Nat /\ StoreTypeOK
  BY WitnessLength DEF StoreInv
<1>2. CASE UNCHANGED witness
  BY <1>1, <1>2
<1>3. ASSUME NEW p \in Process, NEW type \in {"CLAIM", "CONSUME"},
             NEW from \in Steps \ {"idle"}, NEW to \in Steps \ {"idle"},
             Prepare(p, from, to, type)
      PROVE  /\ Len(witness') >= Len(witness)
             /\ \A g \in DOMAIN witness : witness'[g] = witness[g]
  <2>1. from \in Steps /\ to \in Steps /\ from # "idle"
    OBVIOUS
  <2>2. /\ Len(witness') = Len(witness) + 1
        /\ \A g \in DOMAIN witness : witness'[g] = witness[g]
    BY <1>1, <1>3, <2>1, PrepareAppends, Zenon
  <2> QED BY <1>1, <2>2
<1>4. ASSUME NEW p \in Process, NEW from \in {"claim_commit", "consume_commit"}, NEW to,
             CommitEvent(p, from, to)
      PROVE  /\ Len(witness') >= Len(witness)
             /\ \A g \in DOMAIN witness :
                  /\ witness'[g].envelope = witness[g].envelope
                  /\ witness'[g].root = witness[g].root
                  /\ witness[g].committed => witness'[g].committed
  <2>1. pc[p] \in Pending
    BY <1>4 DEF CommitEvent, Pending
  <2>2. view[p] + 1 \in DOMAIN witness
    BY <2>1, PendingEvent
  <2>3. Len(witness') = Len(witness)
    BY <1>1, <1>4, <2>2, CommitMarks DEF CommitEvent
  <2> QED BY <1>1, <1>4, <2>2, <2>3, CommitMarks DEF CommitEvent
<1> QED BY <1>2, <1>3, <1>4, WitnessMoves

LEMMA PointerAdvances ==
  ASSUME StoreInv, [StoreNext]_storeVars
  PROVE  pointer' \in {pointer, pointer + 1}
<1>1. ASSUME NEW p \in Process, Transition(p) PROVE pointer' \in {pointer, pointer + 1}
  <2>1. CASE UNCHANGED pointer
    BY <2>1
  <2>2. ASSUME NEW from \in {"claim_point", "consume_point"}, NEW to, MovePointer(p, from, to)
        PROVE  pointer' \in {pointer, pointer + 1}
    <3>1. pc[p] \in Pending
      BY <2>2 DEF MovePointer, Pending
    <3> QED BY <2>2, <3>1, PendingEvent DEF MovePointer
  <2>3. \/ UNCHANGED pointer
        \/ MovePointer(p, "claim_point", "claim_reopen")
        \/ MovePointer(p, "consume_point", "consume_reopen")
    BY <1>1 DEF Transition, Prepare, Write, CommitEvent, Reopen, durableVars
  <2> QED BY <2>1, <2>2, <2>3
<1>2. ASSUME NEW p \in Process, Develop(p) PROVE UNCHANGED pointer
  BY <1>2 DEF Develop, Start, Look, PrepareRequest, ClaimLoad, Dispatch, Evidenced,
              AcquireLock, ConsumeLoad, ReleaseLock, Finish, Fail, Crash, durableVars
<1>3. CASE Rollback \/ Revoke \/ UNCHANGED storeVars
  BY <1>3 DEF Rollback, Revoke, storeVars
<1> QED BY <1>1, <1>2, <1>3 DEF StoreNext

\* natural-development-monotonic-witness.js: no event is changed or taken back, and the
\* pointer moves one generation at a time.
THEOREM WitnessGrowsOnly == StoreSpec => WitnessIsAppendOnly
<1>1. StoreInv /\ [StoreNext]_storeVars =>
        [/\ pointer' \in {pointer, pointer + 1}
         /\ Len(witness') >= Len(witness)
         /\ \A g \in DOMAIN witness :
              /\ witness'[g].envelope = witness[g].envelope
              /\ witness'[g].root = witness[g].root
              /\ witness[g].committed => witness'[g].committed]_storeVars
  BY WitnessGrows, PointerAdvances
<1> QED BY <1>1, StoreIsSound, PTL DEF StoreSpec, WitnessIsAppendOnly

----------------------------------------------------------------------------
LEMMA CommittedIs ==
  ASSUME NEW type, NEW a
  PROVE  a \in Committed(type) <=>
           \E g \in DOMAIN witness : /\ witness[g].committed
                                     /\ witness[g].envelope.type = type
                                     /\ witness[g].envelope.authorization = a
BY DEF Committed

\* The standing of an authorization is a matter of the committed events and the dispatches.
LEMMA SameStanding ==
  ASSUME NEW a, UNCHANGED dispatched,
         a \in Committed("CLAIM")' <=> a \in Committed("CLAIM"),
         a \in Committed("CONSUME")' <=> a \in Committed("CONSUME")
  PROVE  Standing(a)' = Standing(a)
BY DEF Standing

\* A prepared event is committed for nobody.
LEMMA PrepareKeepsStanding ==
  ASSUME StoreInv, NEW p \in Process, NEW type \in {"CLAIM", "CONSUME"},
         NEW from \in Steps \ {"idle"}, NEW to \in Steps \ {"idle"}, Prepare(p, from, to, type),
         NEW a
  PROVE  Standing(a)' = Standing(a)
<1>1. from \in Steps /\ to \in Steps /\ from # "idle" /\ StoreTypeOK
  BY DEF StoreInv
<1>2. /\ DOMAIN witness' = 1 .. Len(witness) + 1
      /\ view[p] = Len(witness)
      /\ \A g \in DOMAIN witness : witness'[g] = witness[g]
  BY <1>1, PrepareAppends, Zenon
<1>3. ~witness'[view[p] + 1].committed
  <2>1. witness'[view[p] + 1] =
          [envelope |-> NewEnvelope(p, type), committed |-> FALSE,
           root |-> Replaced(CommittedRoot(view[p]), NewEnvelope(p, type))]
    BY <1>1, PrepareAppends, Zenon
  <2> QED BY <2>1
<1>4. /\ DOMAIN witness \subseteq DOMAIN witness'
      /\ \A g \in DOMAIN witness' : g \in DOMAIN witness \/ g = view[p] + 1
  BY <1>1, <1>2, WitnessLength
<1>5. \A t : a \in Committed(t)' <=> a \in Committed(t)
  BY <1>2, <1>3, <1>4 DEF Committed
<1>6. UNCHANGED dispatched
  BY DEF Prepare
<1> QED BY <1>5, <1>6, SameStanding

\* The commitment of an event settles its authorization and no other.
LEMMA CommitSettles ==
  ASSUME StoreInv, NEW p \in Process, NEW from \in {"claim_commit", "consume_commit"}, NEW to,
         NEW type \in {"CLAIM", "CONSUME"}, CommitEvent(p, from, to),
         type = "CLAIM" <=> from = "claim_commit"
  PROVE  \E b \in Authorization :
           /\ b = job[p]
           /\ b \in Committed(type)'
           /\ \A a, t : a # b \/ t # type => (a \in Committed(t)' <=> a \in Committed(t))
           /\ UNCHANGED dispatched
<1> DEFINE i == view[p] + 1
<1>1. /\ pc[p] = from /\ pc[p] \in Pending
      /\ UNCHANGED dispatched
      /\ job[p] \in Authorization
  BY DEF CommitEvent, Pending, StoreInv, StoreTypeOK
<1>2. i \in DOMAIN witness
  BY <1>1, PendingEvent
<1>3. /\ witness[i].envelope.type = type
      /\ witness[i].envelope.authorization = job[p]
  <2>1. CASE from = "claim_commit"
    <3>1. witness[i].envelope = NewEnvelope(p, "CLAIM")
      BY <1>1, <2>1 DEF StoreInv, OwnersHoldClaims, ClaimOwner
    <3>2. type = "CLAIM"
      BY <2>1
    <3> QED BY <3>1, <3>2 DEF NewEnvelope
  <2>2. CASE from = "consume_commit"
    <3>1. witness[i].envelope = NewEnvelope(p, "CONSUME")
      BY <1>1, <2>2 DEF StoreInv, ConsumersHoldEvents, PendingConsume
    <3>2. type = "CONSUME"
      BY <2>2
    <3> QED BY <3>1, <3>2 DEF NewEnvelope
  <2> QED BY <2>1, <2>2
<1>4. witness' = [witness EXCEPT ![i] =
                    [envelope |-> @.envelope, root |-> @.root, committed |-> TRUE]]
  BY DEF CommitEvent
<1>5. /\ DOMAIN witness' = DOMAIN witness
      /\ \A g \in DOMAIN witness : witness'[g].envelope = witness[g].envelope
      /\ witness'[i].committed
  BY <1>2, <1>4, CommitMarks DEF StoreInv
<1>6. \A g \in DOMAIN witness : g # i => witness'[g] = witness[g]
  BY <1>4
<1> HIDE DEF i
<1>7. PICK b \in Authorization : b = job[p]
  BY <1>1
<1>8. b \in Committed(type)'
  BY <1>2, <1>3, <1>5, <1>7 DEF Committed
<1>9. ASSUME NEW a, NEW t, a # b \/ t # type
      PROVE  a \in Committed(t)' <=> a \in Committed(t)
  BY <1>3, <1>5, <1>6, <1>7, <1>9 DEF Committed
<1> QED BY <1>1, <1>7, <1>8, <1>9

LEMMA StandingIs ==
  ASSUME StoreInv, NEW a \in Authorization
  PROVE  /\ dispatched[a] > 0 => a \in Committed("CLAIM")
         /\ a \in Committed("CONSUME") => dispatched[a] > 0
<1>1. dispatched[a] > 0 => a \in Committed("CLAIM")
  BY DEF StoreInv, DispatchIsClaimed, Claims, Committed
<1>2. a \in Committed("CONSUME") => dispatched[a] > 0
  BY DEF StoreInv, ConsumptionsWereDispatched, Committed
<1> QED BY <1>1, <1>2

\* One authorization moves, the others stay.
LEMMA OneMoves ==
  ASSUME NEW b \in Authorization, NEW from, NEW to,
         Standing(b) = from, Standing(b)' = to,
         \A a \in Authorization : a # b => Standing(a)' = Standing(a)
  PROVE  Ledger!Moves(b, from, to)
BY DEF Ledger!Moves

LEMMA CommitMoves ==
  ASSUME StoreInv, NEW p \in Process,
         \/ CommitEvent(p, "claim_commit", "claim_point")
         \/ CommitEvent(p, "consume_commit", "consume_point")
  PROVE  \/ Ledger!LNext
         \/ \A a \in Authorization : Standing(a)' = Standing(a)
<1>1. CASE CommitEvent(p, "claim_commit", "claim_point")
  <2>1. PICK b \in Authorization :
          /\ b = job[p]
          /\ b \in Committed("CLAIM")'
          /\ \A a, t : a # b \/ t # "CLAIM" => (a \in Committed(t)' <=> a \in Committed(t))
          /\ UNCHANGED dispatched
    BY <1>1, CommitSettles
  <2>2. dispatched[b] = 0
    BY <1>1, <2>1 DEF CommitEvent, StoreInv, OwnersHoldClaims, ClaimOwner
  <2>3. b \notin Committed("CONSUME") /\ b \notin Committed("CONSUME")'
    BY <2>1, <2>2, StandingIs
  <2>4. \A a \in Authorization : a # b => Standing(a)' = Standing(a)
    BY <2>1, SameStanding
  <2>5. Standing(b)' = "CLAIMED"
    BY <2>1, <2>2, <2>3 DEF Standing
  <2>6. Standing(b) = "FREE" \/ Standing(b) = "CLAIMED"
    BY <2>2, <2>3 DEF Standing
  <2>7. CASE Standing(b) = "FREE"
    BY <2>4, <2>5, <2>7, OneMoves DEF Ledger!LNext
  <2>8. CASE Standing(b) = "CLAIMED"
    BY <2>4, <2>5, <2>8
  <2> QED BY <2>6, <2>7, <2>8
<1>2. CASE CommitEvent(p, "consume_commit", "consume_point")
  <2>1. PICK b \in Authorization :
          /\ b = job[p]
          /\ b \in Committed("CONSUME")'
          /\ \A a, t : a # b \/ t # "CONSUME" => (a \in Committed(t)' <=> a \in Committed(t))
          /\ UNCHANGED dispatched
    BY <1>2, CommitSettles
  <2>2. dispatched[b] > 0
    BY <1>2, <2>1 DEF CommitEvent, StoreInv, AfterDispatch, After, Consuming
  <2>3. \A a \in Authorization : a # b => Standing(a)' = Standing(a)
    BY <2>1, SameStanding
  <2>4. Standing(b)' = "CONSUMED"
    BY <2>1 DEF Standing
  <2>5. Standing(b) = "DISPATCHED" \/ Standing(b) = "CONSUMED"
    BY <2>2 DEF Standing
  <2>6. CASE Standing(b) = "DISPATCHED"
    BY <2>3, <2>4, <2>6, OneMoves DEF Ledger!LNext
  <2>7. CASE Standing(b) = "CONSUMED"
    BY <2>3, <2>4, <2>7
  <2> QED BY <2>5, <2>6, <2>7
<1> QED BY <1>1, <1>2

LEMMA DispatchMoves ==
  ASSUME StoreInv, NEW p \in Process, Dispatch(p)
  PROVE  Ledger!LNext
<1>1. PICK b \in Authorization :
        /\ b = job[p]
        /\ pc[p] = "claimed"
        /\ UNCHANGED witness
        /\ dispatched' = [dispatched EXCEPT ![b] = @ + 1]
        /\ dispatched \in [Authorization -> Nat]
  BY DEF Dispatch, durableVars, StoreInv, StoreTypeOK
<1>2. /\ view[p] + 1 \in DOMAIN witness
      /\ witness[view[p] + 1].envelope = NewEnvelope(p, "CLAIM")
      /\ witness[view[p] + 1].committed
      /\ dispatched[b] = 0
  BY <1>1 DEF StoreInv, OwnersHoldClaims, ClaimOwner, ClaimCommitted
<1>3. b \in Committed("CLAIM")
  BY <1>1, <1>2, CommittedIs DEF NewEnvelope
<1>4. b \notin Committed("CONSUME")
  BY <1>1, <1>2, StandingIs
<1>5. \A t : Committed(t)' = Committed(t)
  BY <1>1 DEF Committed
<1>6. dispatched'[b] = 1 /\ \A a \in Authorization : a # b => dispatched'[a] = dispatched[a]
  BY <1>1, <1>2
<1>7. Standing(b) = "CLAIMED" /\ Standing(b)' = "DISPATCHED"
  BY <1>2, <1>3, <1>4, <1>5, <1>6 DEF Standing
<1>8. \A a \in Authorization : a # b => Standing(a)' = Standing(a)
  BY <1>5, <1>6 DEF Standing
<1> QED BY <1>7, <1>8, OneMoves DEF Ledger!LNext

\* Every step of the store is a step of the ledger, or none.
LEMMA StepIsLedgers ==
  ASSUME StoreInv, [StoreNext]_storeVars
  PROVE  \/ Ledger!LNext
         \/ \A a \in Authorization : Standing(a)' = Standing(a)
<1>1. CASE \E p \in Process : Dispatch(p)
  BY <1>1, DispatchMoves
<1>2. CASE ~ \E p \in Process : Dispatch(p)
  <2>1. UNCHANGED dispatched
    BY <1>2 DEF StoreNext, Transition, Develop, Prepare, Write, CommitEvent, MovePointer,
                Reopen, Start, Look, PrepareRequest, ClaimLoad, Evidenced, AcquireLock,
                ConsumeLoad, ReleaseLock, Finish, Fail, Crash, Rollback, Revoke, storeVars,
                durableVars
  <2>2. CASE UNCHANGED witness
    BY <2>1, <2>2, SameStanding DEF Committed
  <2>3. CASE \E p \in Process, type \in {"CLAIM", "CONSUME"} :
               \E from, to \in Steps \ {"idle"} : Prepare(p, from, to, type)
    BY <2>3, PrepareKeepsStanding
  <2> QED BY <2>2, <2>3, WitnessMoves, CommitMoves
<1> QED BY <1>1, <1>2

\* The durable store implements the ledger of authorizations: claimed durably, then
\* dispatched at most once, then recorded as consumed, and never back.
THEOREM StoreImplementsLedger == StoreSpec => ImplementsLedger
<1>1. StoreInit => Ledger!LInit
  BY DEF StoreInit, Ledger!LInit, Standing, Committed
<1>2. StoreInv /\ [StoreNext]_storeVars =>
        [Ledger!LNext]_([a \in Authorization |-> Standing(a)])
  BY StepIsLedgers
<1> QED BY <1>1, <1>2, StoreIsSound, PTL DEF StoreSpec, ImplementsLedger, Ledger!LSpec
=============================================================================
