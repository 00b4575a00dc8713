-------------------- MODULE AuthorizationStoreInvariant --------------------
(***************************************************************************)
(* The inductive invariant of AuthorizationStore.  Uniqueness of the claim *)
(* of an authorization lives in the witness: every root it commits covers  *)
(* every authorization of an earlier event, so that a process that saw no  *)
(* envelope of its own, and prepares against that same root, prepares the  *)
(* first claim.                                                            *)
(***************************************************************************)
EXTENDS AuthorizationStore

\* Steps of a process that has prepared an event and not yet moved the pointer.
Pending == {"claim_write", "claim_commit", "claim_point",
            "consume_write", "consume_commit", "consume_point"}
PendingConsume == {"consume_write", "consume_commit", "consume_point"}

\* Steps of a process that owns the claim it may dispatch under.
ClaimOwner == {"claim_write", "claim_commit", "claim_point", "claim_reopen", "claimed"}
ClaimCommitted == {"claim_point", "claim_reopen", "claimed"}

\* Steps after the dispatch.
After == {"dispatching", "evidence", "consumed"} \union Consuming

WitnessIsAChain ==
  /\ pointer <= Len(witness)
  /\ Len(witness) <= pointer + 1
  /\ \A g \in DOMAIN witness : witness[g].envelope.generation = g
  /\ \A g \in DOMAIN witness : g <= pointer => witness[g].committed

RootsCover ==
  \A g, h \in DOMAIN witness :
    h <= g => \E e \in witness[g].root :
                e.authorization = witness[h].envelope.authorization

Claims(g, a) ==
  witness[g].envelope.type = "CLAIM" /\ witness[g].envelope.authorization = a

ClaimsAreUnique ==
  \A g, h \in DOMAIN witness : \A a \in Authorization :
    Claims(g, a) /\ Claims(h, a) => g = h

PendingIsAlone ==
  /\ \A p \in Process : pc[p] \in Pending =>
       view[p] = pointer /\ Len(witness) = pointer + 1
  /\ \A p, q \in Process : pc[p] \in Pending /\ pc[q] \in Pending => p = q

PreparesUnseen ==
  \A p \in Process : pc[p] = "claim_prepare" =>
    /\ view[p] <= Len(witness)
    /\ \A e \in CommittedRoot(view[p]) : e.authorization # job[p]

OwnersHoldClaims ==
  \A p \in Process : pc[p] \in ClaimOwner =>
    /\ view[p] + 1 \in DOMAIN witness
    /\ witness[view[p] + 1].envelope = NewEnvelope(p, "CLAIM")
    /\ pc[p] \in ClaimCommitted => witness[view[p] + 1].committed
    /\ dispatched[job[p]] = 0

OwnersAreAlone ==
  \A p, q \in Process :
    pc[p] \in ClaimOwner /\ pc[q] \in ClaimOwner /\ view[p] = view[q] => p = q

ConsumersHoldEvents ==
  \A p \in Process : pc[p] \in PendingConsume =>
    /\ witness[view[p] + 1].envelope = NewEnvelope(p, "CONSUME")
    /\ pc[p] = "consume_point" => witness[view[p] + 1].committed

DispatchIsClaimed ==
  \A a \in Authorization :
    /\ dispatched[a] <= 1
    /\ dispatched[a] > 0 =>
         \E g \in DOMAIN witness : witness[g].committed /\ Claims(g, a)

AfterDispatch == \A p \in Process : pc[p] \in After => dispatched[job[p]] > 0

ConsumptionsWereDispatched ==
  \A g \in DOMAIN witness :
    witness[g].envelope.type = "CONSUME" => dispatched[witness[g].envelope.authorization] > 0

\* The conjunction is inductive: each part needs the others for some action.
StoreInv ==
  /\ StoreTypeOK
  /\ WitnessIsAChain
  /\ RootsCover
  /\ ClaimsAreUnique
  /\ PendingIsAlone
  /\ PreparesUnseen
  /\ OwnersHoldClaims
  /\ OwnersAreAlone
  /\ ConsumersHoldEvents
  /\ DispatchIsClaimed
  /\ AfterDispatch
  /\ ConsumptionsWereDispatched
=============================================================================
