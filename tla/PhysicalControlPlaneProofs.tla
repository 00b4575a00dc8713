--------------------- MODULE PhysicalControlPlaneProofs ---------------------
(***************************************************************************)
(* Proofs about PhysicalControlPlane, for every set of servers, requests,  *)
(* operations and recoverers: its types, its inductive invariant and what  *)
(* follows from it, and that it implements SubmissionLedger.               *)
(***************************************************************************)
EXTENDS PhysicalControlPlaneInvariant, TLAPS

----------------------------------------------------------------------------
(***************************************************************************)
(* The types.                                                              *)
(***************************************************************************)
Notes == [purpose : Purposes, state : States, after : Nat, outcome : {"ok", "error"}]
Jobs == [server : Server, operation : Operation]

\* TypeOK by the kind of state.
FileTypes ==
  /\ registry \in Registry
  /\ lock \in WriterRecord \union {NoLock}
  /\ claims \subseteq (Ticket \X (Recoverer \union {Nobody}))

ServerTypes ==
  /\ status \in [Server -> {"closed", "open", "dead"}]
  /\ committed \in [Server -> Registry]
  /\ memory \in [Server -> Records]
  /\ poisoned \in [Server -> BOOLEAN]

RequestTypes ==
  /\ turn \in [Server -> Request \union {Nobody}]
  /\ pc \in [Request -> Steps]
  /\ job \in [Request -> Jobs \union {NoJob}]
  /\ \A q \in Request : pc[q] # "idle" => job[q].server \in Server
  /\ note \in [Request -> Notes]
  /\ dispatched \subseteq Request
  /\ effects \subseteq Operation

RecoveryTypes ==
  /\ rpc \in [Recoverer -> RecoverySteps]
  /\ seen \in [Recoverer -> WriterRecord \union {NoLock}]
  /\ \A k \in Recoverer : rpc[k] # "idle" => seen[k] # NoLock

LEMMA TypeParts == TypeOK <=> FileTypes /\ ServerTypes /\ RequestTypes /\ RecoveryTypes
  BY DEF TypeOK, FileTypes, ServerTypes, RequestTypes, RecoveryTypes, Jobs, Notes

LEMMA TypePartsNext ==
  FileTypes' /\ ServerTypes' /\ RequestTypes' /\ RecoveryTypes' => TypeOK'
  BY DEF TypeOK, FileTypes, ServerTypes, RequestTypes, RecoveryTypes, Jobs, Notes

LEMMA RecordFacts ==
  /\ Registered \in Record
  /\ EmptyNote \in Notes
  /\ \A r \in MaybeRecord, n \in Nat, st \in States :
       MayObserve(r, n, st) => Observed(r, st) \in Record
  BY DEF Registered, EmptyNote, Notes, Purposes, States, Settled, Record, MaybeRecord,
         MayObserve, Observed

\* What is known of a request that was sent.
LEMMA SentType ==
  ASSUME TypeOK, NEW q \in Request, Alive(q)
  PROVE  /\ job[q] \in Jobs
         /\ ServerOf(q) \in Server
         /\ OperationOf(q) \in Operation
         /\ note[q] \in Notes
         /\ TicketOf(q) \in Ticket
  <1>1. job[q] \in Jobs \union {NoJob} /\ job[q].server \in Server
    BY DEF TypeOK, Alive, Jobs
  <1>2. NoJob.server = Nobody
    BY DEF NoJob
  <1>3. job[q] \in Jobs
    BY <1>1, <1>2, ConstantsAssumption
  <1>4. note[q] \in Notes
    BY DEF TypeOK, Notes
  <1> QED
    BY <1>3, <1>4 DEF Jobs, Notes, OperationOf, ServerOf, TicketOf, Ticket

LEMMA RefreshedType ==
  ASSUME TypeOK, NEW s \in Server
  PROVE  Refreshed(s) \in Records
  BY DEF TypeOK, Refreshed, Registry

LEMMA AdoptType ==
  ASSUME TypeOK, NEW s \in Server, NEW records \in Records, Adopt(s, records)
  PROVE  /\ committed' \in [Server -> Registry]
         /\ memory' \in [Server -> Records]
         /\ status' = status
         /\ poisoned' = poisoned
  BY DEF TypeOK, Adopt

LEMMA ThrowType ==
  ASSUME TypeOK, NEW q \in Request, Alive(q), Throw(q)
  PROVE  /\ pc' \in [Request -> Steps]
         /\ note' \in [Request -> Notes]
         /\ turn' \in [Server -> Request \union {Nobody}]
         /\ \A p \in Request \ {q} : pc'[p] = pc[p]
  <1>1. note[q] \in Notes /\ ServerOf(q) \in Server
    BY SentType
  <1>2. [note[q] EXCEPT !.purpose = "settle", !.state = "failed", !.outcome = "ok"] \in Notes
    BY <1>1 DEF Notes, Purposes, States, Settled
  <1>3. pc \in [Request -> Steps] /\ note \in [Request -> Notes]
        /\ turn \in [Server -> Request \union {Nobody}]
    BY DEF TypeOK, Notes
  <1> QED
    BY <1>1, <1>2, <1>3, RecordFacts DEF Throw, Answer, Goto, Note, Keep, Yield, Steps

\* A step of the service that leaves recovery and the writer record alone.
LEMMA OpenType ==
  ASSUME TypeOK, NEW s \in Server, Open(s) \/ Crash(s)
  PROVE  TypeOK'
  <1>1. FileTypes' /\ RequestTypes' /\ RecoveryTypes'
    BY TypeParts
    DEF Open, Crash, FileTypes, RequestTypes, RecoveryTypes, files, history, outside, recoveryVars
  <1>2. ServerTypes'
    <2>1. registry \in Registry /\ registry.entries \in Records /\ ServerTypes
      BY TypeParts DEF FileTypes, Registry
    <2>2. CASE Open(s)
      BY <2>1, <2>2 DEF ServerTypes, Open
    <2>3. CASE Crash(s)
      BY <2>1, <2>3 DEF ServerTypes, Crash
    <2> QED
      BY <2>2, <2>3
  <1> QED
    BY <1>1, <1>2, TypePartsNext

\* What a call does to the types: it is sent, and the registry is adopted.
LEMMA CallType ==
  ASSUME TypeOK, NEW q \in Request, NEW s \in Server, NEW o \in Operation,
         Send(q, s, o), NEW records \in Records, Adopt(s, records),
         NEW step \in Steps, Goto(q, step),
         note' \in [Request -> Notes],
         UNCHANGED turn \/ turn' = [turn EXCEPT ![s] = q],
         UNCHANGED <<files, history, outside>>
  PROVE  TypeOK'
  <1>1. FileTypes' /\ RecoveryTypes'
    BY TypeParts DEF FileTypes, RecoveryTypes, files, outside, recoveryVars
  <1>2. ServerTypes'
    BY AdoptType, TypeParts DEF ServerTypes
  <1>3. RequestTypes'
    <2>1. [server |-> s, operation |-> o] \in Jobs
      BY DEF Jobs
    <2> QED
      BY <2>1, TypeParts DEF RequestTypes, Send, Goto, history, Jobs
  <1> QED
    BY <1>1, <1>2, <1>3, TypePartsNext

LEMMA CallsType ==
  ASSUME TypeOK, NEW q \in Request, NEW s \in Server, NEW o \in Operation,
         Call(q, s, o)
  PROVE  TypeOK'
  <1>1. Refreshed(s) \in Records /\ note \in [Request -> Notes]
    BY RefreshedType, TypeParts DEF RequestTypes
  <1>2. CASE SubmitNew(q, s, o)
    <2>1. [Refreshed(s) EXCEPT ![o] = Registered] \in Records
      BY <1>1, RecordFacts DEF Records, MaybeRecord
    <2>2. [EmptyNote EXCEPT !.purpose = "claim"] \in Notes
      BY RecordFacts DEF Notes, Purposes
    <2>3. note' \in [Request -> Notes] /\ "acquire" \in Steps
      BY <1>1, <1>2, <2>2 DEF SubmitNew, Note, Steps
    <2> QED
      BY <1>2, <2>1, <2>3, CallType DEF SubmitNew
  <1>3. CASE CallEnds(q, s, o)
    <2>1. note' \in [Request -> Notes] /\ "answered" \in Steps
      BY <1>1, <1>3 DEF CallEnds, Steps
    <2> QED
      BY <1>1, <1>3, <2>1, CallType DEF CallEnds
  <1>4. CASE Look(q, s, o)
    <2>1. Refreshed(s)[o] \in Record
      BY <1>1, <1>4 DEF Look, Records, MaybeRecord
    <2>2. [EmptyNote EXCEPT !.state = Refreshed(s)[o].state,
                            !.after = Refreshed(s)[o].sequence] \in Notes
      BY <2>1, RecordFacts DEF Notes, Record
    <2>3. note' \in [Request -> Notes]
      BY <1>1, <1>4, <2>2 DEF Look, Note
    <2>4. PICK step \in Steps : Goto(q, step)
      BY <1>4 DEF Look, Steps
    <2> QED
      BY <1>1, <1>4, <2>3, <2>4, CallType DEF Look
  <1> QED
    BY <1>2, <1>3, <1>4 DEF Call

\* What a step of a sent request leaves to show.
LEMMA StepType ==
  ASSUME TypeOK, FileTypes', ServerTypes',
         turn' \in [Server -> Request \union {Nobody}],
         pc' \in [Request -> Steps],
         NEW q \in Request, Alive(q), \A p \in Request \ {q} : pc'[p] = pc[p],
         UNCHANGED job,
         note' \in [Request -> Notes],
         dispatched' \subseteq Request,
         effects' \subseteq Operation,
         UNCHANGED recoveryVars
  PROVE  TypeOK'
  <1>1. RecoveryTypes'
    BY TypeParts DEF RecoveryTypes, recoveryVars
  <1>2. RequestTypes'
    BY TypeParts DEF RequestTypes, Alive
  <1> QED
    BY <1>1, <1>2, TypePartsNext

LEMMA ExecuteType ==
  ASSUME TypeOK, NEW q \in Request, Alive(q), Execute(q) \/ Evidence(q)
  PROVE  TypeOK'
  <1>1. note' \in [Request -> Notes]
    <2>1. CASE Execute(q)
      <3>1. PICK effect \in BOOLEAN, state \in Settled \union {"unknown"} :
              Note(q, [purpose |-> IF state = "succeeded" THEN "report" ELSE "settle",
                       state |-> state, after |-> Registered.sequence, outcome |-> "ok"])
        BY <2>1 DEF Execute
      <3>2. [purpose |-> IF state = "succeeded" THEN "report" ELSE "settle",
             state |-> state, after |-> Registered.sequence, outcome |-> "ok"] \in Notes
        BY RecordFacts DEF Notes, Purposes, States, Settled, Record
      <3> QED
        BY <3>1, <3>2, TypeParts DEF Note, RequestTypes
    <2>2. CASE Evidence(q)
      <3>1. PICK state \in Settled \union {"unknown"} :
              Note(q, [note[q] EXCEPT !.state = state])
        BY <2>2 DEF Evidence
      <3>2. [note[q] EXCEPT !.state = state] \in Notes
        BY SentType DEF Notes, States, Settled
      <3> QED
        BY <3>1, <3>2, TypeParts DEF Note, RequestTypes
    <2> QED
      BY <2>1, <2>2
  <1>2. effects' \subseteq Operation /\ dispatched' \subseteq Request
    BY SentType, TypeParts DEF Execute, Evidence, history, RequestTypes
  <1>3. FileTypes' /\ ServerTypes' /\ UNCHANGED <<turn, job, recoveryVars>>
    BY TypeParts
    DEF Execute, Evidence, FileTypes, ServerTypes, files, serverVars, outside, recoveryVars
  <1>4. Goto(q, "observe")
    BY DEF Execute, Evidence
  <1> QED
    BY <1>1, <1>2, <1>3, <1>4, StepType, TypeParts DEF RequestTypes, Goto, Steps

LEMMA ObserveType ==
  ASSUME TypeOK, NEW q \in Request, Alive(q), Observe(q) \/ ObserveRefused(q)
  PROVE  TypeOK'
  <1> DEFINE s == ServerOf(q)
             o == OperationOf(q)
  <1>0. s \in Server /\ o \in Operation /\ note[q] \in Notes
    BY SentType
  <1>1. Refreshed(s) \in Records
    BY <1>0, RefreshedType
  <1>2. FileTypes' /\ UNCHANGED <<job, dispatched, effects, recoveryVars>>
    BY TypeParts DEF Observe, ObserveRefused, FileTypes, files, history, outside, recoveryVars
  <1>3. CASE Observe(q)
    <2>1. Observed(Refreshed(s)[o], note[q].state) \in Record
      BY <1>0, <1>1, <1>3, RecordFacts DEF Observe, ServerOf, Records, Notes
    <2>2. [Refreshed(s) EXCEPT ![o] = Observed(Refreshed(s)[o], note[q].state)] \in Records
      BY <1>0, <1>1, <2>1 DEF Records, MaybeRecord
    <2>3. ServerTypes'
      BY <1>0, <1>3, <2>2, AdoptType, TypeParts DEF Observe, ServerOf, ServerTypes
    <2>4. Goto(q, "acquire") /\ Keep(q) /\ UNCHANGED note
      BY <1>3 DEF Observe
    <2> QED
      BY <1>2, <2>3, <2>4, StepType, TypeParts DEF RequestTypes, Goto, Keep, Steps
  <1>4. CASE ObserveRefused(q)
    <2>1. Throw(q)
      BY <1>4 DEF ObserveRefused
    <2>2. ServerTypes'
      BY <1>0, <1>1, <1>4, AdoptType, TypeParts
      DEF ObserveRefused, ServerOf, ServerTypes, serverVars
    <2> QED
      BY <1>2, <2>1, <2>2, ThrowType, StepType, TypeParts DEF RequestTypes
  <1> QED
    BY <1>3, <1>4

LEMMA AcquireType ==
  ASSUME TypeOK, NEW q \in Request, Alive(q),
         \/ Acquire(q) \/ AcquireOversized(q) \/ AcquireContended(q) \/ AcquireFails(q)
         \/ UndoAcquire(q)
  PROVE  TypeOK'
  <1>1. [ticket |-> TicketOf(q), observed |-> committed[job[q].server]] \in WriterRecord
    BY SentType, TypeParts DEF WriterRecord, ServerTypes, ServerOf
  <1>2. FileTypes' /\ ServerTypes' /\ UNCHANGED <<job, dispatched, effects, recoveryVars>>
    BY <1>1, TypeParts
    DEF Acquire, AcquireOversized, AcquireContended, AcquireFails, UndoAcquire, FileTypes,
        ServerTypes, files, serverVars, history, outside, recoveryVars
  <1>3. CASE Acquire(q)
    <2>1. PICK step \in Steps : Goto(q, step)
      BY <1>3 DEF Acquire, Steps
    <2>2. UNCHANGED <<turn, note>>
      BY <1>3 DEF Acquire, Stay
    <2> QED
      BY <1>2, <2>1, <2>2, StepType, TypeParts DEF RequestTypes, Goto
  <1>4. CASE AcquireOversized(q) \/ AcquireContended(q) \/ AcquireFails(q) \/ UndoAcquire(q)
    <2>1. Throw(q)
      BY <1>4 DEF AcquireOversized, AcquireContended, AcquireFails, UndoAcquire
    <2> QED
      BY <1>2, <2>1, ThrowType, StepType, TypeParts DEF RequestTypes
  <1> QED
    BY <1>3, <1>4

LEMMA WriteType ==
  ASSUME TypeOK, NEW q \in Request, Alive(q), Check(q) \/ Rename(q) \/ Confirm(q)
  PROVE  TypeOK'
  <1>1. NextRegistry(q) \in Registry
    <2>1. ServerOf(q) \in Server
      BY SentType
    <2>2. committed[ServerOf(q)] \in Registry /\ memory[ServerOf(q)] \in Records
      BY <2>1, TypeParts DEF ServerTypes
    <2> QED
      BY <2>2 DEF NextRegistry, Registry, ServerOf
  <1>2. FileTypes' /\ ServerTypes' /\ UNCHANGED <<turn, job, dispatched, effects, recoveryVars>>
    BY <1>1, TypeParts
    DEF Check, Rename, Confirm, Fail, Poison, Stay, FileTypes, ServerTypes, files, serverVars,
        history, outside, recoveryVars
  <1>3. PICK step \in Steps : Goto(q, step)
    BY DEF Check, Rename, Confirm, Fail, Steps
  <1>4. [note[q] EXCEPT !.outcome = "error"] \in Notes
    BY SentType DEF Notes
  <1>5. note' \in [Request -> Notes]
    BY <1>4, TypeParts DEF RequestTypes, Check, Rename, Confirm, Fail, Note
  <1> QED
    BY <1>2, <1>3, <1>5, StepType, TypeParts DEF RequestTypes, Goto

LEMMA ReleaseType ==
  ASSUME TypeOK, NEW q \in Request, Alive(q), Release(q)
  PROVE  TypeOK'
  <1>1. PICK outcome : Return(q, outcome)
    BY DEF Release
  <1>2. /\ pc' \in [Request -> Steps]
        /\ note' \in [Request -> Notes]
        /\ turn' \in [Server -> Request \union {Nobody}]
        /\ \A p \in Request \ {q} : pc'[p] = pc[p]
        /\ dispatched' \subseteq Request
    <2>1. CASE Throw(q) /\ UNCHANGED dispatched
      BY <2>1, ThrowType, TypeParts DEF RequestTypes
    <2>2. CASE ~(Throw(q) /\ UNCHANGED dispatched)
      BY <1>1, <2>2, RecordFacts, TypeParts
      DEF RequestTypes, Return, Answer, Goto, Note, Yield, Steps
    <2> QED
      BY <2>1, <2>2
  <1>3. FileTypes' /\ ServerTypes' /\ UNCHANGED <<job, effects, recoveryVars>>
    BY TypeParts DEF Release, FileTypes, ServerTypes, serverVars, outside, recoveryVars
  <1> QED
    BY <1>2, <1>3, StepType, TypeParts DEF RequestTypes

LEMMA RecoverType ==
  ASSUME TypeOK, NEW k \in Recoverer, Recover(k)
  PROVE  TypeOK'
  <1>1. RecoveryTypes'
    BY TypeParts
    DEF RecoveryTypes, FileTypes, Recover, ReadOwner, Inspect, InspectEvidence, ClaimRecovery,
        Recheck, Authorize, FinalCheck, RemoveOwner, PublishResult, AbandonClaim,
        RecovererCrash, RGoto, Leaves, RecoverySteps
  <1>2. FileTypes'
    <2>1. lock' \in WriterRecord \union {NoLock} /\ UNCHANGED registry
      BY TypeParts
      DEF FileTypes, Recover, ReadOwner, Inspect, InspectEvidence, ClaimRecovery, Recheck,
          Authorize, FinalCheck, RemoveOwner, PublishResult, AbandonClaim, RecovererCrash,
          service
    <2>2. ASSUME rpc[k] # "idle"
          PROVE  seen[k].ticket \in Ticket
      BY <2>2, TypeParts DEF RecoveryTypes, WriterRecord
    <2>3. claims' \subseteq (Ticket \X (Recoverer \union {Nobody}))
      BY <2>2, TypeParts
      DEF FileTypes, Recover, ReadOwner, Inspect, InspectEvidence, ClaimRecovery, Recheck,
          Authorize, FinalCheck, RemoveOwner, PublishResult, AbandonClaim, RecovererCrash
    <2> QED
      BY <2>1, <2>3, TypeParts DEF FileTypes
  <1>3. UNCHANGED service
    BY DEF Recover, ReadOwner, Inspect, InspectEvidence, ClaimRecovery, Recheck, Authorize,
           FinalCheck, RemoveOwner, PublishResult, AbandonClaim, RecovererCrash
  <1>4. ServerTypes' /\ RequestTypes'
    BY <1>3, TypeParts DEF service, serverVars, history, ServerTypes, RequestTypes
  <1> QED
    BY <1>1, <1>2, <1>4, TypePartsNext

LEMMA InitType == Init => TypeOK
  <1> SUFFICES ASSUME Init PROVE TypeOK
    OBVIOUS
  <1>1. EmptyRegistry \in Registry
    BY DEF EmptyRegistry, Registry, Records, MaybeRecord
  <1>2. EmptyRegistry.entries \in Records
    BY DEF EmptyRegistry, Records, MaybeRecord
  <1> QED
    BY <1>1, <1>2, RecordFacts DEF Init, TypeOK, Notes, Steps, RecoverySteps

LEMMA NextType == TypeOK /\ [Next]_vars => TypeOK'
  <1> SUFFICES ASSUME TypeOK, [Next]_vars PROVE TypeOK'
    OBVIOUS
  <1>1. CASE UNCHANGED vars
    <2>1. FileTypes' /\ RecoveryTypes' /\ ServerTypes' /\ RequestTypes'
      BY <1>1, TypeParts
      DEF vars, serverVars, recoveryVars, FileTypes, RecoveryTypes, ServerTypes, RequestTypes
    <2> QED
      BY <2>1, TypePartsNext
  <1>2. CASE \E s \in Server : Open(s) \/ Crash(s)
    BY <1>2, OpenType
  <1>3. CASE \E q \in Request, s \in Server, o \in Operation : Call(q, s, o)
    BY <1>3, CallsType
  <1>4. CASE \E q \in Request : Alive(q) /\ Handle(q)
    BY <1>4, ExecuteType, ObserveType, AcquireType, WriteType, ReleaseType DEF Handle
  <1>5. CASE \E k \in Recoverer : Recover(k)
    BY <1>5, RecoverType
  <1> QED
    BY <1>1, <1>2, <1>3, <1>4, <1>5 DEF Next

\* Every reachable state of the physical control plane is well typed, whatever fails or
\* ends.
THEOREM TypeCorrect == Spec => []TypeOK
  BY InitType, NextType, PTL DEF Spec

----------------------------------------------------------------------------
(***************************************************************************)
(* The invariant is inductive: the writer of the registry is alone,        *)
(* recovery removes only orphans, and no operation is dispatched twice.    *)
(***************************************************************************)
\* What a step of one sent request leaves of everything else.
LEMMA HandleFrame ==
  ASSUME TypeOK, NEW q \in Request, Alive(q), Handle(q)
  PROVE  /\ UNCHANGED <<job, status, claims, rpc, seen>>
         /\ \A p \in Request \ {q} : pc'[p] = pc[p] /\ note'[p] = note[p]
         /\ pc'[q] # "idle"
         /\ turn[ServerOf(q)] \in {q, Nobody}
         /\ \A s \in Server \ {ServerOf(q)} :
              turn'[s] = turn[s] /\ committed'[s] = committed[s] /\ memory'[s] = memory[s]
  <1>0. ServerOf(q) \in Server /\ pc \in [Request -> Steps] /\ note \in [Request -> Notes]
        /\ turn \in [Server -> Request \union {Nobody}]
        /\ committed \in [Server -> Registry] /\ memory \in [Server -> Records]
    BY SentType, TypeParts DEF RequestTypes, ServerTypes
  <1>1. UNCHANGED <<job, status, claims, rpc, seen>>
    BY DEF Handle, Execute, Evidence, Observe, ObserveRefused, Acquire, AcquireOversized,
           AcquireContended, AcquireFails, UndoAcquire, Check, Rename, Confirm, Release,
           Adopt, Fail, Poison, serverVars, outside, recoveryVars, files
  <1>2. /\ \A p \in Request \ {q} : pc'[p] = pc[p] /\ note'[p] = note[p]
        /\ pc'[q] # "idle"
    BY <1>0
    DEF Handle, Execute, Evidence, Observe, ObserveRefused, Acquire, AcquireOversized,
        AcquireContended, AcquireFails, UndoAcquire, Check, Rename, Confirm, Release, Return,
        Throw, Answer, Fail, Goto, Note
  <1>3. turn[ServerOf(q)] \in {q, Nobody}
    BY DEF Handle, Execute, Evidence, Observe, ObserveRefused, Acquire, AcquireOversized,
           AcquireContended, AcquireFails, UndoAcquire, Check, Rename, Confirm, Release,
           Runs, Stay, ServerOf
  <1>4. \A s \in Server \ {ServerOf(q)} : turn'[s] = turn[s]
    BY <1>0
    DEF Handle, Execute, Evidence, Observe, ObserveRefused, Acquire, AcquireOversized,
        AcquireContended, AcquireFails, UndoAcquire, Check, Rename, Confirm, Release, Return,
        Throw, Answer, Stay, Keep, Yield, ServerOf
  <1>5. \A s \in Server \ {ServerOf(q)} :
          committed'[s] = committed[s] /\ memory'[s] = memory[s]
    BY <1>0
    DEF Handle, Execute, Evidence, Observe, ObserveRefused, Acquire, AcquireOversized,
        AcquireContended, AcquireFails, UndoAcquire, Check, Rename, Confirm, Release,
        Adopt, Fail, Poison, serverVars, ServerOf
  <1> QED
    BY <1>1, <1>2, <1>3, <1>4, <1>5

\* What a step of a request does to the files and to the history.
LEMMA HandleFiles ==
  ASSUME TypeOK, NEW q \in Request, Alive(q), Handle(q)
  PROVE  /\ \/ UNCHANGED lock
            \/ lock = NoLock /\ lock'.ticket = TicketOf(q)
            \/ lock.ticket = TicketOf(q) /\ lock' = NoLock
         /\ UNCHANGED registry \/ (pc[q] = "rename" /\ registry' = NextRegistry(q))
         /\ \/ UNCHANGED dispatched
            \/ /\ dispatched' = dispatched \union {q}
               /\ pc[q] = "release"
               /\ note[q].purpose = "claim"
               /\ note[q].outcome = "ok"
  <1>1. CASE Release(q)
    BY <1>1 DEF Release, Return
  <1>2. CASE ~Release(q)
    BY <1>2
    DEF Handle, Execute, Evidence, Observe, ObserveRefused, Acquire, AcquireOversized,
        AcquireContended, AcquireFails, UndoAcquire, Check, Rename, Confirm, files, history
  <1> QED
    BY <1>1, <1>2

\* Two live requests that write belong to two servers.
LEMMA WritersApart ==
  ASSUME IInv, NEW q \in Request, Alive(q), Handle(q),
         NEW p \in Request \ {q}, Alive(p), pc[p] \in Writing
  PROVE  /\ ServerOf(p) \in Server \ {ServerOf(q)}
         /\ Alive(p)'
         /\ UNCHANGED <<pc[p], note[p], TicketOf(p), ServerOf(p), OperationOf(p)>>
         /\ UNCHANGED <<turn[ServerOf(p)], committed[ServerOf(p)], memory[ServerOf(p)]>>
  <1>1. TypeOK /\ TurnTaken
    BY DEF IInv
  <1>2. ServerOf(p) \in Server /\ turn[ServerOf(p)] = p
    BY <1>1, SentType DEF TurnTaken
  <1>3. turn[ServerOf(q)] \in {q, Nobody}
    BY <1>1, HandleFrame
  <1>4. ServerOf(p) # ServerOf(q)
    BY <1>2, <1>3, ConstantsAssumption
  <1>5. UNCHANGED <<job, status>> /\ pc'[p] = pc[p] /\ note'[p] = note[p]
    BY <1>1, HandleFrame
  <1>6. UNCHANGED <<turn[ServerOf(p)], committed[ServerOf(p)], memory[ServerOf(p)]>>
    BY <1>1, <1>2, <1>4, <1>5, HandleFrame DEF ServerOf
  <1> QED
    BY <1>2, <1>4, <1>5, <1>6 DEF Alive, TicketOf, ServerOf, OperationOf

\* The writer record tells apart those who hold it.
LEMMA HoldersApart ==
  ASSUME LockHeld, NEW p \in Request, NEW q \in Request, Alive(p), Alive(q),
         pc[p] \in Holding, pc[q] \in Holding
  PROVE  p = q
  BY DEF LockHeld, TicketOf

\* No durable write forgets an operation.
LEMMA RegistryGrows ==
  ASSUME IInv, NEW q \in Request, Alive(q), Handle(q), NEW o \in Operation,
         registry.entries[o] # Absent
  PROVE  registry'.entries[o] # Absent
  <1>1. TypeOK /\ FileIsKnown /\ MemoryExtends
    BY DEF IInv
  <1>2. CASE UNCHANGED registry
    BY <1>2
  <1>3. CASE pc[q] = "rename" /\ registry' = NextRegistry(q)
    <2>1. ServerOf(q) \in Server /\ registry = committed[ServerOf(q)]
      BY <1>1, <1>3, SentType DEF FileIsKnown
    <2>2. memory[ServerOf(q)][o] # Absent
      BY <1>1, <2>1 DEF MemoryExtends
    <2>3. registry'.entries = memory[ServerOf(q)]
      BY <1>3 DEF NextRegistry, ServerOf
    <2> QED
      BY <2>2, <2>3
  <1> QED
    BY <1>1, <1>2, <1>3, HandleFiles

\* What the next state of a stepping request says of itself: its purpose and its turn.
LEMMA SelfTurn ==
  ASSUME IInv, NEW q \in Request, Alive(q), Handle(q)
  PROVE  /\ pc'[q] \in {"observe", "evidence"} => note'[q].purpose # "claim"
         /\ pc'[q] \in Writing => turn'[ServerOf(q)] = q
  <1>1. TypeOK /\ PurposeKept
    BY DEF IInv
  <1>2. /\ ServerOf(q) \in Server
        /\ note[q] \in Notes
        /\ pc \in [Request -> Steps]
        /\ note \in [Request -> Notes]
        /\ turn \in [Server -> Request \union {Nobody}]
    BY <1>1, SentType, TypeParts DEF RequestTypes
  <1>3. ASSUME Throw(q)
        PROVE  /\ pc'[q] \notin Writing
               /\ pc'[q] \in {"observe", "evidence"} => note'[q].purpose # "claim"
    <2>1. [note[q] EXCEPT !.purpose = "settle", !.state = "failed", !.outcome = "ok"].purpose
            = "settle"
      BY <1>2 DEF Notes
    <2>2. CASE note[q].purpose = "report"
      BY <1>2, <1>3, <2>1, <2>2 DEF Throw, Goto, Note, Writing
    <2>3. CASE note[q].purpose # "report"
      BY <1>2, <1>3, <2>3 DEF Throw, Answer, Goto, Writing
    <2> QED
      BY <2>2, <2>3
  <1>4. CASE Execute(q)
    BY <1>2, <1>4 DEF Execute, Goto, Note, Writing
  <1>5. CASE Evidence(q)
    BY <1>1, <1>2, <1>5 DEF Evidence, Goto, Note, Writing, PurposeKept, Notes
  <1>6. CASE Observe(q)
    BY <1>2, <1>6 DEF Observe, Goto, Keep, ServerOf
  <1>7. CASE \/ ObserveRefused(q) \/ AcquireOversized(q) \/ AcquireContended(q)
             \/ AcquireFails(q) \/ UndoAcquire(q)
    BY <1>3, <1>7
    DEF ObserveRefused, AcquireOversized, AcquireContended, AcquireFails, UndoAcquire
  <1>8. CASE Acquire(q) \/ Check(q) \/ Rename(q) \/ Confirm(q)
    BY <1>2, <1>8 DEF Acquire, Check, Rename, Confirm, Fail, Goto, Stay, ServerOf
  <1>9. CASE Release(q)
    BY <1>2, <1>3, <1>9 DEF Release, Return, Answer, Goto, Writing
  <1> QED
    BY <1>4, <1>5, <1>6, <1>7, <1>8, <1>9 DEF Handle

\* Its writer record, and the file it is about to replace.
LEMMA SelfLock ==
  ASSUME IInv, NEW q \in Request, Alive(q), Handle(q)
  PROVE  /\ pc'[q] \in Holding => lock'.ticket = TicketOf(q)'
         /\ pc'[q] = "rename" => registry' = committed'[ServerOf(q)]
  <1>1. TypeOK /\ LockHeld
    BY DEF IInv
  <1>2. /\ note[q] \in Notes
        /\ pc \in [Request -> Steps]
        /\ note \in [Request -> Notes]
    BY <1>1, SentType, TypeParts DEF RequestTypes
  <1>3. ASSUME Throw(q)
        PROVE  pc'[q] \notin Holding
    BY <1>2, <1>3 DEF Throw, Answer, Goto, Holding
  <1>4. CASE Execute(q) \/ Evidence(q) \/ Observe(q)
    BY <1>2, <1>4 DEF Execute, Evidence, Observe, Goto, Holding
  <1>5. CASE \/ ObserveRefused(q) \/ AcquireOversized(q) \/ AcquireContended(q)
             \/ AcquireFails(q) \/ UndoAcquire(q)
    BY <1>3, <1>5
    DEF ObserveRefused, AcquireOversized, AcquireContended, AcquireFails, UndoAcquire, Holding
  <1>6. CASE Acquire(q)
    BY <1>2, <1>6 DEF Acquire, Goto, TicketOf
  <1>7. CASE Check(q) \/ Rename(q) \/ Confirm(q)
    <2>1. lock.ticket = TicketOf(q) /\ UNCHANGED lock
      BY <1>1, <1>7 DEF LockHeld, Holding, Check, Rename, Confirm, files
    <2>2. note'[q].purpose = note[q].purpose
      BY <1>2, <1>7 DEF Check, Rename, Confirm, Fail, Note, Notes
    <2>3. pc'[q] = "rename" => registry' = committed'[ServerOf(q)]
      BY <1>2, <1>7 DEF Check, Rename, Confirm, Fail, Goto, files, serverVars, ServerOf
    <2> QED
      BY <2>1, <2>2, <2>3 DEF TicketOf
  <1>8. CASE Release(q)
    BY <1>2, <1>3, <1>8 DEF Release, Return, Answer, Goto, Holding
  <1> QED
    BY <1>4, <1>5, <1>6, <1>7, <1>8 DEF Handle

\* Its claim.
LEMMA SelfClaim ==
  ASSUME IInv, NEW q \in Request, Alive(q), Handle(q), note'[q].purpose = "claim"
  PROVE  /\ pc'[q] \in {"acquire", "check", "rename"} =>
              /\ committed'[ServerOf(q)].entries[OperationOf(q)] = Absent
              /\ memory'[ServerOf(q)][OperationOf(q)] # Absent
         /\ pc'[q] = "confirm" \/ (pc'[q] = "release" /\ note'[q].outcome = "ok") =>
              /\ registry'.entries[OperationOf(q)] # Absent
              /\ UNCHANGED dispatched
              /\ \A p \in dispatched : OperationOf(p) # OperationOf(q)
  <1>1. /\ TypeOK /\ PurposeKept /\ FileIsKnown /\ ClaimIsNew /\ DispatchedIsRecorded
    BY DEF IInv
  <1>2. /\ note[q] \in Notes
        /\ pc \in [Request -> Steps]
        /\ note \in [Request -> Notes]
    BY <1>1, SentType, TypeParts DEF RequestTypes
  <1> DEFINE Early == {"acquire", "check", "rename"}
             Late == {"confirm", "release"}
  <1>3. ASSUME Throw(q)
        PROVE  pc'[q] \notin Early \union Late
    BY <1>2, <1>3 DEF Throw, Answer, Goto
  <1>4. CASE Execute(q) \/ Evidence(q)
    BY <1>2, <1>4 DEF Execute, Evidence, Goto
  <1>5. CASE Observe(q)
    BY <1>1, <1>2, <1>5 DEF Observe, PurposeKept
  <1>6. CASE \/ ObserveRefused(q) \/ AcquireOversized(q) \/ AcquireContended(q)
             \/ AcquireFails(q) \/ UndoAcquire(q)
    BY <1>3, <1>6
    DEF ObserveRefused, AcquireOversized, AcquireContended, AcquireFails, UndoAcquire
  <1>7. CASE Release(q)
    BY <1>2, <1>3, <1>7 DEF Release, Return, Answer, Goto
  <1>8. CASE Acquire(q) \/ Check(q) \/ Rename(q) \/ Confirm(q)
    <2>1. Claims(q)
      BY <1>2, <1>8 DEF Acquire, Check, Rename, Confirm, Fail, Note, Notes, Claims
    <2>2. ASSUME Fail(q)
          PROVE  pc'[q] = "release" /\ note'[q].outcome = "error"
      BY <1>2, <2>2 DEF Fail, Goto, Note, Notes
    <2>3. CASE Acquire(q) \/ Check(q)
      <3>1. /\ committed[ServerOf(q)].entries[OperationOf(q)] = Absent
            /\ memory[ServerOf(q)][OperationOf(q)] # Absent
        BY <1>1, <2>1, <2>3 DEF ClaimIsNew, Acquire, Check
      <3> QED
        BY <1>2, <2>2, <2>3, <3>1 DEF Acquire, Check, Goto, serverVars
    <2>4. CASE Rename(q)
      <3>1. /\ registry.entries[OperationOf(q)] = Absent
            /\ memory[ServerOf(q)][OperationOf(q)] # Absent
        BY <1>1, <2>1, <2>4 DEF ClaimIsNew, FileIsKnown, Claims, Rename
      <3>2. \A p \in dispatched : OperationOf(p) # OperationOf(q)
        BY <1>1, <3>1 DEF DispatchedIsRecorded
      <3>3. registry' = NextRegistry(q) => registry'.entries = memory[ServerOf(q)]
        BY DEF NextRegistry, ServerOf
      <3>4. UNCHANGED dispatched
        BY <2>4 DEF Rename, history
      <3>5. CASE registry' = NextRegistry(q) /\ Goto(q, "confirm")
        BY <1>2, <3>1, <3>2, <3>3, <3>4, <3>5 DEF Goto
      <3> QED
        BY <2>2, <2>4, <3>5 DEF Rename
    <2>5. CASE Confirm(q)
      <3>1. /\ registry.entries[OperationOf(q)] # Absent
            /\ \A p \in dispatched : OperationOf(p) # OperationOf(q)
        BY <1>1, <2>1, <2>5 DEF ClaimIsNew, Confirm
      <3> QED
        BY <1>2, <2>2, <2>5, <3>1 DEF Confirm, Goto, files, history
    <2> QED
      BY <1>8, <2>3, <2>4, <2>5
  <1> QED
    BY <1>4, <1>5, <1>6, <1>7, <1>8 DEF Handle

\* Its server's copy.
LEMMA SelfMemory ==
  ASSUME IInv, NEW q \in Request, Alive(q), Handle(q), NEW o \in Operation,
         committed'[ServerOf(q)].entries[o] # Absent
  PROVE  memory'[ServerOf(q)][o] # Absent
  <1>1. TypeOK /\ MemoryExtends
    BY DEF IInv
  <1>2. /\ ServerOf(q) \in Server /\ OperationOf(q) \in Operation /\ note[q] \in Notes
        /\ committed \in [Server -> Registry] /\ memory \in [Server -> Records]
        /\ registry \in Registry
    BY <1>1, SentType, TypeParts DEF ServerTypes, FileTypes
  <1>3. Refreshed(ServerOf(q)) \in Records
    BY <1>1, <1>2, RefreshedType
  <1>4. registry.entries[o] # Absent => Refreshed(ServerOf(q))[o] # Absent
    BY <1>1, <1>2 DEF Refreshed, MemoryExtends
  <1>5. CASE UNCHANGED <<committed, memory>>
    BY <1>1, <1>2, <1>5 DEF MemoryExtends
  <1>6. CASE Observe(q)
    <2>1. Observed(Refreshed(ServerOf(q))[OperationOf(q)], note[q].state) # Absent
      BY <1>2, <1>3, <1>6, RecordFacts, ConstantsAssumption
      DEF Observe, ServerOf, Records, Notes
    <2>2. /\ committed'[ServerOf(q)] = registry
          /\ memory'[ServerOf(q)] =
               [Refreshed(ServerOf(q)) EXCEPT
                  ![OperationOf(q)] = Observed(Refreshed(ServerOf(q))[OperationOf(q)], note[q].state)]
      BY <1>2, <1>6 DEF Observe, Adopt, ServerOf
    <2> QED
      BY <1>2, <1>3, <1>4, <2>1, <2>2 DEF Records
  <1>7. CASE ObserveRefused(q)
    BY <1>2, <1>4, <1>5, <1>7 DEF ObserveRefused, Adopt, ServerOf, serverVars
  <1>8. CASE Confirm(q)
    <2>1. CASE committed' = [committed EXCEPT ![ServerOf(q)] = NextRegistry(q)] /\ UNCHANGED memory
      <3>1. committed'[ServerOf(q)].entries = memory[ServerOf(q)]
        BY <1>2, <2>1 DEF NextRegistry, ServerOf
      <3> QED
        BY <2>1, <3>1
    <2> QED
      BY <1>5, <1>8, <2>1 DEF Confirm, Fail, Poison, ServerOf
  <1>9. CASE \/ Execute(q) \/ Evidence(q) \/ Acquire(q) \/ AcquireOversized(q)
             \/ AcquireContended(q) \/ AcquireFails(q) \/ UndoAcquire(q) \/ Check(q)
             \/ Rename(q) \/ Release(q)
    BY <1>5, <1>9
    DEF Execute, Evidence, Acquire, AcquireOversized, AcquireContended, AcquireFails,
        UndoAcquire, Check, Rename, Release, Fail, Poison, serverVars
  <1> QED
    BY <1>6, <1>7, <1>8, <1>9 DEF Handle

LEMMA HandleLock ==
  ASSUME IInv, NEW q \in Request, Alive(q), Handle(q)
  PROVE  TurnTaken' /\ LockHeld' /\ FileIsKnown'
  <1>1. /\ TypeOK /\ TurnTaken /\ LockHeld /\ FileIsKnown
    BY DEF IInv
  <1>2. UNCHANGED <<job, status>> /\ \A p \in Request \ {q} : pc'[p] = pc[p]
    BY <1>1, HandleFrame
  <1>3. ServerOf(q)' = ServerOf(q)
    BY <1>2 DEF ServerOf
  <1>4. ASSUME NEW p \in Request \ {q}, Alive(p)', pc'[p] \in Writing
        PROVE  /\ Alive(p) /\ pc[p] \in Writing /\ pc'[p] = pc[p]
               /\ turn'[ServerOf(p)'] = p
               /\ TicketOf(p)' = TicketOf(p)
               /\ committed'[ServerOf(p)'] = committed[ServerOf(p)]
    <2>1. Alive(p) /\ pc[p] \in Writing
      BY <1>2, <1>4 DEF Alive
    <2> QED
      BY <1>1, <1>2, <2>1, WritersApart DEF TurnTaken
  <1>5. TurnTaken'
    BY <1>3, <1>4, SelfTurn DEF TurnTaken
  <1>6. ASSUME NEW p \in Request \ {q}, Alive(p), pc[p] \in Holding
        PROVE  UNCHANGED lock
    <2>1. lock.ticket = TicketOf(p) /\ lock # NoLock /\ lock.ticket # TicketOf(q)
      BY <1>1, <1>6, ConstantsAssumption DEF LockHeld, TicketOf, NoLock
    <2> QED
      BY <1>1, <2>1, HandleFiles
  <1>7. LockHeld'
    <2>1. Holding \subseteq Writing
      BY DEF Holding, Writing
    <2>2. ASSUME NEW p \in Request \ {q}, Alive(p)', pc'[p] \in Holding
          PROVE  lock'.ticket = TicketOf(p)'
      <3>1. Alive(p) /\ pc[p] \in Holding /\ TicketOf(p)' = TicketOf(p)
        BY <1>4, <2>1, <2>2
      <3> QED
        BY <1>1, <1>6, <3>1 DEF LockHeld
    <2> QED
      BY <2>2, SelfLock DEF LockHeld
  <1>8. FileIsKnown'
    <2>1. ASSUME NEW p \in Request \ {q}, Alive(p)', pc'[p] = "rename"
          PROVE  registry' = committed'[ServerOf(p)']
      <3>1. /\ Alive(p) /\ pc[p] = "rename"
            /\ committed'[ServerOf(p)'] = committed[ServerOf(p)]
        BY <1>4, <2>1 DEF Writing
      <3>2. pc[q] # "rename"
        BY <1>1, <3>1, HoldersApart DEF Holding
      <3> QED
        BY <1>1, <3>1, <3>2, HandleFiles DEF FileIsKnown
    <2> QED
      BY <1>3, <2>1, SelfLock DEF FileIsKnown
  <1> QED
    BY <1>5, <1>7, <1>8

LEMMA HandleRecords ==
  ASSUME IInv, NEW q \in Request, Alive(q), Handle(q)
  PROVE  MemoryExtends' /\ ClaimIsNew' /\ DispatchedIsRecorded' /\ DispatchedAtMostOnce'
  <1>1. /\ TypeOK /\ LockHeld /\ MemoryExtends /\ ClaimIsNew /\ DispatchedIsRecorded
        /\ DispatchedAtMostOnce
    BY DEF IInv
  <1>2. /\ UNCHANGED <<job, status>>
        /\ \A p \in Request \ {q} : pc'[p] = pc[p] /\ note'[p] = note[p]
        /\ pc'[q] # "idle"
    BY <1>1, HandleFrame
  <1>3. \A p \in Request : ServerOf(p)' = ServerOf(p) /\ OperationOf(p)' = OperationOf(p)
    BY <1>2 DEF ServerOf, OperationOf
  <1>4. MemoryExtends'
    BY <1>1, SelfMemory, HandleFrame DEF MemoryExtends
  <1>5. \/ UNCHANGED dispatched
        \/ /\ dispatched' = dispatched \union {q}
           /\ pc[q] = "release"
           /\ Claims(q)
           /\ note[q].outcome = "ok"
    BY <1>1, HandleFiles DEF Claims
  <1>6. ASSUME ~UNCHANGED dispatched
        PROVE  /\ registry.entries[OperationOf(q)] # Absent
               /\ \A p \in dispatched : OperationOf(p) # OperationOf(q)
    BY <1>1, <1>5, <1>6 DEF ClaimIsNew
  <1>7. ClaimIsNew'
    <2>1. ASSUME NEW p \in Request \ {q}, Claims(p)', pc'[p] \in Writing
          PROVE  /\ Claims(p) /\ pc[p] = pc'[p] /\ note[p] = note'[p]
                 /\ OperationOf(p) \in Operation
                 /\ committed'[ServerOf(p)] = committed[ServerOf(p)]
                 /\ memory'[ServerOf(p)] = memory[ServerOf(p)]
      <3>1. Claims(p) /\ pc[p] = pc'[p] /\ note[p] = note'[p]
        BY <1>2, <2>1 DEF Claims, Alive
      <3>2. OperationOf(p) \in Operation
        BY <1>1, <3>1, SentType DEF Claims
      <3>3. /\ committed'[ServerOf(p)] = committed[ServerOf(p)]
            /\ memory'[ServerOf(p)] = memory[ServerOf(p)]
        BY <1>3, <2>1, <3>1, WritersApart DEF Claims
      <3> QED
        BY <3>1, <3>2, <3>3
    <2>2. ASSUME NEW p \in Request \ {q}, Claims(p)', pc'[p] \in {"acquire", "check", "rename"}
          PROVE  /\ committed'[ServerOf(p)].entries[OperationOf(p)] = Absent
                 /\ memory'[ServerOf(p)][OperationOf(p)] # Absent
      BY <1>1, <2>1, <2>2 DEF ClaimIsNew, Writing
    <2>3. ASSUME NEW p \in Request \ {q}, Claims(p)',
                 pc'[p] = "confirm" \/ (pc'[p] = "release" /\ note'[p].outcome = "ok")
          PROVE  /\ registry'.entries[OperationOf(p)] # Absent
                 /\ \A r \in dispatched' : OperationOf(r) # OperationOf(p)
      <3>1. /\ Claims(p) /\ pc[p] \in Holding
            /\ OperationOf(p) \in Operation
            /\ registry.entries[OperationOf(p)] # Absent
            /\ \A r \in dispatched : OperationOf(r) # OperationOf(p)
        BY <1>1, <2>1, <2>3 DEF ClaimIsNew, Writing, Holding
      <3>2. UNCHANGED dispatched
        BY <1>1, <1>5, <3>1, HoldersApart DEF Claims, Holding
      <3> QED
        BY <3>1, <3>2, RegistryGrows
    <2>4. Claims(q)' => note'[q].purpose = "claim"
      BY DEF Claims
    <2>5. dispatched' \subseteq Request
      BY <1>1, <1>5 DEF TypeOK
    <2>6. ASSUME NEW p \in Request, Claims(p)', pc'[p] \in {"acquire", "check", "rename"}
          PROVE  /\ committed'[ServerOf(p)'].entries[OperationOf(p)'] = Absent
                 /\ memory'[ServerOf(p)'][OperationOf(p)'] # Absent
      BY <1>3, <2>2, <2>4, <2>6, SelfClaim
    <2>7. ASSUME NEW p \in Request, Claims(p)',
                 pc'[p] = "confirm" \/ (pc'[p] = "release" /\ note'[p].outcome = "ok")
          PROVE  /\ registry'.entries[OperationOf(p)'] # Absent
                 /\ \A r \in dispatched' : OperationOf(r)' # OperationOf(p)'
      <3>1. CASE p = q
        BY <1>3, <2>4, <2>5, <2>7, <3>1, SelfClaim
      <3>2. CASE p # q
        BY <1>3, <2>3, <2>5, <2>7, <3>2
      <3> QED
        BY <3>1, <3>2
    <2> QED
      BY <2>6, <2>7 DEF ClaimIsNew
  <1>8. DispatchedIsRecorded'
    <2>1. ASSUME NEW p \in dispatched'
          PROVE  /\ p \in Request
                 /\ pc'[p] # "idle"
                 /\ registry'.entries[OperationOf(p)] # Absent
      <3>1. p \in Request /\ dispatched \subseteq Request
        BY <1>1, <1>5, <2>1 DEF TypeOK
      <3>2. pc[p] # "idle" /\ registry.entries[OperationOf(p)] # Absent
        BY <1>1, <1>5, <1>6, <2>1 DEF DispatchedIsRecorded, Alive
      <3>3. OperationOf(p) \in Operation
        <4>1. job[p] \in Jobs \union {NoJob} /\ job[p].server \in Server
          BY <1>1, <3>1, <3>2, TypeParts DEF RequestTypes
        <4> QED
          BY <4>1, ConstantsAssumption DEF Jobs, NoJob, OperationOf
      <3> QED
        BY <1>2, <3>1, <3>2, <3>3, RegistryGrows
    <2> QED
      BY <1>3, <2>1 DEF DispatchedIsRecorded
  <1>9. DispatchedAtMostOnce'
    <2>1. dispatched' \subseteq Request
      BY <1>1, <1>5 DEF TypeOK
    <2> QED
      BY <1>1, <1>3, <1>5, <1>6, <2>1 DEF DispatchedAtMostOnce
  <1> QED
    BY <1>4, <1>7, <1>8, <1>9

\* Recovery sees a step of a live request only as one that is none of its business.
LEMMA HandleRecovery ==
  ASSUME IInv, NEW q \in Request, Alive(q), Handle(q)
  PROVE  /\ SentToOpened' /\ PurposeKept' /\ OwnerSent' /\ OwnerEnded' /\ ClaimHeld'
         /\ RecordUnchanged'
  <1>1. /\ TypeOK /\ SentToOpened /\ PurposeKept /\ OwnerSent /\ OwnerEnded /\ ClaimHeld
        /\ RecordUnchanged
    BY DEF IInv
  <1>2. /\ UNCHANGED <<job, status, claims, rpc, seen>>
        /\ \A p \in Request \ {q} : pc'[p] = pc[p] /\ note'[p] = note[p]
        /\ pc'[q] # "idle"
    BY <1>1, HandleFrame
  <1>3. /\ \/ UNCHANGED lock
           \/ lock = NoLock /\ lock'.ticket[1] = q
           \/ lock.ticket[1] = q /\ lock' = NoLock
    BY <1>1, HandleFiles DEF TicketOf
  <1>4. SentToOpened'
    BY <1>1, <1>2 DEF SentToOpened, Alive, ServerOf
  <1>5. PurposeKept'
    BY <1>1, <1>2, SelfTurn DEF PurposeKept
  <1>6. OwnerSent'
    <2>1. ASSUME NEW record \in WriterRecord, pc[record.ticket[1]] # "idle"
          PROVE  pc'[record.ticket[1]] # "idle"
      BY <1>2, <2>1 DEF WriterRecord, Ticket
    <2>2. lock' # NoLock => pc'[lock'.ticket[1]] # "idle"
      BY <1>1, <1>2, <1>3, <2>1 DEF OwnerSent, TypeOK
    <2>3. \A k \in Recoverer : rpc[k] # "idle" => pc'[seen[k].ticket[1]] # "idle"
      BY <1>1, <2>1 DEF OwnerSent, TypeOK
    <2> QED
      BY <1>2, <2>2, <2>3 DEF OwnerSent
  <1>7. OwnerEnded'
    BY <1>1, <1>2 DEF OwnerEnded, OrphanConfirmed
  <1>8. ClaimHeld'
    BY <1>1, <1>2 DEF ClaimHeld
  <1>9. RecordUnchanged'
    <2>1. ASSUME NEW k \in Recoverer, rpc[k] = "unlink"
          PROVE  lock' = seen[k]
      <3>1. lock = seen[k] /\ OrphanConfirmed(k) /\ seen[k] # NoLock
        BY <1>1, <2>1 DEF RecordUnchanged, OwnerEnded, TypeOK
      <3>2. lock.ticket[1] # q
        BY <3>1 DEF OrphanConfirmed, Alive
      <3> QED
        BY <1>3, <3>1, <3>2
    <2> QED
      BY <1>2, <2>1 DEF RecordUnchanged
  <1> QED
    BY <1>4, <1>5, <1>6, <1>7, <1>8, <1>9

LEMMA HandleSafe ==
  ASSUME IInv, NEW q \in Request, Alive(q), Handle(q)
  PROVE  IInv'
  <1>1. TypeOK'
    <2>1. TypeOK /\ [Next]_vars
      BY DEF IInv, Next
    <2> QED
      BY <2>1, NextType
  <1> QED
    BY <1>1, HandleLock, HandleRecords, HandleRecovery DEF IInv

\* A server that opens has no requests, one that ends stops them.
LEMMA OpenSafe ==
  ASSUME IInv, NEW s \in Server, Open(s)
  PROVE  IInv'
  <1>1. /\ TypeOK /\ SentToOpened /\ OwnerSent /\ OwnerEnded /\ MemoryExtends
    BY DEF IInv
  <1>2. TypeOK'
    BY <1>1, NextType DEF Next
  <1>3. /\ UNCHANGED <<registry, lock, claims, turn, pc, job, note, dispatched, effects, rpc, seen>>
        /\ status[s] = "closed"
        /\ status' = [status EXCEPT ![s] = "open"]
        /\ committed' = [committed EXCEPT ![s] = registry]
        /\ memory' = [memory EXCEPT ![s] = registry.entries]
    BY DEF Open, files, history, outside, recoveryVars
  <1>4. ASSUME NEW q \in Request, Alive(q)'
        PROVE  /\ Alive(q)
               /\ ServerOf(q) \in Server \ {s}
    BY <1>1, <1>3, <1>4 DEF Alive, SentToOpened, ServerOf, TypeOK
  <1>5. ASSUME NEW q \in Request
        PROVE  UNCHANGED <<ServerOf(q), OperationOf(q), TicketOf(q)>>
    BY <1>3 DEF ServerOf, OperationOf, TicketOf
  <1>6. \A r \in Server \ {s} : committed'[r] = committed[r] /\ memory'[r] = memory[r]
    BY <1>1, <1>3 DEF TypeOK
  <1>7. SentToOpened' /\ PurposeKept' /\ OwnerSent' /\ ClaimHeld' /\ RecordUnchanged'
    BY <1>1, <1>3 DEF IInv, SentToOpened, PurposeKept, OwnerSent, ClaimHeld, RecordUnchanged,
                      ServerOf, TypeOK
  <1>8. TurnTaken' /\ LockHeld' /\ FileIsKnown'
    <2>1. TurnTaken'
      BY <1>3, <1>4, <1>5 DEF IInv, TurnTaken
    <2>2. LockHeld'
      BY <1>3, <1>4, <1>5 DEF IInv, LockHeld
    <2>3. FileIsKnown'
      BY <1>3, <1>4, <1>5, <1>6 DEF IInv, FileIsKnown
    <2> QED
      BY <2>1, <2>2, <2>3
  <1>9. OwnerEnded'
    BY <1>1, <1>3 DEF OwnerEnded, OrphanConfirmed, TypeOK
  <1>10. MemoryExtends'
    BY <1>1, <1>3 DEF MemoryExtends, TypeOK
  <1>11. ClaimIsNew'
    <2>1. ASSUME NEW q \in Request, Claims(q)'
          PROVE  Claims(q) /\ ServerOf(q) \in Server \ {s}
      BY <1>3, <1>4, <2>1 DEF Claims
    <2>2. dispatched \subseteq Request
      BY <1>1 DEF TypeOK
    <2> QED
      BY <1>3, <1>5, <1>6, <2>1, <2>2 DEF IInv, ClaimIsNew
  <1>12. DispatchedIsRecorded' /\ DispatchedAtMostOnce'
    BY <1>3 DEF IInv, DispatchedIsRecorded, DispatchedAtMostOnce, OperationOf
  <1> QED
    BY <1>2, <1>7, <1>8, <1>9, <1>10, <1>11, <1>12 DEF IInv

LEMMA CrashSafe ==
  ASSUME IInv, NEW s \in Server, Crash(s)
  PROVE  IInv'
  <1>1. TypeOK /\ TypeOK'
    BY NextType DEF IInv, Next
  <1>2. /\ UNCHANGED <<registry, lock, claims, committed, memory, turn, pc, job, note,
                       dispatched, effects, rpc, seen>>
        /\ status' = [status EXCEPT ![s] = "dead"]
    BY DEF Crash, files, history, outside, recoveryVars
  <1>3. ASSUME NEW q \in Request
        PROVE  /\ UNCHANGED <<ServerOf(q), OperationOf(q), TicketOf(q)>>
               /\ Alive(q)' => Alive(q)
               /\ Claims(q)' => Claims(q)
    BY <1>1, <1>2 DEF ServerOf, OperationOf, TicketOf, Alive, Claims, TypeOK
  <1>4. SentToOpened' /\ PurposeKept' /\ OwnerSent' /\ ClaimHeld' /\ RecordUnchanged'
    BY <1>1, <1>2 DEF IInv, SentToOpened, PurposeKept, OwnerSent, ClaimHeld, RecordUnchanged,
                      ServerOf, TypeOK
  <1>5. TurnTaken' /\ LockHeld' /\ FileIsKnown'
    BY <1>2, <1>3 DEF IInv, TurnTaken, LockHeld, FileIsKnown
  <1>6. OwnerEnded'
    BY <1>1, <1>2 DEF IInv, OwnerEnded, OrphanConfirmed, TypeOK
  <1>7. MemoryExtends' /\ DispatchedIsRecorded' /\ DispatchedAtMostOnce'
    BY <1>2 DEF IInv, MemoryExtends, DispatchedIsRecorded, DispatchedAtMostOnce, OperationOf
  <1>8. ClaimIsNew'
    <2>1. dispatched \subseteq Request
      BY <1>1 DEF TypeOK
    <2> QED
      BY <1>2, <1>3, <2>1 DEF IInv, ClaimIsNew
  <1> QED
    BY <1>1, <1>4, <1>5, <1>6, <1>7, <1>8 DEF IInv

\* A call finds its server idle: no live writer and no record is affected.
Called(q, s, o) ==
  /\ UNCHANGED <<registry, lock, claims, status, dispatched, effects, rpc, seen>>
  /\ \A p \in Request \ {q} : pc'[p] = pc[p] /\ note'[p] = note[p] /\ job'[p] = job[p]
  /\ pc[q] = "idle"
  /\ job'[q] = [server |-> s, operation |-> o]
  /\ turn[s] = Nobody
  /\ status[s] = "open"
  /\ \A r \in Server \ {s} :
       turn'[r] = turn[r] /\ committed'[r] = committed[r] /\ memory'[r] = memory[r]
  /\ committed'[s] = registry
  /\ \/ /\ memory'[s] = Refreshed(s)
        /\ pc'[q] \in {"answered", "observe", "evidence"}
        /\ pc'[q] # "answered" => note'[q].purpose = "observe"
     \/ /\ Refreshed(s)[o] = Absent
        /\ memory'[s] = [Refreshed(s) EXCEPT ![o] = Registered]
        /\ turn'[s] = q
        /\ pc'[q] = "acquire"

LEMMA CallFrame ==
  ASSUME IInv, NEW q \in Request, NEW s \in Server, NEW o \in Operation, Call(q, s, o)
  PROVE  Called(q, s, o)
  <1>1. TypeOK
    BY DEF IInv
  <1>2. /\ pc \in [Request -> Steps]
        /\ note \in [Request -> Notes]
        /\ job \in [Request -> Jobs \union {NoJob}]
        /\ turn \in [Server -> Request \union {Nobody}]
        /\ committed \in [Server -> Registry] /\ memory \in [Server -> Records]
    BY <1>1, TypeParts DEF RequestTypes, ServerTypes
  <1>3. UNCHANGED <<registry, lock, claims, status, dispatched, effects, rpc, seen>>
    BY DEF Call, SubmitNew, CallEnds, Look, Adopt, files, history, outside, recoveryVars
  <1>4. Send(q, s, o)
    BY DEF Call, SubmitNew, CallEnds, Look
  <1>5. CASE SubmitNew(q, s, o)
    BY <1>2, <1>3, <1>4, <1>5 DEF Called, SubmitNew, Send, Adopt, Note, Goto
  <1>6. CASE CallEnds(q, s, o)
    BY <1>2, <1>3, <1>4, <1>6 DEF Called, CallEnds, Send, Adopt, Goto
  <1>7. CASE Look(q, s, o)
    <2>1. [EmptyNote EXCEPT !.state = Refreshed(s)[o].state,
                            !.after = Refreshed(s)[o].sequence].purpose = "observe"
      BY RecordFacts DEF EmptyNote, Notes
    <2> QED
      BY <1>2, <1>3, <1>4, <1>7, <2>1 DEF Called, Look, Send, Adopt, Note, Goto
  <1> QED
    BY <1>5, <1>6, <1>7 DEF Call

LEMMA CallSafe ==
  ASSUME IInv, NEW q \in Request, NEW s \in Server, NEW o \in Operation, Call(q, s, o)
  PROVE  IInv'
  <1>1. /\ TypeOK /\ SentToOpened /\ PurposeKept /\ TurnTaken /\ LockHeld /\ OwnerSent
        /\ FileIsKnown /\ OwnerEnded /\ ClaimHeld /\ RecordUnchanged /\ MemoryExtends
        /\ ClaimIsNew /\ DispatchedIsRecorded /\ DispatchedAtMostOnce
    BY DEF IInv
  <1>0. Called(q, s, o)
    BY CallFrame
  <1>2. TypeOK'
    BY <1>1, CallsType
  <1>3. /\ UNCHANGED <<registry, lock, claims, status, dispatched, effects, rpc, seen>>
        /\ \A p \in Request \ {q} :
             pc'[p] = pc[p] /\ note'[p] = note[p] /\ job'[p] = job[p]
        /\ pc[q] = "idle"
        /\ job'[q] = [server |-> s, operation |-> o]
        /\ turn[s] = Nobody
        /\ status[s] = "open"
        /\ pc'[q] \in {"answered", "observe", "evidence", "acquire"}
        /\ pc'[q] \in {"observe", "evidence"} => note'[q].purpose # "claim"
        /\ pc'[q] = "acquire" => turn'[s] = q
    BY <1>0 DEF Called
  <1>4. ASSUME NEW p \in Request \ {q}
        PROVE  /\ UNCHANGED <<ServerOf(p), OperationOf(p), TicketOf(p), pc[p], note[p]>>
               /\ Alive(p)' <=> Alive(p)
               /\ Claims(p)' <=> Claims(p)
    BY <1>3 DEF ServerOf, OperationOf, TicketOf, Alive, Claims
  <1>5. ServerOf(q)' = s /\ OperationOf(q)' = o
    BY <1>3 DEF ServerOf, OperationOf
  <1>6. ASSUME NEW p \in Request \ {q}, Alive(p), pc[p] \in Writing
        PROVE  UNCHANGED <<turn[ServerOf(p)], committed[ServerOf(p)], memory[ServerOf(p)]>>
    <2>1. ServerOf(p) \in Server \ {s}
      BY <1>1, <1>3, <1>6, SentType, ConstantsAssumption DEF TurnTaken
    <2> QED
      BY <1>0, <1>4, <2>1 DEF Called
  <1>7. SentToOpened' /\ PurposeKept'
    <2>1. SentToOpened'
      BY <1>1, <1>3, <1>4, <1>5 DEF SentToOpened
    <2>2. PurposeKept'
      BY <1>1, <1>3, <1>4 DEF PurposeKept
    <2> QED
      BY <2>1, <2>2
  <1>8. TurnTaken'
    <2>1. ASSUME NEW p \in Request, Alive(p)', pc'[p] \in Writing
          PROVE  turn'[ServerOf(p)'] = p
      <3>1. CASE p = q
        BY <1>3, <1>5, <2>1, <3>1 DEF Writing
      <3>2. CASE p # q
        BY <1>1, <1>4, <1>6, <2>1, <3>2 DEF TurnTaken
      <3> QED
        BY <3>1, <3>2
    <2> QED
      BY <2>1 DEF TurnTaken
  <1>9. LockHeld' /\ FileIsKnown'
    <2>1. LockHeld'
      BY <1>1, <1>3, <1>4 DEF LockHeld, Holding
    <2>2. ASSUME NEW p \in Request, Alive(p)', pc'[p] = "rename"
          PROVE  registry' = committed'[ServerOf(p)']
      BY <1>1, <1>3, <1>4, <1>6, <2>2 DEF FileIsKnown, Writing
    <2>3. FileIsKnown'
      BY <2>2 DEF FileIsKnown
    <2> QED
      BY <2>1, <2>3
  <1>10. OwnerSent' /\ OwnerEnded' /\ ClaimHeld' /\ RecordUnchanged'
    <2>1. ASSUME NEW record \in WriterRecord, pc[record.ticket[1]] # "idle"
          PROVE  record.ticket[1] \in Request \ {q}
      BY <1>3, <2>1 DEF WriterRecord, Ticket
    <2>2. OwnerSent'
      BY <1>1, <1>3, <2>1 DEF OwnerSent, TypeOK
    <2>3. OwnerEnded'
      BY <1>1, <1>3, <2>1 DEF OwnerEnded, OwnerSent, OrphanConfirmed, TypeOK
    <2>4. ClaimHeld' /\ RecordUnchanged'
      BY <1>1, <1>3 DEF ClaimHeld, RecordUnchanged
    <2> QED
      BY <2>2, <2>3, <2>4
  <1>11. MemoryExtends'
    <2>1. /\ Refreshed(s) \in Records
          /\ \A i \in Operation : registry.entries[i] # Absent => Refreshed(s)[i] # Absent
      BY <1>1, RefreshedType DEF Refreshed, MemoryExtends
    <2>2. \A i \in Operation : registry.entries[i] # Absent => memory'[s][i] # Absent
      BY <1>0, <2>1, RecordFacts, ConstantsAssumption DEF Records, Called
    <2> QED
      BY <1>0, <1>1, <2>2 DEF MemoryExtends, Called
  <1>12. ClaimIsNew'
    <2>1. \A p \in dispatched : p \in Request \ {q}
      BY <1>1, <1>3 DEF DispatchedIsRecorded, TypeOK
    <2>2. ASSUME pc'[q] = "acquire"
          PROVE  committed'[s].entries[o] = Absent /\ memory'[s][o] # Absent
      <3>1. Refreshed(s)[o] = Absent /\ Refreshed(s) \in Records
            /\ memory'[s] = [Refreshed(s) EXCEPT ![o] = Registered]
            /\ committed'[s] = registry
        BY <1>0, <1>1, <2>2, RefreshedType DEF Called
      <3>2. registry.entries[o] = Absent
        BY <1>1, <3>1 DEF Refreshed, MemoryExtends
      <3> QED
        BY <3>1, <3>2, RecordFacts, ConstantsAssumption DEF Records
    <2>3. ASSUME NEW p \in Request, Claims(p)', pc'[p] \in {"acquire", "check", "rename"}
          PROVE  /\ committed'[ServerOf(p)'].entries[OperationOf(p)'] = Absent
                 /\ memory'[ServerOf(p)'][OperationOf(p)'] # Absent
      <3>1. CASE p = q
        BY <1>3, <1>5, <2>2, <2>3, <3>1
      <3>2. CASE p # q
        <4>1. Claims(p) /\ Alive(p) /\ pc[p] = pc'[p] /\ pc[p] \in Writing
          BY <1>4, <2>3, <3>2 DEF Claims, Writing
        <4> QED
          BY <1>1, <1>4, <1>6, <2>3, <3>2, <4>1 DEF ClaimIsNew
      <3> QED
        BY <3>1, <3>2
    <2>4. ASSUME NEW p \in Request, Claims(p)',
                 pc'[p] = "confirm" \/ (pc'[p] = "release" /\ note'[p].outcome = "ok")
          PROVE  /\ registry'.entries[OperationOf(p)'] # Absent
                 /\ \A r \in dispatched' : OperationOf(r)' # OperationOf(p)'
      <3>1. p # q
        BY <1>3, <2>4
      <3>2. /\ Claims(p)
            /\ pc[p] = "confirm" \/ (pc[p] = "release" /\ note[p].outcome = "ok")
        BY <1>4, <2>4, <3>1
      <3> QED
        BY <1>1, <1>3, <1>4, <2>1, <3>1, <3>2 DEF ClaimIsNew
    <2> QED
      BY <2>3, <2>4 DEF ClaimIsNew
  <1>13. DispatchedIsRecorded' /\ DispatchedAtMostOnce'
    <2>1. \A p \in dispatched : p \in Request \ {q}
      BY <1>1, <1>3 DEF DispatchedIsRecorded, TypeOK
    <2> QED
      BY <1>1, <1>3, <1>4, <2>1 DEF DispatchedIsRecorded, DispatchedAtMostOnce
  <1> QED
    BY <1>2, <1>7, <1>8, <1>9, <1>10, <1>11, <1>12, <1>13 DEF IInv

\* What a step of a recoverer leaves of everything else.
LEMMA RecoverFrame ==
  ASSUME IInv, NEW k \in Recoverer, Recover(k)
  PROVE  /\ UNCHANGED <<registry, status, committed, memory, turn, pc, job, note, dispatched>>
         /\ \A j \in Recoverer \ {k} : rpc'[j] = rpc[j] /\ seen'[j] = seen[j]
         /\ UNCHANGED lock \/ (rpc[k] = "unlink" /\ lock' = NoLock)
         /\ \/ rpc'[k] = "idle"
            \/ rpc[k] # "idle" /\ seen'[k] = seen[k]
            \/ rpc'[k] = "inspect" /\ lock # NoLock /\ seen'[k] = lock
  <1>1. rpc \in [Recoverer -> RecoverySteps] /\ seen \in [Recoverer -> WriterRecord \union {NoLock}]
    BY DEF IInv, TypeOK
  <1>2. UNCHANGED <<registry, status, committed, memory, turn, pc, job, note, dispatched>>
    BY DEF Recover, ReadOwner, Inspect, InspectEvidence, ClaimRecovery, Recheck, Authorize,
           FinalCheck, RemoveOwner, PublishResult, AbandonClaim, RecovererCrash, service,
           serverVars, history
  <1>3. \A j \in Recoverer \ {k} : rpc'[j] = rpc[j] /\ seen'[j] = seen[j]
    BY <1>1
    DEF Recover, ReadOwner, Inspect, InspectEvidence, ClaimRecovery, Recheck, Authorize,
        FinalCheck, RemoveOwner, PublishResult, AbandonClaim, RecovererCrash, RGoto, Leaves
  <1>4. UNCHANGED lock \/ (rpc[k] = "unlink" /\ lock' = NoLock)
    BY DEF Recover, ReadOwner, Inspect, InspectEvidence, ClaimRecovery, Recheck, Authorize,
           FinalCheck, RemoveOwner, PublishResult, AbandonClaim, RecovererCrash
  <1>5. \/ rpc'[k] = "idle"
        \/ rpc[k] # "idle" /\ seen'[k] = seen[k]
        \/ rpc'[k] = "inspect" /\ lock # NoLock /\ seen'[k] = lock
    BY <1>1
    DEF Recover, ReadOwner, Inspect, InspectEvidence, ClaimRecovery, Recheck, Authorize,
        FinalCheck, RemoveOwner, PublishResult, AbandonClaim, RecovererCrash, RGoto, Leaves
  <1> QED
    BY <1>2, <1>3, <1>4, <1>5

\* The claim file of a writer record stays the only one, and its holder's.
LEMMA RecoverClaims ==
  ASSUME IInv, NEW k \in Recoverer, Recover(k)
  PROVE  OwnerEnded' /\ ClaimHeld'
  <1>1. TypeOK /\ OwnerEnded /\ ClaimHeld
    BY DEF IInv
  <1>2. rpc \in [Recoverer -> RecoverySteps] /\ seen \in [Recoverer -> WriterRecord \union {NoLock}]
    BY <1>1 DEF TypeOK
  <1>3. /\ UNCHANGED <<status, job>>
        /\ \A j \in Recoverer \ {k} : rpc'[j] = rpc[j] /\ seen'[j] = seen[j]
    BY RecoverFrame
  <1>4. OwnerEnded'
    <2>1. ASSUME rpc'[k] \notin {"idle", "inspect", "evidence"}
          PROVE  OrphanConfirmed(k) /\ seen'[k] = seen[k]
      BY <1>1, <1>2, <2>1
      DEF Recover, ReadOwner, Inspect, InspectEvidence, ClaimRecovery, Recheck, Authorize,
          FinalCheck, RemoveOwner, PublishResult, AbandonClaim, RecovererCrash, RGoto, Leaves,
          OwnerEnded
    <2> QED
      BY <1>1, <1>3, <2>1 DEF OwnerEnded, OrphanConfirmed
  <1> DEFINE Before == {"idle", "inspect", "evidence", "claim"}
             Mine == <<seen[k].ticket, k>>
  <1>5. ASSUME \A c, d \in claims' : c[1] = d[1] => c = d,
               rpc'[k] \notin Before => <<seen'[k].ticket, k>> \in claims',
               \A j \in Recoverer \ {k} : rpc[j] \notin Before => <<seen[j].ticket, j>> \in claims'
        PROVE  OwnerEnded' /\ ClaimHeld'
    <2>1. ASSUME NEW j \in Recoverer, rpc'[j] \notin Before
          PROVE  <<seen'[j].ticket, j>> \in claims'
      BY <1>3, <1>5, <2>1
    <2> QED
      BY <1>4, <1>5, <2>1 DEF ClaimHeld
  <1>6. CASE ClaimRecovery(k)
    <2>1. ASSUME NEW j \in Recoverer, rpc[j] \notin Before
          PROVE  <<seen[j].ticket, j>> \in claims
      BY <1>1, <2>1 DEF ClaimHeld
    <2>2. CASE \E c \in claims : c[1] = seen[k].ticket
      <3>1. UNCHANGED claims /\ rpc'[k] = "idle"
        BY <1>2, <1>6, <2>2 DEF ClaimRecovery, Leaves
      <3> QED
        BY <1>1, <1>5, <2>1, <3>1 DEF ClaimHeld
    <2>3. CASE ~\E c \in claims : c[1] = seen[k].ticket
      <3>1. /\ claims' = claims \union {Mine}
            /\ rpc'[k] = "idle" \/ seen'[k] = seen[k]
        BY <1>2, <1>6, <2>3 DEF ClaimRecovery, RGoto, Leaves
      <3>2. \A c, d \in claims' : c[1] = d[1] => c = d
        BY <1>1, <2>3, <3>1 DEF ClaimHeld
      <3> QED
        BY <1>5, <2>1, <3>1, <3>2
    <2> QED
      BY <2>2, <2>3
  <1>7. CASE PublishResult(k) \/ AbandonClaim(k)
    <2>1. /\ Mine \in claims
          /\ rpc'[k] = "idle"
      BY <1>1, <1>2, <1>7 DEF PublishResult, AbandonClaim, ClaimHeld, Leaves
    <2>2. \/ UNCHANGED claims
          \/ claims' = claims \ {Mine}
          \/ claims' = (claims \ {Mine}) \union {<<seen[k].ticket, Nobody>>}
      BY <1>7 DEF PublishResult, AbandonClaim
    <2>3. \A c, d \in claims' : c[1] = d[1] => c = d
      BY <1>1, <2>1, <2>2 DEF ClaimHeld
    <2>4. ASSUME NEW j \in Recoverer \ {k}, rpc[j] \notin Before
          PROVE  <<seen[j].ticket, j>> \in claims'
      BY <1>1, <2>2, <2>4 DEF ClaimHeld
    <2> QED
      BY <1>5, <2>1, <2>3, <2>4
  <1>8. CASE \/ ReadOwner(k) \/ Inspect(k) \/ InspectEvidence(k) \/ Recheck(k) \/ Authorize(k)
             \/ FinalCheck(k) \/ RemoveOwner(k) \/ RecovererCrash(k)
    <2>1. UNCHANGED claims
      BY <1>8
      DEF ReadOwner, Inspect, InspectEvidence, Recheck, Authorize, FinalCheck, RemoveOwner,
          RecovererCrash
    <2>2. rpc'[k] \notin Before => rpc[k] \notin Before /\ seen'[k] = seen[k]
      BY <1>2, <1>8
      DEF ReadOwner, Inspect, InspectEvidence, Recheck, Authorize, FinalCheck, RemoveOwner,
          RecovererCrash, RGoto, Leaves
    <2>3. ASSUME NEW j \in Recoverer, rpc[j] \notin Before
          PROVE  <<seen[j].ticket, j>> \in claims
      BY <1>1, <2>3 DEF ClaimHeld
    <2> QED
      BY <1>1, <1>5, <2>1, <2>2, <2>3 DEF ClaimHeld
  <1> QED
    BY <1>6, <1>7, <1>8 DEF Recover

LEMMA RecoverSafe ==
  ASSUME IInv, NEW k \in Recoverer, Recover(k)
  PROVE  IInv'
  <1>1. /\ TypeOK /\ LockHeld /\ OwnerSent /\ OwnerEnded /\ ClaimHeld /\ RecordUnchanged
    BY DEF IInv
  <1>2. /\ UNCHANGED <<registry, status, committed, memory, turn, pc, job, note, dispatched>>
        /\ \A j \in Recoverer \ {k} : rpc'[j] = rpc[j] /\ seen'[j] = seen[j]
        /\ UNCHANGED lock \/ (rpc[k] = "unlink" /\ lock' = NoLock)
        /\ \/ rpc'[k] = "idle"
           \/ rpc[k] # "idle" /\ seen'[k] = seen[k]
           \/ rpc'[k] = "inspect" /\ lock # NoLock /\ seen'[k] = lock
    BY RecoverFrame
  <1>3. TypeOK'
    BY <1>1, RecoverType
  <1>4. /\ SentToOpened' /\ PurposeKept' /\ TurnTaken' /\ FileIsKnown' /\ MemoryExtends'
        /\ ClaimIsNew' /\ DispatchedIsRecorded' /\ DispatchedAtMostOnce'
    BY <1>2
    DEF IInv, SentToOpened, PurposeKept, TurnTaken, FileIsKnown, MemoryExtends, ClaimIsNew,
        DispatchedIsRecorded, DispatchedAtMostOnce, Claims, Alive, ServerOf, OperationOf
  <1>5. LockHeld'
    <2>1. ASSUME NEW q \in Request, Alive(q), pc[q] \in Holding
          PROVE  lock'.ticket = TicketOf(q)
      <3>1. lock.ticket = TicketOf(q)
        BY <1>1, <2>1 DEF LockHeld
      <3>2. rpc[k] # "unlink"
        BY <1>1, <2>1, <3>1 DEF RecordUnchanged, OwnerEnded, OrphanConfirmed, TicketOf, Alive
      <3> QED
        BY <1>2, <3>1, <3>2
    <2> QED
      BY <1>2, <2>1 DEF LockHeld, Alive, TicketOf
  <1>6. OwnerSent'
    BY <1>1, <1>2 DEF OwnerSent
  <1>7. RecordUnchanged'
    <2>1. ASSUME NEW j \in Recoverer \ {k}, rpc[j] = "unlink"
          PROVE  lock' = seen[j]
      <3>1. lock = seen[j]
        BY <1>1, <2>1 DEF RecordUnchanged
      <3>2. rpc[k] # "unlink"
        BY <1>1, <2>1, <3>1 DEF RecordUnchanged, ClaimHeld
      <3> QED
        BY <1>2, <3>1, <3>2
    <2>2. ASSUME rpc'[k] = "unlink"
          PROVE  lock' = seen'[k]
      <3>1. rpc \in [Recoverer -> RecoverySteps]
            /\ seen \in [Recoverer -> WriterRecord \union {NoLock}]
        BY <1>1 DEF TypeOK
      <3> QED
        BY <2>2, <3>1
        DEF Recover, ReadOwner, Inspect, InspectEvidence, ClaimRecovery, Recheck, Authorize,
            FinalCheck, RemoveOwner, PublishResult, AbandonClaim, RecovererCrash, RGoto, Leaves
    <2> QED
      BY <1>2, <2>1, <2>2 DEF RecordUnchanged
  <1> QED
    BY <1>3, <1>4, <1>5, <1>6, <1>7, RecoverClaims DEF IInv

LEMMA InitSafe == Init => IInv
  <1> SUFFICES ASSUME Init PROVE IInv
    OBVIOUS
  <1>1. /\ SentToOpened /\ PurposeKept /\ TurnTaken /\ LockHeld /\ FileIsKnown /\ ClaimIsNew
    BY DEF Init, SentToOpened, PurposeKept, TurnTaken, LockHeld, FileIsKnown, ClaimIsNew,
           Claims, Alive
  <1>2. /\ OwnerSent /\ OwnerEnded /\ ClaimHeld /\ RecordUnchanged
    BY DEF Init, OwnerSent, OwnerEnded, ClaimHeld, RecordUnchanged
  <1>3. /\ MemoryExtends /\ DispatchedIsRecorded /\ DispatchedAtMostOnce
    BY DEF Init, MemoryExtends, DispatchedIsRecorded, DispatchedAtMostOnce, EmptyRegistry
  <1> QED
    BY <1>1, <1>2, <1>3, InitType DEF IInv

LEMMA StutterSafe == IInv /\ UNCHANGED vars => IInv'
  <1> SUFFICES ASSUME IInv, UNCHANGED vars PROVE IInv'
    OBVIOUS
  <1>1. /\ UNCHANGED <<registry, lock, claims, status, committed, memory, poisoned, turn, pc,
                       job, note, dispatched, effects, rpc, seen>>
    BY DEF vars, serverVars, recoveryVars
  <1>2. TypeOK'
    BY NextType DEF IInv
  <1>3. /\ SentToOpened' /\ PurposeKept' /\ TurnTaken' /\ LockHeld' /\ FileIsKnown'
        /\ ClaimIsNew'
    BY <1>1
    DEF IInv, SentToOpened, PurposeKept, TurnTaken, LockHeld, FileIsKnown, ClaimIsNew, Claims,
        Alive, ServerOf, OperationOf, TicketOf
  <1>4. /\ OwnerSent' /\ OwnerEnded' /\ ClaimHeld' /\ RecordUnchanged'
        /\ MemoryExtends' /\ DispatchedIsRecorded' /\ DispatchedAtMostOnce'
    BY <1>1
    DEF IInv, OwnerSent, OwnerEnded, ClaimHeld, RecordUnchanged, MemoryExtends,
        DispatchedIsRecorded, DispatchedAtMostOnce, OrphanConfirmed, OperationOf
  <1> QED
    BY <1>2, <1>3, <1>4 DEF IInv

LEMMA NextSafe == IInv /\ [Next]_vars => IInv'
  BY StutterSafe, OpenSafe, CrashSafe, CallSafe, HandleSafe, RecoverSafe DEF Next

\* The invariant of persist() and recover(): it holds in every reachable state.
THEOREM Inductive == Spec => []IInv
  BY InitSafe, NextSafe, PTL DEF Spec

\* persist(): whoever is about to replace the registry holds the writer record, and the
\* file is the one its server knows.
THEOREM WriterAlone == Spec => []WriterIsAlone
  <1>1. IInv => WriterIsAlone
    BY DEF IInv, LockHeld, FileIsKnown, WriterIsAlone, Holding, ServerOf
  <1> QED
    BY <1>1, Inductive, PTL

\* submit(): no two requests, of one server or of several, hand the same operation to the
\* executor.
THEOREM OnceDispatched == Spec => []DispatchedAtMostOnce
  <1>1. IInv => DispatchedAtMostOnce
    BY DEF IInv
  <1> QED
    BY <1>1, Inductive, PTL

\* recover(): the record it unlinks is the one it inspected, and the writer has ended.
THEOREM OnlyOrphans == Spec => []RecoveryTakesOnlyOrphans
  <1>1. IInv => RecoveryTakesOnlyOrphans
    BY DEF IInv, RecordUnchanged, OwnerEnded, RecoveryTakesOnlyOrphans
  <1> QED
    BY <1>1, Inductive, PTL

----------------------------------------------------------------------------
(***************************************************************************)
(* Every step is one of the ledger of submissions, or changes nothing of   *)
(* it.                                                                     *)
(***************************************************************************)
\* A server's memory is the file it knows, observed further.
MemoryFollows ==
  \A s \in Server, o \in Operation : Follows(memory[s][o], committed[s].entries[o])

IsSuccess(record) == record # Absent /\ record.state = "succeeded"

\* A success is told only of an operation that took effect: in the file, in a memory, and
\* by a request about to record it.
SuccessTrue ==
  /\ \A o \in Operation : IsSuccess(registry.entries[o]) => o \in effects
  /\ \A s \in Server, o \in Operation : IsSuccess(memory[s][o]) => o \in effects
  /\ \A q \in Request :
       pc[q] = "observe" /\ note[q].state = "succeeded" => OperationOf(q) \in effects

\* Only what was dispatched is executed.
ExecutesDispatched == \A q \in Request : pc[q] = "execute" => q \in dispatched

LInv == IInv /\ MemoryFollows /\ SuccessTrue /\ ExecutesDispatched

LEMMA RankType == \A st \in States : Rank(st) \in 1..3
  BY DEF States, Settled, Rank

LEMMA FollowsTransitive ==
  ASSUME NEW a \in MaybeRecord, NEW b \in MaybeRecord, NEW c \in MaybeRecord,
         Follows(a, b), Follows(b, c)
  PROVE  Follows(a, c)
  <1>1. \A r \in Record : r.sequence \in Nat /\ r.state \in States /\ Rank(r.state) \in 1..3
    BY RankType DEF Record
  <1> QED
    BY <1>1 DEF Follows, MaybeRecord

LEMMA ObservedFollows ==
  ASSUME NEW r \in MaybeRecord, NEW n \in Nat, NEW st \in States, MayObserve(r, n, st)
  PROVE  /\ Observed(r, st) \in Record
         /\ Follows(Observed(r, st), r)
         /\ Observed(r, st).state = st
  <1>1. Observed(r, st) \in Record /\ Observed(r, st) # Absent
    BY RecordFacts, ConstantsAssumption
  <1>2. r \in Record /\ r.sequence \in Nat
    BY DEF MayObserve, MaybeRecord, Record
  <1> QED
    BY <1>1, <1>2 DEF Observed, MayObserve, Follows

\* What refresh() leaves in memory follows the file.
LEMMA RefreshedFollows ==
  ASSUME LInv, NEW s \in Server, NEW o \in Operation
  PROVE  /\ Refreshed(s) \in Records
         /\ Refreshed(s)[o] \in MaybeRecord
         /\ registry.entries[o] \in MaybeRecord
         /\ Follows(Refreshed(s)[o], registry.entries[o])
         /\ IsSuccess(Refreshed(s)[o]) => o \in effects
  <1>1. TypeOK /\ registry.entries \in Records
    BY DEF LInv, IInv, TypeOK, Registry
  <1>2. Refreshed(s) \in Records
    BY <1>1, RefreshedType
  <1>3. Follows(Refreshed(s)[o], registry.entries[o])
    BY DEF LInv, MemoryFollows, Refreshed, Follows
  <1>4. IsSuccess(Refreshed(s)[o]) => o \in effects
    BY DEF LInv, SuccessTrue, Refreshed
  <1> QED
    BY <1>1, <1>2, <1>3, <1>4 DEF Records

----------------------------------------------------------------------------
(***************************************************************************)
(* The invariant.                                                          *)
(***************************************************************************)

\* What every step leaves of the history.
LEMMA HandleEffects ==
  ASSUME IInv, NEW q \in Request, Alive(q), Handle(q)
  PROVE  /\ effects \subseteq effects'
         /\ effects' = effects \/ (effects' = effects \union {OperationOf(q)} /\ pc[q] = "execute")
         /\ ~Execute(q) => effects' = effects
         /\ dispatched \subseteq dispatched'
         /\ pc'[q] = "execute" => q \in dispatched'
         /\ pc'[q] = "observe" /\ note'[q].state = "succeeded" => OperationOf(q) \in effects'
  <1>1. TypeOK
    BY DEF IInv
  <1>2. /\ note[q] \in Notes
        /\ pc \in [Request -> Steps]
        /\ note \in [Request -> Notes]
    BY <1>1, SentType, TypeParts DEF RequestTypes
  <1>3. ASSUME Throw(q)
        PROVE  pc'[q] # "execute" /\ (pc'[q] = "observe" => note'[q].state # "succeeded")
    <2>1. [note[q] EXCEPT !.purpose = "settle", !.state = "failed", !.outcome = "ok"].state
            = "failed"
      BY <1>2 DEF Notes
    <2>2. CASE note[q].purpose = "report"
      BY <1>2, <1>3, <2>1, <2>2 DEF Throw, Goto, Note
    <2>3. CASE note[q].purpose # "report"
      BY <1>2, <1>3, <2>3 DEF Throw, Answer, Goto
    <2> QED
      BY <2>2, <2>3
  <1>4. CASE Execute(q)
    <2>1. PICK effect \in BOOLEAN, state \in Settled \union {"unknown"} :
            /\ state = "succeeded" => effect
            /\ effects' = IF effect THEN effects \union {OperationOf(q)} ELSE effects
            /\ Note(q, [purpose |-> IF state = "succeeded" THEN "report" ELSE "settle",
                        state |-> state, after |-> Registered.sequence, outcome |-> "ok"])
      BY <1>4 DEF Execute
    <2>2. note'[q].state = state
      BY <1>2, <2>1 DEF Note
    <2> QED
      BY <1>2, <1>4, <2>1, <2>2 DEF Execute, Goto
  <1>5. CASE Evidence(q)
    <2>1. PICK state \in Settled \union {"unknown"} :
            /\ state = "succeeded" => OperationOf(q) \in effects
            /\ Note(q, [note[q] EXCEPT !.state = state])
      BY <1>5 DEF Evidence
    <2>2. note'[q].state = state
      BY <1>2, <2>1 DEF Note, Notes
    <2>3. UNCHANGED history /\ pc'[q] = "observe" /\ ~Execute(q)
      BY <1>2, <1>5 DEF Evidence, Execute, Goto
    <2> QED
      BY <2>1, <2>2, <2>3 DEF history
  <1>6. CASE \/ Observe(q) \/ Acquire(q) \/ Check(q) \/ Rename(q) \/ Confirm(q)
    <2>1. pc'[q] \notin {"execute", "observe"} /\ UNCHANGED history /\ ~Execute(q)
      BY <1>2, <1>6 DEF Observe, Acquire, Check, Rename, Confirm, Fail, Goto, Execute
    <2> QED
      BY <2>1 DEF history
  <1>7. CASE \/ ObserveRefused(q) \/ AcquireOversized(q) \/ AcquireContended(q)
             \/ AcquireFails(q) \/ UndoAcquire(q)
    <2>1. Throw(q) /\ UNCHANGED history /\ ~Execute(q)
      BY <1>7
      DEF ObserveRefused, AcquireOversized, AcquireContended, AcquireFails, UndoAcquire, Execute
    <2> QED
      BY <1>3, <2>1 DEF history
  <1>8. CASE Release(q)
    <2>1. effects' = effects /\ ~Execute(q)
      BY <1>8 DEF Release, Execute
    <2>2. PICK outcome : Return(q, outcome)
      BY <1>8 DEF Release
    <2>3. CASE Throw(q) /\ UNCHANGED dispatched
      BY <1>3, <2>1, <2>3
    <2>4. CASE ~(Throw(q) /\ UNCHANGED dispatched)
      BY <1>2, <2>1, <2>2, <2>4 DEF Return, Answer, Goto
    <2> QED
      BY <2>3, <2>4
  <1> QED
    BY <1>4, <1>5, <1>6, <1>7, <1>8 DEF Handle

\* What a step makes of its server's copy.
LEMMA HandleCopy ==
  ASSUME LInv, NEW q \in Request, Alive(q), Handle(q), NEW o \in Operation
  PROVE  /\ Follows(memory'[ServerOf(q)][o], committed'[ServerOf(q)].entries[o])
         /\ IsSuccess(memory'[ServerOf(q)][o]) => o \in effects
  <1> DEFINE s == ServerOf(q)
             p == OperationOf(q)
  <1>1. IInv /\ TypeOK /\ MemoryFollows /\ SuccessTrue
    BY DEF LInv, IInv
  <1>2. /\ s \in Server /\ p \in Operation /\ note[q] \in Notes
        /\ committed \in [Server -> Registry] /\ memory \in [Server -> Records]
    BY <1>1, SentType, TypeParts DEF ServerTypes
  <1>3. CASE UNCHANGED <<committed, memory>>
    BY <1>1, <1>2, <1>3 DEF MemoryFollows, SuccessTrue
  <1>4. CASE Observe(q)
    <2> DEFINE was == Refreshed(s)[p]
               is == Observed(was, note[q].state)
    <2>1. Refreshed(s) \in Records /\ was \in MaybeRecord /\ registry.entries[p] \in MaybeRecord
          /\ Follows(was, registry.entries[p])
      BY <1>2, RefreshedFollows
    <2>2. /\ MayObserve(was, note[q].after, note[q].state)
          /\ committed'[s] = registry
          /\ memory'[s] = [Refreshed(s) EXCEPT ![p] = is]
      BY <1>2, <1>4 DEF Observe, Adopt, ServerOf
    <2>3. is \in Record /\ Follows(is, was) /\ is.state = note[q].state
      BY <1>2, <2>1, <2>2, ObservedFollows DEF Notes
    <2>4. CASE o = p
      <3>1. Follows(is, registry.entries[p])
        BY <2>1, <2>3, FollowsTransitive DEF MaybeRecord
      <3>2. IsSuccess(is) => p \in effects
        BY <1>1, <1>4, <2>3 DEF IsSuccess, SuccessTrue, Observe
      <3>3. memory'[s][o] = is
        BY <2>1, <2>2, <2>4 DEF Records
      <3> QED
        BY <2>2, <2>4, <3>1, <3>2, <3>3
    <2>5. CASE o # p
      <3>1. memory'[s][o] = Refreshed(s)[o]
        BY <2>1, <2>2, <2>5 DEF Records
      <3> QED
        BY <1>2, <2>2, <3>1, RefreshedFollows
    <2> QED
      BY <2>4, <2>5
  <1>5. CASE ObserveRefused(q)
    <2>1. CASE committed'[s] = registry /\ memory'[s] = Refreshed(s)
      BY <1>2, <2>1, RefreshedFollows
    <2> QED
      BY <1>2, <1>3, <1>5, <2>1 DEF ObserveRefused, Adopt, ServerOf, serverVars
  <1>6. CASE Confirm(q)
    <2>1. CASE committed' = [committed EXCEPT ![s] = NextRegistry(q)] /\ UNCHANGED memory
      <3>1. committed'[s].entries = memory[s]
        BY <1>2, <2>1 DEF NextRegistry, ServerOf
      <3> QED
        BY <1>1, <1>2, <2>1, <3>1 DEF Follows, SuccessTrue
    <2> QED
      BY <1>3, <1>6, <2>1 DEF Confirm, Fail, Poison, ServerOf
  <1>7. CASE \/ Execute(q) \/ Evidence(q) \/ Acquire(q) \/ AcquireOversized(q)
             \/ AcquireContended(q) \/ AcquireFails(q) \/ UndoAcquire(q) \/ Check(q)
             \/ Rename(q) \/ Release(q)
    BY <1>3, <1>7
    DEF Execute, Evidence, Acquire, AcquireOversized, AcquireContended, AcquireFails,
        UndoAcquire, Check, Rename, Release, Fail, Poison, serverVars
  <1> QED
    BY <1>4, <1>5, <1>6, <1>7 DEF Handle

LEMMA HandleTrue ==
  ASSUME LInv, NEW q \in Request, Alive(q), Handle(q)
  PROVE  LInv'
  <1>1. IInv /\ TypeOK /\ MemoryFollows /\ SuccessTrue /\ ExecutesDispatched /\ FileIsKnown
    BY DEF LInv, IInv
  <1>2. /\ UNCHANGED job
        /\ \A p \in Request \ {q} : pc'[p] = pc[p] /\ note'[p] = note[p]
        /\ \A s \in Server \ {ServerOf(q)} :
             committed'[s] = committed[s] /\ memory'[s] = memory[s]
    BY <1>1, HandleFrame
  <1>3. effects \subseteq effects' /\ dispatched \subseteq dispatched'
    BY <1>1, HandleEffects
  <1>4. MemoryFollows'
    BY <1>1, <1>2, HandleCopy DEF MemoryFollows
  <1>5. SuccessTrue'
    <2>1. ASSUME NEW o \in Operation, IsSuccess(registry.entries[o])'
          PROVE  o \in effects'
      <3>1. CASE UNCHANGED registry
        BY <1>1, <1>3, <2>1, <3>1 DEF SuccessTrue, IsSuccess
      <3>2. CASE pc[q] = "rename" /\ registry' = NextRegistry(q)
        <4>1. registry'.entries = memory[ServerOf(q)] /\ ServerOf(q) \in Server
          BY <1>1, <3>2, SentType DEF NextRegistry, ServerOf
        <4> QED
          BY <1>1, <1>3, <2>1, <4>1 DEF SuccessTrue, IsSuccess
      <3> QED
        BY <1>1, <3>1, <3>2, HandleFiles
    <2>2. ASSUME NEW s \in Server, NEW o \in Operation, IsSuccess(memory[s][o])'
          PROVE  o \in effects'
      <3>1. IsSuccess(memory'[s][o])
        BY <2>2 DEF IsSuccess
      <3> QED
        BY <1>1, <1>2, <1>3, <3>1, HandleCopy DEF SuccessTrue
    <2>3. ASSUME NEW p \in Request, pc'[p] = "observe", note'[p].state = "succeeded"
          PROVE  OperationOf(p)' \in effects'
      BY <1>1, <1>2, <1>3, <2>3, HandleEffects DEF SuccessTrue, OperationOf
    <2> QED
      BY <2>1, <2>2, <2>3 DEF SuccessTrue
  <1>6. ExecutesDispatched'
    BY <1>1, <1>2, <1>3, HandleEffects DEF ExecutesDispatched
  <1> QED
    BY <1>1, <1>4, <1>5, <1>6, HandleSafe DEF LInv

LEMMA CallNote ==
  ASSUME LInv, NEW q \in Request, NEW s \in Server, NEW o \in Operation, Call(q, s, o)
  PROVE  pc'[q] = "observe" /\ note'[q].state = "succeeded" => o \in effects
  <1>1. pc \in [Request -> Steps] /\ note \in [Request -> Notes]
    BY TypeParts DEF LInv, IInv, RequestTypes
  <1>2. CASE SubmitNew(q, s, o) \/ CallEnds(q, s, o)
    BY <1>1, <1>2 DEF SubmitNew, CallEnds, Goto
  <1>3. CASE Look(q, s, o)
    <2>1. [EmptyNote EXCEPT !.state = Refreshed(s)[o].state,
                            !.after = Refreshed(s)[o].sequence].state = Refreshed(s)[o].state
      BY RecordFacts DEF EmptyNote, Notes
    <2>2. note'[q].state = Refreshed(s)[o].state /\ Refreshed(s)[o] # Absent
      BY <1>1, <1>3, <2>1 DEF Look, Note
    <2> QED
      BY <2>2, RefreshedFollows DEF IsSuccess
  <1> QED
    BY <1>2, <1>3 DEF Call

LEMMA CallTrue ==
  ASSUME LInv, NEW q \in Request, NEW s \in Server, NEW o \in Operation, Call(q, s, o)
  PROVE  LInv'
  <1>1. IInv /\ TypeOK /\ MemoryFollows /\ SuccessTrue /\ ExecutesDispatched /\ MemoryExtends
    BY DEF LInv, IInv
  <1>2. Called(q, s, o)
    BY <1>1, CallFrame
  <1>3. /\ UNCHANGED <<registry, dispatched, effects>>
        /\ \A p \in Request \ {q} : pc'[p] = pc[p] /\ note'[p] = note[p] /\ job'[p] = job[p]
        /\ \A r \in Server \ {s} : committed'[r] = committed[r] /\ memory'[r] = memory[r]
        /\ committed'[s] = registry
        /\ pc'[q] # "execute"
        /\ OperationOf(q)' = o
    BY <1>2 DEF Called, OperationOf
  <1>4. ASSUME NEW i \in Operation
        PROVE  /\ Follows(memory'[s][i], registry.entries[i])
               /\ IsSuccess(memory'[s][i]) => i \in effects
    <2>1. /\ Refreshed(s) \in Records
          /\ Follows(Refreshed(s)[i], registry.entries[i])
          /\ IsSuccess(Refreshed(s)[i]) => i \in effects
      BY RefreshedFollows
    <2>2. CASE memory'[s] = Refreshed(s)
      BY <2>1, <2>2
    <2>3. CASE /\ Refreshed(s)[o] = Absent
               /\ memory'[s] = [Refreshed(s) EXCEPT ![o] = Registered]
      <3>1. CASE i = o
        <4>1. memory'[s][i] = Registered /\ Registered # Absent
          BY <2>1, <2>3, <3>1, RecordFacts, ConstantsAssumption DEF Records
        <4>2. registry.entries[i] = Absent
          BY <1>1, <2>3, <3>1 DEF Refreshed, MemoryExtends
        <4>3. Registered.state # "succeeded"
          BY DEF Registered
        <4> QED
          BY <4>1, <4>2, <4>3 DEF Follows, IsSuccess
      <3>2. CASE i # o
        BY <2>1, <2>3, <3>2 DEF Records
      <3> QED
        BY <3>1, <3>2
    <2> QED
      BY <1>2, <2>2, <2>3 DEF Called
  <1>5. MemoryFollows'
    BY <1>1, <1>3, <1>4 DEF MemoryFollows
  <1>6. SuccessTrue'
    <2>1. ASSUME NEW i \in Operation, IsSuccess(registry.entries[i])'
          PROVE  i \in effects'
      BY <1>1, <1>3, <2>1 DEF SuccessTrue, IsSuccess
    <2>2. ASSUME NEW r \in Server, NEW i \in Operation, IsSuccess(memory[r][i])'
          PROVE  i \in effects'
      <3>1. IsSuccess(memory'[r][i])
        BY <2>2 DEF IsSuccess
      <3> QED
        BY <1>1, <1>3, <1>4, <3>1 DEF SuccessTrue
    <2>3. ASSUME NEW p \in Request, pc'[p] = "observe", note'[p].state = "succeeded"
          PROVE  OperationOf(p)' \in effects'
      <3>1. CASE p = q
        BY <1>3, <2>3, <3>1, CallNote
      <3>2. CASE p # q
        BY <1>1, <1>3, <2>3, <3>2 DEF SuccessTrue, OperationOf
      <3> QED
        BY <3>1, <3>2
    <2> QED
      BY <2>1, <2>2, <2>3 DEF SuccessTrue
  <1>7. ExecutesDispatched'
    BY <1>1, <1>3 DEF ExecutesDispatched
  <1> QED
    BY <1>1, <1>5, <1>6, <1>7, CallSafe DEF LInv

LEMMA OpenTrue ==
  ASSUME LInv, NEW s \in Server, Open(s)
  PROVE  LInv'
  <1>1. IInv /\ TypeOK /\ MemoryFollows /\ SuccessTrue /\ ExecutesDispatched
    BY DEF LInv, IInv
  <1>2. /\ UNCHANGED <<registry, pc, job, note, dispatched, effects>>
        /\ committed' = [committed EXCEPT ![s] = registry]
        /\ memory' = [memory EXCEPT ![s] = registry.entries]
    BY DEF Open, files, history
  <1>3. /\ committed'[s] = registry /\ memory'[s] = registry.entries
        /\ \A r \in Server \ {s} : committed'[r] = committed[r] /\ memory'[r] = memory[r]
    BY <1>1, <1>2 DEF TypeOK
  <1>4. MemoryFollows'
    BY <1>1, <1>3 DEF MemoryFollows, Follows
  <1>5. SuccessTrue'
    BY <1>1, <1>2, <1>3 DEF SuccessTrue, IsSuccess, OperationOf
  <1>6. ExecutesDispatched'
    BY <1>1, <1>2 DEF ExecutesDispatched
  <1> QED
    BY <1>1, <1>4, <1>5, <1>6, OpenSafe DEF LInv

\* The end of a process, recovery, and a step of nobody leave the history alone.
LEMMA ElseTrue ==
  ASSUME LInv, \/ \E s \in Server : Crash(s)
               \/ \E k \in Recoverer : Recover(k)
               \/ UNCHANGED vars
  PROVE  /\ LInv'
         /\ UNCHANGED <<registry, job, dispatched, effects>>
  <1>1. UNCHANGED <<registry, committed, memory, pc, job, note, dispatched, effects>>
    <2>1. CASE \E s \in Server : Crash(s)
      BY <2>1 DEF Crash, files, history
    <2>2. ASSUME NEW k \in Recoverer, Recover(k)
          PROVE  UNCHANGED service
      BY <2>2
      DEF Recover, ReadOwner, Inspect, InspectEvidence, ClaimRecovery, Recheck, Authorize,
          FinalCheck, RemoveOwner, PublishResult, AbandonClaim, RecovererCrash
    <2>3. CASE \E k \in Recoverer : Recover(k)
      BY <2>2, <2>3 DEF service, serverVars, history
    <2>4. CASE UNCHANGED vars
      BY <2>4 DEF vars, serverVars
    <2> QED
      BY <2>1, <2>3, <2>4
  <1>2. IInv'
    BY NextSafe DEF LInv, Next
  <1>3. MemoryFollows' /\ SuccessTrue' /\ ExecutesDispatched'
    BY <1>1 DEF LInv, MemoryFollows, SuccessTrue, ExecutesDispatched, IsSuccess, OperationOf
  <1> QED
    BY <1>1, <1>2, <1>3 DEF LInv

LEMMA InitTrue == Init => LInv
  BY InitSafe
  DEF Init, LInv, MemoryFollows, SuccessTrue, ExecutesDispatched, EmptyRegistry, Follows,
      IsSuccess

LEMMA NextTrue == LInv /\ [Next]_vars => LInv'
  BY HandleTrue, CallTrue, OpenTrue, ElseTrue DEF Next

----------------------------------------------------------------------------
(***************************************************************************)
(* The steps.                                                              *)
(***************************************************************************)
given == {OperationOf(q) : q \in dispatched}

\* The rename is a write of the ledger.
LEMMA RenameWrites ==
  ASSUME LInv, NEW q \in Request, Alive(q), Handle(q), ~UNCHANGED registry
  PROVE  Ledger!Write
  <1>1. IInv /\ TypeOK /\ FileIsKnown /\ MemoryFollows /\ SuccessTrue
    BY DEF LInv, IInv
  <1>2. pc[q] = "rename" /\ registry' = NextRegistry(q)
    BY <1>1, HandleFiles
  <1>3. ServerOf(q) \in Server /\ memory[ServerOf(q)] \in Records
    BY <1>1, SentType DEF TypeOK
  <1>4. registry'.entries = memory[ServerOf(q)]
    BY <1>2 DEF NextRegistry, ServerOf
  <1>5. registry = committed[ServerOf(q)]
    BY <1>1, <1>2 DEF FileIsKnown
  <1>6. UNCHANGED <<job, dispatched, effects>>
    BY <1>1, <1>2, HandleFrame, HandleFiles, HandleEffects
  <1>7. UNCHANGED given
    BY <1>6 DEF given, OperationOf
  <1>8. \A o \in Operation : Follows(registry'.entries[o], registry.entries[o])
    BY <1>1, <1>3, <1>4, <1>5 DEF MemoryFollows
  <1>9. \A o \in Operation : IsSuccess(registry'.entries[o]) => o \in effects
    BY <1>1, <1>3, <1>4 DEF SuccessTrue
  <1> QED
    BY <1>3, <1>4, <1>6, <1>7, <1>8, <1>9
    DEF Ledger!Write, Ledger!Follows, Ledger!Rank, Ledger!Settled, Ledger!MaybeRecord,
        Ledger!Record, Ledger!States, Follows, Rank, Settled, MaybeRecord, Record, States,
        Records, IsSuccess, given

\* The end of a claim that was written and released is a dispatch.
LEMMA ReleaseDispatches ==
  ASSUME LInv, NEW q \in Request, Alive(q), Handle(q), ~UNCHANGED dispatched
  PROVE  Ledger!Dispatch(OperationOf(q)) /\ OperationOf(q) \in Operation
  <1>1. IInv /\ TypeOK /\ ClaimIsNew
    BY DEF LInv, IInv
  <1>2. /\ dispatched' = dispatched \union {q}
        /\ pc[q] = "release" /\ Claims(q) /\ note[q].outcome = "ok"
    BY <1>1, HandleFiles DEF Claims
  <1>3. /\ registry.entries[OperationOf(q)] # Absent
        /\ \A p \in dispatched : OperationOf(p) # OperationOf(q)
    BY <1>1, <1>2 DEF ClaimIsNew
  <1>4. UNCHANGED <<job, registry, effects>>
    BY <1>1, <1>2, HandleFrame, HandleFiles, HandleEffects
  <1>5. given' = given \union {OperationOf(q)}
    BY <1>2, <1>4 DEF given, OperationOf
  <1>6. OperationOf(q) \in Operation
    BY <1>1, SentType
  <1> QED
    BY <1>3, <1>4, <1>5, <1>6 DEF Ledger!Dispatch, given

LEMMA ExecuteTakesEffect ==
  ASSUME LInv, NEW q \in Request, Alive(q), Handle(q), ~UNCHANGED effects
  PROVE  Ledger!Effect(OperationOf(q)) /\ OperationOf(q) \in Operation
  <1>1. IInv /\ TypeOK /\ ExecutesDispatched
    BY DEF LInv, IInv
  <1>2. effects' = effects \union {OperationOf(q)} /\ pc[q] = "execute"
    BY <1>1, HandleEffects
  <1>3. UNCHANGED <<job, registry, dispatched>>
    BY <1>1, <1>2, HandleFrame, HandleFiles
  <1>4. UNCHANGED given /\ OperationOf(q) \in given
    BY <1>1, <1>2, <1>3 DEF given, OperationOf, ExecutesDispatched
  <1>5. OperationOf(q) \in Operation
    BY <1>1, SentType
  <1> QED
    BY <1>2, <1>3, <1>4, <1>5 DEF Ledger!Effect, given

LEMMA StepImplements == LInv /\ [Next]_vars => [Ledger!LNext]_(Ledger!lvars)
  <1> SUFFICES ASSUME LInv, [Next]_vars
               PROVE  [Ledger!LNext]_(Ledger!lvars)
    OBVIOUS
  <1>1. IInv /\ TypeOK /\ DispatchedIsRecorded
    BY DEF LInv, IInv
  <1>2. ASSUME UNCHANGED <<registry, effects, given>>
        PROVE  UNCHANGED Ledger!lvars
    BY <1>2 DEF Ledger!lvars, given
  <1>3. ASSUME NEW q \in Request, Alive(q), Handle(q)
        PROVE  [Ledger!LNext]_(Ledger!lvars)
    <2>1. CASE UNCHANGED <<registry, dispatched, effects>>
      <3>1. UNCHANGED job
        BY <1>1, <1>3, HandleFrame
      <3>2. UNCHANGED given
        BY <2>1, <3>1 DEF given, OperationOf
      <3> QED
        BY <1>2, <2>1, <3>2
    <2> QED
      BY <1>3, <2>1, RenameWrites, ReleaseDispatches, ExecuteTakesEffect DEF Ledger!LNext
  <1>4. ASSUME NEW q \in Request, NEW s \in Server, NEW o \in Operation, Call(q, s, o)
        PROVE  UNCHANGED Ledger!lvars
    <2>1. Called(q, s, o)
      BY <1>1, <1>4, CallFrame
    <2>2. UNCHANGED <<registry, dispatched, effects>>
      BY <2>1 DEF Called
    <2>3. \A p \in dispatched : job'[p] = job[p]
      BY <1>1, <2>1 DEF Called, DispatchedIsRecorded, TypeOK
    <2>4. UNCHANGED given
      BY <2>2, <2>3 DEF given, OperationOf
    <2> QED
      BY <1>2, <2>2, <2>4
  <1>5. ASSUME NEW s \in Server, Open(s)
        PROVE  UNCHANGED Ledger!lvars
    <2>1. UNCHANGED <<registry, job, dispatched, effects>>
      BY <1>5 DEF Open, files, history
    <2> QED
      BY <1>2, <2>1 DEF given, OperationOf
  <1>6. CASE \/ \E s \in Server : Crash(s)
             \/ \E k \in Recoverer : Recover(k)
             \/ UNCHANGED vars
    <2>1. UNCHANGED <<registry, job, dispatched, effects>>
      BY <1>6, ElseTrue
    <2> QED
      BY <1>2, <2>1 DEF given, OperationOf
  <1> QED
    BY <1>3, <1>4, <1>5, <1>6 DEF Next

\* The registry file, read by anyone at any time, is a ledger of submissions: recorded
\* before dispatched, dispatched once, never back, and succeeded only with an effect.
THEOREM Implements == Spec => ImplementsLedger
  <1>1. Init => Ledger!LInit
    BY DEF Init, Ledger!LInit, EmptyRegistry
  <1>2. Spec => []LInv
    BY InitTrue, NextTrue, PTL DEF Spec
  <1> QED
    BY <1>1, <1>2, StepImplements, PTL DEF Spec, ImplementsLedger, Ledger!LSpec
=============================================================================
