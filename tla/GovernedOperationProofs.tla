----------------------- MODULE GovernedOperationProofs -----------------------
(***************************************************************************)
(* Proofs about GovernedOperation, for every clock resolution and drift,   *)
(* every validity and every bound of the model.                            *)
(***************************************************************************)
EXTENDS GovernedOperationInvariant, FiniteSetTheorems, TLAPS

----------------------------------------------------------------------------
(***************************************************************************)
(* The clock.                                                              *)
(***************************************************************************)

\* Whole milliseconds of a monotonic time: what \div computes.
LEMMA WholeMilliseconds ==
  ASSUME NEW x \in Int
  PROVE  /\ x \div Resolution \in Int
         /\ Resolution * (x \div Resolution) <= x
         /\ x < Resolution * (x \div Resolution) + Resolution
  BY ClockAssumption

\* A quotient is the only whole number between its bounds.
LEMMA MillisecondsBelow ==
  ASSUME NEW x \in Int, NEW w \in Int, Resolution * w <= x
  PROVE  w <= x \div Resolution
  <1> DEFINE q == x \div Resolution
  <1>1. q \in Int /\ x < Resolution * q + Resolution
    BY WholeMilliseconds
  <1>2. Resolution \in Int /\ Resolution > 0
    BY ClockAssumption
  <1> HIDE DEF q
  <1>3. Resolution * w < Resolution * (q + 1)
    BY <1>1, <1>2
  <1>4. ~(w >= q + 1)
    <2>1. SUFFICES ASSUME w >= q + 1 PROVE FALSE
      OBVIOUS
    <2>2. Resolution * (w - (q + 1)) >= 0
      BY <1>1, <1>2, <2>1
    <2>3. Resolution * (w - (q + 1)) = Resolution * w - Resolution * (q + 1)
      BY <1>1, <1>2
    <2> QED
      BY <1>1, <1>2, <1>3, <2>2, <2>3
  <1> QED
    BY <1>1, <1>4 DEF q

\* A comparison that is accepted lets the wall clock follow by one rounding more.
LEMMA ComparisonFollows ==
  ASSUME NEW first \in ClockReadings, NEW last \in ClockReadings,
         NEW reading \in ClockReadings, NEW n \in Nat,
         WallFollows(first, last, n), Progresses(last, reading)
  PROVE  WallFollows(first, reading, n + 1)
  <1> DEFINE elapsed == reading.mono - last.mono
             advance == reading.wall - last.wall
             q == elapsed \div Resolution
  <1>1. Resolution \in Int /\ Resolution > 0
    BY ClockAssumption
  <1>2. /\ first.wall \in Int /\ last.wall \in Int /\ reading.wall \in Int
        /\ first.mono \in Int /\ last.mono \in Int /\ reading.mono \in Int
        /\ last # NoReading
    BY DEF ClockReadings, NoReading
  <1>3. Classification(last, reading) = "NORMAL_FORWARD"
    BY <1>2 DEF Progresses
  <1>4. q \in Int /\ elapsed < Resolution * q + Resolution
    BY <1>2, WholeMilliseconds
  <1>5. advance - q >= 0
    <2> HIDE DEF q
    <2>1. elapsed > 0
      BY <1>2, <1>3 DEF Classification
    <2> QED
      BY <1>2, <1>3, <1>4, <2>1 DEF Classification, q
  <1> HIDE DEF q
  <1>6. Resolution * (advance - q) >= 0
    BY <1>1, <1>2, <1>4, <1>5
  <1>7. /\ Resolution * (advance - q) = Resolution * advance - Resolution * q
        /\ Resolution * (reading.wall - first.wall)
             = Resolution * advance + Resolution * (last.wall - first.wall)
        /\ (n + 1) * (Resolution - 1) = n * (Resolution - 1) + Resolution - 1
    BY <1>1, <1>2, <1>4
  <1>8. /\ Resolution * advance \in Int /\ Resolution * q \in Int
        /\ Resolution * (last.wall - first.wall) \in Int
        /\ n * (Resolution - 1) \in Int
    BY <1>1, <1>2, <1>4
  <1> QED
    BY <1>1, <1>2, <1>4, <1>6, <1>7, <1>8 DEF WallFollows

\* What the roundings of an orchestration add up to, in milliseconds.
LEMMA FollowedTime ==
  ASSUME NEW first \in ClockReadings, NEW last \in ClockReadings, NEW expiresAt \in Int,
         WallFollows(first, last, 4), last.wall < expiresAt
  PROVE  first.wall + (last.mono - first.mono) \div Resolution < expiresAt + RoundedAway
  <1> DEFINE elapsed == last.mono - first.mono
             advance == last.wall - first.wall
             q == elapsed \div Resolution
  <1>1. Resolution \in Int /\ Resolution > 0
    BY ClockAssumption
  <1>2. /\ first.wall \in Int /\ last.wall \in Int
        /\ first.mono \in Int /\ last.mono \in Int
    BY DEF ClockReadings
  <1>3. q \in Int /\ Resolution * q <= elapsed
    BY <1>2, WholeMilliseconds
  <1> HIDE DEF q
  <1>4. Resolution * (q - advance) <= 4 * (Resolution - 1)
    <2>1. Resolution * (q - advance) = Resolution * q - Resolution * advance
      BY <1>1, <1>2, <1>3
    <2>2. Resolution * q \in Int /\ Resolution * advance \in Int
      BY <1>1, <1>2, <1>3
    <2> QED
      BY <1>1, <1>2, <1>3, <2>1, <2>2 DEF WallFollows
  <1>5. q - advance <= RoundedAway /\ RoundedAway \in Int
    <2>1. 4 * (Resolution - 1) \in Int /\ q - advance \in Int
      BY <1>1, <1>2, <1>3
    <2> QED
      BY <1>4, <2>1, MillisecondsBelow, WholeMilliseconds DEF RoundedAway
  <1> QED
    BY <1>2, <1>3, <1>5 DEF q

\* What the clock may be when it is next read is a clock, and a reading of it is a reading.
LEMMA ObservedReading ==
  ASSUME clock \in ClockStates, NEW reading, Observes(reading)
  PROVE  /\ clock' \in ClockStates
         /\ reading # NoReading => reading \in ClockReadings /\ reading.wall \in Int
  <1>1. CASE reading = NoReading /\ UNCHANGED clock
    BY <1>1
  <1>2. ASSUME NEW c \in Instants, reading = ReadingAt(c), clock' = c
        PROVE  reading \in ClockReadings /\ clock' \in ClockStates
    <2>1. PICK d \in {n \in 0..MaxAdvance : clock.mono + n <= MaxTime},
               a \in {b \in Adjustments \union {0} : b = 0 \/ clock.adjusted < MaxAdjustments} :
            c = [mono |-> clock.mono + d, offset |-> clock.offset + a,
                 adjusted |-> clock.adjusted + (IF a = 0 THEN 0 ELSE 1)]
      BY DEF Instants
    <2>2. /\ clock.mono \in Nat /\ clock.offset \in Int /\ clock.adjusted \in Nat
          /\ clock.adjusted <= MaxAdjustments
      BY OperationAssumption DEF ClockStates
    <2>3. d \in Nat /\ a \in Int
      BY OperationAssumption
    <2>4. c.mono \in 0..MaxTime /\ c.offset \in Int /\ c.adjusted \in 0..MaxAdjustments
      BY <2>1, <2>2, <2>3, OperationAssumption
    <2>5. c \in ClockStates
      BY <2>1, <2>4 DEF ClockStates
    <2>6. c.mono \div Resolution \in Int
      BY <2>4, WholeMilliseconds
    <2>7. ReadingAt(c) \in ClockReadings
      BY <2>4, <2>6 DEF ReadingAt, ClockReadings
    <2> QED
      BY <1>2, <2>5, <2>7
  <1> QED
    BY <1>1, <1>2 DEF Observes, ClockReadings

----------------------------------------------------------------------------
(***************************************************************************)
(* The documents.                                                          *)
(***************************************************************************)

LEMMA ChallengeTyped ==
  ASSUME NEW challenge \in Challenges
  PROVE  /\ challenge.operation \in Operations
         /\ challenge.issuedAt \in Int /\ challenge.expiresAt \in Int
         /\ Assertion(challenge) \in AssertionsOf(Operations)
         /\ Assertion(challenge).issuedAt = challenge.issuedAt
         /\ Assertion(challenge).expiresAt = challenge.expiresAt
         /\ Assertion(challenge).verifiedAt = challenge.issuedAt
  BY DEF Challenges, Assertion, AssertionsOf

LEMMA ParentTyped ==
  ASSUME NEW parent \in ParentDocuments
  PROVE  parent.issuedAt \in Int /\ parent.expiresAt \in Int
  BY DEF ParentDocuments

LEMMA ApprovalTyped ==
  ASSUME NEW approval \in Approvals
  PROVE  /\ approval.operation \in Operations
         /\ approval.issuedAt \in Int /\ approval.expiresAt \in Int
         /\ approval.identity.issuedAt \in Int /\ approval.identity.expiresAt \in Int
         /\ approval.identity \in AssertionsOf(Operations)
  BY DEF Approvals, AssertionsOf

LEMMA GrantTyped ==
  ASSUME NEW grant \in Grants
  PROVE  /\ grant.approval \in Approvals
         /\ grant.issuedAt \in Int /\ grant.expiresAt \in Int
         /\ grant.parent # None =>
              grant.parent \in ParentDocuments
              /\ grant.parent.issuedAt \in Int /\ grant.parent.expiresAt \in Int
  BY ParentTyped DEF Grants

LEMMA RequestTyped ==
  ASSUME NEW request \in Requests
  PROVE  /\ request.challenge \in Challenges /\ request.grant \in Grants
         /\ Operation(request) \in Operations
         /\ Operation(request).before \in Content
         /\ Operation(request).replacement \in Replacements
         /\ request.challenge.key \in Nat
  <1>1. request.challenge \in Challenges /\ request.grant \in Grants
    BY DEF Requests
  <1>2. Operation(request) \in Operations
    BY <1>1, GrantTyped, ApprovalTyped DEF Operation
  <1> QED
    BY <1>1, <1>2 DEF Operations, Challenges

\* The record and the lifecycle a request is prepared with.
LEMMA PreparedTyped ==
  ASSUME held \subseteq Requests
  PROVE  Prepared \subseteq Parts /\ \A p \in Prepared : p.record.evidence = None
  <1>1. ASSUME NEW r \in held
        PROVE  /\ NewRecord(r) \in Records /\ NewLifecycle(r) \in Lifecycles
               /\ NewRecord(r).evidence = None
    <2>1. /\ Operation(r) \in Operations /\ r.grant.approval \in Approvals
          /\ r.grant.parent \in ParentDocuments \union {None}
          /\ r.grant.approval.issuedAt \in Int
      BY RequestTyped, GrantTyped, ApprovalTyped
    <2> QED
      BY <2>1 DEF NewRecord, NewLifecycle, Records, Lifecycles
  <1> QED
    BY <1>1 DEF Prepared, Parts

\* What an orchestration answers: nothing, or a record with its lifecycle.
Answered(answers) ==
  /\ answers \subseteq Parts
  /\ \A p, q \in answers : p = q
  /\ governed' = governed \union answers

\* An answer keeps what it was submitted with.
LEMMA AnswerTyped ==
  ASSUME NEW evidence \in Evidences, NEW timestamp \in Int, NEW reported \in Reported,
         NEW status \in {"COMPLETED", "FAILED"}, run \in Runs, governed \subseteq Parts,
         Answer(status, evidence, reported, timestamp)
  PROVE  \E answers :
           /\ Answered(answers)
           /\ \A p \in answers :
                /\ p.record.evidence = evidence
                /\ p.record.finalization = status
                /\ p.record.transaction = reported
                /\ p.lifecycle.createdAt = run.lifecycle.createdAt
                /\ p.lifecycle.terminalAt = timestamp
  <1> DEFINE record == [run.record EXCEPT !.evidence = evidence, !.finalization = status,
                                          !.transaction = reported]
             lifecycle == [run.lifecycle EXCEPT !.status = status, !.terminalAt = timestamp]
             p == [record |-> record, lifecycle |-> lifecycle]
  <1>1. run.record \in Records /\ run.lifecycle \in Lifecycles
    BY DEF Runs
  <1>2. /\ record \in Records /\ record.evidence = evidence /\ record.finalization = status
        /\ record.transaction = reported
    BY <1>1 DEF Records
  <1>3. /\ lifecycle \in Lifecycles
        /\ lifecycle.createdAt = run.lifecycle.createdAt
        /\ lifecycle.terminalAt = timestamp
    BY <1>1 DEF Lifecycles
  <1> HIDE DEF record, lifecycle
  <1>4. p \in Parts
    BY <1>2, <1>3 DEF Parts
  <1>5. governed' = governed \/ governed' = governed \union {p}
    BY DEF Answer, record, lifecycle
  <1>6. CASE governed' = governed
    <2>1. Answered({})
      BY <1>6 DEF Answered
    <2> QED
      BY <2>1
  <1>7. CASE governed' = governed \union {p}
    <2>1. Answered({p})
      BY <1>4, <1>7 DEF Answered
    <2> QED
      BY <1>2, <1>3, <2>1
  <1> QED
    BY <1>5, <1>6, <1>7

----------------------------------------------------------------------------
(***************************************************************************)
(* The initial states.                                                     *)
(***************************************************************************)

LEMMA InitialInvariant ==
  Init => IInv
  <1> SUFFICES ASSUME Init PROVE IInv
    OBVIOUS
  <1> USE DEF Init
  <1>1. TypeOK
    <2>1. Cardinality(held) = 0
      BY FS_EmptySet
    <2> QED
      BY <2>1, OperationAssumption DEF TypeOK, Content
  <1>2. DocumentsTyped
    <2>1. clock \in ClockStates /\ root \in [files : {"ABSENT", "INCOMPLETE", "COMPLETE"}, key : 0..MaxKeys]
      BY OperationAssumption DEF ClockStates
    <2>2. IsFiniteSet(held)
      BY FS_EmptySet
    <2>3. journal \in [DOMAIN journal -> JournalEntries]
      OBVIOUS
    <2> QED
      BY <2>1, <2>2, <2>3 DEF DocumentsTyped
  <1>3. DraftNests /\ NestedAuthority /\ TimeObserved /\ RunAgrees
    BY DEF DraftNests, NestedAuthority, TimeObserved, RunAgrees, InTransaction
  <1>4. /\ JournalCounts /\ CompletedSucceeded /\ EvidenceIsLast /\ EvidenceFinalizes
        /\ AnswersAgreeWithWorld
    BY DEF JournalCounts, CompletedSucceeded, EvidenceIsLast, EvidenceFinalizes,
           AnswersAgreeWithWorld
  <1> QED
    BY <1>1, <1>2, <1>3, <1>4 DEF IInv

----------------------------------------------------------------------------
(***************************************************************************)
(* Preparing a request.                                                    *)
(***************************************************************************)

\* What the answers, the transactions and the orchestration rest on is left alone: the
\* invariant asks for the documents of the preparation only.
LEMMA CallerStep ==
  ASSUME IInv, clock' \in ClockStates,
         root' \in [files : {"ABSENT", "INCOMPLETE", "COMPLETE"}, key : 0..MaxKeys],
         worktree' \in Content \union {Uncommitted}, parents' \subseteq ParentDocuments,
         draft' \in Drafts \union {None}, DraftNests', run = None \/ draft' = None,
         UNCHANGED <<held, governed, completed, journal, lock, run, current>>
  PROVE  IInv'
  <1>1. TypeOK'
    BY DEF IInv, TypeOK, ClockStates
  <1>2. DocumentsTyped'
    BY DEF IInv, DocumentsTyped
  <1>3. NestedAuthority' /\ TimeObserved' /\ RunAgrees'
    BY DEF IInv, NestedAuthority, TimeObserved, RunAgrees, InTransaction
  <1>4. JournalCounts' /\ CompletedSucceeded' /\ EvidenceIsLast' /\ EvidenceFinalizes'
    BY DEF IInv, JournalCounts, CompletedSucceeded, EvidenceIsLast, EvidenceFinalizes,
           InTransaction
  <1>5. AnswersAgreeWithWorld'
    BY DEF IInv, AnswersAgreeWithWorld, Applied, Stage
  <1> QED
    BY <1>1, <1>2, <1>3, <1>4, <1>5 DEF IInv

\* A step that leaves the preparation alone keeps what it holds nesting.
LEMMA DraftUntouched ==
  ASSUME IInv, UNCHANGED <<draft, held>>
  PROVE  DraftNests' /\ draft' \in Drafts \union {None}
  BY DEF IInv, DocumentsTyped, DraftNests

LEMMA ProvisionKeeps ==
  ASSUME IInv, Provision \/ RemoveRoot \/ Develop
  PROVE  IInv'
  <1>1. /\ root \in [files : {"ABSENT", "INCOMPLETE", "COMPLETE"}, key : 0..MaxKeys]
        /\ worktree \in Content \union {Uncommitted} /\ clock \in ClockStates
        /\ parents \subseteq ParentDocuments
    BY DEF IInv, DocumentsTyped, TypeOK
  <1>2. UNCHANGED <<clock, parents, current, draft, held, governed, completed, journal, lock, run>>
    BY DEF Provision, RemoveRoot, Develop
  <1>3. root' \in [files : {"ABSENT", "INCOMPLETE", "COMPLETE"}, key : 0..MaxKeys]
    <2>1. CASE Provision
      BY <1>1, <2>1, OperationAssumption DEF Provision
    <2>2. CASE RemoveRoot
      BY <1>1, <2>2 DEF RemoveRoot
    <2>3. CASE Develop
      BY <1>1, <2>3 DEF Develop
    <2> QED
      BY <2>1, <2>2, <2>3
  <1>4. worktree' \in Content \union {Uncommitted}
    BY <1>1 DEF Provision, RemoveRoot, Develop
  <1>5. run = None \/ draft' = None
    BY <1>2 DEF Provision, RemoveRoot, Develop, Idle
  <1> QED
    BY <1>1, <1>2, <1>3, <1>4, <1>5, CallerStep, DraftUntouched

LEMMA AuthorizeKeeps ==
  ASSUME IInv, Authorize
  PROVE  IInv'
  <1>1. PICK reading \in Readings \ {NoReading} :
          LET expiresAt == reading.wall + LocalValidity
              challenge == SignChallenge("development", reading.wall, expiresAt, root.key)
          IN  /\ Observes(reading)
              /\ parents' = {ParentAuthorization(Assertion(challenge), expiresAt)}
    BY DEF Authorize
  <1> DEFINE expiresAt == reading.wall + LocalValidity
             challenge == SignChallenge("development", reading.wall, expiresAt, root.key)
             parent == ParentAuthorization(Assertion(challenge), expiresAt)
  <1>2. clock \in ClockStates
    BY DEF IInv, DocumentsTyped
  <1>3. reading.wall \in Int /\ clock' \in ClockStates
    BY <1>1, <1>2, ObservedReading
  <1>4. expiresAt \in Int
    BY <1>3, ValidityAssumption
  <1>5. parent \in ParentDocuments
    BY <1>3, <1>4
    DEF ParentDocuments, AssertionsOf, ParentAuthorization, Assertion, SignChallenge
  <1>6. UNCHANGED <<root, worktree, current, draft, held, governed, completed, journal, lock, run>>
    BY DEF Authorize
  <1>7. run = None
    BY DEF Authorize, Idle
  <1>8. /\ root \in [files : {"ABSENT", "INCOMPLETE", "COMPLETE"}, key : 0..MaxKeys]
        /\ worktree \in Content \union {Uncommitted}
    BY DEF IInv, DocumentsTyped, TypeOK
  <1> QED
    BY <1>1, <1>3, <1>5, <1>6, <1>7, <1>8, CallerStep, DraftUntouched

\* A document is accepted and the preparation goes on, or it ends.
LEMMA DraftStepKeeps ==
  ASSUME IInv, NEW reading, NEW accepted \in BOOLEAN, NEW next, run = None,
         DraftStep(reading, accepted, next),
         accepted => next \in Drafts /\ (draft' = next => DraftNests')
  PROVE  IInv'
  <1>1. /\ root \in [files : {"ABSENT", "INCOMPLETE", "COMPLETE"}, key : 0..MaxKeys]
        /\ worktree \in Content \union {Uncommitted} /\ clock \in ClockStates
        /\ parents \subseteq ParentDocuments
    BY DEF IInv, DocumentsTyped, TypeOK
  <1>2. clock' \in ClockStates
    BY <1>1, ObservedReading DEF DraftStep
  <1>3. UNCHANGED <<root, worktree, parents, current, held, governed, completed, journal, lock, run>>
    BY DEF DraftStep, callerVars, answerVars, targetVars
  <1>4. draft' = IF accepted THEN next ELSE None
    BY DEF DraftStep
  <1>5. draft' \in Drafts \union {None} /\ DraftNests'
    BY <1>4 DEF DraftNests
  <1> QED
    BY <1>1, <1>2, <1>3, <1>5, CallerStep

LEMMA IssueKeeps ==
  ASSUME IInv, Idle, NEW reading \in Readings, NEW replacement \in Replacements,
         NEW parent \in parents \union {None}, IssueChallenge(replacement, parent, reading)
  PROVE  IInv'
  <1> DEFINE operation == [before |-> current, replacement |-> replacement,
                           issuedAt |-> reading.wall]
             expiresAt == RequestExpiry(reading.wall, parent)
             challenge == SignChallenge(operation, reading.wall, expiresAt, root.key)
             accepted == reading # NoReading /\ reading.wall < expiresAt
             next == [challenge |-> challenge, parent |-> parent, at |-> "ISSUED",
                      approval |-> None]
  <1>1. /\ run = None /\ Cardinality(held) < MaxRequests
        /\ DraftStep(reading, accepted, next)
    BY DEF IssueChallenge, Idle
  <1>2. /\ clock \in ClockStates /\ current \in Content /\ root.key \in Nat
        /\ parent \in ParentDocuments \union {None}
    BY OperationAssumption DEF IInv, DocumentsTyped, TypeOK
  <1>3. UNCHANGED held /\ (reading # NoReading => reading.wall \in Int)
    BY <1>1, <1>2, ObservedReading DEF DraftStep, callerVars
  <1>4. ASSUME accepted
        PROVE  next \in Drafts
    <2>1. reading.wall \in Int
      BY <1>3, <1>4
    <2>2. expiresAt \in Int
      BY <1>2, <2>1, ParentTyped, ValidityAssumption DEF RequestExpiry
    <2>3. operation \in Operations
      BY <1>2, <2>1 DEF Operations
    <2> HIDE DEF operation, expiresAt
    <2>4. challenge \in Challenges
      BY <1>2, <2>1, <2>2, <2>3 DEF Challenges, SignChallenge
    <2> QED
      BY <1>2, <2>4 DEF Drafts, IssuedDrafts
  <1>5. ASSUME accepted, draft' = next
        PROVE  DraftNests'
    <2>1. /\ draft'.at = "ISSUED" /\ draft'.challenge = challenge /\ draft'.parent = parent
      BY <1>5
    <2> HIDE DEF next, accepted, challenge
    <2> QED
      BY <1>1, <1>3, <1>4, <1>5, <2>1 DEF DraftNests
  <1>6. accepted \in BOOLEAN
    OBVIOUS
  <1> HIDE DEF next, accepted
  <1> QED
    BY <1>1, <1>4, <1>5, <1>6, DraftStepKeeps

\* What a draft is, by where its preparation has got to.
LEMMA DraftShape ==
  ASSUME IInv, draft # None
  PROVE  /\ draft.challenge \in Challenges
         /\ draft.at \in {"ISSUED", "VERIFIED"} => draft \in IssuedDrafts
         /\ draft.at = "APPROVED" => draft \in ApprovedDrafts
         /\ draft.at \in {"GRANTED", "RECORDED"} => draft \in GrantedDrafts
         /\ draft.at \in {"ISSUED", "VERIFIED", "APPROVED"} =>
              draft.parent \in ParentDocuments \union {None}
         /\ Cardinality(held) < MaxRequests
         /\ run = None
  <1>1. draft \in Drafts
    BY DEF IInv, DocumentsTyped
  <1>2. draft \in IssuedDrafts => draft.at \in {"ISSUED", "VERIFIED"}
    BY DEF IssuedDrafts
  <1>3. draft \in ApprovedDrafts => draft.at = "APPROVED"
    BY DEF ApprovedDrafts
  <1>4. draft \in GrantedDrafts => draft.at \in {"GRANTED", "RECORDED"}
    BY DEF GrantedDrafts
  <1>5. draft.challenge \in Challenges
    BY <1>1 DEF Drafts, IssuedDrafts, ApprovedDrafts, GrantedDrafts
  <1>6. draft.at \in {"ISSUED", "VERIFIED", "APPROVED"} => draft.parent \in ParentDocuments \union {None}
    BY <1>1, <1>4 DEF Drafts, IssuedDrafts, ApprovedDrafts
  <1> QED
    BY <1>1, <1>2, <1>3, <1>4, <1>5, <1>6 DEF Drafts, IInv, DraftNests, TypeOK

LEMMA VerifyKeeps ==
  ASSUME IInv, draft # None, NEW reading \in Readings, VerifyIdentity(reading)
  PROVE  IInv'
  <1> DEFINE accepted == IdentityVerified(draft.challenge, draft.challenge.operation, root.key,
                                          reading)
             next == [draft EXCEPT !.at = "VERIFIED"]
  <1>1. /\ draft # None /\ draft.at = "ISSUED" /\ run = None
        /\ DraftStep(reading, accepted, next)
    BY DEF VerifyIdentity, IInv, TypeOK
  <1>2. draft \in IssuedDrafts
    BY <1>1, DraftShape
  <1>3. /\ next \in IssuedDrafts /\ next.at = "VERIFIED"
        /\ next.challenge = draft.challenge /\ next.parent = draft.parent
    BY <1>2 DEF IssuedDrafts
  <1>4. accepted \in BOOLEAN
    BY DEF IdentityVerified
  <1>5. UNCHANGED held
    BY <1>1 DEF DraftStep, callerVars
  <1> HIDE DEF accepted, next
  <1>6. ASSUME draft' = next PROVE DraftNests'
    BY <1>1, <1>3, <1>5, <1>6, DraftShape DEF DraftNests
  <1> QED
    BY <1>1, <1>3, <1>4, <1>6, DraftStepKeeps DEF Drafts

LEMMA ApproveKeeps ==
  ASSUME IInv, draft # None, NEW reading \in Readings, ApprovePatch(reading)
  PROVE  IInv'
  <1> DEFINE approval == Approval(draft.challenge.operation, Assertion(draft.challenge),
                                  reading.wall, draft.challenge.expiresAt)
             accepted == /\ reading # NoReading
                         /\ ApprovalCurrent(approval, approval.operation, reading)
             next == [draft EXCEPT !.at = "APPROVED", !.approval = approval]
  <1>1. /\ draft # None /\ draft.at = "VERIFIED" /\ run = None
        /\ DraftStep(reading, accepted, next)
    BY DEF ApprovePatch, IInv, TypeOK
  <1>2. /\ draft \in IssuedDrafts /\ draft.challenge \in Challenges
        /\ Cardinality(held) < MaxRequests
    BY <1>1, DraftShape
  <1>3. UNCHANGED held /\ (reading # NoReading => reading.wall \in Int)
    BY <1>1, ObservedReading DEF DraftStep, callerVars, IInv, DocumentsTyped
  <1>4. ASSUME accepted
        PROVE  /\ approval \in Approvals
               /\ approval.identity = Assertion(draft.challenge)
               /\ approval.expiresAt = draft.challenge.expiresAt
               /\ approval.identity.issuedAt <= approval.issuedAt
    <2>1. reading.wall \in Int
      BY <1>3, <1>4
    <2>2. approval \in Approvals
      BY <1>2, <2>1, ChallengeTyped DEF Approval, Approvals
    <2>3. approval.identity.issuedAt <= approval.issuedAt
      BY <1>4 DEF ApprovalCurrent, ApprovalHolds
    <2> QED
      BY <2>2, <2>3 DEF Approval
  <1>5. accepted \in BOOLEAN
    OBVIOUS
  <1> HIDE DEF approval, accepted
  <1>6. ASSUME accepted
        PROVE  /\ next \in ApprovedDrafts /\ next.at = "APPROVED"
               /\ next.challenge = draft.challenge /\ next.parent = draft.parent
               /\ next.approval = approval
    BY <1>2, <1>4, <1>6 DEF IssuedDrafts, ApprovedDrafts
  <1> HIDE DEF next
  <1>7. ASSUME accepted, draft' = next PROVE DraftNests'
    BY <1>2, <1>3, <1>4, <1>6, <1>7 DEF DraftNests
  <1> QED
    BY <1>1, <1>5, <1>6, <1>7, DraftStepKeeps DEF Drafts

\* A grant that is allowed lies in its approval, and that in its identity and its parent.
LEMMA GrantKeeps ==
  ASSUME IInv, draft # None, NEW reading \in Readings, GrantCapability(reading)
  PROVE  IInv'
  <1> DEFINE expiresAt == draft.challenge.expiresAt
             accepted == GrantAllowed(draft.approval, draft.challenge.operation, reading,
                                      expiresAt, draft.parent)
             grant == Grant(draft.approval, reading.wall, expiresAt, draft.parent)
             next == [at |-> "GRANTED", challenge |-> draft.challenge, grant |-> grant]
  <1>1. /\ draft # None /\ draft.at = "APPROVED" /\ run = None
        /\ DraftStep(reading, accepted, next)
    BY DEF GrantCapability, IInv, TypeOK
  <1>2. /\ draft \in ApprovedDrafts /\ draft.challenge \in Challenges
        /\ draft.parent \in ParentDocuments \union {None}
        /\ Cardinality(held) < MaxRequests
    BY <1>1, DraftShape
  <1>3. /\ draft.approval \in Approvals
        /\ draft.approval.identity = Assertion(draft.challenge)
        /\ draft.approval.expiresAt = expiresAt
        /\ draft.approval.identity.issuedAt <= draft.approval.issuedAt
    BY <1>1, <1>2 DEF ApprovedDrafts, IInv, DraftNests
  <1>4. UNCHANGED held /\ (reading # NoReading => reading.wall \in Int)
    BY <1>1, ObservedReading DEF DraftStep, callerVars, IInv, DocumentsTyped
  <1>5. accepted \in BOOLEAN
    BY DEF GrantAllowed
  <1>6. ASSUME accepted
        PROVE  grant \in Grants /\ Nested(grant)
    <2>1. /\ reading # NoReading /\ draft.approval.issuedAt <= reading.wall
          /\ reading.wall < expiresAt
          /\ draft.parent # None => expiresAt <= draft.parent.expiresAt
      BY <1>6 DEF GrantAllowed, ApprovalCurrent, Current, Valid, Interval
    <2>2. reading.wall \in Int
      BY <1>4, <2>1
    <2>3. expiresAt \in Int
      BY <1>2, ChallengeTyped
    <2>4. grant \in Grants
      BY <1>2, <1>3, <2>2, <2>3 DEF Grant, Grants
    <2>5. /\ draft.approval.identity.expiresAt = expiresAt
          /\ draft.approval.identity.issuedAt = draft.challenge.issuedAt
      BY <1>2, <1>3, ChallengeTyped
    <2>6. /\ grant.approval = draft.approval /\ grant.issuedAt = reading.wall
          /\ grant.expiresAt = expiresAt /\ grant.parent = draft.parent
      BY DEF Grant
    <2> HIDE DEF grant, accepted
    <2> QED
      BY <1>2, <1>3, <2>1, <2>3, <2>4, <2>5, <2>6 DEF Nested
  <1> HIDE DEF accepted, grant
  <1>7. ASSUME accepted
        PROVE  next \in GrantedDrafts /\ next.at = "GRANTED" /\ next.grant = grant
    BY <1>2, <1>6, <1>7 DEF GrantedDrafts
  <1> HIDE DEF next
  <1>8. ASSUME accepted, draft' = next PROVE DraftNests'
    BY <1>2, <1>4, <1>6, <1>7, <1>8 DEF DraftNests
  <1> QED
    BY <1>1, <1>5, <1>7, <1>8, DraftStepKeeps DEF Drafts

\* A preparation ends, with its request or without.
LEMMA RequestHeld ==
  ASSUME IInv, draft # None, draft.at \in {"GRANTED", "RECORDED"}, draft' = None,
         clock' \in ClockStates,
         held' \in {held, held \union {PreparedRequest}},
         UNCHANGED <<root, worktree, parents, governed, completed, current, journal, lock, run>>
  PROVE  IInv'
  <1> DEFINE request == [challenge |-> draft.challenge, grant |-> draft.grant]
  <1>1. held' \in {held, held \union {request}} /\ run = None
    BY DraftShape DEF PreparedRequest
  <1>2. draft \in GrantedDrafts /\ Cardinality(held) < MaxRequests
    BY DraftShape
  <1>3. Nested(draft.grant)
    BY <1>1 DEF IInv, DraftNests
  <1>4. request \in Requests /\ request.grant = draft.grant
    BY <1>2 DEF GrantedDrafts, Requests
  <1> HIDE DEF request
  <1>5. IsFiniteSet(held') /\ Cardinality(held') <= MaxRequests /\ held' \subseteq Requests
    <2>1. IsFiniteSet(held) /\ held \subseteq Requests
      BY DEF IInv, DocumentsTyped
    <2>2. Cardinality(held) \in Nat
      BY <2>1, FS_CardinalityType
    <2>3. /\ IsFiniteSet(held \union {request})
          /\ Cardinality(held \union {request}) \in {Cardinality(held), Cardinality(held) + 1}
      BY <2>1, FS_AddElement
    <2> QED
      BY <1>1, <1>2, <1>4, <2>1, <2>2, <2>3, OperationAssumption
  <1>6. TypeOK'
    <2>1. DOMAIN journal' \subseteq {r.grant : r \in held'}
      BY <1>1 DEF IInv, TypeOK
    <2> QED
      BY <1>1, <1>5, <2>1 DEF IInv, TypeOK, ClockStates
  <1>7. DocumentsTyped'
    BY <1>5 DEF IInv, DocumentsTyped
  <1>8. NestedAuthority'
    BY <1>1, <1>3, <1>4 DEF IInv, NestedAuthority, Nested
  <1>9. DraftNests' /\ TimeObserved' /\ RunAgrees'
    BY <1>1 DEF DraftNests, TimeObserved, RunAgrees, InTransaction
  <1>10. JournalCounts' /\ CompletedSucceeded' /\ EvidenceIsLast' /\ EvidenceFinalizes'
    BY <1>1 DEF IInv, JournalCounts, CompletedSucceeded, EvidenceIsLast, EvidenceFinalizes,
                InTransaction
  <1>11. AnswersAgreeWithWorld'
    BY DEF IInv, AnswersAgreeWithWorld, Applied, Stage
  <1> QED
    BY <1>6, <1>7, <1>8, <1>9, <1>10, <1>11 DEF IInv

\* A derived request is not complete with its record.
LEMMA RecordKeeps ==
  ASSUME IInv, draft # None, NEW reading \in Readings, RecordOperation(reading)
  PROVE  IInv'
  <1> DEFINE next == [draft EXCEPT !.at = "RECORDED"]
  <1>1. /\ draft.at = "GRANTED"
        /\ UNCHANGED <<root, worktree, parents, governed, completed, current, journal, lock, run>>
    BY DEF RecordOperation, answerVars, targetVars
  <1>2. clock' \in ClockStates
    BY ObservedReading DEF RecordOperation, IInv, DocumentsTyped
  <1>3. CASE draft' = None
    BY <1>1, <1>2, <1>3, RequestHeld DEF RecordOperation
  <1>4. CASE draft' # None
    <2>1. draft' = next /\ draft.grant.parent # None /\ UNCHANGED held
      BY <1>4 DEF RecordOperation
    <2>2. draft \in GrantedDrafts /\ Cardinality(held) < MaxRequests /\ run = None
      BY <1>1, DraftShape
    <2>3. next \in GrantedDrafts /\ next.at = "RECORDED" /\ next.grant = draft.grant
      BY <2>2 DEF GrantedDrafts
    <2>4. Nested(draft.grant)
      BY <1>1 DEF IInv, DraftNests
    <2> HIDE DEF next
    <2>5. DraftNests'
      BY <2>1, <2>2, <2>3, <2>4 DEF DraftNests
    <2>6. /\ root' \in [files : {"ABSENT", "INCOMPLETE", "COMPLETE"}, key : 0..MaxKeys]
          /\ worktree' \in Content \union {Uncommitted} /\ parents' \subseteq ParentDocuments
      BY <1>1 DEF IInv, DocumentsTyped, TypeOK
    <2>7. draft' \in Drafts
      BY <2>1, <2>3 DEF Drafts
    <2> QED
      BY <1>1, <1>2, <2>1, <2>2, <2>5, <2>6, <2>7, CallerStep
  <1> QED
    BY <1>3, <1>4

LEMMA ComposeKeeps ==
  ASSUME IInv, draft # None, NEW reading \in Readings, ComposeDerived(reading)
  PROVE  IInv'
  <1>1. /\ draft.at = "RECORDED" /\ draft' = None
        /\ UNCHANGED <<root, worktree, parents, governed, completed, current, journal, lock, run>>
    BY DEF ComposeDerived, answerVars, targetVars
  <1>2. clock' \in ClockStates
    BY ObservedReading DEF ComposeDerived, IInv, DocumentsTyped
  <1> QED
    BY <1>1, <1>2, RequestHeld DEF ComposeDerived

LEMMA PreparationKeeps ==
  ASSUME IInv, Prepares
  PROVE  IInv'
  BY IssueKeeps, VerifyKeeps, ApproveKeeps, GrantKeeps, RecordKeeps, ComposeKeeps
  DEF Prepares

----------------------------------------------------------------------------
(***************************************************************************)
(* An orchestration before its transaction.                                *)
(***************************************************************************)

\* An orchestration that has no transaction yet takes a step, or ends.
LEMMA UncoordinatedStep ==
  ASSUME IInv, clock' \in ClockStates, run' \in Runs \union {None}, TimeObserved',
         run' # None =>
           /\ run'.request \in held /\ run'.at \in {"CLASSIFIED", "VALIDATED"}
           /\ run'.record.evidence = None
           /\ run'.at = "VALIDATED" =>
                run'.lifecycle.createdAt <= run'.request.grant.approval.issuedAt,
         run' = None \/ draft = None,
         UNCHANGED <<root, worktree, parents, held, draft, governed, completed, current, journal,
                     lock>>
  PROVE  IInv'
  <1>1. TypeOK' /\ DocumentsTyped'
    BY DEF IInv, TypeOK, DocumentsTyped, ClockStates
  <1>2. DraftNests' /\ NestedAuthority'
    BY DEF IInv, DraftNests, NestedAuthority
  <1>3. RunAgrees'
    BY DEF RunAgrees, InTransaction
  <1>4. JournalCounts' /\ CompletedSucceeded' /\ EvidenceIsLast' /\ EvidenceFinalizes'
    BY DEF IInv, JournalCounts, CompletedSucceeded, EvidenceIsLast, EvidenceFinalizes,
           InTransaction
  <1>5. AnswersAgreeWithWorld'
    BY DEF IInv, AnswersAgreeWithWorld, Applied, Stage
  <1> QED
    BY <1>1, <1>2, <1>3, <1>4, <1>5 DEF IInv

\* An orchestration starts at its first reading, on a record without evidence.
LEMMA SubmitKeeps ==
  ASSUME IInv, Idle, NEW reading \in Readings, Observes(reading), NEW request \in held,
         NEW part \in Prepared \union governed, Submit(request, part, reading)
  PROVE  IInv'
  <1>1. /\ held \subseteq Requests /\ governed \subseteq Parts /\ clock \in ClockStates
        /\ root.key \in Nat
    BY OperationAssumption DEF IInv, DocumentsTyped, TypeOK
  <1>2. /\ request \in Requests /\ part.record \in Records /\ part.lifecycle \in Lifecycles
        /\ part.record.evidence = None
    BY <1>1, PreparedTyped DEF Parts, Submit, IInv, EvidenceFinalizes
  <1>3. /\ draft = None /\ clock' \in ClockStates
        /\ UNCHANGED <<root, worktree, parents, held, draft, governed, completed, current,
                       journal, lock>>
    BY <1>1, ObservedReading DEF Submit, Idle, callerVars, answerVars, targetVars
  <1>4. CASE run' = None
    BY <1>3, <1>4, UncoordinatedStep DEF TimeObserved
  <1>5. CASE run' # None
    <2>1. PICK key \in {request.challenge.key, root.key} :
            run' = [at |-> "CLASSIFIED", request |-> request, record |-> part.record,
                    lifecycle |-> part.lifecycle, key |-> key, first |-> reading,
                    last |-> reading]
      BY <1>5 DEF Submit
    <2>2. reading \in ClockReadings /\ key \in Nat
      <3>1. Classified(request, part.record, reading)
        BY <1>5 DEF Submit
      <3> QED
        BY <1>1, <1>2, <3>1, ObservedReading, RequestTyped
        DEF Classified, ApprovalCurrent, Current
    <2>3. /\ run' \in Runs /\ run'.request = request /\ run'.at = "CLASSIFIED"
          /\ run'.record = part.record /\ run'.first = reading /\ run'.last = reading
      BY <1>2, <2>1, <2>2 DEF Runs, Phases
    <2>4. WallFollows(reading, reading, 0)
      BY <2>2, ClockAssumption DEF WallFollows, ClockReadings
    <2>5. TimeObserved'
      BY <2>3, <2>4 DEF TimeObserved, Comparisons
    <2> QED
      BY <1>2, <1>3, <2>3, <2>5, UncoordinatedStep
  <1> QED
    BY <1>4, <1>5

\* A record is answered again only when its transaction succeeded.
LEMMA ReplayKeeps ==
  ASSUME IInv, Idle, NEW request \in held, NEW part, Replays(request, part)
  PROVE  IInv'
  <1>1. /\ UNCHANGED <<clock, root, worktree, parents, held, draft, governed, current, journal,
                       lock, run>>
        /\ completed' = completed \union {request.grant}
        /\ Stage(request.grant) = "FINALIZED_SUCCESS"
        /\ run = None
    BY DEF Replays, Replayable, Idle, callerVars, targetVars
  <1>2. /\ request.grant \in DOMAIN journal
        /\ journal[request.grant].stage = "FINALIZED_SUCCESS"
    BY <1>1 DEF Stage
  <1>3. TypeOK' /\ DocumentsTyped'
    BY <1>1, <1>2 DEF IInv, TypeOK, DocumentsTyped
  <1>4. DraftNests' /\ NestedAuthority' /\ TimeObserved' /\ RunAgrees'
    BY <1>1 DEF IInv, DraftNests, NestedAuthority, TimeObserved, RunAgrees, InTransaction
  <1>5. JournalCounts' /\ CompletedSucceeded' /\ EvidenceIsLast' /\ EvidenceFinalizes'
    BY <1>1, <1>2 DEF IInv, JournalCounts, CompletedSucceeded, EvidenceIsLast, EvidenceFinalizes,
           InTransaction
  <1>6. AnswersAgreeWithWorld'
    BY <1>1 DEF IInv, AnswersAgreeWithWorld, Applied, Stage
  <1> QED
    BY <1>3, <1>4, <1>5, <1>6 DEF IInv

LEMMA SubmissionKeeps ==
  ASSUME IInv, Submits
  PROVE  IInv'
  BY SubmitKeeps, ReplayKeeps DEF Submits

\* What an orchestration in progress is made of.
LEMMA RunShape ==
  ASSUME IInv, run # None
  PROVE  /\ run \in Runs /\ run.request \in Requests /\ run.request \in held
         /\ run.lifecycle \in Lifecycles /\ run.lifecycle.createdAt \in Int
         /\ run.record.evidence = None /\ draft = None
  <1>1. /\ run \in Runs /\ run.request \in held /\ draft = None
        /\ run.record.evidence = None
    BY DEF IInv, DocumentsTyped, RunAgrees, TypeOK
  <1> QED
    BY <1>1 DEF Runs, Lifecycles

\* A comparison takes an orchestration from one phase into the next.
LEMMA ComparedRun ==
  ASSUME IInv, NEW reading \in ClockReadings, NEW at \in Phases, run # None, Comparisons(at) = Comparisons(run.at) + 1,
         Progresses(run.last, reading), run' = [run EXCEPT !.at = at, !.last = reading]
  PROVE  /\ run' \in Runs /\ run'.at = at /\ run'.request = run.request
         /\ run'.lifecycle = run.lifecycle /\ run'.last = reading
         /\ run'.record = run.record /\ TimeObserved'
  <1>1. /\ run' \in Runs /\ run'.at = at /\ run'.request = run.request
        /\ run'.lifecycle = run.lifecycle /\ run'.last = reading /\ run'.first = run.first
        /\ run'.record = run.record
    BY RunShape DEF Runs
  <1>2. Comparisons(run.at) \in Nat
    <2>1. run.at \in Phases
      BY RunShape DEF Runs
    <2> QED
      BY <2>1 DEF Comparisons, Phases
  <1>3. /\ run.first \in ClockReadings /\ run.last \in ClockReadings
        /\ WallFollows(run.first, run.last, Comparisons(run.at))
    BY RunShape DEF Runs, IInv, TimeObserved
  <1>4. WallFollows(run.first, reading, Comparisons(at))
    BY <1>2, <1>3, ComparisonFollows
  <1> QED
    BY <1>1, <1>3, <1>4 DEF TimeObserved

LEMMA ValidateKeeps ==
  ASSUME IInv, run # None, NEW reading \in Readings, ValidateRequest(reading)
  PROVE  IInv'
  <1>1. run.at = "CLASSIFIED" /\ Observes(reading)
    BY DEF ValidateRequest
  <1>2. UNCHANGED <<root, worktree, parents, held, draft, governed, completed, current, journal,
                    lock>>
    BY DEF ValidateRequest, callerVars, answerVars, targetVars
  <1>3. clock' \in ClockStates /\ (reading # NoReading => reading \in ClockReadings)
    BY <1>1, ObservedReading DEF IInv, DocumentsTyped
  <1>4. CASE run' = None
    BY <1>2, <1>3, <1>4, UncoordinatedStep DEF TimeObserved
  <1>5. CASE run' # None
    <2>1. /\ run' = [run EXCEPT !.at = "VALIDATED", !.last = reading]
          /\ Progresses(run.last, reading)
          /\ run.lifecycle.createdAt <= run.request.grant.approval.issuedAt
      BY <1>5 DEF ValidateRequest, Bound
    <2>2. /\ "VALIDATED" \in Phases
          /\ Comparisons("VALIDATED") = Comparisons("CLASSIFIED") + 1
      BY DEF Phases, Comparisons
    <2>3. /\ run' \in Runs /\ run'.at = "VALIDATED" /\ run'.request = run.request
          /\ run'.lifecycle = run.lifecycle /\ run'.record = run.record /\ TimeObserved'
      BY <1>1, <1>3, <2>1, <2>2, ComparedRun DEF Progresses
    <2> QED
      BY <1>1, <1>2, <1>3, <2>1, <2>3, RunShape, UncoordinatedStep
  <1> QED
    BY <1>4, <1>5

LEMMA ProviderKeeps ==
  ASSUME IInv, run # None, ProviderDenied
  PROVE  IInv'
  <1>1. /\ run' = None /\ UNCHANGED clock
        /\ UNCHANGED <<root, worktree, parents, held, draft, governed, completed, current, journal,
                       lock>>
    BY DEF ProviderDenied, callerVars, answerVars, targetVars
  <1> QED
    BY <1>1, UncoordinatedStep DEF TimeObserved, IInv, DocumentsTyped

----------------------------------------------------------------------------
(***************************************************************************)
(* The transaction of an orchestration.                                    *)
(***************************************************************************)

\* Journaling a grant of a request changes the entry of that grant.
LEMMA JournalWritten ==
  ASSUME IInv, NEW request \in held, NEW stage \in Stages, NEW applied \in Nat,
         Journals(request.grant, stage, applied)
  PROVE  /\ DOMAIN journal' = DOMAIN journal \union {request.grant}
         /\ journal'[request.grant] = [stage |-> stage, applied |-> applied]
         /\ \A g \in DOMAIN journal : g # request.grant => journal'[g] = journal[g]
         /\ journal' \in [DOMAIN journal' -> JournalEntries]
         /\ DOMAIN journal' \subseteq {r.grant : r \in held}
  <1>1. journal \in [DOMAIN journal -> JournalEntries] /\ DOMAIN journal \subseteq {r.grant : r \in held}
    BY DEF IInv, DocumentsTyped, TypeOK
  <1>2. [stage |-> stage, applied |-> applied] \in JournalEntries
    BY DEF JournalEntries
  <1> QED
    BY <1>1, <1>2 DEF Journals

\* How often a transaction in a stage may have replaced the target.
Counts(stage, applied) ==
  /\ stage \in Replaced => applied = 1
  /\ stage \notin Replaced \union {"COMMIT_AUTHORITY_VERIFIED", "RECOVERY_REQUIRED"} => applied = 0

\* No answer speaks of the transaction of a grant yet.
Unanswered(grant) ==
  /\ grant \notin completed
  /\ \A p \in governed : p.record.evidence # None => p.record.evidence.grant # grant

\* Nothing is answered of a transaction before its orchestration ends.
LEMMA InTransactionUnanswered ==
  ASSUME IInv, InTransaction
  PROVE  Unanswered(run.request.grant)
  <1>1. run.at \in {"LOCKED", "VERIFIED", "STARTED", "COMMITTING"}
    BY RunShape DEF InTransaction, Runs, Phases
  <1>2. journal[run.request.grant].stage = StageOf(run.at)
    BY DEF IInv, RunAgrees
  <1>3. StageOf(run.at) # "FINALIZED_SUCCESS"
    BY <1>1 DEF StageOf
  <1> QED
    BY <1>2, <1>3 DEF Unanswered, IInv, CompletedSucceeded, EvidenceIsLast

LEMMA FreshUnanswered ==
  ASSUME IInv, NEW grant, Fresh(grant)
  PROVE  Unanswered(grant)
  <1>1. \A g \in DOMAIN journal : journal[g].stage # "NONE"
    BY DEF IInv, TypeOK, Stages
  <1> QED
    BY <1>1 DEF Fresh, Stage, Unanswered, IInv, DocumentsTyped, CompletedSucceeded, EvidenceIsLast

\* The transaction of an orchestration goes on.
LEMMA TransactionAdvances ==
  ASSUME IInv, run # None, NEW stage \in Stages, NEW g, g = run.request.grant, Unanswered(g),
         Journals(g, stage, 0), stage = StageOf(run'.at),
         run'.at \in {"LOCKED", "VERIFIED", "STARTED", "COMMITTING"},
         run' \in Runs, run'.request = run.request, run'.lifecycle = run.lifecycle,
         run'.record = run.record,
         run.lifecycle.createdAt <= run.request.grant.approval.issuedAt,
         run'.at = "COMMITTING" =>
           \A interval \in AuthorityBounds(run.request.grant) : Valid(run'.last, interval),
         TimeObserved', lock' \in {lock, g}, clock' \in ClockStates,
         UNCHANGED <<root, worktree, parents, held, draft, governed, completed, current>>
  PROVE  IInv'
  <1>1. run.request \in held /\ run.record.evidence = None /\ draft = None
    BY RunShape
  <1>2. 0 \in Nat
    OBVIOUS
  <1>3. /\ DOMAIN journal' = DOMAIN journal \union {g}
        /\ journal'[g] = [stage |-> stage, applied |-> 0]
        /\ \A h \in DOMAIN journal : h # g => journal'[h] = journal[h]
        /\ journal' \in [DOMAIN journal' -> JournalEntries]
        /\ DOMAIN journal' \subseteq {r.grant : r \in held}
    BY <1>1, <1>2, JournalWritten
  <1>4. Counts(stage, 0) /\ stage # "PREPARED"
    BY DEF Counts, StageOf, Replaced
  <1>5. ASSUME NEW p \in governed, p.record.evidence # None
        PROVE  p.record.evidence.grant \in DOMAIN journal /\ p.record.evidence.grant # g
    BY <1>5 DEF IInv, EvidenceIsLast, Unanswered
  <1>6. TypeOK'
    <2>1. lock' = None \/ lock' \in DOMAIN journal'
      BY <1>3 DEF IInv, TypeOK
    <2>2. \A h \in DOMAIN journal' : journal'[h].stage \in Stages /\ journal'[h].applied \in Nat
      BY <1>3 DEF JournalEntries
    <2> QED
      BY <1>1, <1>3, <2>1, <2>2 DEF IInv, TypeOK, ClockStates
  <1>7. DocumentsTyped'
    BY <1>3 DEF IInv, DocumentsTyped
  <1>8. DraftNests' /\ NestedAuthority' /\ EvidenceFinalizes'
    BY DEF IInv, DraftNests, NestedAuthority, EvidenceFinalizes
  <1>9. RunAgrees'
    BY <1>1, <1>3 DEF RunAgrees, InTransaction
  <1>10. JournalCounts'
    BY <1>3, <1>4 DEF IInv, JournalCounts, Counts
  <1>11. CompletedSucceeded'
    BY <1>3 DEF IInv, CompletedSucceeded, DocumentsTyped, Unanswered
  <1>12. EvidenceIsLast'
    BY <1>3, <1>5 DEF IInv, EvidenceIsLast
  <1>13. AnswersAgreeWithWorld'
    <2>1. \A p \in governed : p.record.evidence # None =>
            /\ Applied(p.record.evidence.grant)' = Applied(p.record.evidence.grant)
            /\ Stage(p.record.evidence.grant)' = Stage(p.record.evidence.grant)
      BY <1>3, <1>5 DEF Applied, Stage
    <2>2. \A p \in governed : p.record.evidence # None /\ lock' = p.record.evidence.grant
            => lock = p.record.evidence.grant
      BY <1>5
    <2> QED
      BY <2>1, <2>2 DEF IInv, AnswersAgreeWithWorld
  <1> QED
    BY <1>6, <1>7, <1>8, <1>9, <1>10, <1>11, <1>12, <1>13 DEF IInv

\* What an answer may say of the transaction it speaks of, and of who holds the lock.
Says(p, grant, stage, applied, holder) ==
  LET evidence == p.record.evidence
      reported == p.record.transaction
  IN  /\ evidence.grant = grant
      /\ stage # "PREPARED"
      /\ p.record.finalization # "NONE"
      /\ p.lifecycle.createdAt <= p.lifecycle.terminalAt
      /\ evidence.outcome = "APPLIED" =>
           /\ applied = 1
           /\ \A interval \in AuthorityBounds(grant) :
                Valid([wall |-> evidence.timestamp], interval)
      /\ evidence.outcome = "NOT_STARTED_AUTHORITY_DENIED" => applied = 0
      /\ reported.stage \in Terminal => stage = reported.stage
      /\ reported.lock = "RELEASED" => holder = None
      /\ p.record.finalization = "COMPLETED" =>
           /\ evidence.outcome = "APPLIED"
           /\ reported = [stage |-> "FINALIZED_SUCCESS", lock |-> "RELEASED"]

\* An orchestration ends: its transaction stands where it is journaled, and what is answered
\* says so.
LEMMA TransactionEnds ==
  ASSUME IInv, run # None, NEW stage \in Stages, NEW applied \in {0, 1},
         NEW g, g = run.request.grant, Unanswered(g),
         Journals(g, stage, applied), Counts(stage, applied), lock' \in {lock, None},
         NEW answers, Answered(answers),
         \A p \in answers : p.record.evidence = None \/ Says(p, g, stage, applied, lock'),
         \/ completed' = completed
         \/ completed' = completed \union {g} /\ stage = "FINALIZED_SUCCESS",
         current' \in Content, run' = None, clock' \in ClockStates,
         UNCHANGED <<root, worktree, parents, held, draft>>
  PROVE  IInv'
  <1>1. run.request \in held /\ draft = None
    BY RunShape
  <1>2. applied \in Nat
    OBVIOUS
  <1>3. /\ DOMAIN journal' = DOMAIN journal \union {g}
        /\ journal'[g] = [stage |-> stage, applied |-> applied]
        /\ \A h \in DOMAIN journal : h # g => journal'[h] = journal[h]
        /\ journal' \in [DOMAIN journal' -> JournalEntries]
        /\ DOMAIN journal' \subseteq {r.grant : r \in held}
    BY <1>1, <1>2, JournalWritten
  <1>4. /\ answers \subseteq Parts /\ governed' = governed \union answers
        /\ \A p, q \in answers : p = q
    BY DEF Answered
  <1>5. ASSUME NEW q \in governed, q.record.evidence # None
        PROVE  q.record.evidence.grant \in DOMAIN journal /\ q.record.evidence.grant # g
    BY <1>5 DEF IInv, EvidenceIsLast, Unanswered
  <1>6. TypeOK'
    <2>1. lock' = None \/ lock' \in DOMAIN journal'
      BY <1>3 DEF IInv, TypeOK
    <2>2. \A h \in DOMAIN journal' : journal'[h].stage \in Stages /\ journal'[h].applied \in Nat
      BY <1>3 DEF JournalEntries
    <2> QED
      BY <1>1, <1>3, <2>1, <2>2 DEF IInv, TypeOK, ClockStates
  <1>7. DocumentsTyped'
    BY <1>3, <1>4 DEF IInv, DocumentsTyped
  <1>8. DraftNests' /\ NestedAuthority' /\ TimeObserved' /\ RunAgrees'
    BY DEF IInv, DraftNests, NestedAuthority, TimeObserved, RunAgrees, InTransaction
  <1>9. JournalCounts'
    BY <1>3 DEF IInv, JournalCounts, Counts
  <1>10. CompletedSucceeded'
    BY <1>3 DEF IInv, CompletedSucceeded, DocumentsTyped, Unanswered
  <1>11. EvidenceIsLast' /\ EvidenceFinalizes'
    <2>1. ASSUME NEW q \in governed', q.record.evidence # None
          PROVE  /\ q.record.evidence.grant \in DOMAIN journal'
                 /\ journal'[q.record.evidence.grant].stage # "PREPARED"
                 /\ q.record.finalization # "NONE"
      <3>1. CASE q \in governed
        BY <1>3, <1>5, <2>1, <3>1 DEF IInv, EvidenceIsLast, EvidenceFinalizes
      <3>2. CASE q \in answers
        <4>1. Says(q, g, stage, applied, lock')
          BY <2>1, <3>2
        <4>2. /\ q.record.evidence.grant = g /\ stage # "PREPARED"
              /\ q.record.finalization # "NONE"
          BY <4>1 DEF Says
        <4>3. journal'[g].stage = stage
          BY <1>3
        <4> QED
          BY <1>3, <4>2, <4>3
      <3> QED
        BY <1>4, <3>1, <3>2
    <2> QED
      BY <2>1 DEF EvidenceIsLast, EvidenceFinalizes, InTransaction
  <1>12. AnswersAgreeWithWorld'
    <2>1. ASSUME NEW q \in governed, q.record.evidence # None
          PROVE  /\ Applied(q.record.evidence.grant)' = Applied(q.record.evidence.grant)
                 /\ Stage(q.record.evidence.grant)' = Stage(q.record.evidence.grant)
                 /\ q.record.evidence.grant # None
      <3>1. q.record.evidence.grant \in Grants
        BY <2>1 DEF IInv, DocumentsTyped, Parts, Records, Evidences
      <3>2. q.record.evidence.grant # None
        BY <3>1 DEF Grants, None
      <3>3. /\ q.record.evidence.grant \in DOMAIN journal
            /\ q.record.evidence.grant \in DOMAIN journal'
            /\ journal'[q.record.evidence.grant] = journal[q.record.evidence.grant]
        BY <1>3, <1>5, <2>1
      <3> QED
        BY <3>2, <3>3 DEF Applied, Stage
    <2>2. Applied(g)' = applied /\ Stage(g)' = stage /\ g # None
      <3>1. g \in Grants
        BY RunShape, RequestTyped
      <3> QED
        BY <1>3, <3>1 DEF Applied, Stage, Grants, None
    <2>3. ASSUME NEW q \in governed', NEW r \in governed', q.record.evidence # None,
                 r.record.evidence # None, r.record.evidence.grant = q.record.evidence.grant
          PROVE  r = q
      <3>1. \A p \in answers : p.record.evidence # None => p.record.evidence.grant = g
        BY DEF Says
      <3> QED
        BY <1>4, <1>5, <2>3, <3>1 DEF IInv, AnswersAgreeWithWorld
    <2>4. ASSUME NEW q \in governed', q.record.evidence # None
          PROVE  LET evidence == q.record.evidence
                     reported == q.record.transaction
                 IN  /\ q.lifecycle.createdAt <= q.lifecycle.terminalAt
                     /\ evidence.outcome = "APPLIED" =>
                          /\ Applied(evidence.grant)' = 1
                          /\ \A interval \in AuthorityBounds(evidence.grant) :
                               Valid([wall |-> evidence.timestamp], interval)
                     /\ evidence.outcome = "NOT_STARTED_AUTHORITY_DENIED" =>
                          Applied(evidence.grant)' = 0
                     /\ reported.stage \in Terminal => Stage(evidence.grant)' = reported.stage
                     /\ reported.lock = "RELEASED" => lock' # evidence.grant
                     /\ q.record.finalization = "COMPLETED" =>
                          /\ evidence.outcome = "APPLIED"
                          /\ reported = [stage |-> "FINALIZED_SUCCESS", lock |-> "RELEASED"]
      <3>1. CASE q \in governed
        BY <2>1, <2>4, <3>1 DEF IInv, AnswersAgreeWithWorld
      <3>2. CASE q \in answers
        <4>1. Says(q, g, stage, applied, lock')
          BY <2>4, <3>2
        <4> QED
          BY <2>2, <4>1 DEF Says
      <3> QED
        BY <1>4, <3>1, <3>2
    <2> QED
      BY <2>3, <2>4 DEF AnswersAgreeWithWorld
  <1> QED
    BY <1>6, <1>7, <1>8, <1>9, <1>10, <1>11, <1>12 DEF IInv

\* A transaction that is in progress stands where its orchestration is.
LEMMA TransactionShape ==
  ASSUME IInv, run # None, run.at \in {"LOCKED", "VERIFIED", "STARTED", "COMMITTING"}
  PROVE  /\ run.request.grant \in Grants /\ run.request.grant.approval.issuedAt \in Int
         /\ Stage(run.request.grant) = StageOf(run.at)
         /\ Unanswered(run.request.grant)
         /\ run.lifecycle.createdAt <= run.request.grant.approval.issuedAt
  <1>1. run.request.grant \in Grants /\ run.request.grant.approval.issuedAt \in Int
    BY RunShape, RequestTyped, GrantTyped, ApprovalTyped
  <1>2. /\ run.request.grant \in DOMAIN journal
        /\ journal[run.request.grant] = [stage |-> StageOf(run.at), applied |-> 0]
        /\ run.lifecycle.createdAt <= run.request.grant.approval.issuedAt
    BY DEF IInv, RunAgrees, InTransaction
  <1>3. Unanswered(run.request.grant)
    BY InTransactionUnanswered DEF InTransaction
  <1> QED
    BY <1>1, <1>2, <1>3 DEF Stage

\* What an error without evidence answers.
LEMMA UnevidencedAnswer ==
  ASSUME IInv, run # None, FailWithoutEvidence
  PROVE  \E answers : Answered(answers) /\ \A p \in answers : p.record.evidence = None
  <1> DEFINE lifecycle == [run.lifecycle EXCEPT !.status = "FAILED", !.terminalAt = ObservedAt]
             p == [record |-> run.record, lifecycle |-> lifecycle]
  <1>1. /\ run.record \in Records /\ run.lifecycle \in Lifecycles /\ ObservedAt \in Int
        /\ p.record.evidence = None
    BY RunShape, RequestTyped, GrantTyped, ApprovalTyped DEF Runs, ObservedAt
  <1>2. lifecycle \in Lifecycles
    BY <1>1 DEF Lifecycles
  <1>3. governed' = governed \union {p}
    BY DEF FailWithoutEvidence
  <1> HIDE DEF lifecycle
  <1>4. Answered({p})
    BY <1>1, <1>2, <1>3 DEF Answered, Parts
  <1> QED
    BY <1>1, <1>4

\* An error ends an orchestration without evidence; its transaction may stand anywhere.
LEMMA UnevidencedEnd ==
  ASSUME IInv, run # None, FailWithoutEvidence, NEW stage \in Stages, NEW applied \in {0, 1},
         NEW g, g = run.request.grant, Unanswered(g),
         Journals(g, stage, applied), Counts(stage, applied), lock' \in {lock, None},
         current' \in Content, run' = None, clock' \in ClockStates,
         UNCHANGED <<root, worktree, parents, held, draft, completed>>
  PROVE  IInv'
  <1>1. PICK answers : Answered(answers) /\ \A p \in answers : p.record.evidence = None
    BY UnevidencedAnswer
  <1> QED
    BY <1>1, TransactionEnds

\* An error that journals nothing answers without evidence.
LEMMA UnjournaledEnd ==
  ASSUME IInv, run # None, FailWithoutEvidence, run' = None, clock' \in ClockStates,
         UNCHANGED <<root, worktree, parents, held, draft, completed, current, journal, lock>>
  PROVE  IInv'
  <1>1. PICK answers : Answered(answers) /\ \A p \in answers : p.record.evidence = None
    BY UnevidencedAnswer
  <1>2. /\ answers \subseteq Parts /\ governed' = governed \union answers
    BY <1>1 DEF Answered
  <1>3. TypeOK' /\ DocumentsTyped'
    BY <1>2 DEF IInv, TypeOK, DocumentsTyped, ClockStates
  <1>4. DraftNests' /\ NestedAuthority' /\ TimeObserved' /\ RunAgrees'
    BY DEF IInv, DraftNests, NestedAuthority, TimeObserved, RunAgrees, InTransaction
  <1>5. JournalCounts' /\ CompletedSucceeded' /\ EvidenceIsLast' /\ EvidenceFinalizes'
    BY <1>1, <1>2
    DEF IInv, JournalCounts, CompletedSucceeded, EvidenceIsLast, EvidenceFinalizes, InTransaction
  <1>6. AnswersAgreeWithWorld'
    BY <1>1, <1>2 DEF IInv, AnswersAgreeWithWorld, Applied, Stage
  <1> QED
    BY <1>3, <1>4, <1>5, <1>6 DEF IInv

LEMMA CoordinateKeeps ==
  ASSUME IInv, run # None, Coordinate
  PROVE  IInv'
  <1>1. PICK g : g = run.request.grant
    OBVIOUS
  <1>2. /\ run.at = "VALIDATED"
        /\ UNCHANGED <<clock, root, worktree, parents, held, draft, completed, current>>
    BY DEF Coordinate, callerVars
  <1>3. clock' \in ClockStates /\ current' \in Content
    BY <1>2 DEF IInv, DocumentsTyped, TypeOK
  <1>4. Fresh(g) => Unanswered(g)
    BY FreshUnanswered
  <1>5. CASE Fresh(g) /\ lock = None
    <2>1. /\ Journals(g, "LOCKED", 0) /\ lock' = g /\ run' = [run EXCEPT !.at = "LOCKED"]
          /\ UNCHANGED governed
      BY <1>1, <1>5 DEF Coordinate
    <2>2. /\ run' \in Runs /\ run'.at = "LOCKED" /\ run'.request = run.request
          /\ run'.lifecycle = run.lifecycle /\ run'.record = run.record
          /\ run'.first = run.first /\ run'.last = run.last
      BY <2>1, RunShape DEF Runs, Phases
    <2>3. run.lifecycle.createdAt <= run.request.grant.approval.issuedAt
      BY <1>2 DEF IInv, RunAgrees
    <2>4. TimeObserved'
      BY <1>2, <2>2 DEF IInv, TimeObserved, Comparisons
    <2>5. "LOCKED" \in Stages /\ "LOCKED" = StageOf("LOCKED")
      BY DEF Stages, StageOf
    <2> QED
      BY <1>1, <1>2, <1>3, <1>4, <1>5, <2>1, <2>2, <2>3, <2>4, <2>5, TransactionAdvances
  <1>6. CASE ~(Fresh(g) /\ lock = None)
    <2>1. /\ IF Fresh(g) THEN Journals(g, "PREPARED", 0) ELSE UNCHANGED journal
          /\ FailWithoutEvidence /\ run' = None /\ UNCHANGED lock
      BY <1>1, <1>6 DEF Coordinate
    <2>2. CASE Fresh(g)
      <3>1. "PREPARED" \in Stages /\ 0 \in {0, 1} /\ Counts("PREPARED", 0)
        BY DEF Stages, Counts, Replaced
      <3> QED
        BY <1>1, <1>2, <1>3, <1>4, <2>1, <2>2, <3>1, UnevidencedEnd
    <2>3. CASE ~Fresh(g)
      BY <1>2, <1>3, <2>1, <2>3, UnjournaledEnd
    <2> QED
      BY <2>2, <2>3
  <1> QED
    BY <1>5, <1>6

\* failBeforeCommit leaves the transaction open or finalized, and reports the stage it is in
\* where that is final and the lock released only where it is.
LEMMA FailedBeforeCommit ==
  ASSUME IInv, run # None, run.at \in {"LOCKED", "VERIFIED", "STARTED"},
         NEW reported \in Failures(Stage(run.request.grant)), FailBeforeCommit(reported)
  PROVE  /\ reported \in Reported
         /\ lock' \in {lock, None}
         /\ \E stage \in Stages :
              /\ Journals(run.request.grant, stage, 0)
              /\ Counts(stage, 0) /\ stage # "PREPARED"
              /\ reported.stage \in Terminal => stage = reported.stage
              /\ reported.lock = "RELEASED" => lock' = None
  <1> DEFINE open == Stage(run.request.grant)
  <1>1. open \in {"LOCKED", "BEFORE_VERIFIED", "MUTATION_STARTED"}
    BY TransactionShape DEF StageOf
  <1> HIDE DEF open
  <1>2. {open, "FINALIZED_FAILED"} \subseteq Stages
    BY <1>1 DEF Stages
  <1>3. \A stage \in {open, "FINALIZED_FAILED"} : Counts(stage, 0) /\ stage # "PREPARED"
    BY <1>1 DEF Counts, Replaced
  <1>4. reported \in Reported
    BY <1>2 DEF Failures, Reports, Reported, open
  <1>5. CASE /\ reported = [stage |-> "FINALIZED_FAILED", lock |-> "RELEASED"]
             /\ Journals(run.request.grant, "FINALIZED_FAILED", 0)
             /\ lock' = None
    BY <1>2, <1>3, <1>4, <1>5
  <1>6. CASE /\ reported = [stage |-> "FINALIZED_FAILED", lock |-> "RETAINED"]
             /\ Journals(run.request.grant, "FINALIZED_FAILED", 0)
             /\ lock' \in {lock, None}
    BY <1>2, <1>3, <1>4, <1>6
  <1>7. CASE /\ reported = [stage |-> open, lock |-> "RETAINED"]
             /\ \E stage \in {open, "FINALIZED_FAILED"} : Journals(run.request.grant, stage, 0)
             /\ UNCHANGED lock
    <2>1. open \notin Terminal
      BY <1>1 DEF Terminal
    <2> QED
      BY <1>2, <1>3, <1>4, <1>7, <2>1
  <1> QED
    BY <1>5, <1>6, <1>7 DEF FailBeforeCommit, open

\* A failure before the mutation has started.
LEMMA UnstartedKeeps ==
  ASSUME IInv, run # None, run.at \in {"LOCKED", "VERIFIED", "STARTED"}, FailsUnstarted,
         clock' \in ClockStates, UNCHANGED <<callerVars, draft, completed>>
  PROVE  IInv'
  <1>1. PICK reported \in Failures(Stage(run.request.grant)) : FailBeforeCommit(reported)
    BY DEF FailsUnstarted
  <1>2. PICK stage \in Stages : Journals(run.request.grant, stage, 0) /\ Counts(stage, 0)
    BY <1>1, FailedBeforeCommit
  <1>3. lock' \in {lock, None}
    BY <1>1, FailedBeforeCommit
  <1>4. PICK g : g = run.request.grant
    OBVIOUS
  <1>5. Unanswered(g) /\ current' \in Content /\ 0 \in {0, 1}
    BY <1>4, TransactionShape DEF FailsUnstarted, IInv, TypeOK
  <1> QED
    BY <1>2, <1>3, <1>4, <1>5, UnevidencedEnd DEF FailsUnstarted, callerVars

\* A transaction left to recovery from where it stands.
LEMMA LeftCounts ==
  ASSUME NEW applied \in {0, 1}, NEW stages \in SUBSET Stages, LeftAt(stages, applied),
         \A stage \in stages : Counts(stage, applied) /\ stage # "PREPARED"
  PROVE  /\ lock' = lock
         /\ \E stage \in Stages :
              /\ stage \in stages /\ Journals(run.request.grant, stage, applied)
              /\ Counts(stage, applied) /\ stage # "PREPARED"
  BY DEF LeftAt

\* A denial closes its transaction, leaves it to recovery, or throws before it answers.
LEMMA DenialKeeps ==
  ASSUME IInv, NEW reading, run # None, run.at \in {"LOCKED", "VERIFIED", "STARTED"},
         Observes(reading), Deny(reading), UNCHANGED <<callerVars, draft, completed>>
  PROVE  IInv'
  <1>1. /\ clock' \in ClockStates /\ (reading # NoReading => reading.wall \in Int)
        /\ run \in Runs /\ governed \subseteq Parts /\ current \in Content
    BY ObservedReading, RunShape DEF IInv, DocumentsTyped, TypeOK
  <1>2. /\ UNCHANGED <<root, worktree, parents, held, draft, completed, current>> /\ run' = None
    BY DEF Deny, FailsUnstarted, callerVars
  <1>3. PICK g : g = run.request.grant
    OBVIOUS
  <1>4. g \in Grants /\ Unanswered(g) /\ 0 \in {0, 1}
    BY <1>3, TransactionShape
  <1>5. CASE FailsUnstarted
    BY <1>1, <1>5, UnstartedKeeps
  <1>6. CASE FailWithoutEvidence /\ RequireRecovery("MUTATION_STARTED", 0)
    <2> DEFINE stages == {"MUTATION_STARTED", "RECOVERY_REQUIRED"}
    <2>1. stages \in SUBSET Stages /\ \A stage \in stages : Counts(stage, 0) /\ stage # "PREPARED"
      BY DEF Stages, Counts, Replaced
    <2>2. PICK stage \in Stages : Journals(g, stage, 0) /\ Counts(stage, 0)
      BY <1>3, <1>6, <2>1, LeftCounts DEF RequireRecovery
    <2>3. lock' = lock
      BY <1>6, <2>1, LeftCounts DEF RequireRecovery
    <2> QED
      BY <1>1, <1>2, <1>3, <1>4, <1>6, <2>2, <2>3, UnevidencedEnd
  <1>7. ASSUME reading # NoReading, Orderly(reading.wall),
               NEW reported \in Failures(Stage(run.request.grant)), FailBeforeCommit(reported),
               Answer("FAILED", Evidence("NOT_STARTED_AUTHORITY_DENIED", reading.wall), reported,
                      reading.wall)
        PROVE  IInv'
    <2> DEFINE evidence == Evidence("NOT_STARTED_AUTHORITY_DENIED", reading.wall)
    <2>1. PICK stage \in Stages :
            /\ Journals(g, stage, 0) /\ Counts(stage, 0) /\ stage # "PREPARED"
            /\ reported.stage \in Terminal => stage = reported.stage
            /\ reported.lock = "RELEASED" => lock' = None
      BY <1>3, <1>7, FailedBeforeCommit
    <2>2. lock' \in {lock, None} /\ reported \in Reported
      BY <1>7, FailedBeforeCommit
    <2>3. /\ evidence \in Evidences /\ evidence.grant = g
          /\ evidence.outcome = "NOT_STARTED_AUTHORITY_DENIED"
      BY <1>1, <1>3, <1>4, <1>7 DEF Evidence, Evidences, Outcomes
    <2> HIDE DEF evidence
    <2>4. PICK answers :
            /\ Answered(answers)
            /\ \A p \in answers :
                 /\ p.record.evidence = evidence /\ p.record.finalization = "FAILED"
                 /\ p.record.transaction = reported
                 /\ p.lifecycle.createdAt = run.lifecycle.createdAt
                 /\ p.lifecycle.terminalAt = reading.wall
      BY <1>1, <1>7, <2>2, <2>3, AnswerTyped DEF evidence
    <2>5. \A p \in answers : Says(p, g, stage, 0, lock')
      BY <1>7, <2>1, <2>3, <2>4 DEF Says, Orderly
    <2> QED
      BY <1>1, <1>2, <1>3, <1>4, <2>1, <2>2, <2>4, <2>5, TransactionEnds
  <1>8. CASE UNCHANGED <<governed, journal, lock>>
    BY <1>1, <1>2, <1>8, UncoordinatedStep DEF TimeObserved
  <1> QED
    BY <1>5, <1>6, <1>7, <1>8 DEF Deny

\* An accepted authority takes a transaction into its next phase.
LEMMA AuthorizedStep ==
  ASSUME IInv, NEW reading, NEW at \in Phases, NEW stage \in Stages, run # None,
         run.at \in {"LOCKED", "VERIFIED", "STARTED"}, at \in {"VERIFIED", "STARTED", "COMMITTING"},
         Comparisons(at) = Comparisons(run.at) + 1, stage = StageOf(at),
         Observes(reading), Authorized(reading), Journals(run.request.grant, stage, 0),
         run' = [run EXCEPT !.at = at, !.last = reading],
         UNCHANGED <<callerVars, draft, completed, governed, lock, current>>
  PROVE  IInv'
  <1>1. /\ Progresses(run.last, reading)
        /\ \A interval \in AuthorityBounds(run.request.grant) : Valid(reading, interval)
    BY DEF Authorized, MutationAuthority
  <1>2. clock' \in ClockStates /\ reading \in ClockReadings
    BY <1>1, ObservedReading DEF IInv, DocumentsTyped, Progresses
  <1>3. UNCHANGED <<root, worktree, parents, held, draft, completed, governed, lock, current>>
    BY DEF callerVars
  <1>4. /\ run' \in Runs /\ run'.at = at /\ run'.request = run.request
        /\ run'.lifecycle = run.lifecycle /\ run'.last = reading /\ run'.record = run.record
        /\ TimeObserved'
    BY <1>1, <1>2, ComparedRun
  <1>5. PICK g : g = run.request.grant
    OBVIOUS
  <1> QED
    BY <1>1, <1>2, <1>3, <1>4, <1>5, TransactionShape, TransactionAdvances

LEMMA Followers ==
  /\ {"VERIFIED", "STARTED", "COMMITTING"} \subseteq Phases
  /\ Comparisons("VERIFIED") = Comparisons("LOCKED") + 1
  /\ Comparisons("STARTED") = Comparisons("VERIFIED") + 1
  /\ Comparisons("COMMITTING") = Comparisons("STARTED") + 1
  /\ StageOf("VERIFIED") = "BEFORE_VERIFIED"
  /\ StageOf("STARTED") = "MUTATION_STARTED"
  /\ StageOf("COMMITTING") = "COMMIT_AUTHORITY_VERIFIED"
  /\ {"BEFORE_VERIFIED", "MUTATION_STARTED", "COMMIT_AUTHORITY_VERIFIED"} \subseteq Stages
  BY DEF Phases, Comparisons, StageOf, Stages

LEMMA EnterKeeps ==
  ASSUME IInv, run # None, NEW reading \in Readings, EnterAdapter(reading)
  PROVE  IInv'
  <1>1. /\ run.at = "LOCKED" /\ Observes(reading) /\ clock' \in ClockStates
        /\ UNCHANGED <<callerVars, draft, completed>>
    BY ObservedReading DEF EnterAdapter, IInv, DocumentsTyped
  <1>2. CASE ~Authorized(reading)
    <2>1. Deny(reading)
      BY <1>2 DEF EnterAdapter
    <2> QED
      BY <1>1, <2>1, DenialKeeps
  <1>3. CASE Authorized(reading) /\ worktree # Operation(run.request).before
    <2>1. FailsUnstarted
      BY <1>3 DEF EnterAdapter
    <2> QED
      BY <1>1, <2>1, UnstartedKeeps
  <1>4. CASE Authorized(reading) /\ worktree = Operation(run.request).before
    <2>1. /\ Journals(run.request.grant, "BEFORE_VERIFIED", 0)
          /\ run' = [run EXCEPT !.at = "VERIFIED", !.last = reading]
          /\ UNCHANGED <<governed, lock, current>>
      BY <1>4 DEF EnterAdapter
    <2> QED
      BY <1>1, <1>4, <2>1, Followers, AuthorizedStep
  <1> QED
    BY <1>2, <1>3, <1>4

LEMMA StartKeeps ==
  ASSUME IInv, run # None, NEW reading \in Readings,
         StartMutation(reading) \/ AuthorizeCommit(reading)
  PROVE  IInv'
  <1>1. /\ run.at \in {"VERIFIED", "STARTED"} /\ Observes(reading)
        /\ UNCHANGED <<callerVars, draft, completed>>
    BY DEF StartMutation, AuthorizeCommit
  <1>2. CASE ~Authorized(reading)
    <2>1. Deny(reading)
      BY <1>2 DEF StartMutation, AuthorizeCommit
    <2> QED
      BY <1>1, <2>1, DenialKeeps
  <1>3. CASE Authorized(reading) /\ StartMutation(reading)
    <2>1. /\ run.at = "VERIFIED"
          /\ Journals(run.request.grant, "MUTATION_STARTED", 0)
          /\ run' = [run EXCEPT !.at = "STARTED", !.last = reading]
          /\ UNCHANGED <<governed, lock, current>>
      BY <1>3 DEF StartMutation
    <2> QED
      BY <1>1, <1>3, <2>1, Followers, AuthorizedStep
  <1>4. CASE Authorized(reading) /\ AuthorizeCommit(reading)
    <2>1. /\ run.at = "STARTED"
          /\ Journals(run.request.grant, "COMMIT_AUTHORITY_VERIFIED", 0)
          /\ run' = [run EXCEPT !.at = "COMMITTING", !.last = reading]
          /\ UNCHANGED <<governed, lock, current>>
      BY <1>4 DEF AuthorizeCommit
    <2> QED
      BY <1>1, <1>4, <2>1, Followers, AuthorizedStep
  <1> QED
    BY <1>2, <1>3, <1>4

----------------------------------------------------------------------------
(***************************************************************************)
(* The end of a commit.                                                    *)
(***************************************************************************)

\* The time of the commit authority lies in every interval of the authority; it, and the time
\* of the request, are not before the creation of the lifecycle.
LEMMA CommitTime ==
  ASSUME IInv, run # None, run.at = "COMMITTING"
  PROVE  /\ {run.last.wall, ObservedAt} \subseteq Int
         /\ \A time \in {run.last.wall, ObservedAt} : run.lifecycle.createdAt <= time
         /\ \A interval \in AuthorityBounds(run.request.grant) :
              Valid([wall |-> run.last.wall], interval)
  <1>1. run.last \in ClockReadings
    BY RunShape DEF Runs
  <1>2. \A interval \in AuthorityBounds(run.request.grant) : Valid(run.last, interval)
    BY DEF IInv, RunAgrees
  <1>3. run.request.grant.approval.issuedAt <= run.last.wall
    BY <1>2 DEF AuthorityBounds, Valid, Interval
  <1>4. /\ run.lifecycle.createdAt <= run.request.grant.approval.issuedAt
        /\ run.lifecycle.createdAt \in Int /\ run.request.grant.approval.issuedAt \in Int
        /\ run.last.wall \in Int
    BY <1>1, TransactionShape, RunShape DEF ClockReadings
  <1>5. run.lifecycle.createdAt <= run.last.wall
    BY <1>3, <1>4
  <1> QED
    BY <1>2, <1>4, <1>5 DEF Valid, ObservedAt

\* A commit ends with an answer that rests on evidence of it.
LEMMA CommitEnds ==
  ASSUME IInv, run # None, run.at = "COMMITTING", NEW stage \in Stages, NEW applied \in {0, 1},
         Journals(run.request.grant, stage, applied), Counts(stage, applied),
         stage # "PREPARED", lock' \in {lock, None},
         NEW outcome \in Outcomes, outcome = "APPLIED" => applied = 1,
         outcome # "NOT_STARTED_AUTHORITY_DENIED",
         NEW status \in {"COMPLETED", "FAILED"}, NEW reported \in Reported,
         reported.stage \in Terminal => stage = reported.stage,
         reported.lock = "RELEASED" => lock' = None,
         status = "COMPLETED" =>
           /\ outcome = "APPLIED"
           /\ reported = [stage |-> "FINALIZED_SUCCESS", lock |-> "RELEASED"],
         NEW time \in {run.last.wall, ObservedAt},
         Answer(status, Evidence(outcome, run.last.wall), reported, time),
         \/ completed' = completed
         \/ completed' = completed \union {run.request.grant} /\ stage = "FINALIZED_SUCCESS",
         current' \in Content, run' = None, UNCHANGED <<clock, callerVars, draft>>
  PROVE  IInv'
  <1> DEFINE evidence == Evidence(outcome, run.last.wall)
  <1>1. PICK g : g = run.request.grant
    OBVIOUS
  <1>2. /\ run \in Runs /\ governed \subseteq Parts /\ g \in Grants /\ Unanswered(g)
        /\ run.last.wall \in Int /\ time \in Int /\ run.lifecycle.createdAt <= time
        /\ clock' \in ClockStates
    BY <1>1, RunShape, TransactionShape, CommitTime DEF IInv, DocumentsTyped
  <1>3. /\ evidence \in Evidences /\ evidence.grant = g /\ evidence.outcome = outcome
        /\ evidence.timestamp = run.last.wall
    BY <1>1, <1>2 DEF Evidence, Evidences
  <1> HIDE DEF evidence
  <1>4. PICK answers :
          /\ Answered(answers)
          /\ \A p \in answers :
               /\ p.record.evidence = evidence /\ p.record.finalization = status
               /\ p.record.transaction = reported
               /\ p.lifecycle.createdAt = run.lifecycle.createdAt
               /\ p.lifecycle.terminalAt = time
    BY <1>2, <1>3, AnswerTyped DEF evidence
  <1>5. \A interval \in AuthorityBounds(g) : Valid([wall |-> evidence.timestamp], interval)
    BY <1>1, <1>3, CommitTime
  <1>6. ASSUME NEW p \in answers
        PROVE  Says(p, g, stage, applied, lock')
    <2>1. /\ p.record.evidence = evidence /\ p.record.finalization = status
          /\ p.record.transaction = reported
          /\ p.lifecycle.createdAt <= p.lifecycle.terminalAt
      BY <1>2, <1>4
    <2> QED
      BY <1>3, <1>5, <2>1 DEF Says
  <1> QED
    BY <1>1, <1>2, <1>4, <1>6, TransactionEnds DEF callerVars

\* A commit ends with an error without evidence.
LEMMA CommitFails ==
  ASSUME IInv, run # None, run.at = "COMMITTING", NEW stage \in Stages, NEW applied \in {0, 1},
         Journals(run.request.grant, stage, applied), Counts(stage, applied), lock' = lock,
         FailWithoutEvidence,
         current' \in Content, run' = None, UNCHANGED <<clock, callerVars, draft, completed>>
  PROVE  IInv'
  <1>1. PICK g : g = run.request.grant
    OBVIOUS
  <1>2. Unanswered(g) /\ clock' \in ClockStates
    BY <1>1, TransactionShape DEF IInv, DocumentsTyped
  <1> QED
    BY <1>1, <1>2, UnevidencedEnd DEF callerVars

\* The target was replaced, whatever else happens.
LEMMA ReplacesShape ==
  ASSUME IInv, run # None, Replaces
  PROVE  /\ run.at = "COMMITTING" /\ run' = None /\ current' \in Content
         /\ UNCHANGED <<clock, callerVars, draft>>
  BY RunShape, RequestTyped DEF Replaces, Content

\* The stages a commit may be left at, by whether it replaced the target.
LEMMA LeftStages ==
  /\ Stages \in SUBSET Stages
  /\ {"COMMIT_AUTHORITY_VERIFIED", "PHYSICAL_APPLIED", "AFTER_VERIFIED", "EVIDENCE_RECORDED",
      "FINALIZED_SUCCESS", "RECOVERY_REQUIRED"} \subseteq Stages
  /\ \A stage \in {"COMMIT_AUTHORITY_VERIFIED", "PHYSICAL_APPLIED", "AFTER_VERIFIED",
                   "EVIDENCE_RECORDED", "FINALIZED_SUCCESS", "RECOVERY_REQUIRED"} :
       Counts(stage, 1) /\ stage # "PREPARED"
  /\ \A stage \in {"COMMIT_AUTHORITY_VERIFIED", "RECOVERY_REQUIRED"} :
       Counts(stage, 0) /\ stage # "PREPARED"
  /\ {0, 1} \subseteq Nat
  BY DEF Stages, Counts, Replaced

\* What a commit may report when it keeps its lock.
LEMMA Retained ==
  /\ \A stage \in Stages : [stage |-> stage, lock |-> "RETAINED"] \in Reported
  /\ [stage |-> "FINALIZED_SUCCESS", lock |-> "RELEASED"] \in Reported
  BY DEF Reported, Reports, Stages

LEMMA ReplaceKeeps ==
  ASSUME IInv, run # None, Replace
  PROVE  IInv'
  <1> DEFINE reported == [stage |-> "FINALIZED_SUCCESS", lock |-> "RELEASED"]
  <1>1. /\ run.at = "COMMITTING" /\ run' = None /\ current' \in Content
        /\ UNCHANGED <<clock, callerVars, draft>>
    BY ReplacesShape DEF Replace
  <1>2. /\ lock' = None /\ completed' = completed \union {run.request.grant}
        /\ Journals(run.request.grant, "FINALIZED_SUCCESS", 1)
        /\ Answer("COMPLETED", Evidence("APPLIED", run.last.wall), reported, run.last.wall)
    BY DEF Replace
  <1>3. "APPLIED" \in Outcomes /\ reported \in Reported /\ 1 \in {0, 1}
    BY Retained DEF Outcomes
  <1>4. /\ reported.stage = "FINALIZED_SUCCESS" /\ reported.lock = "RELEASED"
    OBVIOUS
  <1> HIDE DEF reported
  <1>5. reported = [stage |-> "FINALIZED_SUCCESS", lock |-> "RELEASED"]
    BY DEF reported
  <1> QED
    BY <1>1, <1>2, <1>3, <1>4, <1>5, LeftStages, CommitEnds

LEMMA RefusedKeeps ==
  ASSUME IInv, run # None, ReplacementRefused
  PROVE  IInv'
  <1>1. /\ run.at = "COMMITTING" /\ run' = None /\ current' \in Content
        /\ UNCHANGED <<clock, callerVars, draft, completed>> /\ FailWithoutEvidence
    BY DEF ReplacementRefused, IInv, TypeOK
  <1>2. LeftAt({"COMMIT_AUTHORITY_VERIFIED", "RECOVERY_REQUIRED"}, 0)
    BY DEF ReplacementRefused, RequireRecovery
  <1>3. PICK stage \in Stages : Journals(run.request.grant, stage, 0) /\ Counts(stage, 0)
    BY <1>2, LeftStages DEF LeftAt
  <1>4. lock' = lock /\ 0 \in {0, 1}
    BY <1>2 DEF LeftAt
  <1> QED
    BY <1>1, <1>3, <1>4, CommitFails

\* A commit that is left to recovery after all, with evidence of what it did.
LEMMA CommitLeft ==
  ASSUME IInv, run # None, run.at = "COMMITTING", NEW applied \in {0, 1},
         NEW stages \in SUBSET Stages, LeftAt(stages, applied),
         \A stage \in stages : Counts(stage, applied) /\ stage # "PREPARED",
         NEW outcome \in {"APPLIED", "RECOVERY_REQUIRED_JOURNAL_AMBIGUITY"},
         outcome = "APPLIED" => applied = 1,
         NEW known \in Stages \ Terminal, NEW time \in {run.last.wall, ObservedAt},
         Answer("FAILED", Evidence(outcome, run.last.wall),
                [stage |-> known, lock |-> "RETAINED"], time),
         current' \in Content, run' = None, UNCHANGED <<clock, callerVars, draft, completed>>
  PROVE  IInv'
  <1> DEFINE reported == [stage |-> known, lock |-> "RETAINED"]
  <1>1. PICK stage \in stages : Journals(run.request.grant, stage, applied)
    BY DEF LeftAt
  <1>2. stage \in Stages /\ Counts(stage, applied) /\ stage # "PREPARED" /\ lock' = lock
    BY DEF LeftAt
  <1>3. reported \in Reported /\ reported.stage \notin Terminal /\ reported.lock # "RELEASED"
    BY Retained
  <1>4. outcome \in Outcomes /\ outcome # "NOT_STARTED_AUTHORITY_DENIED"
    BY DEF Outcomes
  <1>5. Answer("FAILED", Evidence(outcome, run.last.wall), reported, time)
    OBVIOUS
  <1>6. "FAILED" \in {"COMPLETED", "FAILED"} /\ "FAILED" # "COMPLETED"
    OBVIOUS
  <1> HIDE DEF reported
  <1> QED
    BY <1>1, <1>2, <1>3, <1>4, <1>5, <1>6, CommitEnds

LEMMA AmbiguousKeeps ==
  ASSUME IInv, run # None, ReplacementAmbiguous
  PROVE  IInv'
  <1> DEFINE Answers(stage) ==
               Answer("FAILED", Evidence("RECOVERY_REQUIRED_JOURNAL_AMBIGUITY", run.last.wall),
                      [stage |-> stage, lock |-> "RETAINED"], run.last.wall)
             unknown(replaced) ==
               {"COMMIT_AUTHORITY_VERIFIED", "RECOVERY_REQUIRED"} \union
                 (IF replaced = 1 THEN {"PHYSICAL_APPLIED"} ELSE {})
  <1>1. /\ run.at = "COMMITTING" /\ run' = None
        /\ UNCHANGED <<clock, callerVars, draft, completed>>
    BY DEF ReplacementAmbiguous
  <1>2. PICK replaced \in {0, 1} :
          /\ current' = IF replaced = 1 THEN Operation(run.request).replacement ELSE current
          /\ \/ LeftAt({"RECOVERY_REQUIRED"}, replaced) /\ Answers("RECOVERY_REQUIRED")
             \/ LeftAt(unknown(replaced), replaced) /\ Answers("COMMIT_AUTHORITY_VERIFIED")
             \/ /\ replaced = 1
                /\ LeftAt({"PHYSICAL_APPLIED", "AFTER_VERIFIED", "RECOVERY_REQUIRED"}, replaced)
                /\ Answers("PHYSICAL_APPLIED")
    BY DEF ReplacementAmbiguous
  <1>3. current' \in Content
    BY <1>2, RunShape, RequestTyped DEF Content, IInv, TypeOK
  <1>4. {"RECOVERY_REQUIRED", "COMMIT_AUTHORITY_VERIFIED", "PHYSICAL_APPLIED"}
          \subseteq Stages \ Terminal
    BY DEF Stages, Terminal
  <1>5. ASSUME NEW known \in Stages \ Terminal, Answers(known),
               NEW stages \in SUBSET Stages, LeftAt(stages, replaced),
               \A stage \in stages : Counts(stage, replaced) /\ stage # "PREPARED"
        PROVE  IInv'
    BY <1>1, <1>3, <1>5, CommitLeft
  <1>6. CASE LeftAt({"RECOVERY_REQUIRED"}, replaced) /\ Answers("RECOVERY_REQUIRED")
    <2>1. /\ {"RECOVERY_REQUIRED"} \in SUBSET Stages
          /\ \A stage \in {"RECOVERY_REQUIRED"} : Counts(stage, replaced) /\ stage # "PREPARED"
      BY LeftStages
    <2> HIDE DEF Answers
    <2> QED
      BY <1>4, <1>5, <1>6, <2>1
  <1>7. CASE LeftAt(unknown(replaced), replaced) /\ Answers("COMMIT_AUTHORITY_VERIFIED")
    <2>1. /\ unknown(replaced) \in SUBSET Stages
          /\ \A stage \in unknown(replaced) : Counts(stage, replaced) /\ stage # "PREPARED"
      BY LeftStages
    <2> HIDE DEF Answers, unknown
    <2> QED
      BY <1>4, <1>5, <1>7, <2>1
  <1>8. CASE /\ replaced = 1
             /\ LeftAt({"PHYSICAL_APPLIED", "AFTER_VERIFIED", "RECOVERY_REQUIRED"}, replaced)
             /\ Answers("PHYSICAL_APPLIED")
    <2> DEFINE stages == {"PHYSICAL_APPLIED", "AFTER_VERIFIED", "RECOVERY_REQUIRED"}
    <2>1. /\ stages \in SUBSET Stages
          /\ \A stage \in stages : Counts(stage, replaced) /\ stage # "PREPARED"
      BY <1>8, LeftStages
    <2>2. LeftAt(stages, replaced)
      BY <1>8
    <2> HIDE DEF Answers, stages
    <2> QED
      BY <1>4, <1>5, <1>8, <2>1, <2>2
  <1> QED
    BY <1>2, <1>6, <1>7, <1>8

\* Nothing is answered of a replacement that could not be proved.
LEMMA UnprovenKeeps ==
  ASSUME IInv, run # None, ProjectionUnproven
  PROVE  IInv'
  <1>1. /\ run.at = "COMMITTING" /\ run' = None /\ current' \in Content
        /\ UNCHANGED <<clock, callerVars, draft>>
    BY ReplacesShape DEF ProjectionUnproven
  <1>2. PICK g : g = run.request.grant
    OBVIOUS
  <1>3. Unanswered(g) /\ clock' \in ClockStates
    BY <1>1, <1>2, TransactionShape DEF IInv, DocumentsTyped
  <1>4. PICK from \in {"COMMIT_AUTHORITY_VERIFIED", "PHYSICAL_APPLIED"} :
          LeftAt({from, "RECOVERY_REQUIRED"}, 1)
    BY DEF ProjectionUnproven, RequireRecovery
  <1>5. PICK stage \in Stages : Journals(g, stage, 1) /\ Counts(stage, 1)
    BY <1>2, <1>4, LeftStages DEF LeftAt
  <1>6. lock' \in {lock, None} /\ 1 \in {0, 1}
    BY <1>4 DEF LeftAt
  <1>7. Answered({}) /\ completed' = completed
    BY DEF ProjectionUnproven, Answer, Evidence, Outcomes, Answered
  <1> QED
    BY <1>1, <1>2, <1>3, <1>5, <1>6, <1>7, TransactionEnds DEF callerVars

LEMMA MissingKeeps ==
  ASSUME IInv, run # None, EvidenceMissing
  PROVE  IInv'
  <1>1. /\ run.at = "COMMITTING" /\ run' = None /\ current' \in Content
        /\ UNCHANGED <<clock, callerVars, draft, completed>> /\ FailWithoutEvidence
    BY ReplacesShape DEF EvidenceMissing
  <1>2. LeftAt({"AFTER_VERIFIED", "RECOVERY_REQUIRED"}, 1)
    BY DEF EvidenceMissing, RequireRecovery
  <1>3. PICK stage \in Stages : Journals(run.request.grant, stage, 1) /\ Counts(stage, 1)
    BY <1>2, LeftStages DEF LeftAt
  <1>4. lock' = lock /\ 1 \in {0, 1}
    BY <1>2 DEF LeftAt
  <1> QED
    BY <1>1, <1>3, <1>4, CommitFails

LEMMA FinalizationKeeps ==
  ASSUME IInv, run # None, FinalizationFails
  PROVE  IInv'
  <1> DEFINE Answers(stage) ==
               Answer("FAILED", Evidence("APPLIED", run.last.wall),
                      [stage |-> stage, lock |-> "RETAINED"], ObservedAt)
  <1>1. /\ run.at = "COMMITTING" /\ run' = None /\ current' \in Content
        /\ UNCHANGED <<clock, callerVars, draft, completed>> /\ 1 \in {0, 1}
    BY ReplacesShape DEF FinalizationFails
  <1>2. {"RECOVERY_REQUIRED", "AFTER_VERIFIED", "EVIDENCE_RECORDED"} \subseteq Stages \ Terminal
    BY DEF Stages, Terminal
  <1>3. ASSUME NEW known \in Stages \ Terminal, Answers(known),
               NEW stages \in SUBSET Stages, LeftAt(stages, 1),
               \A stage \in stages : Counts(stage, 1) /\ stage # "PREPARED"
        PROVE  IInv'
    BY <1>1, <1>3, CommitLeft
  <1>4. CASE LeftAt({"RECOVERY_REQUIRED"}, 1) /\ Answers("RECOVERY_REQUIRED")
    <2> DEFINE stages == {"RECOVERY_REQUIRED"}
    <2>1. /\ stages \in SUBSET Stages
          /\ \A stage \in stages : Counts(stage, 1) /\ stage # "PREPARED"
      BY LeftStages
    <2>2. LeftAt(stages, 1)
      BY <1>4
    <2> HIDE DEF Answers, stages
    <2> QED
      BY <1>2, <1>3, <1>4, <2>1, <2>2
  <1>5. CASE /\ LeftAt({"AFTER_VERIFIED", "EVIDENCE_RECORDED", "RECOVERY_REQUIRED"}, 1)
             /\ Answers("AFTER_VERIFIED")
    <2> DEFINE stages == {"AFTER_VERIFIED", "EVIDENCE_RECORDED", "RECOVERY_REQUIRED"}
    <2>1. /\ stages \in SUBSET Stages
          /\ \A stage \in stages : Counts(stage, 1) /\ stage # "PREPARED"
      BY LeftStages
    <2>2. LeftAt(stages, 1)
      BY <1>5
    <2> HIDE DEF Answers, stages
    <2> QED
      BY <1>2, <1>3, <1>5, <2>1, <2>2
  <1>6. CASE /\ LeftAt({"EVIDENCE_RECORDED", "FINALIZED_SUCCESS", "RECOVERY_REQUIRED"}, 1)
             /\ Answers("EVIDENCE_RECORDED")
    <2> DEFINE stages == {"EVIDENCE_RECORDED", "FINALIZED_SUCCESS", "RECOVERY_REQUIRED"}
    <2>1. /\ stages \in SUBSET Stages
          /\ \A stage \in stages : Counts(stage, 1) /\ stage # "PREPARED"
      BY LeftStages
    <2>2. LeftAt(stages, 1)
      BY <1>6
    <2> HIDE DEF Answers, stages
    <2> QED
      BY <1>2, <1>3, <1>6, <2>1, <2>2
  <1>7. CASE /\ Journals(run.request.grant, "FINALIZED_SUCCESS", 1)
             /\ lock' \in {lock, None}
             /\ Answers("FINALIZED_SUCCESS")
    <2> DEFINE reported == [stage |-> "FINALIZED_SUCCESS", lock |-> "RETAINED"]
    <2>1. /\ "FINALIZED_SUCCESS" \in Stages /\ Counts("FINALIZED_SUCCESS", 1)
          /\ reported \in Reported /\ reported.stage = "FINALIZED_SUCCESS"
          /\ reported.lock # "RELEASED" /\ "APPLIED" \in Outcomes
      BY LeftStages, Retained DEF Outcomes
    <2>2. Answer("FAILED", Evidence("APPLIED", run.last.wall), reported, ObservedAt)
      BY <1>7
    <2> HIDE DEF reported, Answers
    <2> QED
      BY <1>1, <1>7, <2>1, <2>2, CommitEnds
  <1> QED
    BY <1>4, <1>5, <1>6, <1>7 DEF FinalizationFails

----------------------------------------------------------------------------
\* Every step keeps the invariant.
LEMMA InvariantStep ==
  IInv /\ [Next]_vars => IInv'
  <1> SUFFICES ASSUME IInv, [Next]_vars PROVE IInv'
    OBVIOUS
  <1>1. CASE Provision \/ RemoveRoot \/ Develop
    BY <1>1, ProvisionKeeps
  <1>2. CASE Authorize
    BY <1>2, AuthorizeKeeps
  <1>3. CASE Prepares
    BY <1>3, PreparationKeeps
  <1>4. CASE Submits
    BY <1>4, SubmissionKeeps
  <1>5. CASE Orchestrates
    BY <1>5, ValidateKeeps, EnterKeeps, StartKeeps, ProviderKeeps, CoordinateKeeps, ReplaceKeeps,
       RefusedKeeps, AmbiguousKeeps, UnprovenKeeps, MissingKeeps, FinalizationKeeps
    DEF Orchestrates
  <1>6. CASE UNCHANGED vars
    <2>1. /\ clock' = clock /\ root' = root /\ worktree' = worktree /\ parents' = parents
          /\ run = None \/ draft' = None
          /\ UNCHANGED <<draft, held, governed, completed, journal, lock, run, current>>
      BY <1>6 DEF vars, IInv, TypeOK
    <2> QED
      BY <2>1, CallerStep, DraftUntouched DEF IInv, DocumentsTyped, TypeOK
  <1> QED
    BY <1>1, <1>2, <1>3, <1>4, <1>5, <1>6 DEF Next

\* The invariant of governed operations is inductive, for every resolution of the clock,
\* every drift and every validity (createGovernedPatchRequest, orchestrate).
THEOREM OperationInductive == Spec => []IInv
  BY InitialInvariant, InvariantStep, PTL DEF Spec

\* Every request that was prepared carries authority within authority, although each of its
\* documents was issued at another reading of a clock that may be set in between.
THEOREM AuthorityNests == Spec => []NestedAuthority
  <1>1. IInv => NestedAuthority
    BY DEF IInv
  <1> QED
    BY <1>1, OperationInductive, PTL

\* Setting the clock during an orchestration does not stretch the authority by more than four
\* comparisons round away, whatever the resolution (classifyClockProgression).
THEOREM CommitsInTime == Spec => []CommittedWithinAuthority
  <1>1. IInv => CommittedWithinAuthority
    <2> SUFFICES ASSUME IInv, run # None, run.at = "COMMITTING"
                 PROVE  run.first.wall + (run.last.mono - run.first.mono) \div Resolution
                          < run.request.grant.expiresAt + RoundedAway
      BY DEF CommittedWithinAuthority
    <2>1. Comparisons("COMMITTING") = 4
      BY DEF Comparisons
    <2>2. /\ run.first \in ClockReadings /\ run.last \in ClockReadings
          /\ WallFollows(run.first, run.last, 4)
      BY <2>1, RunShape DEF Runs, IInv, TimeObserved
    <2>3. run.last.wall < run.request.grant.expiresAt
      BY DEF IInv, RunAgrees, AuthorityBounds, Valid, Interval
    <2>4. run.request.grant.expiresAt \in Int
      BY TransactionShape, GrantTyped
    <2> QED
      BY <2>2, <2>3, <2>4, FollowedTime
  <1> QED
    BY <1>1, OperationInductive, PTL

\* A request answered COMPLETED replaced the target, and no transaction does so twice, however
\* often requests and records are submitted again (orchestrate), also when the target has been
\* replaced by another patch since.
THEOREM CompletesOnce == Spec => []CompletedIsAppliedOnce
  <1>1. IInv => CompletedIsAppliedOnce
    <2> SUFFICES ASSUME IInv PROVE CompletedIsAppliedOnce
      OBVIOUS
    <2>1. \A g \in DOMAIN journal : journal[g].applied <= 1
      <3>1. ASSUME NEW g \in DOMAIN journal PROVE journal[g].applied \in {0, 1}
        BY DEF IInv, JournalCounts
      <3> QED
        BY <3>1
    <2>2. \A g \in completed : Stage(g) = "FINALIZED_SUCCESS" /\ Applied(g) = 1
      BY DEF IInv, DocumentsTyped, CompletedSucceeded, JournalCounts, Replaced, Stage, Applied
    <2> QED
      BY <2>1, <2>2 DEF CompletedIsAppliedOnce
  <1> QED
    BY <1>1, OperationInductive, PTL

\* All finalized answers of one grant agree, and what they say of the target is true.
THEOREM AnswersAreTrue == Spec => []AnswersAgreeWithWorld
  <1>1. IInv => AnswersAgreeWithWorld
    BY DEF IInv
  <1> QED
    BY <1>1, OperationInductive, PTL
=============================================================================
