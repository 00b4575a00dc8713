---------------------- MODULE GovernedOperationInvariant ----------------------
(***************************************************************************)
(* Why the authority of a governed operation nests, why setting the clock  *)
(* does not stretch it and why its answers are true: an inductive          *)
(* invariant of GovernedOperation.                                         *)
(***************************************************************************)
EXTENDS GovernedOperation

----------------------------------------------------------------------------
\* The documents, by what they contain.
Operations == [before : Content, replacement : Replacements, issuedAt : Int]
Challenges == [operation : Operations, issuedAt : Int, expiresAt : Int, key : Nat]
AssertionsOf(S) == [operation : S, issuedAt : Int, expiresAt : Int, verifiedAt : Int]
Approvals ==
  [operation : Operations, identity : AssertionsOf(Operations), issuedAt : Int, expiresAt : Int]
ParentDocuments == [identity : AssertionsOf({"development"}), issuedAt : Int, expiresAt : Int]
Grants ==
  [approval : Approvals, issuedAt : Int, expiresAt : Int, parent : ParentDocuments \union {None}]
Requests == [challenge : Challenges, grant : Grants]

Evidences == [grant : Grants, outcome : Outcomes, timestamp : Int]
Reported == Reports(Stages)
Records ==
  [operation : Operations, approval : Approvals, parent : ParentDocuments \union {None},
   evidence : Evidences \union {None}, finalization : {"NONE", "COMPLETED", "FAILED"},
   transaction : Reported \union {None}]
Lifecycles ==
  [operation : Operations, status : {"PENDING", "COMPLETED", "FAILED"}, createdAt : Int,
   terminalAt : Int]
Parts == [record : Records, lifecycle : Lifecycles]

ClockStates == [mono : 0..MaxTime, offset : Int, adjusted : 0..MaxAdjustments]
ClockReadings == [wall : Int, mono : Nat]

Phases == {"CLASSIFIED", "VALIDATED", "LOCKED", "VERIFIED", "STARTED", "COMMITTING"}
Runs ==
  [at : Phases, request : Requests, record : Records, lifecycle : Lifecycles, key : Nat,
   first : ClockReadings, last : ClockReadings]

IssuedDrafts ==
  [challenge : Challenges, parent : ParentDocuments \union {None}, at : {"ISSUED", "VERIFIED"},
   approval : {None}]
ApprovedDrafts ==
  [challenge : Challenges, parent : ParentDocuments \union {None}, at : {"APPROVED"},
   approval : Approvals]
GrantedDrafts == [at : {"GRANTED", "RECORDED"}, challenge : Challenges, grant : Grants]
Drafts == IssuedDrafts \union ApprovedDrafts \union GrantedDrafts

JournalEntries == [stage : Stages, applied : Nat]

\* Every document, answer and control state is well formed.
DocumentsTyped ==
  /\ clock \in ClockStates
  /\ root \in [files : {"ABSENT", "INCOMPLETE", "COMPLETE"}, key : 0..MaxKeys]
  /\ parents \subseteq ParentDocuments
  /\ draft \in Drafts \union {None}
  /\ held \subseteq Requests /\ IsFiniteSet(held)
  /\ governed \subseteq Parts
  /\ completed \subseteq DOMAIN journal
  /\ journal \in [DOMAIN journal -> JournalEntries]
  /\ run \in Runs \union {None}

----------------------------------------------------------------------------
\* What nests in a grant and what it rests on.
Nested(grant) ==
  /\ grant.approval.identity.issuedAt <= grant.approval.issuedAt
  /\ grant.approval.issuedAt <= grant.issuedAt
  /\ grant.issuedAt < grant.expiresAt
  /\ grant.expiresAt <= grant.approval.expiresAt
  /\ grant.approval.expiresAt <= grant.approval.identity.expiresAt
  /\ grant.parent # None => grant.expiresAt <= grant.parent.expiresAt

\* A preparation has room for its request, and what it holds so far nests.
DraftNests ==
  draft # None =>
    /\ Cardinality(held) < MaxRequests
    /\ draft.at = "APPROVED" =>
         /\ draft.approval.identity = Assertion(draft.challenge)
         /\ draft.approval.expiresAt = draft.challenge.expiresAt
         /\ draft.approval.identity.issuedAt <= draft.approval.issuedAt
    /\ draft.at \in {"GRANTED", "RECORDED"} => Nested(draft.grant)
    /\ draft.at = "RECORDED" => draft.grant.parent # None

----------------------------------------------------------------------------
\* How many comparisons of two readings lie behind an orchestration.
Comparisons(at) ==
  CASE at = "CLASSIFIED" -> 0
    [] at \in {"VALIDATED", "LOCKED"} -> 1
    [] at = "VERIFIED" -> 2
    [] at = "STARTED" -> 3
    [] at = "COMMITTING" -> 4

\* Every comparison rounds less than one millisecond away: this is by how much the
\* monotonic time may have outrun the wall clock.
WallFollows(first, last, n) ==
  last.mono - first.mono <= Resolution * (last.wall - first.wall) + n * (Resolution - 1)

\* The wall clock follows the readings of an orchestration.
TimeObserved == run # None => WallFollows(run.first, run.last, Comparisons(run.at))

InTransaction == run # None /\ run.at \notin {"CLASSIFIED", "VALIDATED"}

StageOf(at) ==
  CASE at = "LOCKED" -> "LOCKED"
    [] at = "VERIFIED" -> "BEFORE_VERIFIED"
    [] at = "STARTED" -> "MUTATION_STARTED"
    [] at = "COMMITTING" -> "COMMIT_AUTHORITY_VERIFIED"
    [] OTHER -> "NONE"

\* An orchestration runs a request of the caller on a record without evidence; from the
\* coordinator on its transaction is where the orchestration is and replaced nothing yet; a
\* validated lifecycle is no younger than the approval, and the commit lies in every interval
\* of the authority.
RunAgrees ==
  /\ run # None => run.request \in held /\ run.record.evidence = None
  /\ (run # None /\ run.at # "CLASSIFIED") =>
       run.lifecycle.createdAt <= run.request.grant.approval.issuedAt
  /\ InTransaction =>
       /\ run.request.grant \in DOMAIN journal
       /\ journal[run.request.grant] = [stage |-> StageOf(run.at), applied |-> 0]
  /\ (run # None /\ run.at = "COMMITTING") =>
       \A interval \in AuthorityBounds(run.request.grant) : Valid(run.last, interval)

----------------------------------------------------------------------------
Replaced == {"PHYSICAL_APPLIED", "AFTER_VERIFIED", "EVIDENCE_RECORDED", "FINALIZED_SUCCESS"}

\* A transaction replaced the target if its journal says so; one left between the authority
\* of its commit and a stage that follows, or to recovery, may have.
JournalCounts ==
  \A g \in DOMAIN journal :
    /\ journal[g].stage \in Replaced => journal[g].applied = 1
    /\ journal[g].stage \in {"COMMIT_AUTHORITY_VERIFIED", "RECOVERY_REQUIRED"} =>
         journal[g].applied \in {0, 1}
    /\ journal[g].stage \notin Replaced \union {"COMMIT_AUTHORITY_VERIFIED", "RECOVERY_REQUIRED"} =>
         journal[g].applied = 0

\* Who was ever answered COMPLETED has a transaction that succeeded.
CompletedSucceeded == \A g \in completed : journal[g].stage = "FINALIZED_SUCCESS"

\* Evidence is given when its orchestration ends, and no other orchestrates its transaction:
\* coordinated once, it is never coordinated again.
EvidenceIsLast ==
  \A p \in governed : p.record.evidence # None =>
    LET grant == p.record.evidence.grant
    IN  /\ grant \in DOMAIN journal
        /\ journal[grant].stage # "PREPARED"
        /\ InTransaction => grant # run.request.grant

\* A record that is not finalized has no evidence.
EvidenceFinalizes ==
  \A p \in governed : p.record.finalization = "NONE" => p.record.evidence = None

\* The inductive invariant of the proofs, as TLC checks it (the code that is to keep it:
\* createGovernedPatchRequest and orchestrate).
IInv ==
  /\ TypeOK
  /\ DocumentsTyped
  /\ DraftNests
  /\ NestedAuthority
  /\ TimeObserved
  /\ RunAgrees
  /\ JournalCounts
  /\ CompletedSucceeded
  /\ EvidenceIsLast
  /\ EvidenceFinalizes
  /\ AnswersAgreeWithWorld
=============================================================================
