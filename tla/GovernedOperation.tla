-------------------------- MODULE GovernedOperation --------------------------
(***************************************************************************)
(* One caller of the command line preparing governed patches of one target *)
(* (cli/governed-patch-dispatch.js) and handing them to orchestrate()      *)
(* (core/surgical-orchestrator.js), under a clock that may be adjusted.    *)
(*                                                                         *)
(* Every preparation and every orchestration observes the clock several    *)
(* times; between two observations time passes and the wall clock may be   *)
(* set.  The caller keeps the requests it prepared and the records and     *)
(* lifecycles it was answered with, and may submit any of them together.   *)
(*                                                                         *)
(* The mutation itself, its journal, its lock and the crashes of its       *)
(* process are the subject of GovernedMutation: here a journal is the      *)
(* stage it has reached, the replacement is one step with its outcomes,    *)
(* and the appends before the replacement succeed.                         *)
(***************************************************************************)
EXTENDS HumanAuthority

CONSTANTS
  InitialContent,    \* what the target holds at first
  Replacements,      \* what patches replace it with
  Adjustments,       \* by how many milliseconds the wall clock is set
  MaxAdvance,        \* bound: monotonic units between two observations
  MaxTime,           \* bound: the last monotonic time
  MaxAdjustments,    \* bound: how often the wall clock is set
  MaxRequests,       \* bound: requests prepared
  MaxKeys            \* bound: authorities provisioned

Content == {InitialContent} \union Replacements

\* A worktree with an edit that was not committed; nothing looks into it.
Uncommitted == [uncommitted |-> TRUE]

ASSUME OperationAssumption ==
  /\ Adjustments \subseteq Int
  /\ {MaxAdvance, MaxTime, MaxAdjustments, MaxRequests, MaxKeys} \subseteq Nat

VARIABLES
  clock,      \* monotonic time, offset of the wall clock, number of adjustments
  root,       \* the directory of the human authority: its files and the key they hold
  worktree,   \* what the ordinary file of a clean worktree holds, or Uncommitted
  current,    \* the authoritative content of the target
  parents,    \* G4 authorizations given by the human
  draft,      \* the request being prepared
  held,       \* requests prepared
  governed,   \* answered records with their lifecycles
  completed,  \* grants whose request was ever answered COMPLETED
  journal,    \* grant -> stage of its transaction, and how often it replaced the target
  lock,       \* the grant whose transaction holds the lock of the target
  run         \* the orchestration in progress

vars == <<clock, root, worktree, current, parents, draft, held, governed, completed, journal,
          lock, run>>
targetVars == <<current, journal, lock>>
callerVars == <<root, worktree, parents, held>>
answerVars == <<governed, completed>>

Operation(request) == request.grant.approval.operation

\* The record and lifecycle a request is prepared with: createOperationRecord stamps its
\* events, and createLifecycle its creation, with the time of the approval.
NewRecord(request) ==
  [operation |-> Operation(request), approval |-> request.grant.approval,
   parent |-> request.grant.parent, evidence |-> None, finalization |-> "NONE",
   transaction |-> None]

NewLifecycle(request) ==
  [operation |-> Operation(request), status |-> "PENDING",
   createdAt |-> request.grant.approval.issuedAt, terminalAt |-> -1]

Prepared == {[record |-> NewRecord(r), lifecycle |-> NewLifecycle(r)] : r \in held}

----------------------------------------------------------------------------
\* What the system clock may be when it is next read, and what is read.
Instants ==
  {[mono |-> clock.mono + d, offset |-> clock.offset + a,
    adjusted |-> clock.adjusted + (IF a = 0 THEN 0 ELSE 1)] :
     d \in {n \in 0..MaxAdvance : clock.mono + n <= MaxTime},
     a \in {b \in Adjustments \union {0} : b = 0 \/ clock.adjusted < MaxAdjustments}}

ReadingAt(c) == [wall |-> c.offset + c.mono \div Resolution, mono |-> c.mono]

\* readSystemClock: a reading, or nothing when the clock is unavailable.
Observes(reading) ==
  \/ reading = NoReading /\ UNCHANGED clock
  \/ \E c \in Instants : reading = ReadingAt(c) /\ clock' = c

Readings == {ReadingAt(c) : c \in Instants} \union {NoReading}

\* The caller is neither preparing a request nor waiting for an orchestration.
Idle == draft = None /\ run = None

\* validatedAuthorityMaterial: exactly the three files, one key pair.
Usable == root.files = "COMPLETE"

----------------------------------------------------------------------------
(***************************************************************************)
(* core/local-offline-human-authority-store.js                             *)
(***************************************************************************)

\* provisionLocalOfflineHumanAuthority: only where nothing exists; the directory and then
\* three exclusive writes.  A write that fails removes the directory again, a process that
\* ends between them leaves it incomplete: then it is neither usable nor provisioned again.
Provision ==
  /\ Idle
  /\ root.files = "ABSENT"
  /\ root.key < MaxKeys
  /\ \E files \in {"INCOMPLETE", "COMPLETE"} : root' = [files |-> files, key |-> root.key + 1]
  /\ UNCHANGED <<clock, worktree, current, parents, draft, held, governed, completed, journal,
                 lock, run>>

\* The operator removes a directory.
RemoveRoot ==
  /\ Idle
  /\ root.files # "ABSENT"
  /\ root' = [root EXCEPT !.files = "ABSENT"]
  /\ UNCHANGED <<clock, worktree, current, parents, draft, held, governed, completed, journal,
                 lock, run>>

----------------------------------------------------------------------------
\* The developer leaves an uncommitted edit, or commits a content.
Develop ==
  /\ Idle
  /\ worktree' \in Content \union {Uncommitted}
  /\ UNCHANGED <<clock, root, current, parents, draft, held, governed, completed, journal, lock,
                 run>>

\* authorizeNaturalDevelopmentPatchLocally: the human authorizes an exact patch, from the
\* reading of its challenge and for as long as a patch request (bound: one patch, and only
\* while a request can be prepared from it).
Authorize ==
  /\ Idle /\ Usable
  /\ parents = {} /\ Cardinality(held) < MaxRequests
  /\ \E reading \in Readings \ {NoReading} :
       LET expiresAt == reading.wall + LocalValidity
           challenge == SignChallenge("development", reading.wall, expiresAt, root.key)
           parent == ParentAuthorization(Assertion(challenge), expiresAt)
       IN  /\ Observes(reading)
           /\ ParentAllowed(parent)
           /\ parents' = {parent}
  /\ UNCHANGED <<root, worktree, current, draft, held, governed, completed, journal, lock, run>>

----------------------------------------------------------------------------
(***************************************************************************)
(* createGovernedPatchRequest: four documents, each at its own reading.    *)
(* A document that is refused ends the preparation with an error.          *)
(***************************************************************************)

DraftStep(reading, accepted, next) ==
  /\ Observes(reading)
  /\ draft' = IF accepted THEN next ELSE None
  /\ UNCHANGED <<callerVars, answerVars, targetVars, run>>

\* A clean worktree, the authoritative content as BEFORE, the challenge signed.  Of a parent
\* only the expiry is looked at, which cuts the request's own off: with the clock set back
\* the challenge may be issued before its parent was.
IssueChallenge(replacement, parent, reading) ==
  LET operation == [before |-> current, replacement |-> replacement, issuedAt |-> reading.wall]
      expiresAt == RequestExpiry(reading.wall, parent)
  IN  /\ Usable /\ worktree # Uncommitted
      /\ Cardinality(held) < MaxRequests
      /\ DraftStep(reading,
           reading # NoReading /\ reading.wall < expiresAt,
           [challenge |-> SignChallenge(operation, reading.wall, expiresAt, root.key),
            parent |-> parent, at |-> "ISSUED", approval |-> None])

VerifyIdentity(reading) ==
  /\ draft.at = "ISSUED"
  /\ DraftStep(reading,
       IdentityVerified(draft.challenge, draft.challenge.operation, root.key, reading),
       [draft EXCEPT !.at = "VERIFIED"])

ApprovePatch(reading) ==
  LET approval == Approval(draft.challenge.operation, Assertion(draft.challenge), reading.wall,
                           draft.challenge.expiresAt)
  IN  /\ draft.at = "VERIFIED"
      /\ DraftStep(reading,
           reading # NoReading /\ ApprovalCurrent(approval, approval.operation, reading),
           [draft EXCEPT !.at = "APPROVED", !.approval = approval])

\* The grant is issued at one reading, and the record evaluated at another.
GrantCapability(reading) ==
  LET expiresAt == draft.challenge.expiresAt
  IN  /\ draft.at = "APPROVED"
      /\ DraftStep(reading,
           GrantAllowed(draft.approval, draft.challenge.operation, reading, expiresAt,
                        draft.parent),
           [at |-> "GRANTED", challenge |-> draft.challenge,
            grant |-> Grant(draft.approval, reading.wall, expiresAt, draft.parent)])

\* What the caller is given: the execution and the runtime made for it, every part of it from
\* the challenge and the grant.
PreparedRequest == [challenge |-> draft.challenge, grant |-> draft.grant]

\* A request of its own is complete with its record; a derived one still has its parent to
\* answer to.
RecordOperation(reading) ==
  LET accepted == ApprovalCurrent(draft.grant.approval, draft.challenge.operation, reading)
      derived == draft.grant.parent # None
  IN  /\ draft.at = "GRANTED"
      /\ Observes(reading)
      /\ draft' = IF accepted /\ derived THEN [draft EXCEPT !.at = "RECORDED"] ELSE None
      /\ held' = IF accepted /\ ~derived THEN held \union {PreparedRequest} ELSE held
      /\ UNCHANGED <<root, worktree, parents, answerVars, targetVars, run>>

\* composeAndDispatchNaturalDevelopmentPatch: the request derived from a G4 authorization is
\* handed on only if, at one more reading, that authorization is current and the grant is
\* bounded by it; otherwise the composition fails and the request is lost.
ComposeDerived(reading) ==
  LET parent == draft.grant.parent
  IN  /\ draft.at = "RECORDED"
      /\ Observes(reading)
      /\ draft' = None
      /\ held' = IF Current(reading, parent) /\ draft.grant.expiresAt <= parent.expiresAt
                 THEN held \union {PreparedRequest} ELSE held
      /\ UNCHANGED <<root, worktree, parents, answerVars, targetVars, run>>

Prepares ==
  \/ /\ Idle
     /\ \E reading \in Readings, replacement \in Replacements, parent \in parents \union {None} :
          IssueChallenge(replacement, parent, reading)
  \/ /\ draft # None
     /\ \E reading \in Readings :
          \/ VerifyIdentity(reading)
          \/ ApprovePatch(reading)
          \/ GrantCapability(reading)
          \/ RecordOperation(reading)
          \/ ComposeDerived(reading)

----------------------------------------------------------------------------
(***************************************************************************)
(* orchestrate()                                                           *)
(***************************************************************************)

\* validateControlledRequest without its readings: the record and the lifecycle belong to
\* the operation of the grant, and rest on its very approval and parent.
Bound(request, record, lifecycle, reading) ==
  /\ record.operation = Operation(request)
  /\ DerivationHolds(request.grant, record, reading)
  /\ ApprovalHolds(record.approval, Operation(request))
  /\ record.approval = request.grant.approval
  /\ lifecycle.operation = Operation(request)
  /\ lifecycle.createdAt <= request.grant.approval.issuedAt
  /\ record.finalization = "NONE" => lifecycle.status = "PENDING"

Stage(grant) == IF grant \in DOMAIN journal THEN journal[grant].stage ELSE "NONE"

Applied(grant) == IF grant \in DOMAIN journal THEN journal[grant].applied ELSE 0

\* Mutant: taking the lock is not journaled.
JournalsLate(grant, stage, applied) ==
  IF stage = "LOCKED" THEN UNCHANGED journal
  ELSE journal' = [g \in DOMAIN journal \union {grant} |->
                     IF g = grant THEN [stage |-> stage, applied |-> applied] ELSE journal[g]]

Journals(grant, stage, applied) ==
  journal' = [g \in DOMAIN journal \union {grant} |->
                IF g = grant THEN [stage |-> stage, applied |-> applied] ELSE journal[g]]

\* verifyAppliedMutation: the evidence is of a patch that was applied, and the projection it
\* names holds AFTER.  Nothing rewrites a projection, and what the target holds by now is not
\* looked at.
ProvenApplied(evidence) == evidence.outcome = "APPLIED"

\* The record of a finalized patch is answered again, without clock or mutation: its
\* evidence is this grant's, its journal succeeded and the patch is proven applied.
Replayable(request, record, lifecycle) ==
  /\ Bound(request, record, lifecycle, NoReading)
  /\ record.finalization = "COMPLETED"
  /\ record.evidence.grant = request.grant
  /\ lifecycle.status = "COMPLETED"
  /\ Stage(request.grant) = "FINALIZED_SUCCESS"
  /\ ProvenApplied(record.evidence)

\* A finalized record is answered at once.  A denial, also where the projection is gone,
\* changes nothing.
Replays(request, part) ==
  /\ Replayable(request, part.record, part.lifecycle)
  /\ completed' = completed \union {request.grant}
  /\ UNCHANGED <<clock, callerVars, draft, governed, targetVars, run>>

\* classifyScope and evaluatePolicy: R3 needs a clean worktree and, at a reading compared with
\* none before it, an approval that is current and of this very scope.
Classified(request, record, reading) ==
  /\ worktree # Uncommitted
  /\ record.operation.before = Operation(request).before
  /\ record.operation.replacement = Operation(request).replacement
  /\ ApprovalCurrent(request.grant.approval, Operation(request), reading)

\* buildChangePlan: nothing blocks a high risk but a worktree that is not clean, or a grant
\* that is not of the replacement the request carries.
Planned(request) ==
  /\ worktree # Uncommitted
  /\ Operation(request).replacement = request.challenge.operation.replacement

\* An orchestration starts with any request, record and lifecycle the caller holds; the key
\* is that of the runtime made with the request, or of one made since.  What is not classified
\* and planned, at the first reading, is denied and changes nothing.
Submit(request, part, reading) ==
  /\ part.record.finalization = "NONE"
  /\ IF Classified(request, part.record, reading) /\ Planned(request)
     THEN \E key \in {request.challenge.key, root.key} :
            run' = [at |-> "CLASSIFIED", request |-> request, record |-> part.record,
                    lifecycle |-> part.lifecycle, key |-> key, first |-> reading,
                    last |-> reading]
     ELSE run' = None
  /\ UNCHANGED <<callerVars, draft, answerVars, targetVars>>

Submits ==
  /\ Idle
  /\ \/ \E request \in held, part \in governed : Replays(request, part)
     \/ \E reading \in Readings :
          /\ Observes(reading)
          /\ \E request \in held, part \in Prepared \union governed :
               Submit(request, part, reading)

\* validateControlledRequest: the second reading, compared with the first.
ValidateRequest(reading) ==
  LET request == run.request
      allowed == /\ Progresses(run.last, reading)
                 /\ Bound(request, run.record, run.lifecycle, reading)
                 /\ ApprovalCurrent(run.record.approval, Operation(request), reading)
                 /\ IdentityVerified(request.challenge, Operation(request), run.key, reading)
                 /\ Assertion(request.challenge) = run.record.approval.identity
                 /\ MutationAuthority(run.last, reading, AuthorityBounds(request.grant))
  IN  /\ run.at = "CLASSIFIED"
      /\ Observes(reading)
      /\ run' = IF allowed THEN [run EXCEPT !.at = "VALIDATED", !.last = reading] ELSE None
      /\ UNCHANGED <<callerVars, draft, answerVars, targetVars>>

----------------------------------------------------------------------------
\* The catch block: the lifecycle fails, evidence is appended and the record finalized, if
\* there is evidence.  Neither may lie before the creation of the lifecycle or the record.
Orderly(timestamp) == run.lifecycle.createdAt <= timestamp

Evidence(outcome, timestamp) ==
  [grant |-> run.request.grant, outcome |-> outcome, timestamp |-> timestamp]

\* mutationFinalization: the stage the coordinator knows its transaction in, and whether it
\* knows the lock released.
Reports(stages) == [stage : stages, lock : {"RELEASED", "RETAINED"}]

Terminal == {"FINALIZED_SUCCESS", "FINALIZED_FAILED"}

\* finalizeOperationRecord: the transactions a record is finalized with.
Finalizable(status, reported) ==
  IF status = "COMPLETED"
  THEN reported.stage = "FINALIZED_SUCCESS"
  ELSE \/ reported.stage = "FINALIZED_FAILED"
       \/ /\ reported.stage \in {"RECOVERY_REQUIRED", "MUTATION_STARTED", "PHYSICAL_APPLIED",
                                "AFTER_VERIFIED", "EVIDENCE_RECORDED", "FINALIZED_SUCCESS"}
          /\ reported.lock = "RETAINED"

\* validatePayload: the evidence of a patch that a record takes.
Outcomes == {"APPLIED", "RESTORED", "NOT_ATTEMPTED_UNPROVEN_OWNERSHIP",
             "NOT_STARTED_AUTHORITY_DENIED", "RECOVERY_REQUIRED_JOURNAL_AMBIGUITY"}

\* The lifecycle ends at a time, the record takes its evidence and is finalized; if it does
\* not take it, or the transaction is not one to finalize with, the call throws.
Answer(status, evidence, reported, terminalAt) ==
  governed' =
    IF evidence.outcome \notin Outcomes \/ ~Finalizable(status, reported) THEN governed
    ELSE governed \union
      {[record |-> [run.record EXCEPT !.evidence = evidence, !.finalization = status,
                                      !.transaction = reported],
        lifecycle |-> [run.lifecycle EXCEPT !.status = status, !.terminalAt = terminalAt]]}

\* The request's own time: that of its approval.
ObservedAt == run.request.grant.approval.issuedAt

\* An error without evidence answers FAILED at the time of the request, and finalizes nothing.
FailWithoutEvidence ==
  governed' = governed \union
    {[record |-> run.record,
      lifecycle |-> [run.lifecycle EXCEPT !.status = "FAILED", !.terminalAt = ObservedAt]]}

\* resolveMutationProviderRuntime and evaluateMutationProvider: an unqualified provider denies.
\* Its evidence is appended to the record, which nothing here reads again.
ProviderDenied ==
  /\ run.at = "VALIDATED"
  /\ run' = None
  /\ UNCHANGED <<clock, callerVars, draft, answerVars, targetVars>>

\* The journal is reopened: there is none, or it stopped at PREPARED.
\* Mutant: one that succeeded is begun again.
FreshAgain(grant) == Stage(grant) \in {"NONE", "PREPARED", "FINALIZED_SUCCESS"}

Fresh(grant) == Stage(grant) \in {"NONE", "PREPARED"}

\* createMutationCoordinator: a fresh journal, and the lock.  A journal that went further, or
\* a lock in other hands, is an error before the adapter runs.
Coordinate ==
  LET grant == run.request.grant
  IN  /\ run.at = "VALIDATED"
      /\ IF Fresh(grant) /\ lock = None
         THEN /\ Journals(grant, "LOCKED", 0)
              /\ lock' = grant
              /\ run' = [run EXCEPT !.at = "LOCKED"]
              /\ UNCHANGED governed
         ELSE /\ IF Fresh(grant) THEN Journals(grant, "PREPARED", 0) ELSE UNCHANGED journal
              /\ FailWithoutEvidence
              /\ run' = None
              /\ UNCHANGED lock
      /\ UNCHANGED <<clock, callerVars, draft, completed, current>>

\* failBeforeCommit: the transaction is finalized and the lock released.  The append may fail,
\* published or not, and so may the release, which may have removed the lock.
\* Mutant: the lock is reported released, whatever its release answered.
FailBeforeCommitOpen(reported) ==
  LET grant == run.request.grant
  IN  \/ /\ reported = [stage |-> "FINALIZED_FAILED", lock |-> "RELEASED"]
         /\ Journals(grant, "FINALIZED_FAILED", 0)
         /\ lock' \in {lock, None}
      \/ /\ reported = [stage |-> Stage(grant), lock |-> "RETAINED"]
         /\ \E stage \in {Stage(grant), "FINALIZED_FAILED"} : Journals(grant, stage, 0)
         /\ UNCHANGED lock

FailBeforeCommit(reported) ==
  LET grant == run.request.grant
  IN  \/ /\ reported = [stage |-> "FINALIZED_FAILED", lock |-> "RELEASED"]
         /\ Journals(grant, "FINALIZED_FAILED", 0)
         /\ lock' = None
      \/ /\ reported = [stage |-> "FINALIZED_FAILED", lock |-> "RETAINED"]
         /\ Journals(grant, "FINALIZED_FAILED", 0)
         /\ lock' \in {lock, None}
      \/ /\ reported = [stage |-> Stage(grant), lock |-> "RETAINED"]
         /\ \E stage \in {Stage(grant), "FINALIZED_FAILED"} : Journals(grant, stage, 0)
         /\ UNCHANGED lock

\* What failBeforeCommit may report in a stage.
Failures(stage) == Reports({stage, "FINALIZED_FAILED"})

\* A transaction left to recovery keeps its lock, at one of the stages its journal may show
\* when appends have failed: published or not, each.
LeftAt(stages, applied) ==
  /\ \E stage \in stages : Journals(run.request.grant, stage, applied)
  /\ UNCHANGED lock

\* requireRecovery from a stage; its append may fail as well.
RequireRecovery(stage, applied) == LeftAt({stage, "RECOVERY_REQUIRED"}, applied)

\* A failure before the mutation has started, without evidence.
FailsUnstarted ==
  /\ FailWithoutEvidence
  /\ \E reported \in Failures(Stage(run.request.grant)) : FailBeforeCommit(reported)
  /\ run' = None
  /\ UNCHANGED current

\* denyBeforeCommit and the catch block.  Without a reading there is no evidence, and a
\* transaction that has started its mutation is left to recovery.  With a reading earlier
\* than the lifecycle, the catch block itself throws before it finalizes anything.
Deny(reading) ==
  \/ reading = NoReading /\ run.at # "STARTED" /\ FailsUnstarted
  \/ /\ reading = NoReading /\ run.at = "STARTED"
     /\ FailWithoutEvidence
     /\ RequireRecovery("MUTATION_STARTED", 0)
     /\ run' = None
     /\ UNCHANGED current
  \/ /\ reading # NoReading /\ Orderly(reading.wall)
     /\ \E reported \in Failures(Stage(run.request.grant)) :
          /\ FailBeforeCommit(reported)
          /\ Answer("FAILED", Evidence("NOT_STARTED_AUTHORITY_DENIED", reading.wall), reported,
                    reading.wall)
     /\ run' = None
     /\ UNCHANGED current
  \/ /\ reading # NoReading /\ ~Orderly(reading.wall)
     /\ run' = None
     /\ UNCHANGED <<governed, journal, lock, current>>

Authorized(reading) == MutationAuthority(run.last, reading, AuthorityBounds(run.request.grant))

\* The entry of the adapter: authority again, then the ordinary file against BEFORE.
EnterAdapter(reading) ==
  LET grant == run.request.grant
  IN  /\ run.at = "LOCKED"
      /\ Observes(reading)
      /\ CASE ~Authorized(reading) -> Deny(reading)
           [] Authorized(reading) /\ worktree # Operation(run.request).before -> FailsUnstarted
           [] OTHER ->
                /\ Journals(grant, "BEFORE_VERIFIED", 0)
                /\ run' = [run EXCEPT !.at = "VERIFIED", !.last = reading]
                /\ UNCHANGED <<governed, lock, current>>
      /\ UNCHANGED <<callerVars, draft, completed>>

\* The authority of the preparation.
StartMutation(reading) ==
  /\ run.at = "VERIFIED"
  /\ Observes(reading)
  /\ IF Authorized(reading)
     THEN /\ Journals(run.request.grant, "MUTATION_STARTED", 0)
          /\ run' = [run EXCEPT !.at = "STARTED", !.last = reading]
          /\ UNCHANGED <<governed, lock, current>>
     ELSE Deny(reading)
  /\ UNCHANGED <<callerVars, draft, completed>>

\* The authority of the commit, recorded in the journal.
AuthorizeCommit(reading) ==
  /\ run.at = "STARTED"
  /\ Observes(reading)
  /\ IF Authorized(reading)
     THEN /\ Journals(run.request.grant, "COMMIT_AUTHORITY_VERIFIED", 0)
          /\ run' = [run EXCEPT !.at = "COMMITTING", !.last = reading]
          /\ UNCHANGED <<governed, lock, current>>
     ELSE Deny(reading)
  /\ UNCHANGED <<callerVars, draft, completed>>

\* Compare-and-replace of the authoritative content: the call ends without a further reading,
\* every time is that of the commit authority.
Replaces ==
  /\ run.at = "COMMITTING"
  /\ current = Operation(run.request).before
  /\ current' = Operation(run.request).replacement
  /\ run' = None
  /\ UNCHANGED <<clock, callerVars, draft>>

\* Verification, evidence, finalization and release succeed.
Replace ==
  /\ Replaces
  /\ Journals(run.request.grant, "FINALIZED_SUCCESS", 1)
  /\ lock' = None
  /\ Answer("COMPLETED", Evidence("APPLIED", run.last.wall),
            [stage |-> "FINALIZED_SUCCESS", lock |-> "RELEASED"], run.last.wall)
  /\ completed' = completed \union {run.request.grant}

\* The provider refuses: recovery is required, and there is no evidence.
ReplacementRefused ==
  /\ run.at = "COMMITTING"
  /\ RequireRecovery("COMMIT_AUTHORITY_VERIFIED", 0)
  /\ FailWithoutEvidence
  /\ run' = None
  /\ UNCHANGED <<clock, callerVars, draft, completed, current>>

\* The adapter does not know whether the provider replaced, or cannot journal that it did: it
\* leaves evidence of the ambiguity, which a record takes if its transaction is one to
\* finalize with.
ReplacementAmbiguous ==
  LET operation == Operation(run.request)
      Answers(stage) == Answer("FAILED",
                               Evidence("RECOVERY_REQUIRED_JOURNAL_AMBIGUITY", run.last.wall),
                               [stage |-> stage, lock |-> "RETAINED"], run.last.wall)
  IN  /\ run.at = "COMMITTING"
      /\ current = operation.before
      /\ \E replaced \in {0, 1} :
           /\ current' = IF replaced = 1 THEN operation.replacement ELSE current
           /\ \/ /\ LeftAt({"RECOVERY_REQUIRED"}, replaced)
                 /\ Answers("RECOVERY_REQUIRED")
              \/ /\ LeftAt({"COMMIT_AUTHORITY_VERIFIED", "RECOVERY_REQUIRED"} \union
                           (IF replaced = 1 THEN {"PHYSICAL_APPLIED"} ELSE {}), replaced)
                 /\ Answers("COMMIT_AUTHORITY_VERIFIED")
              \/ /\ replaced = 1
                 /\ LeftAt({"PHYSICAL_APPLIED", "AFTER_VERIFIED", "RECOVERY_REQUIRED"}, replaced)
                 /\ Answers("PHYSICAL_APPLIED")
      /\ run' = None
      /\ UNCHANGED <<clock, callerVars, draft, completed>>

\* Replaced, but AFTER cannot be proved from the projection.  A record does not take evidence
\* of that: the catch block throws, and nothing is answered.
ProjectionUnproven ==
  /\ Replaces
  /\ \E stage \in {"COMMIT_AUTHORITY_VERIFIED", "PHYSICAL_APPLIED"} :
       /\ RequireRecovery(stage, 1)
       /\ Answer("FAILED", Evidence("RECOVERY_REQUIRED_AUTHORITATIVE_PROJECTION", run.last.wall),
                 [stage |-> stage, lock |-> "RETAINED"], run.last.wall)
  /\ UNCHANGED completed

\* Replaced and verified, but the repository cannot be observed again or the evidence not
\* appended: an error without evidence.
EvidenceMissing ==
  /\ Replaces
  /\ RequireRecovery("AFTER_VERIFIED", 1)
  /\ FailWithoutEvidence
  /\ UNCHANGED completed

\* Replaced and verified, the evidence appended, but that stage or the success not journaled
\* or the lock not released, which may be gone all the same.  The record is finalized FAILED
\* with the evidence that the patch was APPLIED.
FinalizationFails ==
  LET Answers(stage) == Answer("FAILED", Evidence("APPLIED", run.last.wall),
                               [stage |-> stage, lock |-> "RETAINED"], ObservedAt)
  IN  /\ Replaces
      /\ \/ /\ LeftAt({"RECOVERY_REQUIRED"}, 1)
            /\ Answers("RECOVERY_REQUIRED")
         \/ /\ LeftAt({"AFTER_VERIFIED", "EVIDENCE_RECORDED", "RECOVERY_REQUIRED"}, 1)
            /\ Answers("AFTER_VERIFIED")
         \/ /\ LeftAt({"EVIDENCE_RECORDED", "FINALIZED_SUCCESS", "RECOVERY_REQUIRED"}, 1)
            /\ Answers("EVIDENCE_RECORDED")
         \/ /\ Journals(run.request.grant, "FINALIZED_SUCCESS", 1)
            /\ lock' \in {lock, None}
            /\ Answers("FINALIZED_SUCCESS")
      /\ UNCHANGED completed

Orchestrates ==
  /\ run # None
  /\ \/ \E reading \in Readings :
          \/ ValidateRequest(reading)
          \/ EnterAdapter(reading)
          \/ StartMutation(reading)
          \/ AuthorizeCommit(reading)
     \/ ProviderDenied
     \/ Coordinate
     \/ Replace
     \/ ReplacementRefused \/ ReplacementAmbiguous
     \/ ProjectionUnproven \/ EvidenceMissing \/ FinalizationFails

----------------------------------------------------------------------------
Init ==
  /\ clock = [mono |-> 0, offset |-> 0, adjusted |-> 0]
  /\ root = [files |-> "ABSENT", key |-> 0]
  /\ worktree = InitialContent
  /\ current = InitialContent
  /\ parents = {} /\ held = {} /\ governed = {} /\ completed = {}
  /\ journal = [g \in {} |-> None]
  /\ lock = None /\ draft = None /\ run = None

Next ==
  \/ Provision \/ RemoveRoot
  \/ Develop
  \/ Authorize
  \/ Prepares
  \/ Submits
  \/ Orchestrates

Spec == Init /\ [][Next]_vars

----------------------------------------------------------------------------
Stages == {"PREPARED", "LOCKED", "BEFORE_VERIFIED", "MUTATION_STARTED",
           "COMMIT_AUTHORITY_VERIFIED", "PHYSICAL_APPLIED", "AFTER_VERIFIED",
           "EVIDENCE_RECORDED", "FINALIZED_SUCCESS", "FINALIZED_FAILED", "RECOVERY_REQUIRED"}

\* The one type invariant of this module.
TypeOK ==
  /\ clock.mono \in 0..MaxTime /\ clock.adjusted \in 0..MaxAdjustments
  /\ root.files \in {"ABSENT", "INCOMPLETE", "COMPLETE"} /\ root.key \in 0..MaxKeys
  /\ worktree \in Content \union {Uncommitted} /\ current \in Content
  /\ Cardinality(held) <= MaxRequests
  /\ DOMAIN journal \subseteq {r.grant : r \in held}
  /\ \A g \in DOMAIN journal : journal[g].stage \in Stages /\ journal[g].applied \in Nat
  /\ lock = None \/ lock \in DOMAIN journal
  /\ run = None \/ draft = None

\* Every request that was prepared carries authority within authority, although each part of
\* it was issued at another reading of a clock that may be set in between: the approval falls
\* into the identity and the grant into the approval, and none of it outlives the G4 parent
\* (before whose issue it may begin: a clock set back is not compared with the parent's).
NestedAuthority ==
  \A r \in held :
    LET grant == r.grant
        approval == grant.approval
    IN  /\ approval.identity.issuedAt <= approval.issuedAt
        /\ approval.issuedAt <= grant.issuedAt
        /\ grant.issuedAt < grant.expiresAt
        /\ grant.expiresAt <= approval.expiresAt
        /\ approval.expiresAt <= approval.identity.expiresAt
        /\ grant.parent # None => grant.expiresAt <= grant.parent.expiresAt

\* What the four comparisons of an orchestration may round away.
RoundedAway == (4 * (Resolution - 1)) \div Resolution

\* Setting the clock during an orchestration does not stretch the authority: when the commit
\* is authorized, the monotonic time that has passed since the orchestration's first reading
\* is less than what that reading left of the grant, up to the milliseconds that the four
\* comparisons round away.
CommittedWithinAuthority ==
  (run # None /\ run.at = "COMMITTING") =>
    run.first.wall + (run.last.mono - run.first.mono) \div Resolution
      < run.request.grant.expiresAt + RoundedAway

\* A request is answered COMPLETED only if its own transaction replaced the target, and no
\* transaction replaces it twice, however often requests and records are submitted again.
CompletedIsAppliedOnce ==
  /\ \A g \in DOMAIN journal : journal[g].applied <= 1
  /\ \A g \in completed : Stage(g) = "FINALIZED_SUCCESS" /\ Applied(g) = 1

\* All finalized answers of one grant agree, and what they say is true, also of a transaction
\* whose finalization failed: evidence of an applied patch lies in every interval of its
\* authority and its patch was applied, one whose authority was denied replaced nothing, a
\* stage reported final is the journal's, a lock reported released is not held, and nothing
\* is answered COMPLETED before both.
AnswersAgreeWithWorld ==
  \A p \in governed : p.record.evidence # None =>
    LET evidence == p.record.evidence
        reported == p.record.transaction
    IN  /\ \A q \in governed :
             q.record.evidence # None /\ q.record.evidence.grant = evidence.grant
               => q = p
        /\ p.lifecycle.createdAt <= p.lifecycle.terminalAt
        /\ evidence.outcome = "APPLIED" =>
             /\ Applied(evidence.grant) = 1
             /\ \A interval \in AuthorityBounds(evidence.grant) :
                  Valid([wall |-> evidence.timestamp], interval)
        /\ evidence.outcome = "NOT_STARTED_AUTHORITY_DENIED" => Applied(evidence.grant) = 0
        /\ reported.stage \in Terminal => Stage(evidence.grant) = reported.stage
        /\ reported.lock = "RELEASED" => lock # evidence.grant
        /\ p.record.finalization = "COMPLETED" =>
             /\ evidence.outcome = "APPLIED"
             /\ reported = [stage |-> "FINALIZED_SUCCESS", lock |-> "RELEASED"]
=============================================================================
