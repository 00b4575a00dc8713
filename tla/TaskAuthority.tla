--------------------------- MODULE TaskAuthority ---------------------------
(***************************************************************************)
(* What a human authorizes when a governed task of a natural session is    *)
(* approved: the task, the envelope that contains its microreads           *)
(* (cli/natural-task-authority.js), the authorization with its validity    *)
(* (cli/natural-task-envelope-authorization.js) and the requests for       *)
(* evidence that are evaluated against both.                               *)
(*                                                                         *)
(* A task and a request are records; their texts are the values the model  *)
(* is given.  Instants are natural numbers.                                *)
(***************************************************************************)
EXTENDS Naturals, Sequences, FiniteSets

CONSTANTS
  Target,            \* paths of the workspace, canonical and relative
  JavaScript,        \* those a JavaScript validation may name
  Outside,           \* a path that does not stay inside the workspace
  Objective,         \* wordings of an analysis
  MaxEvidenceSteps,  \* microreads of an analysis: 8 in the code
  Validity           \* of an authorization: 10 minutes in the code

ASSUME TaskAssumption ==
  /\ JavaScript \subseteq Target
  /\ Outside \notin Target
  /\ MaxEvidenceSteps \in Nat \ {0}
  /\ Validity \in Nat \ {0}

NoTarget == "no target"
NoTask == [kind |-> "NONE", objective |-> "none", target |-> NoTarget]

(***************************************************************************)
(* Tasks                                                                   *)
(***************************************************************************)

\* What the three detectors make of a line: a listing has one objective, a file task the
\* one its file gives it, an analysis keeps the words of the human.
ListTask == [kind |-> "WORKSPACE_LIST", objective |-> "list", target |-> NoTarget]
FileTask(kind, target) == [kind |-> kind, objective |-> target, target |-> target]
FileTasks == {FileTask(kind, target) : kind \in {"READ_FILE", "READ_AND_EXPLAIN_FILE"},
                                       target \in Target \union {Outside}}
AnalysisTasks == [kind : {"PROJECT_ANALYSIS"}, objective : Objective, target : {NoTarget}]
Tasks == {ListTask} \union FileTasks \union AnalysisTasks

\* The SHA-256 of the whole task: two tasks share it when they are the same task.
Fingerprint(task) == <<task.kind, task.objective, task.target>>

\* Mutant: an analysis may take one microread more than its limit.
TaskProfileOneMore ==
  [WORKSPACE_LIST        |-> [kinds |-> {"WORKSPACE_FILES"}, scope |-> "NONE", steps |-> 1],
   READ_FILE             |-> [kinds |-> {"READ_FILE"}, scope |-> "EXACT_TARGET", steps |-> 1],
   READ_AND_EXPLAIN_FILE |-> [kinds |-> {"READ_FILE"}, scope |-> "EXACT_TARGET", steps |-> 1],
   PROJECT_ANALYSIS      |-> [kinds |-> {"WORKSPACE_FILES", "READ_FILE", "VALIDATE_JS"},
                              scope |-> "WORKSPACE_DESCENDANTS", steps |-> MaxEvidenceSteps + 1]]

TaskProfile ==
  [WORKSPACE_LIST        |-> [kinds |-> {"WORKSPACE_FILES"}, scope |-> "NONE", steps |-> 1],
   READ_FILE             |-> [kinds |-> {"READ_FILE"}, scope |-> "EXACT_TARGET", steps |-> 1],
   READ_AND_EXPLAIN_FILE |-> [kinds |-> {"READ_FILE"}, scope |-> "EXACT_TARGET", steps |-> 1],
   PROJECT_ANALYSIS      |-> [kinds |-> {"WORKSPACE_FILES", "READ_FILE", "VALIDATE_JS"},
                              scope |-> "WORKSPACE_DESCENDANTS", steps |-> MaxEvidenceSteps]]

\* normalizeRelativeTarget(): a path that leaves the workspace has no canonical form.
Normalizes(target) == target \in Target

\* createNaturalTaskAuthorityEnvelope() throws for an exact target outside the workspace.
HasEnvelope(task) ==
  /\ task.kind \in DOMAIN TaskProfile
  /\ TaskProfile[task.kind].scope = "EXACT_TARGET" => Normalizes(task.target)

Envelope(task) ==
  LET profile == TaskProfile[task.kind]
  IN  [task |-> Fingerprint(task), kinds |-> profile.kinds, scope |-> profile.scope,
       exact |-> IF profile.scope = "EXACT_TARGET" THEN {task.target} ELSE {},
       steps |-> profile.steps]

(***************************************************************************)
(* Requests for evidence                                                   *)
(***************************************************************************)

Kinds == {"WORKSPACE_FILES", "READ_FILE", "VALIDATE_JS"}
Request(kind, target) == [kind |-> kind, target |-> target]
InventoryRequest == Request("WORKSPACE_FILES", NoTarget)
NoRequest == Request("NONE", NoTarget)

\* What normalizeEvidenceRequest() lets through: an inventory names no path, a read or a
\* validation names one, wherever it leads.
Requests ==
  {InventoryRequest}
  \union [kind : {"READ_FILE", "VALIDATE_JS"}, target : Target \union {Outside}]

\* evidenceRequestToIntent(): the capability a request needs.
Capability(kind) ==
  CASE kind = "WORKSPACE_FILES" -> "GIT_READ"
    [] kind = "READ_FILE" -> "FILESYSTEM_READ"
    [] kind = "VALIDATE_JS" -> "PROCESS_VALIDATION"

\* evaluateNaturalEvidenceRequest(): is the request inside the envelope of the task.
Contained(envelope, request, step) ==
  /\ step < envelope.steps
  /\ request.kind \in envelope.kinds
  /\ IF request.kind = "WORKSPACE_FILES" THEN request.target = NoTarget
     ELSE /\ Normalizes(request.target)
          /\ envelope.scope # "NONE"
          /\ envelope.scope = "EXACT_TARGET" => request.target \in envelope.exact
          /\ request.kind = "VALIDATE_JS" => request.target \in JavaScript

(***************************************************************************)
(* Authorizations                                                          *)
(***************************************************************************)

Risk(kind) == IF kind \in {"WORKSPACE_LIST", "WORKSPACE_FILES"} THEN 0 ELSE 1

\* createNaturalTaskEnvelopeProposal(), for the workspace of the session: no mutation, no
\* credential and no external effect is ever part of it.
Proposal(task, at) ==
  [envelope |-> Envelope(task), risk |-> Risk(task.kind),
   validFrom |-> at, expires |-> at + Validity]

\* authorizeNaturalTaskEnvelope(): the exact proposal, decided by the human at an instant.
Authorization(task, at) == [proposal |-> Proposal(task, at), authorizedAt |-> at]

CurrentlyValid(authorization, now) ==
  /\ authorization.proposal.validFrom <= now
  /\ now < authorization.proposal.expires

\* evaluateNaturalTaskEnvelopeOperation(): a read that neither expands the risk nor the
\* capabilities of a valid authorization and stays in its envelope.
OperationContained(authorization, request, step, now) ==
  /\ CurrentlyValid(authorization, now)
  /\ Risk(request.kind) <= authorization.proposal.risk
  /\ request.kind \in authorization.proposal.envelope.kinds
  /\ Contained(authorization.proposal.envelope, request, step)

(***************************************************************************)
(* Reuse of an authorization for the same task                             *)
(***************************************************************************)

\* The provenance of a reuse: what createAuthorizedNaturalTaskReuse() binds of it.
Provenance(task, authorization, session, at) ==
  [task |-> Fingerprint(task), scope |-> Fingerprint(task), kind |-> task.kind,
   objective |-> task.objective, risk |-> authorization.proposal.risk,
   session |-> session, validFrom |-> authorization.proposal.validFrom,
   authorizedAt |-> authorization.authorizedAt, reusedAt |-> at,
   expires |-> authorization.proposal.expires]

\* Mutant: the reuse is not compared with the fingerprint of the task that waits.
AcceptsReuseOfKind(pending, provenance) ==
  /\ pending # NoTask
  /\ provenance.kind = pending.kind
  /\ provenance.risk = Risk(pending.kind)
  /\ provenance.authorizedAt >= provenance.validFrom
  /\ provenance.reusedAt >= provenance.authorizedAt
  /\ provenance.reusedAt < provenance.expires

\* reuseAuthorizedGovernedTask(): does the pending task take this provenance for a decision.
AcceptsReuse(pending, provenance) ==
  /\ pending # NoTask
  /\ provenance.task = Fingerprint(pending)
  /\ provenance.scope = Fingerprint(pending)
  /\ provenance.objective = pending.objective
  /\ provenance.kind = pending.kind
  /\ provenance.risk = Risk(pending.kind)
  /\ provenance.authorizedAt >= provenance.validFrom
  /\ provenance.reusedAt >= provenance.authorizedAt
  /\ provenance.reusedAt < provenance.expires
=============================================================================
