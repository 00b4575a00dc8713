# Verification of Surgical DevOps

TLA+ specifications of the parts of Surgical DevOps whose correctness depends on the order of things. They
follow one change from the human to the file and back:

* a human types into a natural session, approves a task, and a provider decides what evidence to acquire and
  answers (`InteractiveSession`);
* a mission plans repairs, asks for authority and qualifies what was written (`NaturalSession`);
* a human authorization is spent once on one mutation, whose result is projected and validated
  (`NaturalDevelopment` over `AuthorizationStore`);
* a governed patch is prepared and orchestrated under a clock that may be set (`GovernedOperation`);
* its mutation changes one file under a lock, a journal and a grant, and is recovered after a crash
  (`GovernedMutation`);
* the servers of the physical control plane record an operation in a shared registry before they dispatch it
  (`PhysicalControlPlane`).

All paths below are relative to `src/accelerator/` unless they start with `docs/` or `tests/`. `PROJECT.json`
names, for every definition that models code, the lines it models.

## 1. The system

### 1.1 Components

| Component | Files | State | Operations | Who uses it |
|---|---|---|---|---|
| Mutation transaction | `core/mutation-transaction.js`, `core/mutation-recovery.js` | none: immutable values with a stage history | create, bind lock, bind commit authority, bind recovery evidence, transition, classify | coordinator, journal, recovery |
| Mutation journal | `adapters/mutation-journal-adapter.js` | one directory per transaction, one file per record | create, append, reopen | coordinator, recovery |
| Mutation lock | `adapters/mutation-lock-adapter.js` | one lock file per canonical target, one `.recovery` claim file | acquire, release, inspect, acquire/release claim | coordinator, recovery |
| Coordinator | `core/surgical-orchestrator.js` 500-623 | the transaction value it holds, `lockRetained` | advance, verifyCommitAuthority, requireRecovery, failBeforeCommit, releaseFinalized | orchestrate(), patch adapter |
| Patch adapter | `adapters/filesystem-patch-adapter.js` | none | patchFileWithGrant, inspectMutationTarget, verifyAppliedMutation | orchestrate(), recovery |
| Mutation provider | `core/content-addressed-mutation-provider.js`, `core/git-manifest-cas.js` | a Git ref to a manifest | bootstrap, compare-and-swap | patch adapter |
| Managed projection | `core/git-manifest-materializer.js` | one file per content and target, outside the worktree | materialize, recover, verify | provider, validation |
| Recovery | `adapters/mutation-recovery-adapter.js` | none | recover | `recoverGovernedMutation` |
| Authority and clock | `core/authoritative-clock.js`, `core/human-identity-assertion.js`, `core/risk-classification.js`, `core/capability-grant.js`, `core/local-offline-human-authority-store.js`, `cli/natural-development-*-authorization.js` | the previous reading; the directory of the local human authority | observe, evaluate, sign, verify, approve, grant, provision | preparation of a patch, orchestrate(), patch adapter |
| Orchestration | `core/surgical-orchestrator.js`, `core/operation-record.js`, `core/state-boundary.js`, `core/change-plan.js` | the operation record, its lifecycle | validate, classify, coordinate, answer, replay | governed patch dispatch |
| Physical control plane | `core/control-plane-physical-service.js`, `adapters/durable-control-plane-physical-submission-registry.js`, `core/governed-physical-executor.js` | a registry file with a generation, a writer record, each server's copy of the registry and `poisoned` flag | submit, reconcile, inspect; claim, observe, get, persist | the product runtime, local clients |
| Writer recovery | `adapters/control-plane-registry-writer-recovery.js` | one claim file per writer record | inspect, recover | operators |
| Authorization store | `adapters/natural-development-authorization-consumption-store.js`, `-monotonic-witness.js`, `-linearizable-consumption.js`, `-store-transition.js` | one envelope per authorization, the witness's events and pointer outside the store, one lock per authorization, an integrity key | claim, dispatch, consume, load | natural development |
| Natural development | `cli/natural-development-r3-composition.js`, `-validation-loop.js`, `-recovery-reconciliation.js` | what its parts keep | compose, validate, reconcile | the natural session |
| Mission | `core/natural-agentic-mission.js` | none: an immutable value with a plan, grants and a hash chain of events | create, plan, grant, record, complete, resume | repair loop, session |
| Integrated gateway | `core/integrated-governed-agent-gateway.js` | none | dispatchGatewayRequest | repair loop, session |
| Repair loop | `cli/natural-governed-repair-loop.js` | an immutable loop value | create, investigate, authorize, propose, continue, deny, cancel | session |
| Mission continuity | `cli/natural-mission-continuity.js`, `adapters/natural-mission-continuity-store.js` | one durable record per workspace | checkpoint, persist, restore | session |
| Natural session | `cli/surgical.js`, `cli/natural-session-control.js` | the queue of lines, the task that waits, the governed context, the evidence cache, the conversation | one handler per line | the human |
| Cognitive session | `cli/natural-cognitive-session.js`, `cli/natural-ai-runtime.js`, `cli/natural-provider-discovery.js`, `core/ai-provider*.js` | the preference, the composition of a provider, turns, decisions | select, disable, reset, respond, decide | natural session, evidence loop |
| Evidence loop | `cli/natural-recursive-evidence-loop.js`, `cli/natural-evidence-request.js` | the evidence and requests of one analysis | plan, qualify, acquire, compose | natural session |
| Task authority | `cli/natural-task-authority.js`, `cli/natural-task-envelope-authorization.js`, `cli/natural-governed-task.js` | none | propose, authorize, evaluate, reuse | natural session |
| Read-only dispatch | `cli/governed-readonly-dispatch.js`, `adapters/filesystem-read-adapter.js`, `adapters/git-read-adapter.js` | none | read a file, list the inventory | evidence loop |

Without a module: the control plane of version 1, local IPC, production enablement, durable task state and
memory, process execution and sandboxes, the product runtime, telemetry, durability primitives, and the
offline tools. Section 5 says why; `PROJECT.json` lists every component with its status.

### 1.2 How they interact

The *session* handles one line after the other. A line that asks for a governed task makes a proposal; a later
*yes* authorizes it, the handler binds a context to the physical workspace, and an analysis then asks the
cognitive session for decisions, each of which may request one more microread. The microreads go through the
read-only dispatch or come from the evidence cache. While a handler waits for a provider the human may close
the session or select another provider with the next line, the clock goes on and other programs write into the
workspace.

A *mission* is a value that the session replaces. The repair loop turns it step by step into the next one,
through the gateway, which revalidates the workspace before every physical operation. After each handler the
session writes a checkpoint to the durable record of the workspace; a new process starts from that record.

A *repair or a development* that a human authorized is dispatched through
`natural-development-r3-composition`: the authorization is claimed in the signed store, whose every change is
first prepared and then committed in a witness outside of it; the governed patch is prepared, submitted and
orchestrated; then the consumption is recorded under a lock.

`orchestrate()` validates the request and the record, classifies and plans, creates a coordinator (journal,
then lock), and calls the patch adapter. The adapter checks the authority three times, journals every stage
through the coordinator, and asks the provider to compare and replace the target. The orchestrator records the
evidence, finalizes the journal and releases the lock. All of these run in one process, but several processes
may work on the same target at once, and each may be killed. Recovery runs in a process of its own: it reopens
the journal, looks at the target and the lock, asks a port whether the owner of the lock has ended, takes the
claim file, classifies, and finalizes. The processes share nothing but the file system: the journal
directories, the lock and claim files, the worktree file, and the Git ref.

A control-plane server answers many requests in one event loop. `submit()` claims the operation: `claim()`
refreshes the server's copy of the registry, adds the record in memory and calls `persist()`, which links a
writer record, checks that the file is still the one the server knows, renames the new file over it, confirms
it and unlinks the writer record. Only then the executor is awaited, and what it answers is recorded by
`observe()`, through the same `persist()`. Nothing in `claim()` and `observe()` awaits, so a server's other
requests wait for the end of a turn; another server, or a recovery, interleaves with every file operation.
Recovery reads the writer record, compares the registry with the one the record names, asks external evidence
whether the process has ended, creates a claim file for exactly this record, checks everything again and
unlinks the record.

### 1.3 What is hard

* An append is published by `link(2)` and confirmed by a directory flush, so it may throw after it took
  effect; a process can be one record behind its own journal.
* Locks and claims are never taken over because of age: whoever crashes leaves them behind.
* Recovery reads the journal and the file before it knows that the owner ended and before it holds the claim,
  and acts on both afterwards.
* Two requests for one transaction, and two recoveries of one transaction, run the same code on copies that
  may be stale.
* A server's memory runs ahead of the registry file when a write fails, and behind it when another server
  writes.
* Between the dispatch and the recording of its outcome the executor may have had its effect and failed, the
  server may end, and another server may look.
* The store of authorizations may be put back to an earlier complete state; only the witness outside it knows.
* The ref of a target may be swapped and its projection missing: neither a success nor undone.
* The four documents of an authority are issued at four readings of a clock that may be set in between, only
  the expiry of the authorization they derive from is looked at until the composition evaluates it at a fifth,
  and what was rejected, answered or left to recovery may be submitted again, also after a later patch.
* A mission is recorded after the mutation it speaks of; a process that ends between the two starts again from
  an older loop.
* A yes is for the task that waits, not for the line typed last; a reuse is accepted on one observation of the
  world and executed on the next; a file changes between the search of the cache and the use of the entry.
* A provider is changed while turns, decisions and a running handler hold what another one answered.

### 1.4 What makes each component correct

| Component | Properties |
|---|---|
| Governed patch | one process at a time on a target; applied at most once; the answer agrees with the file; a journal only grows; a commit follows an authority that was evaluated after the lock |
| Mutation recovery | an unfinished transaction keeps its lock until its outcome is established; reconciliation ends |
| Physical control plane | recorded before dispatched; dispatched at most once; a durable write never overwrites another; records only move forward; succeeded only with an effect |
| Writer recovery | only the record of an ended process is removed, once |
| Authorization store | an authorization dispatches at most once, whatever copy of the store is restored; the witness only grows |
| Natural development | consumed means applied and readable; a reconciliation is never contradicted by what follows |
| Authority and clock | authority nests; setting the clock does not stretch it; answers to repeated submissions agree with each other and with the target |
| Missions and repair loop | a GREEN mission was qualified after its last change; a target is written once; a cancelled mission never writes; plans stay normal |
| Natural session | only approved tasks run; evidence is current and stays under its authorization; answers come from the selected provider; every line is handled to its end |

## 2. Modules

| Module | What it is |
|---|---|
| `MutationTransaction` | the values: stages, transitions, histories, well-formedness, classification |
| `GovernedMutation` | the system: runners, recoverers, journal, lock, claim, provider, worktree, crashes, faults; its properties |
| `AtomicPatch` | what a governed patch promises: one transaction at a time (`Exclusive`), each applied at most once and on the content it was made for, answered once and truthfully (`Honest`) |
| `AtomicPatchRefinement` | the refinement mapping from `GovernedMutation` to `AtomicPatch` |
| `GovernedMutationInvariant` | the inductive invariants `IInv`, `FullInv` and `TruthInv` |
| `GovernedMutationProofs` | typing lemmas; `IInv` is inductive; theorems `TypeCorrect`, `Serialized`, `LockRetained` |
| `GovernedMutationSafety` | `FullInv` and `TruthInv` are inductive; theorems `Inductive`, `Truth`, `KnownEffects`, `AppendOnly`, `JournaledCommit`, `AuthorizedCommit`, `ProvenCompletion`, `AppliedOnce`, `TruthfulOutcome`, `Implements` |
| `SubmissionRecord` | the record of one operation: states, ranks, which observation may follow |
| `SubmissionLedger` | what the control plane promises: recorded, then dispatched once, then an effect, then succeeded |
| `PhysicalControlPlane` | the system: servers, requests, the registry file, the writer record, its recovery; its properties, and the refinement mapping to `SubmissionLedger` |
| `PhysicalControlPlaneInvariant` | the inductive invariant `IInv` |
| `PhysicalControlPlaneProofs` | the invariant is inductive; theorems `TypeCorrect`, `WriterAlone`, `OnceDispatched`, `OnlyOrphans`; the step simulation and theorem `Implements` |
| `AgenticMission` | the mission value: plans, grants, events, completion, restart, resumption |
| `GatewayDispatch` | one call of the integrated gateway: its checks in their order and what each answer writes in the mission |
| `RepairLoop` | the repair loop value: targets, attempts, the proposal that waits |
| `GovernedRepair` | what the missions promise about the targets: one permit at a time, used at most once, on the content that was reviewed |
| `NaturalSession` | the missions of one workspace as the session drives them, with the durable record, endings and restarts; the refinement mapping to `GovernedRepair` |
| `NaturalSessionInvariant` | the inductive invariant `IInv` of the missions |
| `NaturalSessionProofs` | `IInv` is inductive; theorems `RecordNeverBehind`, `PlansAreNormal`, `GreenIsEarned`, `WritesOnce`, `CancelledStaysUnwritten`, `ImplementsRepairs` |
| `AuthorizationLedger` | what the authorization store promises: claimed, dispatched at most once, consumed |
| `AuthorizationStore` | the system: envelopes, the witness, its pointer, locks, processes, a store put back, a revoked key; the refinement mapping |
| `AuthorizationStoreInvariant` | the inductive invariant `StoreInv` |
| `AuthorizationStoreProofs` | theorems `StoreIsSound`, `OnceDispatched`, `WitnessGrowsOnly`, `StoreImplementsLedger` |
| `AuthorizedPatch` | what a development promises from end to end: an authorization of the ledger spent on one patch of `AtomicPatch` |
| `NaturalDevelopment` | composition: the store, `AtomicPatch` for the mutation, the manifest and its projection, validation, recovery and reconciliation; the refinement mapping to `AuthorizedPatch` |
| `NaturalDevelopmentInvariant` | the inductive invariants `IInv` and `TruthInv` |
| `NaturalDevelopmentProofs` | development implements the store's specification, and inherits its theorems; theorems `ConsumesApplied`, `UnreadableHasOwner`, `TruthHolds`, `ReconciliationIsTrue`, `DevelopmentImplementsPatch`, `PromiseHasBothParts` |
| `AuthoritativeClock` | what is decided about readings of the wall and the monotonic clock |
| `HumanAuthority` | the documents: challenge, identity, approval, G4 authorization, capability grant |
| `GovernedOperation` | one caller that prepares and submits patches; the orchestration under a clock that may be set |
| `GovernedOperationInvariant` | the inductive invariant `IInv` |
| `GovernedOperationProofs` | theorems `AuthorityNests`, `CommitsInTime`, `CompletesOnce`, `AnswersAreTrue` |
| `TaskAuthority` | tasks, envelopes, authorizations and requests of a natural session |
| `CognitiveProvider` | selection, composition, invocation and memory of the provider of a session |
| `WorkspaceEvidence` | contexts, inventories, governed reads, the evidence cache |
| `InteractiveSession` | the session: lines, handlers, the evidence loop, the clock, the workspace, the end of the input |
| `InteractiveSessionInvariant` | the inductive invariant `IInv` of the session |
| `InteractiveSessionProofs` | theorems `ApprovedTasksOnly`, `AnswersFollowSelection`, `EvidenceIsAuthorized`, `AcquiredIsCurrent` |
| `MC...` | the instances TLC checks |

### 2.1 State and actions of `GovernedMutation`

A *runner* is a process that calls `orchestrate()` once; it is also its own lock token, because every
acquisition draws a fresh token. A *recoverer* calls `recoverGovernedMutation()` again and again. `pc[p]` is
the next operation of a process on something shared; `memory[p]` is the transaction value it holds.
`journal[t]` is the history the record files of `t` spell, `lock` the lock file (owner token and whether it is
completely written), `claim` the `.recovery` file, `worktree` the file, `manifest` the content the Git ref
names. `seen[p]` holds what a recoverer observed and, after `CheckOwner`, its preliminary classification.
`commits` and `restores` are history variables that only properties read.

One action is one operation on shared state together with the computation before it. The guards are the code's
conditions; the alternatives of an action are its outcomes:

* `Publish` is `append()`: accepted and confirmed; accepted and thrown; refused or thrown without effect.
* `Reopen`, `CreateDirectory`, `PublishPrepared`, `OpenLock`, `OpenLockFails`, `WriteLock`, `BindLock` are
  `createMutationCoordinator`.
* `VerifyBefore` ... `DenyCommit` are the adapter up to the physical commit; a denial without a clock reading
  goes to the orchestrator's recovery branch, one with a reading to `failBeforeCommit`.
* `Bootstrap`, `Replace`, `ReplaceDenied` are the provider. `ContentAddressed` chooses between the
  Git-manifest provider and one that replaces the file through the same interface
  (`core/mutation-provider.js`), which the adapter supports in full, the compensating restore included.
* `RecordApplied` ... `FinalizeSuccess`, `AdapterRecovery` ... `FinalizeRestored`, `ReleaseCheck`,
  `ReleaseUnlink` are the rest of the success and error paths.
* `RecoverReopen` ... `DropClaim` are `recover()` in the order of the code.
* `Crash` ends a process between two operations. `EditWorktree` is anyone who writes the file.

Abstracted: hashes are the contents themselves; fingerprints are the identity of the transaction; the record
chain (`previousHash`, `sequence`) is the order of the history; clock evaluation is a free choice between
allowed and denied. A recovery evidence is a mark, because two evidences never have the same fingerprint.

### 2.2 State and actions of `PhysicalControlPlane`

A *server* is one process; it opens the registry once and may end at any operation, and a restart is another
server. A *request* is one call of `submit`, `reconcile` or `inspect` on one server. `registry` is the file:
its generation and, for every operation, its record or `Absent`. `committed[s]` is the file as server `s` last
knew it (the generation and content the code compares), `memory[s]` its records in memory, which `claim()` and
`observe()` change before they write. `lock` is the writer record; the pair of a request and the purpose of
its write is the record's owner token, since a request writes at most once for each purpose.

`turn[s]` is the request in whose turn of the event loop the server is. It is taken when `claim()` or
`observe()` starts and given back where the code returns to an `await`: before the executor and at the answer.
`Evidence` and `Execute` happen outside of any turn. A thrown error of the write of a success is caught and
settled as a failure within the same turn, which is what `Throw` does.

| Code | Actions |
|---|---|
| opening a registry | `Open` |
| `submit()`, `claim()` | `SubmitNew`, `CallEnds` |
| `reconcile()`, `inspect()`, `get()` | `Look`, `CallEnds`, `Evidence` |
| `execute()` of the executor | `Execute` |
| `observe()` | `Observe`, `ObserveRefused` |
| `acquireWriterLock()` | `Acquire`, `AcquireOversized`, `AcquireContended`, `AcquireFails`, `UndoAcquire` |
| `persist()` | `Check`, `Rename`, `Confirm`, `Fail` |
| `releaseWriterLock()` | `Release` |
| `recover()` | `ReadOwner`, `Inspect`, `InspectEvidence`, `ClaimRecovery`, `Recheck`, `Authorize`, `FinalCheck`, `RemoveOwner`, `PublishResult`, `AbandonClaim` |
| a process ends | `Crash`, `RecovererCrash` |

Abstracted: a request with its idempotency key, principal and bindings is an *operation*, because a request
whose bindings differ is refused before it touches a record. States of equal rank that the code treats alike
are one. The registry's size is the number of its records and of their evidences. Writing and flushing
temporary files before a link or rename is part of the operation that publishes them, since nobody reads them
before. `Release` and `UndoAcquire` read and unlink in one step: between the two only a recovery could unlink
the record of a live process, and `RecoveryTakesOnlyOrphans` says it never does. A call that changes nothing
(an invalid one, or one refused because the registry must be reopened) is no step. The executor's answer is
free but for one promise of `core/governed-physical-executor.js`, that it answers *succeeded* only of an
effect, and the evidence of `reconcile()` and of recovery is external and assumed truthful; the model claims
nothing about a port that lies.

### 2.3 State and actions of `NaturalSession`

`AgenticMission`, `GatewayDispatch` and `RepairLoop` are operators on values, because the code's functions
are: each takes a mission or a loop and returns the next one, or throws (a throw is a guard `Can...`).
`NaturalSession` holds the variables of the session: `agentic` and `loop` are the two variables of
`cli/surgical.js`, `work` is the loop a handler is working on and has not yet assigned, `turn` where it
stands, `trusted` whether the mission authority is still among the materialized ones, and `store` the durable
record. `head`, `content` and `lapsed` are the world: the observed workspace, the targets, the expired grants.

| Code | Actions |
|---|---|
| a repair is started, its first test | `StartRepair`, `Investigate` |
| authority for the mission, a proposal | `AuthorizeMission`, `PrepareRepair`, `PrepareFails`, `ProposeForApproval`, `ProposeUnderMission` |
| `continueNaturalGovernedRepairLoop()` | `ApproveRepair`, `ApplyRepair`, `TestRepair`, `Qualify`, `FinishRepair` |
| denial, cancellation, resumption | `DenyRepair`, `CancelMission`, `ResumeMission` |
| status and projection, a question, its continuation | `ProjectMission`, `AskGateway`, `ContinueMission`, `ContinueStale`, `ReadWorkspace` |
| the world | `Crash`, `Restart`, `Drift`, `Edit`, `Lapse` |

Every action that the code follows with a checkpoint contains it (`Persist`), with what the store refuses. The
step that is continued is the first pending one of the plan, named by its position (`FirstPending`).
Abstracted: time but for its order, the hash chain (the order of the events), and provider texts. `writes` and
`cancelled` are history variables.

### 2.4 State and actions of `AuthorizationStore` and `NaturalDevelopment`

`record` is the set of envelopes in the store, `witness` the sequence of events with the envelope, the root of
the whole store and whether it was committed, `pointer` the last generation the pointer names, `lock` the
locks of the consumption. A process works on one authorization at a time: it looks whether there is an
envelope, and prepares, writes, commits and points to the claim; it dispatches; then it takes the lock and
prepares, writes, commits and points to the consumption. Each is one action. `Fail` is a throw at any step,
`Crash` an ending, `Rollback` puts the store, but not the witness, back to any state the witness has
committed, `Revoke` revokes the key.

`NaturalDevelopment` keeps the variables of `AtomicPatch` for the mutation, so what `GovernedMutation` was
shown to implement is what it uses, and splits the dispatch: `BeginPatch`, `VerifyBefore`, `Bootstrap`,
`Swap`, `Project`, `WriteProjection`, `AnswerPatch`, `PatchEnds`. `Validate` is the validation loop after a
consumption, `RecoverPatch` and `Materialize` the recovery of a mutation and of a projection, `Synchronize`
the ordinary file that follows. Reconciliation only reads: `Reconciled(a)` is what it would answer now.

### 2.5 State and actions of `GovernedOperation`

A reading is a pair of the wall and the monotonic clock. Every step that observes the clock lets up to
`MaxAdvance` units pass and may set the wall clock; a reading may also be missing. `draft` is the request in
preparation, which takes one reading for each document (`IssueChallenge`, `VerifyIdentity`, `ApprovePatch`,
`GrantCapability`, `RecordOperation`); a request derived from a G4 authorization is not handed on before the
composition has evaluated that authorization at one more reading (`ComposeDerived`). `held` are the requests
prepared, `governed` the records and lifecycles answered, `completed` the grants ever answered COMPLETED. A
fingerprint is the document itself.

`Submits` hands any held request with any record that was prepared or answered to `orchestrate()`. A finalized
record is replayed (`Replays`) or denied; another is classified and planned at the first reading (`Submit`),
validated, coordinated and committed at further ones (`ValidateRequest`, `Coordinate`, `EnterAdapter`,
`StartMutation`, `AuthorizeCommit`), unless the clock denies it (`Deny`) or it fails. The replacement ends in
one of six ways: `Replace`, or the provider refuses it (`ReplacementRefused`), the adapter does not know
whether it happened (`ReplacementAmbiguous`), AFTER cannot be proved (`ProjectionUnproven`: the record does
not take evidence of that, so nothing is answered), the evidence is not made (`EvidenceMissing`), or the
success is not journaled or the lock not released (`FinalizationFails`: FAILED, with the evidence APPLIED).

The provider here is the Git manifest. Nothing rewrites the projection its evidence names and a replay reads
nothing else, so a replay says that the patch was applied, not that the target still holds it
(`ProvenApplied`). The restore of the ordinary-file provider is in `GovernedMutation`, as are appends that
fail before the replacement, which succeed here.

`Provision`, `RemoveRoot`, `Develop` and `Authorize` are the directory of the local human authority and the G4
authorizations signed with its key. Journal and lock are the stage and the owner here; their details are in
`GovernedMutation`.

### 2.6 State and actions of `InteractiveSession`

Lines are taken one at a time: `ProposeTask`, `Yes`, `Refuse`, `Remind`, `Question`, `Status`, `SelectLocal`,
`SelectExternal`, `Disable`, `Reset`, `Exit`. A line that starts a handler sets `phase`; the handler's actions
are the stretches of code between two observations of the clock or the workspace, or two awaits:
`Contextualize`, `Revalidate` and `OpenExperience` for the context, `ReadFile` for a file task, `Describe`,
`AskProvider` and `Answer` for a question, and `Plan`, `Decide`, `Qualify`, `Dispatch` and `Remember` for a
step of the evidence loop. `Tick`, `Edit` and `Close` come at any step. `work` holds the local variables of
the handler; `provider` and `memory` the cognitive session with its turns and cached decisions; `context` and
`cache` the governed context and the evidence cache. `approved`, `choice` and `seen` are history variables.
The cache is a function from positions to entries: an entry that is evicted or dropped leaves a gap, a new one
comes after the last, and only the order of the positions means anything, which is the insertion order of the
code's map.

Texts are members of small sets: a task is its kind, objective and target, a decision *respond* or a request,
an answer the provider it came from. A discovery finds any subset of the models it looks for, so that a
service that is absent, late or unverifiable is the empty set. A provider's answer may be malformed, late or
refused by its port.

## 3. What the runs show

Each run answers one question; the bounds are in its `.cfg`. Deadlock is checked where somebody may always
move (the runs in which a foreign editor writes the file) and not where the system stops once its requests,
authorizations, missions or lines are used up.

| Run | Instance | Shows |
|---|---|---|
| `storage_faults` | 2 runners that may crash, 1 recoverer, rival transactions, every operation may fail, a foreign editor | `MutualExclusion`, `UnfinishedRetainsLock`, `JournalIsAppendOnly`, `CommitUnderAuthority` |
| `compensation` | 3 runners, faults (the opening of the lock included) and crashes, a foreign editor, no recovery | `CompletedIsProven`, the refinement of `AtomicPatch` without exclusion: the restore never undoes someone else's write, and answers are truthful though transactions overlap |
| `content_addressed` | the Git-manifest provider, faults, crashes, recovery, a foreign editor | `EvidencedOutcome`, `Truthful` (what the processes at work know of the target is right), the refinement of `AtomicPatch` |
| `reconciliation` | weak fairness, runners crash | `EventuallyReconciled` |
| `physical_plane` | 2 servers, 2 requests, 1 operation, 2 recoverers, a registry with room for it; processes end anywhere | the inductive invariant, `WriterIsAlone`, `RecoveryTakesOnlyOrphans`, the refinement of `SubmissionLedger` |
| `physical_faults` | 2 servers, 2 requests, 2 operations, 1 recoverer, a registry that can be full; every write, flush, link, rename and unlink may fail | `DispatchedAtMostOnce`, the refinement |
| `late_failure` | 1 server, 2 requests, 1 operation, nothing fails but the execution after its effect | violates `PhysicalEvidenceWins`, see 6 |
| `missions` | 2 targets, 2 missions, 2 attempts, 2 disturbances of the world, with and without a state root | `RecordKeepsUp`, `PlansStayNormal`, `GreenIsQualified`, `EachTargetIsWrittenOnce`, `CancelledIsNeverWritten`, the refinement of `GovernedRepair` |
| `authorizations` | 2 processes, 2 authorizations, the second writing back what the first replaced, 4 generations | `DispatchedAtMostOnce`, `WitnessIsAppendOnly`, the refinement of `AuthorizedPatch` (which contains that of `AuthorizationLedger`, theorem `PromiseHasBothParts`), the inductive invariant `TruthInv`, `ConsumedIsApplied`, `ReconciliationStands`, `UnreadableIsUnresolved` |
| `authority` | 2 requests, the first applied or left to recovery, submitted any number of times with any record, a clock that is set back once | the inductive invariant `IInv`, `NestedAuthority`, `CommittedWithinAuthority`, `CompletedIsAppliedOnce`, `AnswersAgreeWithWorld` |
| `session` | 6 habits of a human, 4 lines, 2 files, 2 analyses, 2 local models and Codex, one disturbance | the inductive invariant `IInv`, `OnlyApprovedTasksRun`, `EvidenceIsCurrent`, `EvidenceStaysUnderItsAuthorization`, `AnswersComeFromTheSelectedProvider`, `SessionReturns` |
| `repetition` | the same instance | violates `RepetitionNeverRenews`, see 6 |

### 3.1 Bounds, and why they are enough

*Governed mutation.* Two transactions on one target (more targets are independent: every file is named by its
target or its transaction), two runners, one recoverer, four contents. Two runners can both be for one
transaction, or one each: `txn` is chosen freely in `Init`. Histories are bounded by the transition table,
since RECOVERY_REQUIRED can be entered again only after EVIDENCE_RECORDED and a second evidence is refused, so
no artificial bound is needed. Runners and recoverers are symmetric in the runs without liveness.
`compensation` has a third runner, because an overlap needs one that holds the lock, one whose open fails and
takes it away, and one that begins then. `Truthful`, the part of the inductive invariant `TruthInv` about what
the processes know, is checked in `content_addressed`, where recovery is never misled and none of its parts is
vacuous. TLC found the whole of `TruthInv` to hold on that instance before it was proved; the run names only
this part because the typing and the account of the lock that `TruthInv` repeats double its time.

*Control plane.* Two servers are enough for every conflict over one file, since an operation on it is between
one that acts and one whose knowledge is stale; each may have both requests, so turns within a server are
exercised as well. Two recoverers are the smallest number that can take the same record, and one operation is
the smallest number that can be dispatched twice; the second operation is needed for a server that knows one
record and lacks another. Generations need no bound, as a request writes at most three times. The theorems of
section 4 hold for all numbers.

*Missions.* Two targets and a ceiling of two attempts let a loop repair one target, fail, repair the other and
reach GREEN or the ceiling. Two missions are a repair and a question that takes its place as the current
mission. `MaxFaults` = 2 allows a crash together with a change of the workspace, an edit or an expired grant.
`MaxEvents` = 7 bounds only the handlers that could append for ever (resume, project, continue); a repair is
not cut short by it. The inductive invariant `IInv` was found to hold on this instance too; the run names the
part of it about the durable record, `RecordKeepsUp`, and the properties that follow from it.

*Authorizations.* Two processes race for one authorization or work on two. Four generations are two complete
authorizations or several abandoned attempts. `Rollback` goes to any committed state of the store and `Fail`
and `Crash` come at any step, as often as there are processes to fail. The validation has one authorization at
the ceiling of its contract and one below it.

*Authority.* Instants are milliseconds, and `Resolution` = 1 makes a monotonic unit one of them; a grant lives
five, a drift of one is allowed. The run starts where a first patch was applied, or replaced the target and
was left to recovery, and its request has expired (`AfterFirstPatch`, a state of `Spec`: unanswered and failed
first patches are met again as the second). Five units pass from there, at most two between two readings, so
that the second request expires within the run too. Two requests are the least with which a record is replayed
after another patch moved the target, and the second finds the lock of the first where that was left to
recovery. The clock is set back once, by two (`BackByTwo`), between any two readings: back to before the issue
of the challenge, of the approval, of the parent authorization or of the last reading. A clock set forward
beyond the drift is denied by the same comparison, and a jump within the drift is time that passes, which the
steps of one and two give; theorem `CommitsInTime` has every adjustment. 664,832 states.

*Session.* Two files, one of which a JavaScript validation may name; one analysis grounded on a file and one
on none; three microreads, one more than the inventory and the grounded file take, so that the provider
decides one itself and the limit is reached. An authorization lives two units and a grant one, so that a tick
lets the grant or both expire. The cache holds two entries, and is full in an analysis. A human keeps to a
habit (analyses; files put off and refused; files outside the workspace; selections; an analysis between two
selections; selections with Codex) and types four lines of it. One disturbance, a tick or an edit, at any
step: the properties relate one observation to another, and one disturbance between them is what can make them
differ.

### 3.2 Fairness

`FairSpec` of `GovernedMutation`: weak fairness of each process that has not crashed, and of each recoverer,
whose caller tries again. The operating system schedules a live process, and `recover()` has no internal wait;
nothing is assumed about crashes or edits. `EventuallyReconciled` speaks of a transaction somebody who does
not crash is asked to recover.

`Spec` of `InteractiveSession` has weak fairness of taking a line and of the handler. A handler waits for
nothing but a provider's answer or a discovery, and both have a timeout whose end is one of the answers
modelled; the queue is drained by the session's own loop. Typing, closing, the clock and edits are not fair.
The other specifications state no fairness, and no liveness is claimed for them.

## 4. What is proved

Every theorem holds for all constants that satisfy the named assumptions of its module, not only for the
instances of section 3.

### 4.1 Governed mutation and physical control plane

`TypeCorrect`: `Spec => []TypeOK`, for all constants that satisfy `ConstantsAssumption`.

`Serialized` and `LockRetained`: `Spec => []MutualExclusion` and `Spec => []UnfinishedRetainsLock`, for every
number of runners, recoverers, transactions and contents, with either provider, with storage faults and
crashes, under `~OpenFaults`. The assumption is necessary: section 6, item 3, is what happens without it.

Neither property is inductive. `IInv` adds why nobody else can unlink the file:

* a runner past `bind` remembers a history bound to its own token, so what it compares at release is its own
  lock;
* a recoverer past `check_owner` is bound to a token whose owner has ended, and ended processes never move
  again;
* past `claim` it holds the claim, so at most one recoverer stands between its check and its unlink;
* a terminal record is remembered only by those whose memory equals the journal (`TerminalIsCurrent`), so the
  lock that a finalized memory lets someone remove is not the lock of an unfinished journal;
* the first record is published once, by the process whose `mkdir` succeeded.

The proof has one lemma for what a step of one process leaves of all others (`StepSafe`), one for appends
(`PublishSafe`), one for unlinks (`UnlinkSafe`), and one case per action.

`AppendOnly`, `AuthorizedCommit` and `ProvenCompletion` (`GovernedMutationSafety`) prove
`JournalIsAppendOnly`, `CommitUnderAuthority` and `CompletedIsProven`. They rest on `FullInv` (theorem
`Inductive`), which adds an account of the commits to `IInv`:

* a terminal record is the last one of every history, in the journal and in every memory (`TerminalLast`);
* a journal that was bound to a runner stays bound to it, and names a runner only after that runner has bound
  it (`Published`);
* a runner that is about to replace the target remembers the very history that is published, and its last
  record is the commit authority; this is what rules out a replacement under an append that failed ambiguously
  (`Accounts`);
* no commit was counted before the replacement, and one in the steps after it (`Accounts`).

*Without the lock.* `~OpenFaults` is a hypothesis of `Serialized`, `LockRetained` and `AuthorizedCommit` only,
whose subject is the lock. In `IInv` it is a condition of the parts that speak of holding the lock; the others
follow from the journal alone, since a first record is published by whoever made the directory, a record names
its owner, and the owner of a journal does not change. So `Inductive`, `AppendOnly`, `ProvenCompletion`, and
`JournaledCommit` (the part of `CommitUnderAuthority` that is not about the lock) hold also when a failed open
takes the lock of a running mutation away (section 6, item 3).

`TruthInv` (theorem `Truth`, without a hypothesis) adds to `FullInv`:

* a runner knows whether its replacement was applied and taken back, and while it works on the target its
  journal is open (`Effects`);
* no record leads back to a stage before the commit authority, so a journal that never reached it was never
  applied (`Uncommitted`, `Settled`);
* a recoverer that is about to call a transaction failed has evidence that nothing was applied, and whoever
  could apply it has ended (`Evidence`, `Prevented`).

`KnownEffects` states the conjunction of these, `Truthful`, for every state. `AppliedOnce` (`EffectsOnce`)
follows from the account alone: no replacement is applied twice, and none taken back twice or before it was
applied, whoever took the lock and whatever recovery concludes. What recovery concludes is another matter.
`NotMisled` says that nobody recovers, or that the Git manifest is the authority and no authorized replacement
ever appears in the worktree file. It is what the code needs and does not check: section 6, item 6, is a
behaviour without it. The parts of `TruthInv` about what a recoverer will answer have `NotMisled` as a
condition, and `TruthfulOutcome` proves `EvidencedOutcome` under it.

`Implements` is the refinement `Spec => ImplementsAtomicPatch`, for any number of runners, recoverers and
transactions, again without a hypothesis: how much is promised is a constant of `AtomicPatch`. `Exclusive` is
`~OpenFaults` (with it, no transaction begins while another is unfinished or unresolved) and `Honest` is
`NotMisled` (with it, a patch is answered as what it did). With neither there still remains that each patch is
applied at most once, only on the content it was made for, taken back only by itself and only while its own
content stands, and answered once.

Here every step is first reduced to the turn of one process (`StepIsTurn`): what it publishes, where its
control goes (`Route`) and what it does to the target (`EffectOwned`). In the refinement the LOCKED record is
`Begin` (`BindBegins`), since an unfinished or unresolved transaction would own the lock that the runner
holds; a replacement and a restore are `Apply` and `TakeBack`, a terminal record is `Answer`, and every other
step stutters.

For the physical control plane (`PhysicalControlPlaneProofs`), `TypeCorrect` and, for every number of servers,
requests, operations and recoverers, any capacity, with faults and without, and whatever ends when:
`WriterAlone`, `OnceDispatched` and `OnlyOrphans`, which say that `WriterIsAlone`, `DispatchedAtMostOnce` and
`RecoveryTakesOnlyOrphans` always hold. They need no assumption but `ConstantsAssumption` and the truthfulness
of the evidence, which is in the actions. The invariant says why:

* a request that writes has its server's turn (`TurnTaken`), so two live writers are on two servers and
  neither touches the other's copy;
* from the link to the release the writer record is the writer's own (`LockHeld`), because a record about to
  be unlinked by recovery is the inspected one (`RecordUnchanged`), its owner has ended (`OwnerEnded`) and its
  claim has one holder (`ClaimHeld`);
* hence the file a writer replaces is the one it knows (`FileIsKnown`), and since a server's memory has every
  operation of that file (`MemoryExtends`), no write forgets an operation;
* a claim is of an operation that the known file lacks (`ClaimIsNew`), and what was dispatched is in the file
  (`DispatchedIsRecorded`); so a second claim of a dispatched operation cannot reach its rename.

The proof treats a step of a request by what it leaves of the others (`HandleFrame`, `WritersApart`) and by
what it establishes for itself (`SelfTurn`, `SelfLock`, `SelfClaim`, `SelfMemory`); opening, calls, ends and
recovery have a lemma each.

`Implements` is the refinement itself, `Spec => ImplementsLedger`. It adds to the invariant that a server's
memory follows the file it knows (`MemoryFollows`), that a success is only told of an operation that took
effect, in the file, in a memory or by a request about to record it (`SuccessTrue`), and that only what was
dispatched is executed (`ExecutesDispatched`). A rename is then a write of the ledger, the end of a released
claim a dispatch, an execution an effect, and every other step changes nothing of the ledger.

### 4.2 The authorization store and natural development

`StoreIsSound` (`AuthorizationStoreProofs`): `StoreSpec => []StoreInv`, for any processes and authorizations,
with throws, endings, a revoked key and a store put back at any moment. `DispatchedAtMostOnce` is not
inductive: that a process which saw no envelope prepares the *first* claim follows from the witness and not
from the store. The invariant says so in parts:

* the witness is a chain of which only the last event can be uncommitted (`WitnessIsAChain`), and the root of
  every event covers every authorization of an earlier one (`RootsCover`), so a process whose store matches
  the committed root has seen every claim;
* there is one claim for each authorization (`ClaimsAreUnique`), only one event is outstanding
  (`PendingIsAlone`), and what a process is about to prepare against has not changed unseen
  (`PreparesUnseen`);
* who may dispatch holds the claim (`OwnersHoldClaims`), alone (`OwnersAreAlone`), and what was dispatched was
  claimed (`DispatchIsClaimed`).

`StoreImplementsLedger` is the refinement `StoreSpec => ImplementsLedger`: a commit of a claim, a dispatch and
a commit of a consumption are the steps of the ledger, everything else, a rollback included, is a stutter,
since the ledger is read off the witness. `WitnessGrowsOnly` is the action property `WitnessIsAppendOnly`.

`DevelopmentUsesStore` (`NaturalDevelopmentProofs`): `Spec => StoreSpec`; every step of the composition is a
step of the store or leaves it alone. So `DevelopedAtMostOnce`, `DevelopmentImplementsLedger` and
`DevelopmentKeepsWitness` follow for the composed system.

`ConsumesApplied` and `UnreadableHasOwner`: `Spec => []ConsumedIsApplied` and `Spec =>
[]UnreadableIsUnresolved`, under the assumptions of the store alone. Neither is inductive; `IInv` of
`NaturalDevelopmentInvariant` is, and says of the mutation between the claim and the consumption:

* one mutation is open at a time (`OneOpen`) and no two processes dispatch under one authorization
  (`DispatchersAreAlone`), which is where the store's invariant enters: without the claim the second process
  would carry on with the first one's target;
* nothing is replaced before the journal has the commit authority (`AuthorityFirst`), and how far a call has
  got determines the manifest, the ordinary file and the projection (`StageProgress`, `FileIsAuthority`);
* while the target cannot be read, its owner is the open transaction and recovery sees the ordinary file as it
  was before (`UnreadableIsOpen`): so an unreadable target is never called settled;
* every step after the evidence, every consumption event in the witness and every report follows an answer of
  success with a matching projection (`EvidenceFirst`). The clause on the witness carries the property through
  a store that is put back and a process that restarts.

`ReconciliationIsTrue`: `Spec => []ReconciliationStands`, under `OwnReplacements`: no two authorizations write
the same content. The hypothesis is what the code needs and does not check. With two authorizations that both
replace x by y, one may be applied, the other pass `VerifyBefore` on the ordinary file that does not follow
yet, the file be synchronized, and the second process end: recovery finds y in the ordinary file and answers
that the second mutation took effect, although it replaced nothing. It is section 6, item 6, in the composed
system, and the same cause as `NotMisled` above. `TruthInv` (theorem `TruthHolds`, under the same hypothesis)
is the invariant of this theorem; it adds that whatever the content is, it is the initial one or the
replacement of an applied mutation (`ContentHasAuthor`), and that what was authorized and not applied is
nowhere to be seen (`NoFalseReplacement`).

`DevelopmentImplementsPatch`: `Spec => ImplementsAuthorizedPatch`, the composition from end to end, under
`OwnReplacements` for the same reason: an answer of recovery is a step of `AuthorizedPatch` only if it says
what happened. To someone who looks at the witness, the dispatches, the last word of the journal and the
target, a development is a claim, a dispatch, one patch and a consumption, in that order, although two
processes, a store that is put back, endings and recoveries are interleaved. A patch that is open belongs to a
dispatched authorization that is not consumed (`OpenedIsDispatched`), which is proved along with the steps
because the store and the mutation know nothing of each other; a consumption is of a success by `IInv`
(`EvidenceFirst`). `PromiseHasBothParts` says that `AuthorizedPatch` contains what the parts promise: whoever
implements it implements `AuthorizationLedger` and `AtomicPatch`. Since `GovernedMutation` implements the same
`AtomicPatch`, the chain from the lock file to the authorization is closed, with the `Exclusive` and `Honest`
case of `Implements` at the joint.

### 4.3 Authority and clock

`GovernedOperationProofs`, for any contents, lifetimes and bounds and every resolution of the monotonic clock,
under `ClockAssumption` (a positive resolution, a drift of at least nothing); the run has `Resolution` = 1, in
which no rounding happens, so the theorems say more than the run.

* `AuthorityNests`: `NestedAuthority`. A draft carries what nests so far (`DraftNests`); each document is
  checked against the ones before it at its own reading, so the clock may be set between any two. Of the
  parent authorization the challenge sees only the expiry, and that is all that nests in it: see 6 for the
  time of its issue.
* `CommitsInTime`: `CommittedWithinAuthority`, however often and however far the wall clock is set during the
  orchestration. `TimeObserved` counts the comparisons of two readings that lie behind an orchestration. Each
  one bounds how far the monotonic time may outrun the wall time, with less than one millisecond lost to
  rounding, and at the commit four of them do: a wall clock that is put back shows in the next comparison and
  denies the mutation. `RunAgrees` carries that the last reading lies in every interval of the authority.
* `CompletesOnce` and `AnswersAreTrue`: `CompletedIsAppliedOnce` and `AnswersAgreeWithWorld`. The journal
  counts what was applied (`JournalCounts`), whoever was answered COMPLETED has a transaction that succeeded
  (`CompletedSucceeded`), evidence is given when its orchestration ends, and none is on a record that is not
  finalized (`EvidenceIsLast`, `EvidenceFinalizes`). A transaction that went beyond PREPARED is never
  coordinated again, so that a resubmission replays or is refused, whatever the target holds by then.

### 4.4 The natural session

`ApprovedTasksOnly` (`InteractiveSessionProofs`): `Spec => []OnlyApprovedTasksRun`, for any workspace, any
lines, any bounds and whatever a provider answers. The invariant `Approvals` adds that the governed context is
only ever of an approved task, and that what waits and what is typed are tasks. A repetition starts without a
yes of its own when the fingerprint of the waiting task equals that of the context's authorization; the lemma
`FingerprintIdentifies` says that the fingerprint determines the task.

`SessionInductive` proves `IInv` of `InteractiveSessionInvariant`, and from it

* `AnswersFollowSelection`: `AnswersComeFromTheSelectedProvider`. The preference of the cognitive session is
  the last selection of the human, and the composition is among what that selection permits (`SelectionInv`),
  also after a reset that composes again and while a handler waits for a provider that is no longer selected;
* `EvidenceIsAuthorized`: `EvidenceStaysUnderItsAuthorization`. A handler has no evidence before it has a
  context of its own (`BeforeEvidence`) and, while it may change the context, none that was read under another
  one; the number of steps never passes its limit (`EvidenceInv`);
* `AcquiredIsCurrent`: `Spec => EvidenceIsCurrent`, an action property. A read that was made and not yet kept
  is of an instant since it was asked for (`ReadInv`), and an entry of the cache lives no longer than the
  grant of its read and is found only by the content it was read with (`EntryStands`). What the files have
  been since the handler observed them only grows while it works, so what was current at the observation stays
  a content that was seen.

That a new entry of the cache comes after all others, and the oldest is evicted first, needs that a set of
positions has a least one; the lemma `LeastExists` has it from the well-foundedness of the natural numbers.

### 4.5 The missions

`NaturalSessionProofs`, for any targets, number of missions and faults, with and without a state root, under
`AttemptCeilingAssumption` (1 to 8, which is what `cli/natural-governed-repair-loop.js:637` admits),
`BoundsAssumption` and `HistoryAssumption`. `MissionsInductive` proves `IInv`:

* *Where the plan is* (`LaidOut`, `Reached`, `Underway`, `PlanFollows`). The plan of a repair is the
  inspection, four steps for each attempt and the qualification; everything before its one active step is
  settled and everything after it pending, and where that step is follows from the state of the loop and from
  how far the handler has got. `PlansAreNormal` (`PlansStayNormal`) is a consequence: no operation opens a
  second step or inserts one twice. That a plan holds at most 64 steps is where the ceiling of 8 is needed.
* *What GREEN rests on* (`MissionStands`). `GreenIsEarned` (`GreenIsQualified`): a resumption, a refused
  operation or a restart adds events after the canonical test without adding a change; every other operation
  leaves GREEN.
* *What the record holds* (`Settled`, `StoreInv`). A loop that may still write knows every write made for it,
  and nobody cancelled it. The loop in the durable record has this too: the mission is recorded once more
  without its loop before the mutation is dispatched, so while a handler works the record holds no loop, and a
  process that ends between the write and the record of it starts again from a loop that was settled before,
  or from none: `RecordNeverBehind` (`RecordKeepsUp`). From this follow `WritesOnce`
  (`EachTargetIsWrittenOnce`) and the action property `CancelledStaysUnwritten` (`Spec =>
  CancelledIsNeverWritten`).
* *Why the record is always taken* (`Spent`). The last point needs that the store cannot refuse the record
  that takes the loop out, or the one of a cancellation. It takes a record of the same mission only if its
  history is longer, and one that is read back only up to 2048 events (`core/natural-agentic-mission.js:776`).
  `IInv` therefore counts: a history is at most 17 events for each attempt, what the state of the loop adds,
  and one for every restart. `HistoryAssumption` says that this fits: with 8 attempts, for up to 1886
  disturbances. It is an assumption about the world the code does not check; a mission that is restarted more
  often would reach a record that is refused while its loop goes on.

`ImplementsRepairs`: `Spec => ImplementsGovernedRepair`. The permit of `GovernedRepair` is the loop of the
handler that is about to dispatch its mutation (`Permit`), so authorizing a repair is `Allow`, dispatching it
is `Repair` or, if the gateway refuses or the mutation fails without effect, `Withdraw`, and the end of the
process is a `Withdraw` too. That `Allow` may be taken follows from `IInv` (`PermitStands`): a loop that may
write is of a mission nobody cancelled, knows every write made for it, proposes a target without one, and has
made fewer attempts than the ceiling. That `Repair` may be taken is the compare-and-swap of the gateway
(`OnlyReviewed`): the target holds what it held when the human saw the proposal. A question is an `Ask`, a
cancellation a `Cancel`, an edit an `Edit`, and everything else the session does is a stutter.
`TargetAssumption` says that the absent target of a read is none of the targets.

`CancelLoop`, `ApproveStep` and `RestartWithLoop` are the cases where all of it is needed; each of the other
actions has a lemma of its own.

### 4.6 Only model-checked

Every invariant, action property and refinement of the passing runs is stated by a theorem; the hypotheses are
`~OpenFaults` for `Serialized`, `LockRetained` and `AuthorizedCommit`, `NotMisled` for `TruthfulOutcome`,
`OwnReplacements` for `TruthHolds`, `ReconciliationIsTrue` and `DevelopmentImplementsPatch`, and the named
assumptions on the constants. Two kinds of statement stay with TLC:

* liveness under fairness, `EventuallyReconciled` and `SessionReturns`: their proofs need ENABLED, which the
  prover does not reach;
* what a definition by recursion over data computes for every input, which needs induction over data; no
  module declares a RECURSIVE operator.

## 5. Not modelled

| Part | Why |
|---|---|
| Control plane, version 1 | the predecessor of the physical control plane: the same claim and observe without an execution and without a writer record |
| Local IPC | framing is encoding; a lost answer is a caller that asks again, which the control plane model has |
| Production enablement | composition of the modelled parts, checked once at start |
| Durable task state, project memory | single-process files, written by rename |
| Process execution, sandboxes, native helpers | what the operating system isolates is outside the program |
| Transports of the model providers | external services; their answers, timeouts included, are free choices |
| Product runtime, telemetry, offline tools | a supervisor and reports around the system; nothing reads their state back |
| Discovery, planning facts, text of evidence | functions over repositories and text, of which the models keep what is decided from them |

In the components that have a module: of the session, engineer mode, the lines of development and of runners,
the inspection for sensitive content, terminal backpressure and the activation of OpenAI; of the
orchestration, the read-only branches; of natural development, the interactive preparation of a proposal; of
the Git authority, the construction of its objects. Reading a half written journal record is impossible by
construction (`link` of a flushed file) and is not an action.

## 6. Where the code and its documents disagree

Checked by a run that expects the violation:

1. `core/control-plane-physical-service.js:199`: every execution error but an indeterminate one is settled as
   failed or rejected, although the executor also fails after the effect (for instance when the consumption of
   the authorization, which follows the dispatch, is not confirmed). The settled record is not reconciled any
   more, so an operation that took effect stays recorded as failed, while
   `docs/operations/control-plane-production-readiness-v2.md:66` says that physical evidence wins
   (`late_failure`).
2. `cli/surgical.js:495`: a repetition is accepted when the context still stands (`cli/surgical.js:3515`), and
   the context is observed again when the task starts (`cli/surgical.js:4067`). When the workspace or the
   clock moved in between, a new authorization of ten minutes is issued for which no human decided, while
   `tests/accelerator/natural-cli-async-session.test.js:1411` says that a repetition never renews
   (`repetition`).

Found while modelling, part of the models, and not given a run of their own:

3. `adapters/mutation-lock-adapter.js:192`: a failed open (say EMFILE) unlinks the lock path though this
   process did not create the file. The lock of a running mutation disappears, and a conflicting one can
   start. The compare-and-replace still keeps the outcomes truthful (`compensation`, which has these failures
   and a third runner that begins in the gap; for any number, theorem `Implements`).
4. `core/surgical-orchestrator.js:531`: the journal is reopened before the lock is taken. An identical request
   that was waiting between the two takes the lock of a finished transaction, cannot journal LOCKED, and never
   gives it back; recovery sees a lock whose token the journal does not name and stays unresolved.
5. `core/mutation-transaction.js:255`: when the finalization of a recovery fails and recovery starts again, a
   second evidence would be bound; the older evidence event then no longer matches and every append is
   refused.
6. `adapters/mutation-recovery-adapter.js:48`: the file is observed before the owner is known to have ended.
   When the owner restores the file in between, recovery records FINALIZED_SUCCESS for a file that was
   restored.
7. `cli/natural-governed-repair-loop.js:480`: a checkpoint of a loop withdraws the mission authority from the
   loop that is running, not only from its copy, so with a state root the envelope serves no second repair,
   while `cli/surgical.js:3601` says that it authorizes the whole loop.
8. `core/git-manifest-materializer.js:542`: a projection is created under its final name and then written. A
   process that ends in between leaves a file that is neither absent nor complete and that no recovery
   replaces, while `docs/operations/control-plane-production-readiness-v2.md` calls an interrupted mutation
   recoverable. `UnreadableIsUnresolved` shows that nothing worse follows.
9. `cli/governed-patch-dispatch.js:292`: a request is derived from a G4 authorization by its expiry alone.
   With the clock set back at that reading, the identity of the request is issued before the authorization it
   derives from; the composition looks at the authorization at a later reading
   (`cli/natural-development-r3-composition.js:219`), when the clock may be right again, and does not compare
   the two. `NestedAuthority` therefore does not say that the parent is the older one.
10. `core/surgical-orchestrator.js:897`: with the Git manifest a finalized record is answered COMPLETED again
    from its journal and its projection, which no later patch touches, whatever the target holds by then. The
    answer is about the patch that was applied (`CompletedIsAppliedOnce`).
11. `core/surgical-orchestrator.js:1287`: a patch that was applied and whose evidence was recorded is answered
    FAILED, with the evidence APPLIED, when the success is not journaled or the lock not released. The
    evidence stays true of the target (`AnswersAgreeWithWorld`). Where AFTER cannot be proved, the record
    refuses the evidence (`core/operation-record.js:502`), the error of the error handling is thrown and the
    caller is left without an answer.

Known and within what the runs cover:

* Control plane: a process that ends between the rename and the release leaves a writer record that no longer
  names the registry's generation, so that every recovery answers with a conflict
  (`adapters/control-plane-registry-writer-recovery.js:239`); a registry that would exceed its size is noticed
  after the writer record was linked and outside the `try` that unlinks it
  (`adapters/durable-control-plane-physical-submission-registry.js:370`), so the live process keeps it; a
  claim that could not be written stays in that server's memory and is answered as a replay; an `inspect()`
  during an execution advances the record, so that the success that follows is refused and has to be
  reconciled; a recoverer that ends leaves its claim, and that record is never recovered by the service. None
  of these breaks a safety property.
* Governed patch: the `.recovery` claim of a crashed recoverer is never taken over
  (`adapters/mutation-lock-adapter.js:276`), so that target needs manual repair; recovery of a finalized
  journal returns the evidence RECOVERY_UNRESOLVED / RETAINED while it removes the lock
  (`adapters/mutation-recovery-adapter.js:69`); `inspectMutationTarget` looks at the worktree file with the
  Git-manifest provider too (`adapters/filesystem-patch-adapter.js:837`). A crash between the creation of the
  lock and the LOCKED record leaves a lock nobody can match; the tests show that this is intended to fail
  closed.
* Missions: a cancellation cancels the repair loop first, whatever the current mission is, so a question asked
  meanwhile is not what is cancelled (`cli/surgical.js:3747`). Two sessions of one workspace write the record
  of continuity without a lock between them (`adapters/natural-mission-continuity-store.js:93`); the model has
  one session.
* Authorizations: the lock of a consumption stays when its write fails or its process ends
  (`adapters/natural-development-linearizable-consumption.js:113`), and the authorization of a committed
  effect then stays CLAIMED.
* Session: selecting an external provider and resetting, in a session opened with Codex, composes Codex again
  (`cli/natural-cognitive-session.js:520`), since the session knows one external preference;
  `AnswersComeFromTheSelectedProvider` is stated so. A search of the evidence cache for one file drops the
  entries of other files that are no longer current (`cli/surgical.js:1721`). An inventory that changed and
  changed back is reused, so inventories are excluded from `EvidenceIsCurrent`. The message that there is no
  provider is reported and remembered as an analysis. An answer that arrives after the close is still
  remembered by a session nobody can ask any more. The fingerprint of a repeated request contains the reason
  the provider gives, so the same read can be requested again under another reason, within the limit of steps.

## 7. What is left

In the order of their worth: the composition of `GovernedOperation` with `GovernedMutation` as a refinement;
the projection protocol of the materializer with several readers; the registry of version 1; development lines
of the session composed with `NaturalDevelopment`; the product runtime.
