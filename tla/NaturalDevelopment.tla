------------------------- MODULE NaturalDevelopment -------------------------
(***************************************************************************)
(* Natural development on one target: an exact human authorization is      *)
(* spent (AuthorizationStore) on one governed mutation (AtomicPatch, which *)
(* GovernedMutation implements) of a target whose authority is a Git       *)
(* manifest, and the managed projection that readers are shown follows it  *)
(* (core/git-manifest-materializer.js).  Afterwards the projection is      *)
(* validated (cli/natural-development-validation-loop.js), and what is     *)
(* left of an interrupted development is reconciled                        *)
(* (cli/natural-development-recovery-reconciliation.js).                   *)
(***************************************************************************)
EXTENDS AuthorizationStore

CONSTANTS
  InitialContent,  \* what the target holds before any development
  Before,          \* authorization -> the content it was given for
  Replacement,     \* authorization -> the exact content it allows
  LastAttempts     \* authorizations of proposals at the attempt ceiling of their contract

Content == {InitialContent} \union {Replacement[a] : a \in Authorization}

\* A patch that replaces nothing is refused: it never becomes a proposal that is authorized.
ASSUME DevelopmentAssumption ==
  /\ Before \in [Authorization -> Content]
  /\ \A a \in Authorization : Before[a] # Replacement[a]
  /\ LastAttempts \subseteq Authorization

VARIABLES
  outcome, effect, content,  \* of the governed mutations: see AtomicPatch
  authorized,                \* authorizations whose journal records the commit authority
  worktree,                  \* what the ordinary file holds
  manifested,                \* does the target's manifest ref exist
  projection,                \* content -> its managed projection
  stage,                     \* process -> where its mutation stands
  report                     \* authorization -> what the validation answered

devVars == <<storeVars, outcome, effect, content, authorized, worktree, manifested, projection,
             stage, report>>
patchVars == <<outcome, effect, content, authorized>>
treeVars == <<worktree, manifested, projection, report>>

Patch == INSTANCE AtomicPatch
  WITH Txn <- Authorization, EditorContent <- {}, Exclusive <- TRUE,
       Honest <- TRUE

Stages == {"none", "before", "bootstrap", "swap", "project", "write", "answer"}

\* The one type invariant of this module.
TypeOK ==
  /\ StoreTypeOK
  /\ outcome \in [Authorization -> Patch!Outcomes]
  /\ effect \in [Authorization -> {"NONE", "APPLIED", "UNDONE"}]
  /\ {content, worktree} \subseteq Content
  /\ authorized \subseteq Authorization
  /\ manifested \in BOOLEAN
  /\ projection \in [Content -> {"MISSING", "TORN", "MATCHED"}]
  /\ stage \in [Process -> Stages]
  /\ \A p \in Process : stage[p] # "none" => pc[p] = "dispatching"
  /\ report \in [Authorization -> {"NONE", "VALIDATED", "CORRECTION_REQUIRED", "STOPPED"}]

Init ==
  /\ StoreInit
  /\ Patch!AInit
  /\ authorized = {}
  /\ worktree = InitialContent
  /\ manifested = FALSE
  /\ projection = [c \in Content |-> "MISSING"]
  /\ stage = [p \in Process |-> "none"]
  /\ report = [a \in Authorization |-> "NONE"]

\* What observeCurrentAuthoritativeTarget accepts: no manifest yet, when the ordinary file
\* is the authority, or a manifest whose projection is there and equal to it.
Observable == ~manifested \/ projection[content] = "MATCHED"

Reads(a) == Observable /\ content = Before[a]

Dispatching(a) == \E p \in Process : pc[p] = "dispatching" /\ job[p] = a

Stage(p, from, to) == stage[p] = from /\ stage' = [stage EXCEPT ![p] = to]

----------------------------------------------------------------------------
\* The steps of the store that the target has no part in.
StoreStep ==
  /\ \/ \E p \in Process :
          \/ Transition(p)
          \/ \E a \in Authorization : Start(p, a)
          \/ Look(p)
          \/ ClaimLoad(p)
          \/ Dispatch(p)
          \/ AcquireLock(p)
          \/ ConsumeLoad(p)
          \/ ReleaseLock(p)
          \/ pc[p] # "dispatching" /\ (Fail(p) \/ Crash(p))
     \/ Rollback
     \/ Revoke
  /\ UNCHANGED <<patchVars, treeVars, stage>>

\* The request is prepared for the content the proposal was made for.
Prepared(p) ==
  /\ PrepareRequest(p)
  /\ Reads(job[p])
  /\ UNCHANGED <<patchVars, treeVars, stage>>

----------------------------------------------------------------------------
(***************************************************************************)
(* The governed mutation of a dispatched authorization.                    *)
(***************************************************************************)

\* The orchestrator's transaction: journal and lock.
BeginPatch(p) ==
  /\ pc[p] = "dispatching"
  /\ Stage(p, "none", "before")
  /\ Patch!Begin(job[p])
  /\ UNCHANGED <<storeVars, treeVars, authorized>>

\* The adapter compares the ordinary file, not the manifest, with the authorized BEFORE
\* hash; then the journal records the commit authority.
VerifyBefore(p) ==
  /\ Stage(p, "before", "bootstrap")
  /\ worktree = Before[job[p]]
  /\ authorized' = authorized \union {job[p]}
  /\ UNCHANGED <<storeVars, outcome, effect, content, treeVars>>

\* The manifest of the BEFORE content is established; its projection is not.
Bootstrap(p) ==
  /\ Stage(p, "bootstrap", "swap")
  /\ IF manifested THEN Reads(job[p]) ELSE worktree = Before[job[p]]
  /\ manifested' = TRUE
  /\ UNCHANGED <<storeVars, patchVars, worktree, projection, report>>

\* The ref is swapped.
Swap(p) ==
  /\ Stage(p, "swap", "project")
  /\ Patch!Apply(job[p])
  /\ UNCHANGED <<storeVars, treeVars, authorized>>

\* The projection of the new manifest is created, or found as the manifest says.  One
\* that is there and differs is left, and the mutation needs recovery.
Project(p) ==
  /\ stage[p] = "project"
  /\ CASE projection[content] = "MISSING" ->
            /\ projection' = [projection EXCEPT ![content] = "TORN"]
            /\ stage' = [stage EXCEPT ![p] = "write"]
       [] projection[content] = "MATCHED" ->
            /\ stage' = [stage EXCEPT ![p] = "answer"]
            /\ UNCHANGED projection
       [] OTHER -> FALSE
  /\ UNCHANGED <<storeVars, patchVars, worktree, manifested, report>>

WriteProjection(p) ==
  /\ Stage(p, "write", "answer")
  /\ projection' = [projection EXCEPT ![content] = "MATCHED"]
  /\ UNCHANGED <<storeVars, patchVars, worktree, manifested, report>>

\* A mutation for TLC's runs: the swap alone is taken for the evidence.
AnswerPatchEarly(p) ==
  /\ stage[p] \in {"project", "answer"}
  /\ stage' = [stage EXCEPT ![p] = "none"]
  /\ Evidenced(p)
  /\ Patch!Answer(job[p])
  /\ outcome'[job[p]] = "SUCCESS"
  /\ UNCHANGED <<treeVars, authorized>>

\* APPLIED with the evidence of the projection; the journal is finalized and the lock goes.
AnswerPatch(p) ==
  /\ Stage(p, "answer", "none")
  /\ Evidenced(p)
  /\ Patch!Answer(job[p])
  /\ outcome'[job[p]] = "SUCCESS"
  /\ UNCHANGED <<treeVars, authorized>>

\* A mutation for TLC's runs: the transaction of a call that failed goes on.
PatchEndsRunning(p) ==
  /\ pc[p] = "dispatching"
  /\ Fail(p) \/ Crash(p)
  /\ UNCHANGED <<patchVars, treeVars, stage>>

\* Any other end of the call.  What failed before the commit authority is answered as
\* FAILED if the journal takes it; the rest is left for recovery.
PatchEnds(p) ==
  /\ pc[p] = "dispatching"
  /\ stage' = [stage EXCEPT ![p] = "none"]
  /\ \/ /\ Fail(p) \/ Crash(p)
        /\ UNCHANGED patchVars
     \/ /\ Fail(p)
        /\ stage[p] = "before"
        /\ Patch!Answer(job[p])
        /\ outcome'[job[p]] = "FAILED"
        /\ UNCHANGED authorized
  /\ UNCHANGED treeVars

\* A mutation for TLC's runs: the ordinary file alone decides.
RecoveredByFile(a) ==
  CASE worktree = Before[a] -> "FAILED"
    [] worktree = Replacement[a] -> "SUCCESS"
    [] OTHER -> "UNRESOLVED"

\* Recovery knows the journal and the ordinary file.
Recovered(a) ==
  CASE worktree = Before[a] /\ a \notin authorized -> "FAILED"
    [] worktree = Replacement[a] /\ a \in authorized -> "SUCCESS"
    [] OTHER -> "UNRESOLVED"

\* Recovery of a transaction whose process has ended.
RecoverPatch(a) ==
  /\ outcome[a] = "STARTED"
  /\ ~Dispatching(a)
  /\ outcome' = [outcome EXCEPT ![a] = Recovered(a)]
  /\ UNCHANGED <<storeVars, effect, content, authorized, treeVars, stage>>

\* A human copies what the projection shows into the ordinary file, and commits it.
Synchronize ==
  /\ Observable
  /\ worktree' = content
  /\ UNCHANGED <<storeVars, patchVars, manifested, projection, stage, report>>

\* recoverAuthoritativeMaterialization, called when nobody writes: only a projection that
\* is missing is created.
Materialize ==
  /\ manifested
  /\ \A p \in Process : stage[p] # "write"
  /\ projection[content] = "MISSING"
  /\ projection' = [projection EXCEPT ![content] = "MATCHED"]
  /\ UNCHANGED <<storeVars, patchVars, worktree, manifested, stage, report>>

\* The validation of the projection of a consumed authorization.
Validate(p) ==
  /\ Finish(p)
  /\ \/ UNCHANGED report
     \/ /\ content = Replacement[job[p]]
        /\ projection[content] = "MATCHED"
        /\ \E answer \in {"VALIDATED"} \union
                         (IF job[p] \in LastAttempts THEN {"STOPPED"}
                                                     ELSE {"CORRECTION_REQUIRED"}) :
             report' = [report EXCEPT ![job[p]] = answer]
  /\ UNCHANGED <<patchVars, worktree, manifested, projection, stage>>

----------------------------------------------------------------------------
Next ==
  \/ StoreStep
  \/ \E p \in Process :
       \/ Prepared(p)
       \/ BeginPatch(p)
       \/ VerifyBefore(p)
       \/ Bootstrap(p)
       \/ Swap(p)
       \/ Project(p)
       \/ WriteProjection(p)
       \/ AnswerPatch(p)
       \/ PatchEnds(p)
       \/ Validate(p)
  \/ \E a \in Authorization : RecoverPatch(a)
  \/ Synchronize
  \/ Materialize

Spec == Init /\ [][Next]_devVars

----------------------------------------------------------------------------
(***************************************************************************)
(* Reconciliation reads; it changes nothing and gives no authority back.   *)
(***************************************************************************)

Finalized(a) == outcome[a] \in {"SUCCESS", "FAILED"}

\* The physical evidence: what a reader of the target is shown.
PhysicalState(a) ==
  CASE ~Observable -> "UNAVAILABLE"
    [] content = Before[a] -> "BEFORE"
    [] content = Replacement[a] -> "AFTER"
    [] OTHER -> "OTHER"

\* A mutation for TLC's runs: the file alone decides.
ReconciledByFile(a) ==
  CASE Records(a) = {} -> "DENIED"
    [] PhysicalState(a) = "BEFORE" -> "NOT_APPLIED_REAUTH_REQUIRED"
    [] PhysicalState(a) = "AFTER" -> "COMPLETED"
    [] OTHER -> "RECOVERY_UNRESOLVED"

\* reconcileNaturalDevelopmentRecovery over the evidence the system itself can give.
Reconciled(a) ==
  CASE Records(a) = {} -> "DENIED"
    [] /\ Finalized(a)
       /\ outcome[a] = "FAILED"
       /\ \E e \in Records(a) : e.type = "CLAIM"
       /\ PhysicalState(a) = "BEFORE" -> "NOT_APPLIED_REAUTH_REQUIRED"
    [] /\ outcome[a] = "SUCCESS"
       /\ manifested
       /\ PhysicalState(a) = "AFTER" -> "COMPLETED"
    [] OTHER -> "RECOVERY_UNRESOLVED"

(***************************************************************************)
(* Properties.                                                             *)
(***************************************************************************)

\* An authorization is recorded as consumed, and its result validated, only for a mutation
\* that took effect, was answered as a success and can be read; not for one that was
\* swapped but never projected.
ConsumedIsApplied ==
  \A a \in Authorization :
    a \in Committed("CONSUME") \/ report[a] # "NONE" =>
      /\ outcome[a] = "SUCCESS"
      /\ effect[a] = "APPLIED"
      /\ projection[Replacement[a]] = "MATCHED"

\* The reconciliation of an interrupted development says COMPLETED only of an effect that
\* took place, and once it says NOT_APPLIED no effect follows, whoever is still running.
ReconciliationStands ==
  [][\A a \in Authorization :
       /\ Reconciled(a) = "COMPLETED" => effect[a] = "APPLIED"
       /\ Reconciled(a) = "NOT_APPLIED_REAUTH_REQUIRED" => effect'[a] = "NONE"]_devVars

\* A target that can no longer be read belongs to a mutation that is still open or was
\* answered as unresolved: no success and no failure leaves one behind, whatever content is
\* written back.
UnreadableIsUnresolved ==
  Observable \/ \E a \in Authorization : outcome[a] \in {"STARTED", "UNRESOLVED"}

(***************************************************************************)
(* Natural development from end to end, seen by someone who looks only at  *)
(* the witness, the dispatches, the journal's last word and the target.    *)
(***************************************************************************)
Promise == INSTANCE AuthorizedPatch
             WITH standing <- [a \in Authorization |-> Standing(a)]

\* Whatever is interleaved, interrupted, put back or recovered, the target changes only under
\* a dispatched authorization and only an authorization that took effect is consumed.
ImplementsAuthorizedPatch == Promise!PSpec
=============================================================================
