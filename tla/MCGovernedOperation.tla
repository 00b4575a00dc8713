------------------------ MODULE MCGovernedOperation ------------------------
(***************************************************************************)
(* Small instances of GovernedOperation for TLC, from a first patch on.    *)
(***************************************************************************)
EXTENDS GovernedOperationInvariant

CONSTANTS c0, c1

BothContents == {c0, c1}
BackByTwo == {-2}

\* A first patch was prepared at one reading and orchestrated in one go.
First ==
  LET operation == [before |-> c0, replacement |-> c1, issuedAt |-> 0]
      challenge == SignChallenge(operation, 0, LocalValidity, 1)
      approval == Approval(operation, Assertion(challenge), 0, LocalValidity)
  IN  [challenge |-> challenge, grant |-> Grant(approval, 0, LocalValidity, None)]

FirstAnswer(status, outcome, reported) ==
  [record |-> [NewRecord(First) EXCEPT
                 !.evidence = [grant |-> First.grant, outcome |-> outcome, timestamp |-> 4],
                 !.finalization = status, !.transaction = reported],
   lifecycle |-> [NewLifecycle(First) EXCEPT !.status = status, !.terminalAt = 4]]

\* It was applied; or it replaced the target and was left to recovery, with the lock.
FirstApplied ==
  /\ governed = {FirstAnswer("COMPLETED", "APPLIED",
                             [stage |-> "FINALIZED_SUCCESS", lock |-> "RELEASED"])}
  /\ completed = {First.grant}
  /\ journal = [g \in {First.grant} |-> [stage |-> "FINALIZED_SUCCESS", applied |-> 1]]
  /\ lock = None

FirstLeft ==
  /\ governed = {FirstAnswer("FAILED", "RECOVERY_REQUIRED_JOURNAL_AMBIGUITY",
                             [stage |-> "RECOVERY_REQUIRED", lock |-> "RETAINED"])}
  /\ completed = {}
  /\ journal = [g \in {First.grant} |-> [stage |-> "RECOVERY_REQUIRED", applied |-> 1]]
  /\ lock = First.grant

\* Where every run starts: a state of Spec after a first patch, when its request expired and
\* the operator removed the directory of its key.
AfterFirstPatch ==
  /\ clock = [mono |-> LocalValidity, offset |-> 0, adjusted |-> 0]
  /\ root = [files |-> "ABSENT", key |-> 1]
  /\ worktree = c0
  /\ current = c1
  /\ parents = {} /\ held = {First}
  /\ FirstApplied \/ FirstLeft
  /\ draft = None /\ run = None

LaterSpec == AfterFirstPatch /\ [][Next]_vars
=============================================================================
