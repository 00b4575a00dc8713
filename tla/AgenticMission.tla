--------------------------- MODULE AgenticMission ---------------------------
(***************************************************************************)
(* The mission value of core/natural-agentic-mission.js and the functions  *)
(* that turn one mission into the next.  A mission is immutable: every     *)
(* function returns a new one, with one more event in its hash chain, or   *)
(* throws.  A throw is a guard here: Can... says when it does not happen.  *)
(* Time is left out but for its order: a grant expires when its reference  *)
(* is in the set the caller passes as lapsed.                              *)
(***************************************************************************)
EXTENDS Naturals, Sequences, FiniteSetsExt

\* A target is one of the bounded repair targets, and its contents are told apart
\* only as far as compare-and-swap does.
CONSTANT Target

MissionStates == {"PLANNING", "AUDITING", "IMPLEMENTING", "TESTING", "REPAIRING",
                  "QUALIFYING", "BLOCKED", "GREEN", "CANCELLED"}
TerminalStates == {"GREEN", "CANCELLED"}

PlanTransitions ==
  [PENDING   |-> {"PENDING", "ACTIVE", "BLOCKED"},
   ACTIVE    |-> {"ACTIVE", "COMPLETED", "BLOCKED"},
   COMPLETED |-> {"COMPLETED"},
   BLOCKED   |-> {"BLOCKED"}]

\* A step of the live plan: what it is for, for which attempt, its status and result.
Step(kind, n, status) == [kind |-> kind, n |-> n, status |-> status, result |-> "NONE"]
Is(step, kind, n) == step.kind = kind /\ step.n = n
HasStep(m, kind, n) == \E i \in DOMAIN m.plan : Is(m.plan[i], kind, n)
StepOf(m, kind, n) == m.plan[CHOOSE i \in DOMAIN m.plan : Is(m.plan[i], kind, n)]

\* What the plan normalization accepts: bounded, no step twice, at most one active.
PlanBound == 64
NormalPlan(plan) ==
  /\ Len(plan) <= PlanBound
  /\ Cardinality({<<plan[i].kind, plan[i].n>> : i \in DOMAIN plan}) = Len(plan)
  /\ Cardinality({i \in DOMAIN plan : plan[i].status = "ACTIVE"}) <= 1
  /\ \A i \in DOMAIN plan :
       /\ plan[i].status = "COMPLETED" => plan[i].result \in {"NONE", "SUCCESS", "PASSED"}
       /\ plan[i].status = "BLOCKED" => plan[i].result \notin {"SUCCESS", "PASSED"}

\* Grants name the reference, the operation it allows, whether it is used up by one
\* operation, and whether only the mission broker may derive from it.
Grant(ref, operation, oneShot, broker) ==
  [ref |-> ref, operation |-> operation, oneShot |-> oneShot, broker |-> broker]

\* What a repair mission, a mission that reads, and an invalidated mission may ask for.
RepairCapabilities ==
  {"workspace.read", "tests.run", "tests.runCanonical", "mutation.propose",
   "mutation.applyConditional", "authority.request"}
ReadCapabilities == {"workspace.read"}
StaleCapabilities == {"authority.request"}

Event(type, state) == [type |-> type, state |-> state]

NewMission(id, head, plan, grants, allowed) ==
  [id |-> id, head |-> head, state |-> "PLANNING", plan |-> plan,
   canonical |-> "NONE", changes |-> <<>>, grants |-> grants, used |-> {},
   allowed |-> allowed, restarts |-> 0,
   events |-> <<Event("MISSION_STARTED", "PLANNING"), Event("PLAN_UPDATED", "PLANNING")>>]

\* A terminal mission keeps its state, but for the physical invalidation of GREEN.
CanAppend(m, type, state) ==
  \/ m.state \notin TerminalStates
  \/ m.state = state
  \/ m.state = "GREEN" /\ state = "BLOCKED" /\ type = "STATE_INVALIDATED"

Append1(m, type, state) ==
  [m EXCEPT !.state = state, !.events = Append(@, Event(type, state))]

UpdatePlan(m, plan) == Append1([m EXCEPT !.plan = plan], "PLAN_UPDATED", m.state)

CanUpdateStep(m, kind, n, status) ==
  /\ HasStep(m, kind, n)
  /\ status \in PlanTransitions[StepOf(m, kind, n).status]
  /\ status = "ACTIVE" => ~\E i \in DOMAIN m.plan :
       m.plan[i].status = "ACTIVE" /\ ~Is(m.plan[i], kind, n)

UpdateStep(m, kind, n, status, result) ==
  UpdatePlan(m, [i \in DOMAIN m.plan |->
    IF Is(m.plan[i], kind, n)
      THEN [m.plan[i] EXCEPT !.status = status, !.result = result]
      ELSE m.plan[i]])

Block(m) == Append1(m, "MISSION_BLOCKED", "BLOCKED")
Cancel(m) == Append1(m, "MISSION_CANCELLED", "CANCELLED")

\* The structured result of a gateway operation ends the active step; anything but
\* SUCCESS blocks the mission too.
RecordPlanResult(m, kind, n, class) ==
  IF class = "SUCCESS" THEN UpdateStep(m, kind, n, "COMPLETED", class)
  ELSE LET blocked == UpdateStep(m, kind, n, "BLOCKED", class) IN
       IF blocked.state = "BLOCKED" THEN blocked ELSE Block(blocked)

CanRecordGrant(m, grant, lapsed) ==
  /\ \A g \in m.grants : g.ref # grant.ref
  /\ grant.ref \notin m.used \union lapsed

RecordGrant(m, grant) ==
  Append1([m EXCEPT !.grants = @ \union {grant}], "AUTHORITY_GRANTED", m.state)

\* A recorded change consumes the reference it was applied under.
RecordChange(m, target, ref) ==
  Append1([m EXCEPT !.changes = Append(@, target), !.used = @ \union {ref}],
          "OPERATION_COMPLETED", "IMPLEMENTING")

RecordTest(m, canonical, passed) ==
  LET tested == IF canonical
                  THEN [m EXCEPT !.canonical = IF passed THEN "PASSED" ELSE "FAILED"]
                  ELSE m
  IN Append1(tested, IF passed THEN "TEST_PASSED" ELSE "TEST_FAILED", "TESTING")

CanCompleteGreen(m) ==
  /\ m.canonical = "PASSED"
  /\ \A i \in DOMAIN m.plan : m.plan[i].status \notin {"PENDING", "ACTIVE"}
  /\ CanAppend(m, "MISSION_GREEN", "GREEN")
CompleteGreen(m) == Append1(m, "MISSION_GREEN", "GREEN")

\* Nothing that grants authority is written to durable storage.
ForDurableRestart(m) == [m EXCEPT !.grants = {}, !.used = {}]

\* What is checked of a mission that is read back from storage, and of every one before
\* it is written: the plan, the counters, and that its history ends in its state.
HistoryBound == 2048
Rehydrates(m) ==
  /\ NormalPlan(m.plan)
  /\ Len(m.events) \in 1 .. HistoryBound
  /\ m.events[Len(m.events)].state = m.state
  /\ m.grants = {} /\ m.used = {}

CanResume(m) == m.state # "CANCELLED"

\* Resuming takes every grant away; when the workspace is not the one the mission is
\* bound to, it also blocks what was left of the plan and the mission itself.
Resume(m, head, durable) ==
  IF m.head = head
    THEN Append1([m EXCEPT !.grants = {}, !.used = {},
                           !.restarts = IF durable THEN @ + 1 ELSE @],
                 "WORKSPACE_VALIDATED", m.state)
    ELSE Append1([m EXCEPT !.grants = {}, !.used = {}, !.allowed = StaleCapabilities,
                           !.plan = [i \in DOMAIN m.plan |->
                             IF m.plan[i].status \in {"PENDING", "ACTIVE"}
                               THEN [m.plan[i] EXCEPT !.status = "BLOCKED",
                                                      !.result = "STALE_STATE"]
                               ELSE m.plan[i]]],
                 "STATE_INVALIDATED", "BLOCKED")

\* What the mission may go on with by itself: the last blocked step decides first, then
\* exactly one pending step that is a read.
StepsThatAre(m, status) == {i \in DOMAIN m.plan : m.plan[i].status = status}
PendingSteps(m) == StepsThatAre(m, "PENDING")
BlockedSteps(m) == StepsThatAre(m, "BLOCKED")
FirstPending(m) == m.plan[CHOOSE i \in PendingSteps(m) : TRUE]
Continuation(m, head) ==
  LET blocked == BlockedSteps(m)
      result == IF blocked = {} THEN "NONE" ELSE m.plan[Max(blocked)].result
      pending == Cardinality(PendingSteps(m))
  IN CASE m.head # head \/ result = "STALE_STATE" -> "STALE_STATE"
       [] m.head = head /\ result \in {"AUTHORITY_REQUIRED", "DENIED"} -> "AUTHORITY_REQUIRED"
       [] m.head = head /\ result \notin {"STALE_STATE", "AUTHORITY_REQUIRED", "DENIED"} ->
            CASE pending = 0 -> "NO_NEXT_STEP"
              [] pending > 1 -> "AMBIGUOUS_NEXT_STEP"
              [] pending = 1 ->
                   IF FirstPending(m).kind = "read" /\ "workspace.read" \in m.allowed
                     THEN "ELIGIBLE" ELSE "AUTHORITY_REQUIRED"

=============================================================================
