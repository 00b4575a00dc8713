----------------------- MODULE NaturalSessionInvariant -----------------------
(***************************************************************************)
(* The inductive invariant of NaturalSession.                              *)
(*                                                                         *)
(* What keeps the missions sound is the plan of the repair loop: it is     *)
(* laid out attempt by attempt, everything before the one active step is   *)
(* settled and everything after it is pending, and where that step is      *)
(* follows from the state of the loop.  What keeps the writes sound is     *)
(* that the durable record never holds a loop that is behind: it holds the *)
(* loop of the session as it was when it was last between two operations,  *)
(* or none at all.                                                         *)
(***************************************************************************)
EXTENDS NaturalSession

Statuses == DOMAIN PlanTransitions
Kinds == {"inspect", "prepare", "authority", "apply", "test", "qualification", "read"}
Classes == {"SUCCESS", "FAILURE", "THROWN", "DENIED", "STALE_STATE", "CAS_MISMATCH",
            "AUTHORITY_REQUIRED"}
StepResults == Classes \union {"NONE", "PASSED", "FAILED", "INCOMPLETE_EVIDENCE"}
Stops == StepResults \union {"PATCH_ATTEMPT_BOUND_REACHED", "TEST_FAILED", "AUTHORITY_DENIED",
                             "CANCELLED"}
EventTypes ==
  {"MISSION_STARTED", "PLAN_UPDATED", "MISSION_BLOCKED", "MISSION_CANCELLED", "MISSION_GREEN",
   "AUTHORITY_GRANTED", "AUTHORITY_REQUIRED", "AUTHORITY_DENIED", "OPERATION_STARTED",
   "OPERATION_COMPLETED", "OPERATION_DENIED", "TEST_PASSED", "TEST_FAILED", "REPAIR_STARTED",
   "WORKSPACE_VALIDATED", "STATE_INVALIDATED"}

Steps == [kind : Kinds, n : Nat, status : Statuses, result : StepResults]
References == {"qualification", "envelope", "patch"} \X Nat \X Nat
Grants == [ref : References, operation : Operations, oneShot : BOOLEAN, broker : BOOLEAN]
Events == [type : EventTypes, state : MissionStates]

MissionValues ==
  [id : Nat, head : Nat, state : MissionStates, plan : Seq(Steps),
   canonical : {"NONE", "PASSED", "FAILED"}, changes : Seq(Target), grants : SUBSET Grants,
   used : SUBSET References, allowed : SUBSET Operations, restarts : Nat, events : Seq(Events)]

Proposals == [target : Target, before : Contents, attempt : Nat]

LoopValues ==
  [state : LoopStates, mission : MissionValues,
   attempts : Seq([target : Target, passed : BOOLEAN]),
   pending : Proposals \union {NoPending},
   request : BOOLEAN, authority : BOOLEAN, stop : Stops, restarted : BOOLEAN]

\* A loop that may still lead to a write, and the turns in which a handler has a loop of
\* its own that it has not assigned yet.
Live == {"INVESTIGATING", "READY_FOR_REPAIR", "AUTHORITY_REQUIRED", "MISSION_AUTHORITY_READY"}
Awaiting == {"AUTHORITY_REQUIRED", "MISSION_AUTHORITY_READY"}
Working == {"apply", "test", "qualify", "finish"}

\* Every mission: its history ends in its state, and GREEN is earned.
MissionStands(m) ==
  /\ m \in MissionValues
  /\ NormalPlan(m.plan)
  /\ Len(m.events) > 0
  /\ m.events[Len(m.events)].state = m.state
  /\ m.state = "GREEN" => QualifiedLast(m)

\* Where the steps of a repair are: the inspection, four steps for each attempt, and the
\* qualification at the end.
Place(step, length) ==
  CASE step.kind = "inspect" -> 1
    [] step.kind = "prepare" -> 4 * step.n - 2
    [] step.kind = "authority" -> 4 * step.n - 1
    [] step.kind = "apply" -> 4 * step.n
    [] step.kind = "test" -> 4 * step.n + 1
    [] step.kind = "qualification" -> length
    [] OTHER -> 0
LaidOut(plan) ==
  /\ Len(plan) > 1
  /\ \A i \in DOMAIN plan : i = Place(plan[i], Len(plan))
  /\ Is(plan[1], "inspect", 0)
  /\ Is(plan[Len(plan)], "qualification", 0)

\* The plan is settled before one active step and pending after it.
Reached(plan, active) ==
  /\ active \in DOMAIN plan
  /\ \A i \in DOMAIN plan :
       /\ i < active => plan[i].status \in {"COMPLETED", "BLOCKED"}
       /\ i = active => plan[i].status = "ACTIVE"
       /\ i > active => plan[i].status = "PENDING"

\* The plan after as many attempts as the loop has recorded holds `own' more steps, and
\* `left' of them come after the active one.
Underway(l, own, left) ==
  /\ LaidOut(l.mission.plan)
  /\ Len(l.mission.plan) = 4 * Len(l.attempts) + own
  /\ Reached(l.mission.plan, Len(l.mission.plan) - left)

\* The events a loop may have in its history, restarts aside.
Base ==
  [INVESTIGATING |-> 1, READY_FOR_REPAIR |-> 6, AUTHORITY_REQUIRED |-> 12,
   MISSION_AUTHORITY_READY |-> 12, BLOCKED |-> 24, GREEN |-> 24, CANCELLED |-> 25]
Spent(l) ==
  17 * Len(l.attempts) + Base[l.state] + (IF l.request /\ ~l.authority THEN 0 ELSE 1)

\* What the plan of a loop between two operations looks like.
PlanFollows(l) ==
  /\ l.state \in Live => Len(l.attempts) < AttemptCeiling
  /\ l.state = "INVESTIGATING" => l.attempts = <<>> /\ Underway(l, 3, 2)
  /\ l.state = "READY_FOR_REPAIR" => Underway(l, 3, 1)
  /\ l.state \in Awaiting =>
       Underway(l, 6, 3) /\ l.pending.target \in Target \ Attempted(l)

LoopStands(l) ==
  /\ l \in LoopValues
  /\ MissionStands(l.mission)
  /\ Len(l.attempts) <= AttemptCeiling
  /\ l.mission.state = "GREEN" => l.state = "GREEN"
  /\ l.state = "CANCELLED" => l.mission.state = "CANCELLED"

\* The targets written for a mission, and how often.
Made(id) == {i \in DOMAIN writes : writes[i][1] = id}
Written(id) == {writes[i][2] : i \in Made(id)}

\* A loop that knows what was written for it, and that nobody has cancelled.
Settled(l) ==
  /\ l.mission.id \notin cancelled
  /\ Written(l.mission.id) \subseteq Attempted(l)
  /\ Cardinality(Made(l.mission.id)) <= Len(l.attempts)

WorldInv ==
  /\ durable \in BOOLEAN
  /\ alive \in BOOLEAN
  /\ auto \in BOOLEAN
  /\ trusted \in BOOLEAN
  /\ turn \in Turns
  /\ content \in [Target -> Contents]
  /\ faults \in 0 .. MaxFaults
  /\ head \in 1 .. faults + 1
  /\ created \in 0 .. MaxMissions
  /\ cancelled \subseteq 1 .. created
  /\ ~alive => turn = "idle" /\ loop = NoLoop

\* The current mission, and the read that a handler has announced in its plan.
AgenticInv ==
  /\ MissionStands(agentic)
  /\ agentic # NoMission => agentic.id \in 1 .. created
  /\ turn = "read" => \E i \in DOMAIN agentic.plan : agentic.plan[i].status = "ACTIVE"

LoopInv ==
  /\ LoopStands(loop)
  /\ PlanFollows(loop)
  /\ Len(loop.mission.events) <= Spent(loop) + faults
  /\ loop # NoLoop => loop.mission.id \in 1 .. created
  /\ turn = "investigate" => loop # NoLoop /\ loop.state = "INVESTIGATING"
  /\ turn = "prepare" => loop # NoLoop /\ loop.state = "READY_FOR_REPAIR"
  /\ loop.state \in Live /\ turn \notin Working => Settled(loop)

\* The loop a handler works on, operation after operation.
WorkInv ==
  /\ LoopStands(work)
  /\ turn \notin Working => work = NoLoop
  /\ turn \in Working => work.mission.id \in 1 .. created
  /\ turn = "apply" =>
       /\ work.state \in Awaiting
       /\ Len(work.attempts) < AttemptCeiling
       /\ Underway(work, 6, 2)
       /\ work.pending.target \in Target \ Attempted(work)
       /\ Len(work.mission.events) <= Spent(work) + faults + 3
       /\ Settled(work)
  /\ turn = "test" =>
       /\ work.state \in Awaiting
       /\ Len(work.attempts) < AttemptCeiling
       /\ Underway(work, 6, 1)
       /\ work.pending.target \in Target
       /\ Len(work.mission.events) <= Spent(work) + faults + 7
       /\ work.mission.id \notin cancelled
       /\ Written(work.mission.id) \subseteq Attempted(work) \union {work.pending.target}
       /\ Cardinality(Made(work.mission.id)) <= Len(work.attempts) + 1
  /\ turn = "qualify" =>
       /\ Underway(work, 2, 0)
       /\ Len(work.mission.events) <= 17 * Len(work.attempts) + 7 + faults
  /\ turn = "finish" =>
       /\ work.state \in {"READY_FOR_REPAIR", "BLOCKED", "GREEN"}
       /\ PlanFollows(work)
       /\ Len(work.mission.events) <= Spent(work) + faults
       /\ work.state = "READY_FOR_REPAIR" => Settled(work)

\* The durable record holds the loop of the session as it once was, or none.
StoreInv ==
  /\ store # NoRecord => durable /\ store.mission.id \in 1 .. created
  /\ MissionStands(store.mission)
  /\ LoopStands(store.loop)
  /\ PlanFollows(store.loop)
  /\ store.loop # NoLoop =>
       /\ store.loop.mission = store.mission
       /\ Len(store.mission.events) + (IF alive THEN 0 ELSE 1) <= Spent(store.loop) + faults
       /\ store.loop.state \in Live => Settled(store.loop)
       /\ turn \notin Working
       /\ alive =>
            /\ loop.mission.id = store.mission.id
            /\ Len(store.mission.events) <= Len(loop.mission.events)
            /\ loop.state \in {"GREEN", "CANCELLED"} => store.loop.state \notin Live

\* A restarted session takes up the loop of the durable record.  Wherever the process ends,
\* a loop in the record that could lead to a write has attempted every target written for
\* its mission, and nobody has cancelled that mission (surgical.js:2121).
RecordKeepsUp == store.loop.state \in Live => Settled(store.loop)

WritesInv ==
  /\ writes \in Seq((1 .. created) \X Target)
  /\ EachTargetIsWrittenOnce

IInv ==
  /\ WorldInv
  /\ AgenticInv
  /\ LoopInv
  /\ WorkInv
  /\ StoreInv
  /\ WritesInv
=============================================================================
