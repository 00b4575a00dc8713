--------------------------- MODULE NaturalSession ---------------------------
(***************************************************************************)
(* The missions of one workspace as the interactive session of             *)
(* cli/surgical.js drives them: the current mission, the repair loop that  *)
(* may belong to it, and the durable record written by                     *)
(* cli/natural-mission-continuity.js and                                   *)
(* adapters/natural-mission-continuity-store.js.                           *)
(*                                                                         *)
(* Lines are handled one after the other.  A handler is cut in two where   *)
(* it waits (the provider that prepares a proposal) and where a physical   *)
(* operation lies between two of its writes: there the process may end,    *)
(* the workspace may change and a grant may expire.                        *)
(***************************************************************************)
EXTENDS RepairLoop

CONSTANTS
  MaxMissions,  \* missions created
  MaxFaults,    \* what the world does: changes, expired grants, ends of the process
  MaxEvents     \* events of a mission after which no more is asked of it

ASSUME BoundsAssumption ==
  /\ MaxMissions \in Nat \ {0}
  /\ MaxFaults \in Nat
  /\ MaxEvents \in Nat

\* A restart adds one event to the history of a mission, an attempt at most 17, and what
\* comes before and after the attempts at most 26: no repair mission outgrows the history
\* that can be recorded.
ASSUME HistoryAssumption == 17 * AttemptCeiling + MaxFaults + 26 <= HistoryBound

VARIABLES
  durable,   \* was the session given a state root for continuity
  alive,     \* is a process running
  agentic,   \* the current mission, or NoMission
  loop,      \* the repair loop, or NoLoop
  work,      \* the loop a handler is working on, not yet assigned
  turn,      \* what the handler does next
  auto,      \* does the handler go on to the next repair by itself
  trusted,   \* is the mission authority still among the materialized ones
  store,     \* the durable record, or NoRecord
  head,      \* the physical workspace
  content,   \* target -> what it holds
  lapsed,    \* references whose grant has expired
  created,   \* missions created so far
  faults,    \* what the world has done so far
  writes,    \* the writes made: mission, target, attempt
  cancelled  \* missions a human has cancelled

vars == <<durable, alive, agentic, loop, work, turn, auto, trusted, store, head, content,
          lapsed, created, faults, writes, cancelled>>
worldVars == <<head, content, lapsed>>
processVars == <<agentic, loop, work, turn, auto, trusted>>

NoMission == NewMission(0, 0, <<>>, {}, {})
NoLoop == CreatedLoop(0, 0)
NoRecord == [mission |-> NoMission, loop |-> NoLoop]
Turns == {"idle", "investigate", "prepare", "apply", "test", "qualify", "finish", "read"}
Contents == {"original", "repaired", "foreign"}

Init ==
  /\ durable \in BOOLEAN
  /\ alive = TRUE
  /\ agentic = NoMission
  /\ loop = NoLoop
  /\ work = NoLoop
  /\ turn = "idle"
  /\ auto = FALSE
  /\ trusted = FALSE
  /\ store = NoRecord
  /\ head = 1
  /\ content = [t \in Target |-> "original"]
  /\ lapsed = {}
  /\ created = 0
  /\ faults = 0
  /\ writes = <<>>
  /\ cancelled = {}

World(outcome) == [head |-> head, content |-> content, lapsed |-> lapsed, outcome |-> outcome]

\* The store takes a record of the same mission that is not behind, or differs from, the
\* one it has, and one of another mission that was created later.  Missions are numbered
\* as they are created, which is the order of their creation times.
Accepts(record) ==
  \/ store = NoRecord
  \/ record.mission.id > store.mission.id
  \/ /\ record.mission.id = store.mission.id
     /\ Len(record.mission.events) >= Len(store.mission.events)
     /\ Len(record.mission.events) = Len(store.mission.events) =>
          record.mission = store.mission

\* A checkpoint of mission m, with the loop when the loop's mission is m.
Checkpoint(m, l) ==
  [mission |-> ForDurableRestart(m),
   loop |-> IF l # NoLoop /\ l.mission = m THEN LoopForRestart(l) ELSE NoLoop]

\* It is written when it could be read back, and the store takes it.
Saves(m, l) ==
  durable =>
    /\ Rehydrates(Checkpoint(m, l).mission)
    /\ ReadsBack(Checkpoint(m, l).loop)
    /\ Accepts(Checkpoint(m, l))
Persist(m, l) ==
  store' = IF durable /\ Saves(m, l) THEN Checkpoint(m, l) ELSE store

\* Preparing a loop for a checkpoint withdraws its mission authority.
Trusts(m, l, now) ==
  trusted' = (now /\ ~(durable /\ l.authority /\ l.mission = m /\ m.id # 0))

Idle == alive /\ turn = "idle"
\* While a repair awaits a decision, every line but a decision or a cancellation is
\* answered with what is awaited.
Listens == Idle /\ (loop = NoLoop \/ loop.state # "AUTHORITY_REQUIRED")
Roomy(m) == Len(m.events) < MaxEvents

\* "repair ...": a new loop and its mission, recorded before the first test runs.
StartRepair ==
  LET new == CreatedLoop(created + 1, head) IN
  /\ Listens
  /\ created < MaxMissions
  /\ created' = created + 1
  /\ loop' = new
  /\ agentic' = new.mission
  /\ Persist(new.mission, new)
  /\ turn' = "investigate"
  /\ UNCHANGED <<durable, alive, work, auto, trusted, worldVars, faults, writes, cancelled>>

\* The first test, whose failure opens the loop.
Investigate ==
  /\ alive
  /\ turn = "investigate"
  /\ \E outcome \in {"done", "refused"} :
       loop' = Investigated(loop, World(outcome))
  /\ agentic' = loop'.mission
  /\ Persist(loop'.mission, loop')
  /\ turn' = "idle"
  /\ UNCHANGED <<durable, alive, work, auto, trusted, worldVars, created, faults, writes,
                 cancelled>>

\* "authorize mission": the envelope is recorded, the checkpoint is written, and the
\* first repair is prepared unless that failed.
AuthorizeMission ==
  LET next == MissionAuthorized(loop) IN
  /\ Listens
  /\ loop # NoLoop
  /\ CanAuthorizeMission(loop, lapsed)
  /\ loop' = next
  /\ agentic' = next.mission
  /\ Persist(next.mission, next)
  /\ Trusts(next.mission, next, TRUE)
  /\ auto' = Saves(next.mission, next)
  /\ turn' = IF Saves(next.mission, next) THEN "prepare" ELSE "idle"
  /\ UNCHANGED <<durable, alive, work, worldVars, created, faults, writes, cancelled>>

\* "fix this": a provider is asked for a proposal.
PrepareRepair ==
  /\ Listens
  /\ loop # NoLoop
  /\ loop.state = "READY_FOR_REPAIR"
  /\ turn' = "prepare"
  /\ auto' = FALSE
  /\ UNCHANGED <<durable, alive, agentic, loop, work, trusted, store, worldVars, created,
                 faults, writes, cancelled>>

\* The provider fails, or no target is left to try.
PrepareFails ==
  /\ alive
  /\ turn = "prepare"
  /\ turn' = "idle"
  /\ auto' = FALSE
  /\ UNCHANGED <<durable, alive, agentic, loop, work, trusted, store, worldVars, created,
                 faults, writes, cancelled>>

\* A proposal arrives and a human is asked for this repair.
ProposeForApproval ==
  /\ alive
  /\ turn = "prepare"
  /\ ~loop.authority
  /\ \E t \in Target :
       /\ CanPropose(loop, t)
       /\ loop' = Proposed(loop, t, World("done"))
  /\ agentic' = loop'.mission
  /\ Persist(loop'.mission, loop')
  /\ turn' = "idle"
  /\ auto' = FALSE
  /\ UNCHANGED <<durable, alive, work, trusted, worldVars, created, faults, writes, cancelled>>

\* The envelope yields the authorization of the repair, if it was not withdrawn.
Derives(l) ==
  /\ trusted
  /\ Envelope(l.mission.id) \notin lapsed
  /\ l.mission.state \notin TerminalStates

\* A proposal arrives under the mission authority.  A checkpoint of a loop in this state
\* cannot be read back, so with durable continuity the handler stops here; only the
\* mission as it was when the proposal was dispatched has been recorded.
ProposeUnderMission ==
  LET started == Append1(loop.mission, "REPAIR_STARTED", "REPAIRING") IN
  /\ alive
  /\ turn = "prepare"
  /\ loop.authority
  /\ \E t \in Target :
       /\ CanPropose(loop, t)
       /\ loop' = Proposed(loop, t, World("done"))
  /\ agentic' = loop'.mission
  /\ Persist(started, NoLoop)
  /\ Trusts(loop'.mission, loop', trusted)
  /\ IF Saves(loop'.mission, loop') /\ Derives(loop')
       THEN turn' = "apply" /\ work' = Granted(loop') /\ auto' = auto
       ELSE turn' = "idle" /\ work' = work /\ auto' = FALSE
  /\ UNCHANGED <<durable, alive, worldVars, created, faults, writes, cancelled>>

\* Mutant of ApproveRepair: the mutation is dispatched without a record before it.
ApproveUnrecorded ==
  /\ Idle
  /\ loop # NoLoop
  /\ loop.state = "AUTHORITY_REQUIRED"
  /\ work' = Granted(loop)
  /\ turn' = "apply"
  /\ auto' = FALSE
  /\ UNCHANGED <<durable, alive, agentic, loop, trusted, store, worldVars, created, faults,
                 writes, cancelled>>

\* "approve repair": the authorization of this proposal is materialized and recorded; the
\* mission is recorded once more before the mutation is dispatched.
ApproveRepair ==
  /\ Idle
  /\ loop # NoLoop
  /\ loop.state = "AUTHORITY_REQUIRED"
  /\ work' = Granted(loop)
  /\ Persist(work'.mission, NoLoop)
  /\ turn' = "apply"
  /\ auto' = FALSE
  /\ UNCHANGED <<durable, alive, agentic, loop, trusted, worldVars, created, faults, writes,
                 cancelled>>

\* The mutation is dispatched; another record of the mission precedes the test.
ApplyRepair(outcome) ==
  LET answer == ApplyAnswer(work, World(outcome)) IN
  /\ alive
  /\ turn = "apply"
  /\ work' = Applied(work, World(outcome))
  /\ IF answer.effect
       THEN /\ content' = [content EXCEPT ![work.pending.target] = "repaired"]
            /\ writes' = Append(writes, <<work.mission.id, work.pending.target>>)
       ELSE UNCHANGED <<content, writes>>
  /\ IF work'.state = "BLOCKED"
       THEN turn' = "finish" /\ store' = store
       ELSE turn' = "test" /\ Persist(work'.mission, NoLoop)
  /\ UNCHANGED <<durable, alive, agentic, loop, auto, trusted, head, lapsed, created, faults,
                 cancelled>>

\* The targeted test runs, and when it passes the qualification is next.
TestRepair(outcome) ==
  /\ alive
  /\ turn = "test"
  /\ work' = Tested(work, World(outcome))
  /\ IF work'.state \in {"BLOCKED", "READY_FOR_REPAIR"}
       THEN turn' = "finish" /\ store' = store
       ELSE turn' = "qualify" /\ Persist(work'.mission, NoLoop)
  /\ UNCHANGED <<durable, alive, agentic, loop, auto, trusted, worldVars, created, faults,
                 writes, cancelled>>

Qualify(outcome) ==
  /\ alive
  /\ turn = "qualify"
  /\ work' = Qualified(work, World(outcome))
  /\ turn' = "finish"
  /\ UNCHANGED <<durable, alive, agentic, loop, auto, trusted, store, worldVars, created,
                 faults, writes, cancelled>>

\* The handler assigns what it has worked on, records it, and under the mission
\* authority goes on to the next repair.
FinishRepair ==
  /\ alive
  /\ turn = "finish"
  /\ loop' = work
  /\ agentic' = work.mission
  /\ work' = NoLoop
  /\ Persist(work.mission, work)
  /\ Trusts(work.mission, work, trusted /\ work.authority)
  /\ LET next == auto /\ work.state = "READY_FOR_REPAIR" /\ Saves(work.mission, work)
     IN turn' = (IF next THEN "prepare" ELSE "idle") /\ auto' = next
  /\ UNCHANGED <<durable, alive, worldVars, created, faults, writes, cancelled>>

\* "deny".
DenyRepair ==
  /\ Idle
  /\ loop # NoLoop
  /\ loop.state = "AUTHORITY_REQUIRED"
  /\ loop' = DeniedLoop(loop)
  /\ agentic' = loop'.mission
  /\ Persist(loop'.mission, loop')
  /\ UNCHANGED <<durable, alive, work, turn, auto, trusted, worldVars, created, faults,
                 writes, cancelled>>

\* "cancel": the loop first, whatever the current mission is; then the current mission.
CancelMission ==
  LET cancels == loop # NoLoop /\ CanCancelLoop(loop)
      current == IF cancels THEN CancelledLoop(loop).mission ELSE agentic
  IN
  /\ Idle
  /\ current # NoMission
  /\ CanAppend(current, "MISSION_CANCELLED", "CANCELLED")
  /\ loop' = IF cancels THEN CancelledLoop(loop) ELSE loop
  /\ agentic' = IF current.state = "CANCELLED" THEN current ELSE Cancel(current)
  /\ trusted' = (trusted /\ ~cancels)
  /\ cancelled' = cancelled \union {current.id}
  /\ Persist(agentic', loop')
  /\ UNCHANGED <<durable, alive, work, turn, auto, worldVars, created, faults, writes>>

\* "resume": the current mission only; the loop keeps the mission it had.
ResumeMission ==
  /\ Listens
  /\ agentic # NoMission
  /\ CanResume(agentic)
  /\ Roomy(agentic)
  /\ agentic' = Resume(agentic, head, FALSE)
  /\ Persist(agentic', loop)
  /\ UNCHANGED <<durable, alive, loop, work, turn, auto, trusted, worldVars, created, faults,
                 writes, cancelled>>

\* A projection or a continuation that finds the workspace changed blocks the one step
\* that is left, and then the mission.
Stale(m) ==
  IF Cardinality(PendingSteps(m)) = 1
    THEN UpdateStep(m, FirstPending(m).kind, FirstPending(m).n, "BLOCKED", "STALE_STATE")
    ELSE m
Invalidated(m) == Append1(Stale(m), "STATE_INVALIDATED", "BLOCKED")

\* "status", "plan" ...: a projection that finds the workspace changed invalidates the
\* current mission.
ProjectMission ==
  /\ Listens
  /\ agentic # NoMission
  /\ agentic.head # head
  /\ agentic.events[Len(agentic.events)].type # "STATE_INVALIDATED"
  /\ CanAppend(agentic, "STATE_INVALIDATED", "BLOCKED")
  /\ Roomy(agentic)
  /\ agentic' = Invalidated(agentic)
  /\ Persist(agentic', loop)
  /\ UNCHANGED <<durable, alive, loop, work, turn, auto, trusted, worldVars, created, faults,
                 writes, cancelled>>

\* The step becomes active and is recorded before it is dispatched; a record that the
\* store refuses ends the handler.
Activates(m, n) ==
  /\ agentic' = UpdateStep(m, "read", n, "ACTIVE", "NONE")
  /\ Persist(agentic', loop)
  /\ turn' = IF Saves(agentic', loop) THEN "read" ELSE "idle"

\* A question about the workspace makes a mission of its own the current one.
AskGateway ==
  /\ Listens
  /\ created < MaxMissions
  /\ created' = created + 1
  /\ Activates(NewMission(created', head,
       <<Step("read", 1, "PENDING"), Step("read", 2, "PENDING")>>, {}, ReadCapabilities), 1)
  /\ UNCHANGED <<durable, alive, loop, work, auto, trusted, worldVars, faults, writes,
                 cancelled>>

\* "continue" when no repair is to be prepared, and the workspace is as it was.  A step
\* that a process left active when it ended keeps every other from being activated.
ContinueMission ==
  /\ Listens
  /\ agentic # NoMission
  /\ loop = NoLoop \/ loop.state # "READY_FOR_REPAIR"
  /\ Roomy(agentic)
  /\ Continuation(agentic, head) = "ELIGIBLE"
  /\ CanUpdateStep(agentic, "read", FirstPending(agentic).n, "ACTIVE")
  /\ Activates(agentic, FirstPending(agentic).n)
  /\ UNCHANGED <<durable, alive, loop, work, auto, trusted, worldVars, created, faults,
                 writes, cancelled>>

\* "continue" when the workspace has changed.  A cancelled mission loses the step that is
\* left, and the handler fails before anything is recorded.
ContinueStale ==
  /\ Listens
  /\ agentic # NoMission
  /\ loop = NoLoop \/ loop.state # "READY_FOR_REPAIR"
  /\ Roomy(agentic)
  /\ Continuation(agentic, head) = "STALE_STATE"
  /\ agentic' = IF agentic.state \in {"BLOCKED", "CANCELLED"} THEN Stale(agentic)
                ELSE Invalidated(agentic)
  /\ IF agentic.state = "CANCELLED" THEN store' = store ELSE Persist(agentic', loop)
  /\ UNCHANGED <<durable, alive, loop, work, turn, auto, trusted, worldVars, created, faults,
                 writes, cancelled>>

\* The read goes through the gateway, and its result into the plan; for a mission that was
\* cancelled that result cannot be recorded, and the handler fails.
ReadWorkspace(outcome) ==
  LET answer == Dispatch(Request(agentic, "workspace.read", NoTarget, "none", "none"), agentic,
                         World(outcome))
      active == CHOOSE i \in DOMAIN agentic.plan : agentic.plan[i].status = "ACTIVE"
      n == agentic.plan[active].n
  IN
  /\ alive
  /\ turn = "read"
  /\ IF answer.mission.state = "CANCELLED"
       THEN UNCHANGED <<agentic, store>>
       ELSE /\ agentic' = RecordPlanResult(answer.mission, "read", n, answer.class)
            /\ Persist(agentic', loop)
  /\ turn' = "idle"
  /\ UNCHANGED <<durable, alive, loop, work, auto, trusted, worldVars, created, faults,
                 writes, cancelled>>

\* The process ends, in the middle of a handler or between two lines.
Crash ==
  /\ alive
  /\ faults < MaxFaults
  /\ faults' = faults + 1
  /\ alive' = FALSE
  /\ agentic' = NoMission
  /\ loop' = NoLoop
  /\ work' = NoLoop
  /\ turn' = "idle"
  /\ auto' = FALSE
  /\ trusted' = FALSE
  /\ UNCHANGED <<durable, store, worldVars, created, writes, cancelled>>

\* A new session takes up the durable record: a cancelled mission and a valid green one
\* are history, any other is resumed against the workspace as it is.
Restart ==
  LET m == store.mission
      history == m.state = "CANCELLED" \/ (m.state = "GREEN" /\ m.head = head)
      resumed == IF history THEN m ELSE Resume(m, head, TRUE)
      bound == IF store.loop = NoLoop THEN NoLoop
               ELSE LoopAfterRestart(store.loop, resumed, m.head = head)
  IN
  /\ ~alive
  /\ alive' = TRUE
  /\ IF store = NoRecord THEN UNCHANGED <<agentic, loop, store>>
     ELSE agentic' = resumed /\ loop' = bound /\ Persist(resumed, bound)
  /\ UNCHANGED <<durable, work, turn, auto, trusted, worldVars, created, faults, writes,
                 cancelled>>

\* The workspace is not the one the missions so far are bound to any more.
Drift ==
  /\ faults < MaxFaults
  /\ faults' = faults + 1
  /\ head' = head + 1
  /\ UNCHANGED <<durable, alive, processVars, store, content, lapsed, created, writes,
                 cancelled>>

\* Somebody else writes a target.
Edit ==
  /\ faults < MaxFaults
  /\ faults' = faults + 1
  /\ \E t \in Target :
       content[t] # "foreign" /\ content' = [content EXCEPT ![t] = "foreign"]
  /\ UNCHANGED <<durable, alive, processVars, store, head, lapsed, created, writes,
                 cancelled>>

\* The grants of a mission that outlive a turn expire.
Lapse ==
  /\ faults < MaxFaults
  /\ faults' = faults + 1
  /\ \E id \in 1 .. created :
       Envelope(id) \notin lapsed /\ lapsed' = lapsed \union {Qualification(id), Envelope(id)}
  /\ UNCHANGED <<durable, alive, processVars, store, head, content, created, writes,
                 cancelled>>

Next ==
  \/ StartRepair
  \/ Investigate
  \/ AuthorizeMission
  \/ PrepareRepair
  \/ PrepareFails
  \/ ProposeForApproval
  \/ ProposeUnderMission
  \/ ApproveRepair
  \/ \E outcome \in Outcomes : ApplyRepair(outcome)
  \/ \E outcome \in Outcomes \ {"late"} : TestRepair(outcome) \/ Qualify(outcome)
  \/ FinishRepair
  \/ DenyRepair
  \/ CancelMission
  \/ ResumeMission
  \/ ProjectMission
  \/ AskGateway
  \/ ContinueMission
  \/ ContinueStale
  \/ \E outcome \in {"done", "refused"} : ReadWorkspace(outcome)
  \/ Crash
  \/ Restart
  \/ Drift
  \/ Edit
  \/ Lapse

Spec == Init /\ [][Next]_vars

Missions == {agentic, loop.mission, work.mission, store.mission}

\* Whatever a handler does to a mission, its plan stays one the plan normalization takes:
\* no step twice and at most one active.  A plan that is not would make the handler throw
\* in the middle of an approved repair (natural-agentic-mission.js:404).
PlansStayNormal == \A m \in Missions : NormalPlan(m.plan)

\* A mission that is GREEN has no step left and was qualified after the last change
\* recorded in it: a passing canonical test, started under its grant, follows every
\* recorded change, across restarts, expired grants and a workspace that changes
\* (natural-agentic-mission.js:1367).
Changed(events) ==
  {i \in DOMAIN events : events[i] = Event("OPERATION_COMPLETED", "IMPLEMENTING")}
CanonicallyPassed(events) ==
  {i \in DOMAIN events \ {1} :
     /\ events[i].type = "TEST_PASSED"
     /\ events[i - 1] = Event("OPERATION_STARTED", "QUALIFYING")}
QualifiedLast(m) ==
  /\ CanCompleteGreen(m)
  /\ \E i \in CanonicallyPassed(m.events) : \A j \in Changed(m.events) : j < i
GreenIsQualified == \A m \in Missions : m.state = "GREEN" => QualifiedLast(m)

\* Within one mission a target is written at most once, and no more attempts are written
\* than the ceiling allows, whatever crashes, restarts and late failures happen between
\* the write and the record of it (natural-governed-repair-loop.js:921).
EachTargetIsWrittenOnce ==
  /\ \A i, j \in DOMAIN writes : writes[i] = writes[j] => i = j
  /\ \A id \in 1 .. created :
       Cardinality({i \in DOMAIN writes : writes[i][1] = id}) <= AttemptCeiling

\* Once a human has cancelled a mission nothing is ever written for it again, not even by
\* a process that restarts from the durable record (surgical.js:3752).
CancelledIsNeverWritten ==
  [][\A id \in cancelled :
       Cardinality({i \in DOMAIN writes' : writes'[i][1] = id})
         = Cardinality({i \in DOMAIN writes : writes[i][1] = id})]_vars

----------------------------------------------------------------------------
\* The repair that may be made now: it is given when the authorization of the pending
\* proposal has been materialized (natural-governed-repair-loop.js:1389), and is gone when
\* the mutation was dispatched (natural-governed-repair-loop.js:1182).
Permit ==
  IF turn = "apply"
    THEN [mission |-> work.mission.id, target |-> work.pending.target,
          before |-> work.pending.before]
    ELSE [mission |-> 0]

Governed == INSTANCE GovernedRepair
  WITH Content <- Contents, Original <- "original", Repaired <- "repaired",
       asked <- created, permit <- Permit, repairs <- writes

\* To someone who sees only the targets and what humans decided, the loop with its plan, the
\* gateway, the checkpoints and the restarts make repairs one at a time, each under a
\* permit of its own, on the content the proposal was made for, none for a cancelled
\* mission or for a target that was already repaired for it.
ImplementsGovernedRepair == Governed!RSpec
=============================================================================
