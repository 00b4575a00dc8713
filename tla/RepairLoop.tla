----------------------------- MODULE RepairLoop -----------------------------
(***************************************************************************)
(* The repair loop value of cli/natural-governed-repair-loop.js: a mission *)
(* of its own, the bounded targets, the attempts already made and the      *)
(* proposal that awaits authority.  Every function returns the next loop.  *)
(* The one call that continues with an authorization is cut here where the *)
(* world can come between: Granted, Applied, Tested, Qualified.            *)
(***************************************************************************)
EXTENDS GatewayDispatch

CONSTANT AttemptCeiling   \* attempts a loop may make

\* A loop with any other ceiling is refused.
ASSUME AttemptCeilingAssumption == AttemptCeiling \in 1 .. 8

LoopStates == {"INVESTIGATING", "READY_FOR_REPAIR", "AUTHORITY_REQUIRED",
               "MISSION_AUTHORITY_READY", "BLOCKED", "GREEN", "CANCELLED"}

NoPending == [target |-> NoTarget, before |-> "none", attempt |-> 0]
Pending(target, before, attempt) == [target |-> target, before |-> before, attempt |-> attempt]

\* References: the qualification grant made with the loop, the envelope a human may
\* authorize for the whole mission, and the one-shot authorization of one attempt.
Qualification(id) == <<"qualification", id, 0>>
Envelope(id) == <<"envelope", id, 0>>
OneShot(id, attempt) == <<"patch", id, attempt>>

Attempted(loop) == {loop.attempts[i].target : i \in DOMAIN loop.attempts}
Attempt(loop) == Len(loop.attempts) + 1

\* The plan of a new loop: the inspection is active, one repair and the qualification wait.
CreatedLoop(id, head) ==
  [state |-> "INVESTIGATING",
   mission |-> NewMission(id, head,
     <<Step("inspect", 0, "ACTIVE"), Step("prepare", 1, "PENDING"),
       Step("qualification", 0, "PENDING")>>,
     {Grant(Qualification(id), "tests.runCanonical", FALSE, FALSE)}, RepairCapabilities),
   attempts |-> <<>>, pending |-> NoPending, request |-> FALSE, authority |-> FALSE,
   stop |-> "NONE", restarted |-> FALSE]

\* What every function checks of the loop it is given.
ValidLoop(loop) ==
  /\ loop.state \in LoopStates
  /\ loop.state = "MISSION_AUTHORITY_READY" => loop.pending # NoPending /\ loop.authority
  /\ loop.state \in {"GREEN", "BLOCKED", "CANCELLED"} => ~loop.request /\ ~loop.authority
  /\ loop.authority =>
       /\ loop.request
       /\ \E g \in loop.mission.grants : g.ref = Envelope(loop.mission.id) /\ g.broker
       /\ Envelope(loop.mission.id) \notin loop.mission.used

Sends(loop, op, target, before, ref, w) ==
  Dispatch(Request(loop.mission, op, target, before, ref), loop.mission, w)

\* A loop that stops: nothing is pending and no authority is left.
Stopped(loop, mission, reason) ==
  [loop EXCEPT !.state = "BLOCKED", !.mission = mission, !.pending = NoPending,
               !.request = FALSE, !.authority = FALSE, !.stop = reason]

\* The first test: only a failing test opens the loop.  Any classification other than
\* FAILURE counts as "already passing".
Investigated(loop, w) ==
  LET answer == Sends(loop, "tests.run", NoTarget, "none", "none", w)
      failed == answer.class = "FAILURE"
      inspected == UpdateStep(answer.mission, "inspect", 0, "COMPLETED",
                              IF failed THEN "SUCCESS" ELSE "PASSED")
  IN IF failed
       THEN [loop EXCEPT !.state = "READY_FOR_REPAIR", !.request = TRUE,
                         !.mission = UpdateStep(inspected, "prepare", 1, "ACTIVE", "NONE")]
       ELSE Stopped(loop,
              Block(UpdateStep(
                      UpdateStep(inspected, "prepare", 1, "BLOCKED", "INCOMPLETE_EVIDENCE"),
                      "qualification", 0, "BLOCKED", "INCOMPLETE_EVIDENCE")),
              "INCOMPLETE_EVIDENCE")

\* A human authorizes every repair of this mission at once.
CanAuthorizeMission(loop, lapsed) ==
  /\ loop.state = "READY_FOR_REPAIR"
  /\ loop.request
  /\ ~loop.authority
  /\ CanRecordGrant(loop.mission,
       Grant(Envelope(loop.mission.id), "mutation.applyConditional", FALSE, TRUE), lapsed)
MissionAuthorized(loop) ==
  [loop EXCEPT !.authority = TRUE, !.stop = "NONE",
     !.mission = RecordGrant(@,
       Grant(Envelope(loop.mission.id), "mutation.applyConditional", FALSE, TRUE))]

\* Steps are inserted in front of the qualification.
BeforeQualification(plan, steps) ==
  LET q == CHOOSE i \in DOMAIN plan : Is(plan[i], "qualification", 0)
  IN SubSeq(plan, 1, q - 1) \o steps \o SubSeq(plan, q, Len(plan))

\* Mutant of CanPropose: a target may be tried again.
CanProposeAgain(loop, target) == loop.state = "READY_FOR_REPAIR" /\ target \in Target

\* A proposal that is exact: for the next attempt and a target not attempted before.
CanPropose(loop, target) ==
  /\ loop.state = "READY_FOR_REPAIR"
  /\ target \notin Attempted(loop)

\* The gateway materializes the proposal, the plan gets the steps of the attempt, and
\* without a mission authority a human is asked.
Proposed(loop, target, w) ==
  LET n == Attempt(loop)
      started == [loop EXCEPT !.mission = Append1(@, "REPAIR_STARTED", "REPAIRING")]
      answer == Sends(started, "mutation.propose", NoTarget, "none", "none",
                      [w EXCEPT !.outcome = "done"])
      prepared == UpdateStep(answer.mission, "prepare", n, "COMPLETED", "SUCCESS")
      planned == UpdatePlan(prepared, BeforeQualification(prepared.plan,
                   <<Step("authority", n, "ACTIVE"), Step("apply", n, "PENDING"),
                     Step("test", n, "PENDING")>>))
      ready == [loop EXCEPT !.mission = planned, !.pending = Pending(target, w.content[target], n),
                            !.stop = "NONE", !.state = "MISSION_AUTHORITY_READY"]
  IN IF loop.authority THEN ready
     ELSE [ready EXCEPT !.state = "AUTHORITY_REQUIRED", !.stop = "AUTHORITY_REQUIRED",
             !.mission = Sends(ready, "authority.request", NoTarget, "none", "none", w).mission]

\* The one-shot authorization of the pending attempt is recorded as a grant, and the
\* application of the repair becomes the active step.
Granted(loop) ==
  LET n == Attempt(loop)
      granted == RecordGrant(loop.mission,
        Grant(OneShot(loop.mission.id, n), "mutation.applyConditional", TRUE, FALSE))
  IN [loop EXCEPT !.mission =
        UpdateStep(UpdateStep(granted, "authority", n, "COMPLETED", "SUCCESS"),
                   "apply", n, "ACTIVE", "NONE")]

\* Whatever a dispatched operation answers but SUCCESS stops the loop.
StopAfter(loop, answer, kind, n) ==
  Stopped(loop, Block(UpdateStep(answer.mission, kind, n, "BLOCKED", answer.class)),
          answer.class)

\* The conditional mutation: what it leaves, and what the gateway answered.
ApplyAnswer(loop, w) ==
  Sends(loop, "mutation.applyConditional", loop.pending.target, loop.pending.before,
        OneShot(loop.mission.id, Attempt(loop)), w)
\* Mutant of Applied: the test becomes active while the application still is.
AppliedLeftActive(loop, w) ==
  LET answer == ApplyAnswer(loop, w) IN
  IF answer.class # "SUCCESS" THEN StopAfter(loop, answer, "apply", Attempt(loop))
  ELSE [loop EXCEPT !.mission = UpdateStep(answer.mission, "test", Attempt(loop), "ACTIVE",
                                           "NONE")]

Applied(loop, w) ==
  LET n == Attempt(loop)
      answer == ApplyAnswer(loop, w)
  IN IF answer.class # "SUCCESS" THEN StopAfter(loop, answer, "apply", n)
     ELSE [loop EXCEPT !.mission =
             UpdateStep(UpdateStep(answer.mission, "apply", n, "COMPLETED", "SUCCESS"),
                        "test", n, "ACTIVE", "NONE")]

\* The targeted test after a repair.  Anything but SUCCESS is RED: the next attempt is
\* opened, or at the ceiling the loop stops.
Tested(loop, w) ==
  LET n == Attempt(loop)
      answer == Sends(loop, "tests.run", NoTarget, "none", "none", w)
      passed == answer.class = "SUCCESS"
      tested == UpdateStep(answer.mission, "test", n, IF passed THEN "COMPLETED" ELSE "BLOCKED",
                           IF passed THEN "PASSED" ELSE "FAILED")
      recorded == [loop EXCEPT !.attempts = Append(@, [target |-> loop.pending.target,
                                                       passed |-> passed])]
  IN IF passed
       THEN [recorded EXCEPT !.mission = UpdateStep(tested, "qualification", 0, "ACTIVE", "NONE")]
     ELSE IF n >= AttemptCeiling
       THEN Stopped(recorded,
              Block(UpdateStep(tested, "qualification", 0, "BLOCKED", "FAILED")),
              "PATCH_ATTEMPT_BOUND_REACHED")
     ELSE [recorded EXCEPT !.state = "READY_FOR_REPAIR", !.pending = NoPending,
             !.stop = "TEST_FAILED",
             !.mission = UpdatePlan(tested, BeforeQualification(tested.plan,
                           <<Step("prepare", n + 1, "ACTIVE")>>))]

\* Mutant of Qualified: the targeted test is taken for the qualification.
QualifiedByTarget(loop, w) ==
  [Stopped(loop, CompleteGreen(UpdateStep(loop.mission, "qualification", 0, "COMPLETED", "PASSED")),
           "NONE") EXCEPT !.state = "GREEN"]

\* The canonical qualification, under the grant made with the loop, and GREEN.
Qualified(loop, w) ==
  LET answer == Sends(loop, "tests.runCanonical", NoTarget, "none",
                      Qualification(loop.mission.id), w)
      qualified == UpdateStep(answer.mission, "qualification", 0, "COMPLETED", "PASSED")
  IN IF answer.class # "SUCCESS" THEN StopAfter(loop, answer, "qualification", 0)
     ELSE [Stopped(loop, CompleteGreen(qualified), "NONE") EXCEPT !.state = "GREEN"]

\* A denial blocks the steps of the attempt, the qualification and the mission.
DeniedLoop(loop) ==
  LET n == Attempt(loop)
      refused == Append1(loop.mission, "AUTHORITY_DENIED", "BLOCKED")
      denies(m, kind, attempt) == UpdateStep(m, kind, attempt, "BLOCKED", "DENIED")
      blocked == denies(denies(denies(denies(refused, "authority", n), "apply", n), "test", n),
                        "qualification", 0)
  IN Stopped(loop, Block(blocked), "AUTHORITY_DENIED")

\* Mutant of CanCancelLoop: only a loop that awaits a decision is cancelled.
CanCancelAwaiting(loop) == loop.state = "AUTHORITY_REQUIRED"

CanCancelLoop(loop) == loop.state \notin {"GREEN", "CANCELLED"}
CancelledLoop(loop) ==
  [Stopped(loop, Cancel(loop.mission), "CANCELLED") EXCEPT !.state = "CANCELLED"]

\* What is written to durable storage: no grant, no authority, no request for one.
LoopForRestart(loop) ==
  [loop EXCEPT !.mission = ForDurableRestart(@), !.request = FALSE, !.authority = FALSE,
               !.restarted = TRUE]

\* What is checked of a loop that is read back, and of every one before it is written.
ReadsBack(loop) ==
  /\ ~loop.request
  /\ ~loop.authority
  /\ Len(loop.attempts) <= AttemptCeiling
  /\ ValidLoop(loop)

\* What is read back, bound to the mission as it was resumed.
LoopAfterRestart(loop, mission, valid) ==
  IF valid THEN [loop EXCEPT !.mission = mission]
  ELSE [loop EXCEPT !.mission = mission, !.state = "BLOCKED", !.pending = NoPending,
                    !.stop = "STALE_STATE"]
=============================================================================
