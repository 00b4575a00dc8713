------------------------ MODULE NaturalSessionProofs ------------------------
(***************************************************************************)
(* Proofs about NaturalSession: the invariant IInv is inductive, and from  *)
(* it every plan stays normal, GREEN is earned, no target is written twice *)
(* for a mission, and nothing is written for one that was cancelled.       *)
(*                                                                         *)
(* The lemmas go from the data up: missions and plans first, then what     *)
(* each operation of the repair loop makes of a loop that stands, then     *)
(* what each action of the session does to the parts of the invariant.     *)
(***************************************************************************)
EXTENDS NaturalSessionInvariant, FiniteSetTheorems, SequenceTheorems, TLAPS

-----------------------------------------------------------------------------
\* Missions: what an event does to the history, and a plan to the plan.

Recorded(m) ==
  /\ m \in MissionValues
  /\ Len(m.events) > 0
  /\ m.events[Len(m.events)].state = m.state

\* A mission that goes on: it keeps its identity, is GREEN only if it was, and has at most
\* `most' new events.
Follows(m, next, most) ==
  /\ Recorded(next)
  /\ next.id = m.id
  /\ next.state = "GREEN" => m.state = "GREEN"
  /\ Len(m.events) <= Len(next.events)
  /\ Len(next.events) <= Len(m.events) + most

LEMMA MissionFields ==
  ASSUME NEW m \in MissionValues
  PROVE  /\ m.events \in Seq(Events) /\ Len(m.events) \in Nat
         /\ m.plan \in Seq(Steps)
         /\ m.state \in MissionStates
         /\ m.id \in Nat
<1>1. /\ m.events \in Seq(Events)
      /\ m.plan \in Seq(Steps)
      /\ m.state \in MissionStates
      /\ m.id \in Nat
  BY DEF MissionValues
<1> QED
  BY <1>1

LEMMA EventAdded ==
  ASSUME NEW m \in MissionValues, NEW type \in EventTypes, NEW state \in MissionStates
  PROVE  LET next == Append1(m, type, state) IN
         /\ next \in MissionValues
         /\ next.events = Append(m.events, Event(type, state))
         /\ Len(next.events) = Len(m.events) + 1
         /\ next.state = state
         /\ next.id = m.id
         /\ next.plan = m.plan
         /\ next.canonical = m.canonical
<1>1. Event(type, state) \in Events
  BY DEF Event, Events
<1>2. m.events \in Seq(Events)
  BY DEF MissionValues
<1>3. Append(m.events, Event(type, state)) \in Seq(Events)
  BY <1>1, <1>2
<1>4. Len(Append(m.events, Event(type, state))) = Len(m.events) + 1
  BY <1>1, <1>2
<1> DEFINE longer == Append(m.events, Event(type, state))
<1> HIDE DEF longer
<1>5. /\ [m EXCEPT !.state = state, !.events = longer] \in MissionValues
      /\ [m EXCEPT !.state = state, !.events = longer].events = longer
      /\ [m EXCEPT !.state = state, !.events = longer].state = state
      /\ [m EXCEPT !.state = state, !.events = longer].id = m.id
      /\ [m EXCEPT !.state = state, !.events = longer].plan = m.plan
      /\ [m EXCEPT !.state = state, !.events = longer].canonical = m.canonical
  <2>1. longer \in Seq(Events)
    BY <1>3 DEF longer
  <2> QED
    BY <2>1 DEF MissionValues
<1>6. Append1(m, type, state) = [m EXCEPT !.state = state, !.events = longer]
  BY DEF Append1, longer
<1>7. longer = Append(m.events, Event(type, state))
  BY DEF longer
<1> QED
  BY <1>4, <1>5, <1>6, <1>7

LEMMA LastEvent ==
  ASSUME NEW s \in Seq(Events), NEW e \in Events
  PROVE  /\ Append(s, e)[Len(s) + 1] = e
         /\ \A i \in 1 .. Len(s) : Append(s, e)[i] = s[i]
         /\ Len(Append(s, e)) = Len(s) + 1
  OBVIOUS

LEMMA EventFollows ==
  ASSUME NEW m \in MissionValues, NEW type \in EventTypes, NEW state \in MissionStates,
         state = "GREEN" => m.state = "GREEN"
  PROVE  /\ Follows(m, Append1(m, type, state), 1)
         /\ Len(Append1(m, type, state).events) = Len(m.events) + 1
         /\ Append1(m, type, state).plan = m.plan
         /\ Append1(m, type, state).state = state
<1> DEFINE next == Append1(m, type, state)
<1>1. /\ next \in MissionValues
      /\ next.events = Append(m.events, Event(type, state))
      /\ Len(next.events) = Len(m.events) + 1
      /\ next.state = state
      /\ next.id = m.id
      /\ next.plan = m.plan
  BY EventAdded
<1>2. m.events \in Seq(Events) /\ Event(type, state) \in Events
  BY DEF MissionValues, Event, Events
<1>3. next.events[Len(next.events)] = Event(type, state)
  BY <1>1, <1>2, LastEvent
<1>4. next.events[Len(next.events)].state = next.state
  BY <1>1, <1>3 DEF Event
<1>5. Len(m.events) \in Nat
  BY <1>2
<1> HIDE DEF next
<1>6. Follows(m, next, 1)
  BY <1>1, <1>4, <1>5 DEF Follows, Recorded
<1> QED
  BY <1>1, <1>6 DEF next

LEMMA BoundsAdd ==
  ASSUME NEW x \in Nat, NEW y \in Nat, NEW z \in Nat, NEW a \in Nat, NEW b \in Nat,
         x <= y, y <= x + a, y <= z, z <= y + b
  PROVE  x <= z /\ z <= x + (a + b)
  OBVIOUS

LEMMA FollowsTransitive ==
  ASSUME NEW m \in MissionValues, NEW m2, NEW m3, NEW a \in Nat, NEW b \in Nat,
         Follows(m, m2, a), Follows(m2, m3, b)
  PROVE  Follows(m, m3, a + b)
<1>1. m2 \in MissionValues /\ m3 \in MissionValues
  BY DEF Follows, Recorded
<1>2. Len(m.events) \in Nat /\ Len(m2.events) \in Nat /\ Len(m3.events) \in Nat
  BY <1>1, MissionFields
<1>3. /\ Recorded(m3)
      /\ m3.id = m.id
      /\ m3.state = "GREEN" => m.state = "GREEN"
  BY DEF Follows
<1>4. /\ Len(m.events) <= Len(m2.events) /\ Len(m2.events) <= Len(m.events) + a
      /\ Len(m2.events) <= Len(m3.events) /\ Len(m3.events) <= Len(m2.events) + b
  BY DEF Follows
<1>5. Len(m.events) <= Len(m3.events) /\ Len(m3.events) <= Len(m.events) + (a + b)
  BY <1>2, <1>4, BoundsAdd
<1> QED
  BY <1>3, <1>5 DEF Follows

\* Plans.
Marked(plan, kind, n, status, result) ==
  [i \in DOMAIN plan |->
    IF Is(plan[i], kind, n)
      THEN [plan[i] EXCEPT !.status = status, !.result = result]
      ELSE plan[i]]

LEMMA MarkedPlan ==
  ASSUME NEW plan \in Seq(Steps), NEW kind, NEW n, NEW status \in Statuses,
         NEW result \in StepResults
  PROVE  LET after == Marked(plan, kind, n, status, result) IN
         /\ after \in Seq(Steps)
         /\ Len(after) = Len(plan)
         /\ DOMAIN after = DOMAIN plan
         /\ \A i \in DOMAIN plan :
              /\ after[i].kind = plan[i].kind
              /\ after[i].n = plan[i].n
              /\ Is(plan[i], kind, n) => after[i].status = status /\ after[i].result = result
              /\ ~Is(plan[i], kind, n) => after[i] = plan[i]
<1> DEFINE after == Marked(plan, kind, n, status, result)
<1>1. \A i \in DOMAIN plan : plan[i] \in Steps
  OBVIOUS
<1>2. \A i \in DOMAIN plan :
        /\ after[i] \in Steps
        /\ after[i].kind = plan[i].kind
        /\ after[i].n = plan[i].n
        /\ Is(plan[i], kind, n) => after[i].status = status /\ after[i].result = result
        /\ ~Is(plan[i], kind, n) => after[i] = plan[i]
  BY <1>1 DEF Marked, Steps
<1>3. DOMAIN after = 1 .. Len(plan) /\ DOMAIN plan = 1 .. Len(plan) /\ Len(plan) \in Nat
  BY DEF Marked
<1>4. after = [i \in 1 .. Len(plan) |-> after[i]]
  BY <1>3 DEF Marked
<1>5. after \in Seq(Steps) /\ Len(after) = Len(plan)
  <2> HIDE DEF after
  <2> QED
    BY <1>2, <1>3, <1>4
<1> QED
  BY <1>2, <1>3, <1>5

\* NormalPlan counts, as the code does; the proofs look at two steps.
PlainlyNormal(plan) ==
  /\ Len(plan) <= PlanBound
  /\ \A i, j \in DOMAIN plan :
       /\ Is(plan[i], plan[j].kind, plan[j].n) => i = j
       /\ plan[i].status = "ACTIVE" /\ plan[j].status = "ACTIVE" => i = j
  /\ \A i \in DOMAIN plan :
       /\ plan[i].status = "COMPLETED" => plan[i].result \in {"NONE", "SUCCESS", "PASSED"}
       /\ plan[i].status = "BLOCKED" => plan[i].result \notin {"SUCCESS", "PASSED"}

LEMMA AtMostOne ==
  ASSUME NEW S, IsFiniteSet(S)
  PROVE  Cardinality(S) <= 1 <=> \A i, j \in S : i = j
<1>1. Cardinality(S) \in Nat
  BY FS_CardinalityType
<1>2. ASSUME Cardinality(S) <= 1, NEW i \in S, NEW j \in S
      PROVE  i = j
  <2>1. IsFiniteSet({i}) /\ Cardinality({i}) = 1
    BY FS_Singleton
  <2>2. /\ Cardinality({i}) <= Cardinality(S)
        /\ Cardinality(S) = Cardinality({i}) => S = {i}
    BY FS_Subset
  <2>3. Cardinality(S) = Cardinality({i})
    BY <1>1, <1>2, <2>1, <2>2
  <2> QED
    BY <2>2, <2>3
<1>3. ASSUME \A i, j \in S : i = j
      PROVE  Cardinality(S) <= 1
  <2>1. CASE S = {}
    BY <2>1, FS_EmptySet
  <2>2. CASE S # {}
    <3>1. \E x : S = {x}
      BY <1>3, <2>2
    <3>2. Cardinality(S) = 1
      BY <3>1, FS_Singleton
    <3> QED
      BY <3>2
  <2> QED
    BY <2>1, <2>2
<1> QED
  BY <1>2, <1>3

\* As many names as steps: no two steps have the same name.
LEMMA NamesApart ==
  ASSUME NEW plan \in Seq(Steps)
  PROVE  Cardinality({<<plan[i].kind, plan[i].n>> : i \in DOMAIN plan}) = Len(plan)
         <=> \A i, j \in DOMAIN plan : Is(plan[i], plan[j].kind, plan[j].n) => i = j
<1> DEFINE Names == {<<plan[i].kind, plan[i].n>> : i \in DOMAIN plan}
           name == [i \in DOMAIN plan |-> <<plan[i].kind, plan[i].n>>]
<1>1. Len(plan) \in Nat /\ DOMAIN plan = 1 .. Len(plan)
  OBVIOUS
<1>2. IsFiniteSet(DOMAIN plan) /\ Cardinality(DOMAIN plan) = Len(plan)
  <2>1. PICK n \in Nat : n = Len(plan)
    BY <1>1
  <2>2. IsFiniteSet(1 .. n) /\ Cardinality(1 .. n) = IF 1 > n THEN 0 ELSE n - 1 + 1
    BY FS_Interval
  <2>3. Cardinality(1 .. n) = n
    BY <2>2
  <2> QED
    BY <1>1, <2>1, <2>2, <2>3
<1>3. name \in Surjection(DOMAIN plan, Names)
  BY DEF Surjection
<1>4. Cardinality(Names) = Cardinality(DOMAIN plan)
        <=> name \in Injection(DOMAIN plan, Names)
  BY <1>2, <1>3, FS_Surjection
<1>5. name \in Injection(DOMAIN plan, Names)
        <=> \A i, j \in DOMAIN plan : name[i] = name[j] => i = j
  <2>1. name \in [DOMAIN plan -> Names] /\ DOMAIN name = DOMAIN plan
    OBVIOUS
  <2> HIDE DEF name, Names
  <2> QED
    BY <2>1 DEF Injection, IsInjective
<1>6. \A i, j \in DOMAIN plan : name[i] = name[j] <=> Is(plan[i], plan[j].kind, plan[j].n)
  BY DEF Is
<1> HIDE DEF name, Names
<1>7. Cardinality(Names) = Len(plan)
        <=> \A i, j \in DOMAIN plan : Is(plan[i], plan[j].kind, plan[j].n) => i = j
  BY <1>2, <1>4, <1>5, <1>6
<1> QED
  BY <1>7 DEF Names

LEMMA NormalIsPlain ==
  ASSUME NEW plan \in Seq(Steps)
  PROVE  NormalPlan(plan) <=> PlainlyNormal(plan)
<1> DEFINE Active == {i \in DOMAIN plan : plan[i].status = "ACTIVE"}
<1>1. IsFiniteSet(Active)
  <2>1. DOMAIN plan = 1 .. Len(plan) /\ Len(plan) \in Nat
    OBVIOUS
  <2>2. IsFiniteSet(1 .. Len(plan))
    BY <2>1, FS_Interval
  <2> QED
    BY <2>1, <2>2, FS_Subset
<1>2. Cardinality(Active) <= 1 <=> \A i, j \in Active : i = j
  <2> HIDE DEF Active
  <2> QED
    BY <1>1, AtMostOne
<1>3. (\A i, j \in Active : i = j)
        <=> \A i, j \in DOMAIN plan :
              plan[i].status = "ACTIVE" /\ plan[j].status = "ACTIVE" => i = j
  OBVIOUS
<1> QED
  BY <1>2, <1>3, NamesApart DEF NormalPlan, PlainlyNormal

LEMMA MarkedNormal ==
  ASSUME NEW plan \in Seq(Steps), NEW kind, NEW n, NEW status \in Statuses,
         NEW result \in StepResults, NormalPlan(plan),
         status = "COMPLETED" => result \in {"NONE", "SUCCESS", "PASSED"},
         status = "BLOCKED" => result \notin {"SUCCESS", "PASSED"},
         status = "ACTIVE" =>
           \A i \in DOMAIN plan : plan[i].status = "ACTIVE" => Is(plan[i], kind, n)
  PROVE  NormalPlan(Marked(plan, kind, n, status, result))
<1> DEFINE after == Marked(plan, kind, n, status, result)
<1>1. /\ after \in Seq(Steps)
      /\ Len(after) = Len(plan)
      /\ DOMAIN after = DOMAIN plan
      /\ \A i \in DOMAIN plan :
           /\ after[i].kind = plan[i].kind
           /\ after[i].n = plan[i].n
           /\ Is(plan[i], kind, n) => after[i].status = status /\ after[i].result = result
           /\ ~Is(plan[i], kind, n) => after[i] = plan[i]
  BY MarkedPlan
<1> HIDE DEF after
<1>2. \A i, j \in DOMAIN plan : Is(plan[i], plan[j].kind, plan[j].n) => i = j
  BY NormalIsPlain DEF PlainlyNormal
<1>3. \A i, j \in DOMAIN after : Is(after[i], after[j].kind, after[j].n) => i = j
  BY <1>1, <1>2 DEF Is
<1>4. ASSUME NEW i \in DOMAIN after, NEW j \in DOMAIN after,
             after[i].status = "ACTIVE", after[j].status = "ACTIVE"
      PROVE  i = j
  <2>1. CASE status = "ACTIVE"
    <3>1. Is(plan[i], kind, n)
      BY <1>1, <1>4, <2>1
    <3>2. Is(plan[j], kind, n)
      BY <1>1, <1>4, <2>1
    <3> QED
      BY <1>1, <1>2, <3>1, <3>2 DEF Is
  <2>2. CASE status # "ACTIVE"
    <3>1. plan[i].status = "ACTIVE" /\ plan[j].status = "ACTIVE"
      BY <1>1, <1>4, <2>2
    <3> QED
      BY <1>1, <3>1, NormalIsPlain DEF PlainlyNormal
  <2> QED
    BY <2>1, <2>2
<1>5. ASSUME NEW i \in DOMAIN after
      PROVE  /\ after[i].status = "COMPLETED" => after[i].result \in {"NONE", "SUCCESS", "PASSED"}
             /\ after[i].status = "BLOCKED" => after[i].result \notin {"SUCCESS", "PASSED"}
  BY <1>1, <1>5, NormalIsPlain DEF PlainlyNormal
<1>6. Len(after) <= PlanBound
  BY <1>1, NormalIsPlain DEF PlainlyNormal
<1>7. NormalPlan(after)
  <2>1. PlainlyNormal(after)
    BY <1>3, <1>4, <1>5, <1>6 DEF PlainlyNormal
  <2> QED
    BY <1>1, <2>1, NormalIsPlain
<1> QED
  BY <1>7 DEF after

\* A step of the plan is updated: the plan is marked, and one event added.
LEMMA StepUpdated ==
  ASSUME NEW m \in MissionValues, NEW kind, NEW n, NEW status \in Statuses,
         NEW result \in StepResults
  PROVE  LET next == UpdateStep(m, kind, n, status, result) IN
         /\ Follows(m, next, 1)
         /\ next.plan = Marked(m.plan, kind, n, status, result)
         /\ next.state = m.state
         /\ next.canonical = m.canonical
         /\ next.events = Append(m.events, Event("PLAN_UPDATED", m.state))
         /\ Len(next.events) = Len(m.events) + 1
<1> DEFINE plan == Marked(m.plan, kind, n, status, result)
           marked == [m EXCEPT !.plan = plan]
<1>1. m.plan \in Seq(Steps) /\ m.state \in MissionStates
  BY DEF MissionValues
<1>2. plan \in Seq(Steps)
  BY <1>1, MarkedPlan
<1>3. UpdateStep(m, kind, n, status, result) = Append1(marked, "PLAN_UPDATED", m.state)
  BY DEF UpdateStep, UpdatePlan, Marked
<1> HIDE DEF plan
<1>4. /\ marked \in MissionValues
      /\ marked.plan = plan
      /\ marked.id = m.id
      /\ marked.state = m.state
      /\ marked.events = m.events
      /\ marked.canonical = m.canonical
  BY <1>2 DEF MissionValues
<1> HIDE DEF marked
<1>7. m.state = "GREEN" => marked.state = "GREEN"
  BY <1>4
<1>8. "PLAN_UPDATED" \in EventTypes
  BY DEF EventTypes
<1> DEFINE next == Append1(marked, "PLAN_UPDATED", m.state)
<1>9. /\ Follows(marked, next, 1)
      /\ Len(next.events) = Len(marked.events) + 1
      /\ next.plan = marked.plan
      /\ next.state = m.state
  BY <1>1, <1>4, <1>7, <1>8, EventFollows
<1>10. /\ next.canonical = marked.canonical
       /\ next.events = Append(marked.events, Event("PLAN_UPDATED", m.state))
  BY <1>1, <1>4, <1>8, EventAdded
<1> HIDE DEF next
<1>5. /\ Follows(marked, Append1(marked, "PLAN_UPDATED", m.state), 1)
      /\ Append1(marked, "PLAN_UPDATED", m.state).plan = plan
      /\ Append1(marked, "PLAN_UPDATED", m.state).state = m.state
      /\ Append1(marked, "PLAN_UPDATED", m.state).canonical = m.canonical
      /\ Append1(marked, "PLAN_UPDATED", m.state).events
           = Append(m.events, Event("PLAN_UPDATED", m.state))
      /\ Len(Append1(marked, "PLAN_UPDATED", m.state).events) = Len(m.events) + 1
  BY <1>4, <1>9, <1>10 DEF next
<1>6. Follows(m, Append1(marked, "PLAN_UPDATED", m.state), 1)
  BY <1>4, <1>5 DEF Follows
<1> QED
  BY <1>3, <1>5, <1>6 DEF plan

-----------------------------------------------------------------------------
\* Missions: what the gateway records of an operation.

LEMMA StatesOfOperations ==
  ASSUME NEW op \in Operations \ LocalFastPath
  PROVE  /\ StateOf[op] \in MissionStates /\ StateOf[op] # "GREEN"
         /\ op = "tests.runCanonical" => StateOf[op] = "QUALIFYING"
  BY DEF Operations, LocalFastPath, StateOf, MissionStates

LEMMA Requested ==
  ASSUME NEW m, NEW op, NEW target, NEW before, NEW ref
  PROVE  LET r == Request(m, op, target, before, ref) IN
         r.op = op /\ r.target = target /\ r.ref = ref /\ BindingStatus(r, m) = "SUCCESS"
  BY DEF Request, BindingStatus

LEMMA TestRecorded ==
  ASSUME NEW m \in MissionValues, NEW canonical \in BOOLEAN, NEW passed \in BOOLEAN
  PROVE  LET next == RecordTest(m, canonical, passed) IN
         /\ Follows(m, next, 1)
         /\ next.plan = m.plan
         /\ canonical /\ passed =>
              /\ next.canonical = "PASSED"
              /\ next.state = "TESTING"
              /\ next.events = Append(m.events, Event("TEST_PASSED", "TESTING"))
<1> DEFINE tested == IF canonical
                       THEN [m EXCEPT !.canonical = IF passed THEN "PASSED" ELSE "FAILED"]
                       ELSE m
           type == IF passed THEN "TEST_PASSED" ELSE "TEST_FAILED"
<1>1. /\ tested \in MissionValues
      /\ tested.plan = m.plan
      /\ tested.id = m.id
      /\ tested.events = m.events
      /\ canonical /\ passed => tested.canonical = "PASSED"
  BY DEF MissionValues
<1>2. RecordTest(m, canonical, passed) = Append1(tested, type, "TESTING")
  BY DEF RecordTest
<1>3. type \in EventTypes /\ "TESTING" \in MissionStates
  BY DEF EventTypes, MissionStates
<1>4. passed => type = "TEST_PASSED"
  OBVIOUS
<1> HIDE DEF tested, type
<1> DEFINE next == Append1(tested, type, "TESTING")
<1>5. /\ Follows(tested, next, 1)
      /\ next.plan = m.plan
      /\ next.state = "TESTING"
  BY <1>1, <1>3, EventFollows
<1>6. next.canonical = tested.canonical /\ next.events = Append(m.events, Event(type, "TESTING"))
  BY <1>1, <1>3, EventAdded
<1>7. Follows(m, next, 1)
  <2> HIDE DEF next
  <2>1. next.state # "GREEN"
    BY <1>5
  <2> QED
    BY <1>1, <1>5, <2>1 DEF Follows
<1> QED
  BY <1>1, <1>2, <1>4, <1>5, <1>6, <1>7

LEMMA ChangeRecorded ==
  ASSUME NEW m \in MissionValues, NEW target \in Target, NEW ref \in References
  PROVE  LET next == RecordChange(m, target, ref) IN
         Follows(m, next, 1) /\ next.plan = m.plan
<1> DEFINE longer == Append(m.changes, target)
           more == m.used \union {ref}
           changed == [m EXCEPT !.changes = longer, !.used = more]
<1>1. longer \in Seq(Target) /\ more \in SUBSET References
  BY DEF MissionValues
<1>2. RecordChange(m, target, ref) = Append1(changed, "OPERATION_COMPLETED", "IMPLEMENTING")
  BY DEF RecordChange
<1> HIDE DEF longer, more
<1>3. /\ changed \in MissionValues
      /\ changed.plan = m.plan
      /\ changed.id = m.id
      /\ changed.events = m.events
  BY <1>1 DEF MissionValues
<1>4. "OPERATION_COMPLETED" \in EventTypes /\ "IMPLEMENTING" \in MissionStates
  BY DEF EventTypes, MissionStates
<1> HIDE DEF changed
<1> DEFINE next == Append1(changed, "OPERATION_COMPLETED", "IMPLEMENTING")
<1>5. Follows(changed, next, 1) /\ next.plan = m.plan /\ next.state = "IMPLEMENTING"
  BY <1>3, <1>4, EventFollows
<1>6. Follows(m, next, 1)
  <2> HIDE DEF next
  <2>1. next.state # "GREEN"
    BY <1>5
  <2> QED
    BY <1>3, <1>5, <2>1 DEF Follows
<1> QED
  BY <1>2, <1>5, <1>6

\* An event that leaves the mission in its state, or in one that is not GREEN.
LEMMA PlainEvent ==
  ASSUME NEW m \in MissionValues, NEW type \in EventTypes,
         NEW state \in (MissionStates \ {"GREEN"}) \union {m.state}
  PROVE  /\ Follows(m, Append1(m, type, state), 1)
         /\ Append1(m, type, state).plan = m.plan
         /\ Append1(m, type, state).state = state
         /\ Len(Append1(m, type, state).events) = Len(m.events) + 1
<1>1. state \in MissionStates /\ (state = "GREEN" => m.state = "GREEN")
  BY MissionFields
<1> QED
  BY <1>1, EventFollows

LEMMA OperationRecorded ==
  ASSUME NEW m \in MissionValues, NEW r, NEW w,
         r.op = "mutation.applyConditional" => r.target \in Target /\ r.ref \in References
  PROVE  LET next == Record(m, r, w) IN
         /\ Follows(m, next, 1)
         /\ next.plan = m.plan
         /\ r.op = "tests.runCanonical" /\ Perform(r, w) = "SUCCESS" =>
              /\ next.canonical = "PASSED"
              /\ next.state = "TESTING"
              /\ next.events = Append(m.events, Event("TEST_PASSED", "TESTING"))
<1>1. CASE r.op \in {"tests.run", "tests.runCanonical"}
  <2> DEFINE canonical == r.op = "tests.runCanonical"
             passed == Perform(r, w) = "SUCCESS"
  <2>1. Record(m, r, w) = RecordTest(m, canonical, passed)
    BY <1>1 DEF Record
  <2>2. canonical \in BOOLEAN /\ passed \in BOOLEAN
    OBVIOUS
  <2> QED
    BY <2>1, <2>2, TestRecorded
<1>2. CASE r.op = "mutation.applyConditional" /\ Perform(r, w) = "SUCCESS"
  <2>1. Record(m, r, w) = RecordChange(m, r.target, r.ref)
    BY <1>2 DEF Record
  <2> QED
    BY <1>2, <2>1, ChangeRecorded
<1>3. CASE /\ r.op \notin {"tests.run", "tests.runCanonical"}
           /\ ~(r.op = "mutation.applyConditional" /\ Perform(r, w) = "SUCCESS")
  <2> DEFINE type == IF Perform(r, w) = "SUCCESS" THEN "OPERATION_COMPLETED" ELSE "OPERATION_DENIED"
  <2>1. Record(m, r, w) = Append1(m, type, m.state)
    BY <1>3 DEF Record
  <2>2. type \in EventTypes
    BY DEF EventTypes
  <2>3. r.op # "tests.runCanonical"
    BY <1>3
  <2> HIDE DEF type
  <2>4. Follows(m, Append1(m, type, m.state), 1) /\ Append1(m, type, m.state).plan = m.plan
    BY <2>2, PlainEvent
  <2> QED
    BY <2>1, <2>3, <2>4
<1> QED
  BY <1>1, <1>2, <1>3

\* What every answer of the gateway leaves of the mission.
Answered(m, op, answer) ==
  /\ Follows(m, answer.mission, 2)
  /\ answer.mission.plan = m.plan
  /\ answer.class \in Classes
  /\ op = "tests.runCanonical" /\ answer.class = "SUCCESS" =>
       /\ answer.mission.canonical = "PASSED"
       /\ answer.mission.state = "TESTING"
       /\ answer.mission.events =
            Append(Append(m.events, Event("OPERATION_STARTED", "QUALIFYING")),
                   Event("TEST_PASSED", "TESTING"))

LEMMA FollowsAtMost ==
  ASSUME NEW m \in MissionValues, NEW next, NEW a \in Nat, NEW b \in Nat, a <= b,
         Follows(m, next, a)
  PROVE  Follows(m, next, b)
<1>1. next \in MissionValues
  BY DEF Follows, Recorded
<1>2. Len(m.events) \in Nat /\ Len(next.events) \in Nat
  BY <1>1, MissionFields
<1>3. Len(next.events) <= Len(m.events) + a
  BY DEF Follows
<1>4. \A x, y \in Nat : y <= x + a => y <= x + b
  OBVIOUS
<1>5. Len(next.events) <= Len(m.events) + b
  BY <1>2, <1>3, <1>4
<1> QED
  BY <1>5 DEF Follows

LEMMA FollowsItself ==
  ASSUME NEW m, Recorded(m)
  PROVE  Follows(m, m, 0)
<1>1. Len(m.events) \in Nat
  BY MissionFields DEF Recorded
<1> QED
  BY <1>1 DEF Follows

\* An answer that is not a success: the mission is as it was, or has one event more.
LEMMA Declined ==
  ASSUME NEW m, Recorded(m), NEW op, NEW next, NEW class \in Classes \ {"SUCCESS"},
         NEW effect, next = m \/ (Follows(m, next, 1) /\ next.plan = m.plan)
  PROVE  Answered(m, op, Answer(next, class, effect))
<1>1. m \in MissionValues
  BY DEF Recorded
<1>2. Follows(m, next, 2) /\ next.plan = m.plan
  BY <1>1, FollowsItself, FollowsAtMost
<1> QED
  BY <1>2 DEF Answered, Answer

LEMMA Executed ==
  ASSUME NEW m, Recorded(m), NEW r, NEW w, r.op \in Operations \ LocalFastPath,
         r.op = "mutation.applyConditional" => r.target \in Target /\ r.ref \in References
  PROVE  Answered(m, r.op, Execute(m, r, w))
<1> DEFINE state == StateOf[r.op]
           executing == Append1(m, "OPERATION_STARTED", state)
<1>1. m \in MissionValues
  BY DEF Recorded
<1>2. state \in MissionStates /\ state # "GREEN"
  BY StatesOfOperations
<1>3. "OPERATION_STARTED" \in EventTypes /\ "STATE_INVALIDATED" \in EventTypes
      /\ "OPERATION_DENIED" \in EventTypes /\ "BLOCKED" \in MissionStates
  BY DEF EventTypes, MissionStates
<1>4. /\ Follows(m, executing, 1)
      /\ executing.plan = m.plan
      /\ executing.state = state
      /\ executing.events = Append(m.events, Event("OPERATION_STARTED", state))
  BY <1>1, <1>2, <1>3, PlainEvent, EventAdded
<1>5. r.op = "tests.runCanonical" => state = "QUALIFYING"
  BY StatesOfOperations
<1> HIDE DEF state, executing
<1>6. executing \in MissionValues
  BY <1>4 DEF Follows, Recorded
<1>7. ASSUME NEW next, Follows(executing, next, 1), next.plan = executing.plan
      PROVE  Follows(m, next, 2) /\ next.plan = m.plan
  <2>1. Follows(m, next, 1 + 1)
    BY <1>1, <1>4, <1>7, FollowsTransitive
  <2> QED
    BY <1>4, <1>7, <2>1
<1>8. CASE ~CanAppend(m, "OPERATION_STARTED", state)
  <2>1. Execute(m, r, w) = Answer(m, "THROWN", FALSE)
    BY <1>8 DEF Execute, state
  <2>2. "THROWN" \in Classes \ {"SUCCESS"}
    BY DEF Classes
  <2> QED
    BY <2>1, <2>2, Declined
<1>9. CASE CanAppend(m, "OPERATION_STARTED", state) /\ r.op \in Physical /\ w.head # m.head
  <2> DEFINE next == Append1(executing, "STATE_INVALIDATED", "BLOCKED")
  <2>1. Execute(m, r, w) = Answer(next, "STALE_STATE", FALSE)
    BY <1>9 DEF Execute, state, executing
  <2>2. Follows(executing, next, 1) /\ next.plan = executing.plan
    BY <1>3, <1>6, PlainEvent
  <2>3. Follows(m, next, 2) /\ next.plan = m.plan
    BY <1>7, <2>2
  <2>4. "STALE_STATE" \in Classes /\ "STALE_STATE" # "SUCCESS"
    BY DEF Classes
  <2> HIDE DEF next
  <2> QED
    BY <2>1, <2>3, <2>4 DEF Answered, Answer
<1>10. CASE /\ CanAppend(m, "OPERATION_STARTED", state)
            /\ ~(r.op \in Physical /\ w.head # m.head)
            /\ w.outcome = "thrown"
  <2> DEFINE next == Append1(executing, "OPERATION_DENIED", executing.state)
  <2>1. Execute(m, r, w) = Answer(next, "FAILURE", FALSE)
    BY <1>10 DEF Execute, state, executing
  <2>2. Follows(executing, next, 1) /\ next.plan = executing.plan
    BY <1>3, <1>6, PlainEvent
  <2>3. Follows(m, next, 2) /\ next.plan = m.plan
    BY <1>7, <2>2
  <2>4. "FAILURE" \in Classes /\ "FAILURE" # "SUCCESS"
    BY DEF Classes
  <2> HIDE DEF next
  <2> QED
    BY <2>1, <2>3, <2>4 DEF Answered, Answer
<1>11. CASE /\ CanAppend(m, "OPERATION_STARTED", state)
            /\ ~(r.op \in Physical /\ w.head # m.head)
            /\ w.outcome # "thrown"
  <2> DEFINE next == Record(executing, r, w)
             effect == w.outcome \in {"done", "late"} /\ Performs(r, w)
  <2>1. Execute(m, r, w) = Answer(next, Perform(r, w), effect)
    BY <1>11 DEF Execute, state, executing
  <2>2. /\ Follows(executing, next, 1)
        /\ next.plan = executing.plan
        /\ r.op = "tests.runCanonical" /\ Perform(r, w) = "SUCCESS" =>
             /\ next.canonical = "PASSED"
             /\ next.state = "TESTING"
             /\ next.events = Append(executing.events, Event("TEST_PASSED", "TESTING"))
    BY <1>6, OperationRecorded
  <2>3. Follows(m, next, 2) /\ next.plan = m.plan
    BY <1>7, <2>2
  <2>4. Perform(r, w) \in Classes
    BY DEF Perform, Classes
  <2> HIDE DEF next, effect
  <2> QED
    BY <1>4, <1>5, <2>1, <2>2, <2>3, <2>4 DEF Answered, Answer
<1> QED
  BY <1>8, <1>9, <1>10, <1>11

\* A request of this program, made of the mission it is about, is answered on the mission.
LEMMA Dispatched ==
  ASSUME NEW m, Recorded(m), NEW op \in Operations, NEW target, NEW before, NEW ref, NEW w,
         op = "mutation.applyConditional" => target \in Target /\ ref \in References
  PROVE  Answered(m, op, Dispatch(Request(m, op, target, before, ref), m, w))
<1> DEFINE r == Request(m, op, target, before, ref)
<1>1. r.op = op /\ r.target = target /\ r.ref = ref /\ BindingStatus(r, m) = "SUCCESS"
  BY Requested
<1> HIDE DEF r
<1>2. m \in MissionValues /\ m.state \in MissionStates
  BY MissionFields DEF Recorded
<1>3. /\ {"STATE_INVALIDATED", "OPERATION_DENIED", "AUTHORITY_REQUIRED"} \subseteq EventTypes
      /\ "BLOCKED" \in MissionStates
      /\ {"THROWN", "CAS_MISMATCH", "STALE_STATE", "DENIED", "AUTHORITY_REQUIRED"}
           \subseteq Classes \ {"SUCCESS"}
  BY DEF EventTypes, MissionStates, Classes
<1>4. \A type \in EventTypes, state \in (MissionStates \ {"GREEN"}) \union {m.state} :
        Follows(m, Append1(m, type, state), 1) /\ Append1(m, type, state).plan = m.plan
  BY <1>2, PlainEvent
<1>5. CASE ~TargetCas(r, w)
  <2>1. \/ Dispatch(r, m, w)
             = Answer(Append1(m, "STATE_INVALIDATED", "BLOCKED"), "CAS_MISMATCH", FALSE)
        \/ Dispatch(r, m, w) = Answer(m, "THROWN", FALSE)
    BY <1>1, <1>5 DEF Dispatch
  <2>2. /\ Follows(m, Append1(m, "STATE_INVALIDATED", "BLOCKED"), 1)
        /\ Append1(m, "STATE_INVALIDATED", "BLOCKED").plan = m.plan
    BY <1>3, <1>4
  <2> QED
    BY <1>3, <2>1, <2>2, Declined DEF r
<1>6. CASE TargetCas(r, w) /\ m.state = "CANCELLED" /\ r.op \notin LocalFastPath
  <2>1. Dispatch(r, m, w) = Answer(m, "STALE_STATE", FALSE)
    BY <1>1, <1>6 DEF Dispatch
  <2> QED
    BY <1>3, <2>1, Declined DEF r
<1>7. CASE /\ TargetCas(r, w)
           /\ ~(m.state = "CANCELLED" /\ r.op \notin LocalFastPath)
           /\ r.op \notin m.allowed
  <2>1. Dispatch(r, m, w) = Answer(Append1(m, "OPERATION_DENIED", m.state), "DENIED", FALSE)
    BY <1>1, <1>7 DEF Dispatch
  <2>2. /\ Follows(m, Append1(m, "OPERATION_DENIED", m.state), 1)
        /\ Append1(m, "OPERATION_DENIED", m.state).plan = m.plan
    BY <1>3, <1>4
  <2> QED
    BY <1>3, <2>1, <2>2, Declined DEF r
<1>8. CASE /\ TargetCas(r, w)
           /\ ~(m.state = "CANCELLED" /\ r.op \notin LocalFastPath)
           /\ r.op \in m.allowed
           /\ r.op \in NeedsAuthority /\ ~Authorized(r, m, w)
  <2> DEFINE state == StateOf[r.op]
  <2>1. \/ Dispatch(r, m, w)
             = Answer(Append1(m, "AUTHORITY_REQUIRED", state), "AUTHORITY_REQUIRED", FALSE)
        \/ Dispatch(r, m, w) = Answer(m, "THROWN", FALSE)
    BY <1>1, <1>8 DEF Dispatch
  <2>2. state \in MissionStates \ {"GREEN"}
    BY <1>1, <1>8, StatesOfOperations DEF NeedsAuthority, LocalFastPath
  <2> HIDE DEF state
  <2>3. /\ Follows(m, Append1(m, "AUTHORITY_REQUIRED", state), 1)
        /\ Append1(m, "AUTHORITY_REQUIRED", state).plan = m.plan
    BY <1>3, <1>4, <2>2
  <2> QED
    BY <1>3, <2>1, <2>3, Declined DEF r
<1>9. CASE /\ TargetCas(r, w)
           /\ r.op \in m.allowed
           /\ ~(r.op \in NeedsAuthority /\ ~Authorized(r, m, w))
           /\ r.op \in LocalFastPath
  <2>1. Dispatch(r, m, w)
          = Answer(Append1(m, "AUTHORITY_REQUIRED", m.state), "AUTHORITY_REQUIRED", FALSE)
    BY <1>1, <1>9 DEF Dispatch
  <2>2. /\ Follows(m, Append1(m, "AUTHORITY_REQUIRED", m.state), 1)
        /\ Append1(m, "AUTHORITY_REQUIRED", m.state).plan = m.plan
    BY <1>3, <1>4
  <2> QED
    BY <1>3, <2>1, <2>2, Declined DEF r
<1>10. CASE /\ TargetCas(r, w)
            /\ ~(m.state = "CANCELLED" /\ r.op \notin LocalFastPath)
            /\ r.op \in m.allowed
            /\ ~(r.op \in NeedsAuthority /\ ~Authorized(r, m, w))
            /\ r.op \notin LocalFastPath
  <2>1. Dispatch(r, m, w) = Execute(m, r, w)
    BY <1>1, <1>10 DEF Dispatch
  <2> QED
    BY <1>1, <1>10, <2>1, Executed DEF r
<1> QED
  BY <1>5, <1>6, <1>7, <1>8, <1>9, <1>10

-----------------------------------------------------------------------------
\* Plans: the place of every step, and how an attempt is inserted.

LEMMA PlanIndices ==
  ASSUME NEW plan \in Seq(Steps)
  PROVE  /\ Len(plan) \in Nat /\ DOMAIN plan = 1 .. Len(plan)
         /\ \A i \in DOMAIN plan :
              /\ i \in Nat
              /\ plan[i].kind \in Kinds /\ plan[i].n \in Nat
              /\ plan[i].status \in Statuses /\ plan[i].result \in StepResults
<1>1. \A i \in DOMAIN plan : plan[i] \in Steps
  OBVIOUS
<1> QED
  BY <1>1 DEF Steps

\* Which step is at a place of the plan.
LEMMA StepAt ==
  ASSUME NEW plan \in Seq(Steps), LaidOut(plan), NEW i \in DOMAIN plan, 1 < i, i < Len(plan),
         NEW k \in Nat
  PROVE  /\ i = 4 * k + 2 => Is(plan[i], "prepare", k + 1)
         /\ i = 4 * k + 3 => Is(plan[i], "authority", k + 1)
         /\ i = 4 * k + 4 => Is(plan[i], "apply", k + 1)
         /\ i = 4 * k + 5 => Is(plan[i], "test", k + 1)
<1> DEFINE kind == plan[i].kind
           n == plan[i].n
<1>1. Len(plan) \in Nat /\ i \in Nat /\ kind \in Kinds /\ n \in Nat
  BY PlanIndices
<1>2. i = Place(plan[i], Len(plan))
  BY DEF LaidOut
<1>3. /\ kind = "inspect" => i = 1
      /\ kind = "prepare" => i = 4 * n - 2
      /\ kind = "authority" => i = 4 * n - 1
      /\ kind = "apply" => i = 4 * n
      /\ kind = "test" => i = 4 * n + 1
      /\ kind = "qualification" => i = Len(plan)
      /\ kind = "read" => i = 0
  BY <1>2 DEF Place
<1>4. kind \in {"prepare", "authority", "apply", "test"}
  BY <1>1, <1>3 DEF Kinds
<1> HIDE DEF kind, n
<1>5. i = 4 * k + 2 => kind = "prepare" /\ n = k + 1
  BY <1>1, <1>3, <1>4
<1>6. i = 4 * k + 3 => kind = "authority" /\ n = k + 1
  BY <1>1, <1>3, <1>4
<1>7. i = 4 * k + 4 => kind = "apply" /\ n = k + 1
  BY <1>1, <1>3, <1>4
<1>8. i = 4 * k + 5 => kind = "test" /\ n = k + 1
  BY <1>1, <1>3, <1>4
<1> QED
  BY <1>5, <1>6, <1>7, <1>8 DEF kind, n, Is

LEMMA OneStep ==
  ASSUME NEW plan \in Seq(Steps), LaidOut(plan), NEW i \in DOMAIN plan, NEW j \in DOMAIN plan,
         NEW kind, NEW n, Is(plan[i], kind, n), Is(plan[j], kind, n)
  PROVE  i = j
<1>1. Place(plan[i], Len(plan)) = Place(plan[j], Len(plan))
  BY DEF Is, Place
<1> QED
  BY <1>1 DEF LaidOut

\* A plan that is settled up to a step and pending after it.
SettledTo(plan, last) ==
  \A i \in DOMAIN plan :
    /\ i <= last => plan[i].status \in {"COMPLETED", "BLOCKED"}
    /\ i > last => plan[i].status = "PENDING"

LEMMA MarkedLaidOut ==
  ASSUME NEW plan \in Seq(Steps), LaidOut(plan), NEW kind, NEW n, NEW status \in Statuses,
         NEW result \in StepResults
  PROVE  LaidOut(Marked(plan, kind, n, status, result))
<1> DEFINE after == Marked(plan, kind, n, status, result)
<1>1. /\ Len(after) = Len(plan)
      /\ DOMAIN after = DOMAIN plan
      /\ \A i \in DOMAIN plan : after[i].kind = plan[i].kind /\ after[i].n = plan[i].n
  BY MarkedPlan
<1>2. 1 \in DOMAIN plan /\ Len(plan) \in DOMAIN plan
  <2>1. Len(plan) \in Nat /\ DOMAIN plan = 1 .. Len(plan)
    BY PlanIndices
  <2> QED
    BY <2>1 DEF LaidOut
<1> HIDE DEF after
<1>3. \A i \in DOMAIN after : i = Place(after[i], Len(after))
  BY <1>1 DEF LaidOut, Place
<1>4. Len(after) > 1 /\ Is(after[1], "inspect", 0) /\ Is(after[Len(after)], "qualification", 0)
  BY <1>1, <1>2 DEF LaidOut, Is
<1>5. LaidOut(after)
  BY <1>3, <1>4 DEF LaidOut
<1> QED
  BY <1>5 DEF after

\* The active step ends.
LEMMA StepEnds ==
  ASSUME NEW plan \in Seq(Steps), LaidOut(plan), NEW a, Reached(plan, a),
         NEW kind, NEW n, Is(plan[a], kind, n),
         NEW status \in {"COMPLETED", "BLOCKED"}, NEW result \in StepResults
  PROVE  SettledTo(Marked(plan, kind, n, status, result), a)
<1> DEFINE after == Marked(plan, kind, n, status, result)
<1>0. status \in Statuses
  BY DEF Statuses, PlanTransitions
<1>1. /\ DOMAIN after = DOMAIN plan
      /\ \A i \in DOMAIN plan :
           /\ Is(plan[i], kind, n) => after[i].status = status
           /\ ~Is(plan[i], kind, n) => after[i] = plan[i]
  BY <1>0, MarkedPlan
<1>2. \A i \in DOMAIN plan : Is(plan[i], kind, n) <=> i = a
  BY OneStep DEF Reached
<1>3. a \in Nat /\ \A i \in DOMAIN plan : i \in Nat
  BY PlanIndices DEF Reached
<1> HIDE DEF after
<1>4. ASSUME NEW i \in DOMAIN after
      PROVE  /\ i <= a => after[i].status \in {"COMPLETED", "BLOCKED"}
             /\ i > a => after[i].status = "PENDING"
  <2>1. CASE i = a
    BY <1>1, <1>2, <1>3, <2>1
  <2>2. CASE i # a
    <3>1. after[i] = plan[i] /\ i \in Nat /\ i \in DOMAIN plan
      BY <1>1, <1>2, <1>3, <2>2
    <3>2. i <= a => i < a
      BY <1>3, <2>2, <3>1
    <3> QED
      BY <3>1, <3>2 DEF Reached
  <2> QED
    BY <2>1, <2>2
<1>5. SettledTo(after, a)
  BY <1>4 DEF SettledTo
<1> QED
  BY <1>5 DEF after

\* The next step begins.
LEMMA StepBegins ==
  ASSUME NEW plan \in Seq(Steps), LaidOut(plan), NEW a \in Nat, SettledTo(plan, a),
         a + 1 \in DOMAIN plan, NEW kind, NEW n, Is(plan[a + 1], kind, n), NormalPlan(plan)
  PROVE  /\ Reached(Marked(plan, kind, n, "ACTIVE", "NONE"), a + 1)
         /\ NormalPlan(Marked(plan, kind, n, "ACTIVE", "NONE"))
<1> DEFINE after == Marked(plan, kind, n, "ACTIVE", "NONE")
<1>0. "ACTIVE" \in Statuses /\ "NONE" \in StepResults
  BY DEF Statuses, PlanTransitions, StepResults
<1>1. /\ DOMAIN after = DOMAIN plan
      /\ \A i \in DOMAIN plan :
           /\ Is(plan[i], kind, n) => after[i].status = "ACTIVE"
           /\ ~Is(plan[i], kind, n) => after[i] = plan[i]
  BY <1>0, MarkedPlan
<1>2. \A i \in DOMAIN plan : Is(plan[i], kind, n) <=> i = a + 1
  BY OneStep
<1>3. \A i \in DOMAIN plan : i \in Nat
  BY PlanIndices
<1>4. NormalPlan(after)
  <2>1. \A i \in DOMAIN plan : plan[i].status # "ACTIVE"
    <3>1. ASSUME NEW i \in DOMAIN plan
          PROVE  plan[i].status # "ACTIVE"
      <4>1. i <= a \/ i > a
        BY <1>3
      <4> QED
        BY <4>1 DEF SettledTo
    <3> QED
      BY <3>1
  <2> QED
    BY <1>0, <2>1, MarkedNormal
<1> HIDE DEF after
<1>5. ASSUME NEW i \in DOMAIN after
      PROVE  /\ i < a + 1 => after[i].status \in {"COMPLETED", "BLOCKED"}
             /\ i = a + 1 => after[i].status = "ACTIVE"
             /\ i > a + 1 => after[i].status = "PENDING"
  <2>1. CASE i = a + 1
    BY <1>1, <1>2, <1>3, <2>1
  <2>2. CASE i # a + 1
    <3>1. after[i] = plan[i] /\ i \in Nat /\ i \in DOMAIN plan
      BY <1>1, <1>2, <1>3, <2>2
    <3>2. (i < a + 1 => i <= a) /\ (i > a + 1 => i > a)
      BY <3>1
    <3> QED
      BY <2>2, <3>1, <3>2 DEF SettledTo
  <2> QED
    BY <2>1, <2>2
<1>6. Reached(after, a + 1)
  BY <1>1, <1>5 DEF Reached
<1> QED
  BY <1>4, <1>6 DEF after

LEMMA Concatenated ==
  ASSUME NEW S, NEW s \in Seq(S), NEW t \in Seq(S)
  PROVE  /\ s \o t \in Seq(S)
         /\ Len(s \o t) = Len(s) + Len(t)
         /\ \A i \in 1 .. Len(s) : (s \o t)[i] = s[i]
         /\ \A i \in 1 .. Len(t) : (s \o t)[Len(s) + i] = t[i]
<1>1. s \o t \in Seq(S) /\ Len(s \o t) = Len(s) + Len(t)
  OBVIOUS
<1>2. \A i \in 1 .. Len(s) : (s \o t)[i] = s[i]
  OBVIOUS
<1>3. \A i \in 1 .. Len(t) : (s \o t)[Len(s) + i] = t[i]
  OBVIOUS
<1> QED
  BY <1>1, <1>2, <1>3

LEMMA FrontOf ==
  ASSUME NEW S, NEW s \in Seq(S), NEW length \in Nat, length = Len(s), length > 0
  PROVE  /\ SubSeq(s, 1, length - 1) \in Seq(S)
         /\ Len(SubSeq(s, 1, length - 1)) = length - 1
         /\ \A i \in 1 .. length - 1 : SubSeq(s, 1, length - 1)[i] = s[i]
<1>1. SubSeq(s, 1, length - 1) \in Seq(S)
  OBVIOUS
<1>2. Len(SubSeq(s, 1, length - 1)) = length - 1
  OBVIOUS
<1>3. \A i \in 1 .. length - 1 : SubSeq(s, 1, length - 1)[i] = s[i]
  OBVIOUS
<1> QED
  BY <1>1, <1>2, <1>3

LEMMA LastOf ==
  ASSUME NEW S, NEW s \in Seq(S), NEW length \in Nat, length = Len(s), length > 0
  PROVE  /\ SubSeq(s, length, length) \in Seq(S)
         /\ Len(SubSeq(s, length, length)) = 1
         /\ SubSeq(s, length, length)[1] = s[length]
<1>1. SubSeq(s, length, length) \in Seq(S)
  OBVIOUS
<1>2. Len(SubSeq(s, length, length)) = 1
  OBVIOUS
<1>3. SubSeq(s, length, length)[1] = s[length]
  OBVIOUS
<1> QED
  BY <1>1, <1>2, <1>3

\* What a sequence of three parts holds.
ThreeParts(all, front, middle, last) ==
  /\ Len(all) = Len(front) + Len(middle) + Len(last)
  /\ \A i \in 1 .. Len(front) : all[i] = front[i]
  /\ \A i \in 1 .. Len(middle) : all[Len(front) + i] = middle[i]
  /\ \A i \in 1 .. Len(last) : all[Len(front) + Len(middle) + i] = last[i]

LEMMA Joined ==
  ASSUME NEW S, NEW front \in Seq(S), NEW steps \in Seq(S), NEW last \in Seq(S),
         NEW all, all = front \o steps \o last
  PROVE  all \in Seq(S) /\ ThreeParts(all, front, steps, last)
<1>1. PICK first \in Seq(S) : first = front \o steps
  BY Concatenated
<1>2. /\ Len(first) = Len(front) + Len(steps)
      /\ \A i \in 1 .. Len(front) : first[i] = front[i]
      /\ \A i \in 1 .. Len(steps) : first[Len(front) + i] = steps[i]
  BY <1>1, Concatenated
<1>3. all \in Seq(S) /\ all = first \o last
  BY <1>1, Concatenated
<1>4. /\ Len(all) = Len(first) + Len(last)
      /\ \A i \in 1 .. Len(first) : all[i] = first[i]
      /\ \A i \in 1 .. Len(last) : all[Len(first) + i] = last[i]
  BY <1>3, Concatenated
<1>5. Len(front) \in Nat /\ Len(steps) \in Nat /\ Len(first) \in Nat
  OBVIOUS
<1>6. Len(all) = Len(front) + Len(steps) + Len(last)
  BY <1>2, <1>4, <1>5
<1>7. \A i \in 1 .. Len(front) : all[i] = front[i]
  BY <1>2, <1>4, <1>5
<1>8. ASSUME NEW i \in 1 .. Len(steps)
      PROVE  all[Len(front) + i] = steps[i]
  <2>1. Len(front) + i \in 1 .. Len(first)
    BY <1>2, <1>5
  <2> QED
    BY <1>2, <1>4, <2>1
<1>9. \A i \in 1 .. Len(last) : all[Len(front) + Len(steps) + i] = last[i]
  BY <1>2, <1>4
<1> QED
  BY <1>3, <1>6, <1>7, <1>8, <1>9 DEF ThreeParts

InFront(all, plan, steps, length) ==
  /\ Len(all) = length + Len(steps)
  /\ \A i \in 1 .. length - 1 : all[i] = plan[i]
  /\ \A i \in 1 .. Len(steps) : all[length - 1 + i] = steps[i]
  /\ all[length + Len(steps)] = plan[length]

LEMMA PutInFront ==
  ASSUME NEW S, NEW plan \in Seq(S), NEW length \in Nat, length = Len(plan), length > 0,
         NEW steps \in Seq(S), NEW all,
         all = SubSeq(plan, 1, length - 1) \o steps \o SubSeq(plan, length, length)
  PROVE  all \in Seq(S) /\ InFront(all, plan, steps, length)
<1>1. PICK front : front = SubSeq(plan, 1, length - 1)
  OBVIOUS
<1>2. PICK last : last = SubSeq(plan, length, length)
  OBVIOUS
<1>3. /\ front \in Seq(S) /\ Len(front) = length - 1
      /\ \A i \in 1 .. length - 1 : front[i] = plan[i]
  BY <1>1, FrontOf
<1>4. last \in Seq(S) /\ Len(last) = 1 /\ last[1] = plan[length]
  BY <1>2, LastOf
<1>5. all = front \o steps \o last
  BY <1>1, <1>2
<1>6. all \in Seq(S) /\ ThreeParts(all, front, steps, last)
  <2>1. front \in Seq(S) /\ last \in Seq(S)
    BY <1>3, <1>4
  <2> QED
    BY ONLY <1>5, <2>1, steps \in Seq(S), Joined
<1>7. Len(steps) \in Nat
  OBVIOUS
<1>8. /\ Len(all) = length + Len(steps)
      /\ \A i \in 1 .. length - 1 : all[i] = plan[i]
      /\ \A i \in 1 .. Len(steps) : all[length - 1 + i] = steps[i]
  <2>1. Len(all) = (length - 1) + Len(steps) + 1
    BY <1>3, <1>4, <1>6 DEF ThreeParts
  <2>2. Len(all) = length + Len(steps)
    BY <1>7, <2>1
  <2>3. \A i \in 1 .. length - 1 : all[i] = plan[i]
    BY <1>3, <1>6 DEF ThreeParts
  <2>4. \A i \in 1 .. Len(steps) : all[length - 1 + i] = steps[i]
    BY <1>3, <1>6 DEF ThreeParts
  <2> QED
    BY <2>2, <2>3, <2>4
<1>9. all[length + Len(steps)] = plan[length]
  <2>1. 1 \in 1 .. Len(last) /\ Len(front) + Len(steps) + 1 = length + Len(steps)
    BY <1>3, <1>4, <1>7
  <2> QED
    BY <1>4, <1>6, <2>1 DEF ThreeParts
<1> QED
  BY <1>6, <1>8, <1>9 DEF InFront
\* Steps are put in front of the qualification.
LEMMA InsertedPlan ==
  ASSUME NEW plan \in Seq(Steps), LaidOut(plan), NEW steps \in Seq(Steps), NEW after,
         after = BeforeQualification(plan, steps)
  PROVE  after \in Seq(Steps) /\ InFront(after, plan, steps, Len(plan))
<1> DEFINE length == Len(plan)
           q == CHOOSE i \in DOMAIN plan : Is(plan[i], "qualification", 0)
<1>1. length \in Nat /\ DOMAIN plan = 1 .. length /\ Len(steps) \in Nat
  BY PlanIndices
<1>2. length > 0
  BY <1>1 DEF LaidOut
<1>3. q = length
  <2>1. length \in DOMAIN plan /\ Is(plan[length], "qualification", 0)
    BY <1>1, <1>2 DEF LaidOut
  <2>2. \A i \in DOMAIN plan : Is(plan[i], "qualification", 0) => i = length
    BY <2>1, OneStep
  <2> QED
    BY <2>1, <2>2
<1>4. after = SubSeq(plan, 1, length - 1) \o steps \o SubSeq(plan, length, length)
  BY <1>3 DEF BeforeQualification
<1> HIDE DEF q, length
<1>5. length = Len(plan)
  BY DEF length
<1> QED
  BY ONLY <1>1, <1>2, <1>4, <1>5, plan \in Seq(Steps), steps \in Seq(Steps), PutInFront

\* A plan with one active step, and one between two steps.
PlanAt(plan, length, active) ==
  /\ plan \in Seq(Steps)
  /\ NormalPlan(plan)
  /\ LaidOut(plan)
  /\ Len(plan) = length
  /\ Reached(plan, active)

PlanPast(plan, length, last) ==
  /\ plan \in Seq(Steps)
  /\ NormalPlan(plan)
  /\ LaidOut(plan)
  /\ Len(plan) = length
  /\ SettledTo(plan, last)

\* A plan that is laid out and has one active step is normal when its results are.
LEMMA LaidOutNormal ==
  ASSUME NEW plan \in Seq(Steps), LaidOut(plan), NEW a, Reached(plan, a),
         Len(plan) <= PlanBound,
         \A i \in DOMAIN plan :
           /\ plan[i].status = "COMPLETED" => plan[i].result \in {"NONE", "SUCCESS", "PASSED"}
           /\ plan[i].status = "BLOCKED" => plan[i].result \notin {"SUCCESS", "PASSED"}
  PROVE  NormalPlan(plan)
<1>1. \A i, j \in DOMAIN plan : Is(plan[i], plan[j].kind, plan[j].n) => i = j
  <2>1. ASSUME NEW i \in DOMAIN plan, NEW j \in DOMAIN plan,
               Is(plan[i], plan[j].kind, plan[j].n)
        PROVE  i = j
    <3>1. Is(plan[j], plan[j].kind, plan[j].n)
      BY DEF Is
    <3> QED
      BY <2>1, <3>1, OneStep
  <2> QED
    BY <2>1
<1>2. \A i \in DOMAIN plan : i \in Nat
  BY PlanIndices
<1>3. \A i \in DOMAIN plan : plan[i].status = "ACTIVE" => i = a
  <2>1. ASSUME NEW i \in DOMAIN plan, plan[i].status = "ACTIVE"
        PROVE  i = a
    <3>1. i \in Nat /\ a \in Nat
      BY <1>2 DEF Reached
    <3>2. ~(i < a) /\ ~(i > a)
      BY <2>1 DEF Reached
    <3> QED
      BY <3>1, <3>2
  <2> QED
    BY <2>1
<1> QED
  BY <1>1, <1>3, NormalIsPlain DEF PlainlyNormal

\* The steps that are put in front of the qualification when every step before it is
\* settled: the first of them is the active one.
Opens(steps, length) ==
  /\ steps \in Seq(Steps)
  /\ Len(steps) > 0
  /\ length + Len(steps) <= PlanBound
  /\ \A i \in 1 .. Len(steps) :
       /\ length - 1 + i = Place(steps[i], length + Len(steps))
       /\ i = 1 => steps[i].status = "ACTIVE"
       /\ i > 1 => steps[i].status = "PENDING"

LEMMA StepsOpened ==
  ASSUME NEW plan, NEW length \in Nat, PlanPast(plan, length, length - 1),
         NEW steps, Opens(steps, length)
  PROVE  PlanAt(BeforeQualification(plan, steps), length + Len(steps), length)
<1>1. plan \in Seq(Steps) /\ LaidOut(plan) /\ Len(plan) = length /\ steps \in Seq(Steps)
  BY DEF PlanPast, Opens
<1>2. PICK after : after = BeforeQualification(plan, steps)
  OBVIOUS
<1>3. after \in Seq(Steps) /\ InFront(after, plan, steps, length)
  BY <1>1, <1>2, InsertedPlan
<1>4. /\ length > 1 /\ Len(steps) \in Nat /\ Len(steps) > 0
      /\ DOMAIN plan = 1 .. length
      /\ DOMAIN after = 1 .. Len(after)
  BY <1>1, <1>3, PlanIndices DEF LaidOut, Opens
<1>5. PICK more \in Nat : more = Len(steps)
  BY <1>4
<1>6. /\ Len(after) = length + more
      /\ \A i \in 1 .. length - 1 : after[i] = plan[i]
      /\ \A i \in 1 .. more : after[length - 1 + i] = steps[i]
      /\ after[length + more] = plan[length]
  BY <1>3, <1>5 DEF InFront
<1>7. ASSUME NEW i \in DOMAIN after
      PROVE  \/ i \in 1 .. length - 1 /\ after[i] = plan[i]
             \/ \E k \in 1 .. more : i = length - 1 + k /\ after[i] = steps[k]
             \/ i = length + more /\ after[i] = plan[length]
  <2>1. i \in 1 .. length + more
    BY <1>4, <1>6
  <2>2. CASE i <= length - 1
    BY <1>6, <2>1, <2>2
  <2>3. CASE i = length + more
    BY <1>6, <2>3
  <2>4. CASE i > length - 1 /\ i # length + more
    <3>1. i - (length - 1) \in 1 .. more /\ i = length - 1 + (i - (length - 1))
      BY <2>1, <2>4
    <3> QED
      BY <1>6, <3>1
  <2> QED
    BY <2>1, <2>2, <2>3, <2>4
<1>8. \A i \in 1 .. more :
        /\ length - 1 + i = Place(steps[i], length + more)
        /\ i = 1 => steps[i].status = "ACTIVE"
        /\ i > 1 => steps[i].status = "PENDING"
  BY <1>5 DEF Opens
<1>9. ASSUME NEW i \in 1 .. length
      PROVE  /\ i = Place(plan[i], length)
             /\ i < length => plan[i].kind # "qualification"
             /\ i < length => plan[i].status \in {"COMPLETED", "BLOCKED"}
             /\ i = length => plan[i].status = "PENDING"
  <2>1. i = Place(plan[i], length)
    BY <1>1, <1>4 DEF LaidOut
  <2>2. plan[i].kind = "qualification" => Place(plan[i], length) = length
    BY DEF Place
  <2>3. (i <= length - 1 => plan[i].status \in {"COMPLETED", "BLOCKED"})
        /\ (i > length - 1 => plan[i].status = "PENDING")
    BY <1>4 DEF PlanPast, SettledTo
  <2> QED
    BY <2>1, <2>2, <2>3
<1>10. LaidOut(after)
  <2>1. ASSUME NEW i \in DOMAIN after
        PROVE  i = Place(after[i], length + more)
    <3>1. CASE i \in 1 .. length - 1 /\ after[i] = plan[i]
      BY <1>9, <3>1 DEF Place
    <3>2. CASE \E k \in 1 .. more : i = length - 1 + k /\ after[i] = steps[k]
      BY <1>8, <3>2
    <3>3. CASE i = length + more /\ after[i] = plan[length]
      <4>1. Is(plan[length], "qualification", 0)
        BY <1>1 DEF LaidOut
      <4> QED
        BY <3>3, <4>1 DEF Place, Is
    <3> QED
      BY <1>7, <3>1, <3>2, <3>3
  <2>2. Is(after[1], "inspect", 0)
    <3>1. after[1] = plan[1]
      BY <1>4, <1>6
    <3> QED
      BY <1>1, <3>1 DEF LaidOut
  <2>3. Is(after[Len(after)], "qualification", 0)
    BY <1>1, <1>6 DEF LaidOut
  <2> QED
    BY <1>4, <1>6, <2>1, <2>2, <2>3 DEF LaidOut
<1>11. Reached(after, length)
  <2>1. length \in DOMAIN after
    BY <1>4, <1>5, <1>6
  <2>2. ASSUME NEW i \in DOMAIN after
        PROVE  /\ i < length => after[i].status \in {"COMPLETED", "BLOCKED"}
               /\ i = length => after[i].status = "ACTIVE"
               /\ i > length => after[i].status = "PENDING"
    <3>1. CASE i \in 1 .. length - 1 /\ after[i] = plan[i]
      BY <1>9, <3>1
    <3>2. CASE \E k \in 1 .. more : i = length - 1 + k /\ after[i] = steps[k]
      <4>1. PICK k \in 1 .. more : i = length - 1 + k /\ after[i] = steps[k]
        BY <3>2
      <4> QED
        BY <1>8, <4>1
    <3>3. CASE i = length + more /\ after[i] = plan[length]
      BY <1>4, <1>5, <1>9, <3>3
    <3> QED
      BY <1>7, <3>1, <3>2, <3>3
  <2> QED
    BY <2>1, <2>2 DEF Reached
<1>12. ASSUME NEW i \in DOMAIN after
       PROVE  /\ after[i].status = "COMPLETED" => after[i].result \in {"NONE", "SUCCESS", "PASSED"}
              /\ after[i].status = "BLOCKED" => after[i].result \notin {"SUCCESS", "PASSED"}
  <2>0. \A j \in 1 .. length :
          /\ plan[j].status = "COMPLETED" => plan[j].result \in {"NONE", "SUCCESS", "PASSED"}
          /\ plan[j].status = "BLOCKED" => plan[j].result \notin {"SUCCESS", "PASSED"}
    BY <1>4, NormalIsPlain DEF PlanPast, PlainlyNormal
  <2>1. CASE i \in 1 .. length - 1 /\ after[i] = plan[i]
    BY <2>0, <2>1
  <2>2. CASE \E k \in 1 .. more : i = length - 1 + k /\ after[i] = steps[k]
    <3>1. PICK k \in 1 .. more : i = length - 1 + k /\ after[i] = steps[k]
      BY <2>2
    <3>2. k = 1 \/ k > 1
      OBVIOUS
    <3>3. after[i].status \in {"ACTIVE", "PENDING"}
      BY <1>8, <3>1, <3>2
    <3> QED
      BY <3>3
  <2>3. CASE i = length + more /\ after[i] = plan[length]
    BY <1>4, <2>0, <2>3
  <2> QED
    BY <1>7, <2>1, <2>2, <2>3
<1>13. Len(after) <= PlanBound
  BY <1>5, <1>6 DEF Opens
<1>14. NormalPlan(after)
  BY <1>3, <1>10, <1>11, <1>12, <1>13, LaidOutNormal
<1>15. PlanAt(after, length + more, length)
  BY <1>3, <1>6, <1>10, <1>11, <1>14 DEF PlanAt
<1> QED
  BY <1>2, <1>5, <1>15

AttemptSteps(n) ==
  <<Step("authority", n, "ACTIVE"), Step("apply", n, "PENDING"), Step("test", n, "PENDING")>>

LEMMA SmallPlans ==
  ASSUME NEW a \in Nat, a < AttemptCeiling
  PROVE  4 * a + 6 <= PlanBound
  BY AttemptCeilingAssumption DEF PlanBound

LEMMA StepIsStep ==
  ASSUME NEW kind \in Kinds, NEW n \in Nat, NEW status \in Statuses
  PROVE  /\ Step(kind, n, status) \in Steps
         /\ Step(kind, n, status).kind = kind
         /\ Step(kind, n, status).n = n
         /\ Step(kind, n, status).status = status
  BY DEF Step, Steps, StepResults

LEMMA AttemptOpens ==
  ASSUME NEW plan, NEW a \in Nat, a < AttemptCeiling, PlanPast(plan, 4 * a + 3, 4 * a + 2)
  PROVE  PlanAt(BeforeQualification(plan, AttemptSteps(a + 1)), 4 * a + 6, 4 * a + 3)
<1>1. PICK steps : steps = AttemptSteps(a + 1)
  OBVIOUS
<1>2. /\ {"ACTIVE", "PENDING"} \subseteq Statuses
      /\ {"authority", "apply", "test"} \subseteq Kinds
      /\ a + 1 \in Nat
  BY DEF Statuses, PlanTransitions, Kinds
<1>3. PICK s1 \in Steps, s2 \in Steps, s3 \in Steps :
        /\ steps = <<s1, s2, s3>>
        /\ s1.kind = "authority" /\ s1.n = a + 1 /\ s1.status = "ACTIVE"
        /\ s2.kind = "apply" /\ s2.n = a + 1 /\ s2.status = "PENDING"
        /\ s3.kind = "test" /\ s3.n = a + 1 /\ s3.status = "PENDING"
  <2>1. steps = <<Step("authority", a + 1, "ACTIVE"), Step("apply", a + 1, "PENDING"),
                  Step("test", a + 1, "PENDING")>>
    BY <1>1 DEF AttemptSteps
  <2>2. /\ Step("authority", a + 1, "ACTIVE") \in Steps
        /\ Step("authority", a + 1, "ACTIVE").kind = "authority"
        /\ Step("authority", a + 1, "ACTIVE").n = a + 1
        /\ Step("authority", a + 1, "ACTIVE").status = "ACTIVE"
    BY <1>2, StepIsStep
  <2>3. /\ Step("apply", a + 1, "PENDING") \in Steps
        /\ Step("apply", a + 1, "PENDING").kind = "apply"
        /\ Step("apply", a + 1, "PENDING").n = a + 1
        /\ Step("apply", a + 1, "PENDING").status = "PENDING"
    BY <1>2, StepIsStep
  <2>4. /\ Step("test", a + 1, "PENDING") \in Steps
        /\ Step("test", a + 1, "PENDING").kind = "test"
        /\ Step("test", a + 1, "PENDING").n = a + 1
        /\ Step("test", a + 1, "PENDING").status = "PENDING"
    BY <1>2, StepIsStep
  <2> QED
    BY <2>1, <2>2, <2>3, <2>4
<1>4. steps \in Seq(Steps) /\ Len(steps) = 3
      /\ steps[1] = s1 /\ steps[2] = s2 /\ steps[3] = s3
  BY <1>3
<1>5. /\ 4 * a + 3 - 1 + 1 = Place(s1, 4 * a + 3 + 3)
      /\ 4 * a + 3 - 1 + 2 = Place(s2, 4 * a + 3 + 3)
      /\ 4 * a + 3 - 1 + 3 = Place(s3, 4 * a + 3 + 3)
  BY <1>3 DEF Place
<1>6. PICK length \in Nat : length = 4 * a + 3
  OBVIOUS
<1>7. Opens(steps, length)
  <2>1. length + 3 <= PlanBound
    BY <1>6, SmallPlans
  <2>2. ASSUME NEW i \in 1 .. 3
        PROVE  /\ length - 1 + i = Place(steps[i], length + 3)
               /\ i = 1 => steps[i].status = "ACTIVE"
               /\ i > 1 => steps[i].status = "PENDING"
    <3>1. i = 1 \/ i = 2 \/ i = 3
      OBVIOUS
    <3> QED
      BY <1>3, <1>4, <1>5, <1>6, <3>1
  <2> QED
    BY <1>4, <2>1, <2>2 DEF Opens
<1>8. PlanPast(plan, length, length - 1)
  BY <1>6
<1>9. PlanAt(BeforeQualification(plan, steps), length + Len(steps), length)
  BY <1>7, <1>8, StepsOpened
<1>10. length + Len(steps) = 4 * a + 6
  BY <1>4, <1>6
<1> QED
  BY <1>1, <1>6, <1>9, <1>10

LEMMA PrepareOpens ==
  ASSUME NEW plan, NEW a \in Nat, a < AttemptCeiling, PlanPast(plan, 4 * a + 2, 4 * a + 1)
  PROVE  PlanAt(BeforeQualification(plan, <<Step("prepare", a + 1, "ACTIVE")>>),
                4 * a + 3, 4 * a + 2)
<1>1. PICK steps : steps = <<Step("prepare", a + 1, "ACTIVE")>>
  OBVIOUS
<1>2. "ACTIVE" \in Statuses /\ "prepare" \in Kinds /\ a + 1 \in Nat
  BY DEF Statuses, PlanTransitions, Kinds
<1>3. PICK s1 \in Steps :
        /\ steps = <<s1>>
        /\ s1.kind = "prepare" /\ s1.n = a + 1 /\ s1.status = "ACTIVE"
  BY <1>1, <1>2, StepIsStep
<1>4. steps \in Seq(Steps) /\ Len(steps) = 1 /\ steps[1] = s1
  BY <1>3
<1>5. 4 * a + 2 - 1 + 1 = Place(s1, 4 * a + 2 + 1)
  BY <1>3 DEF Place
<1>6. PICK length \in Nat : length = 4 * a + 2
  OBVIOUS
<1>7. Opens(steps, length)
  <2>1. length + 1 <= PlanBound
    BY <1>6, SmallPlans DEF PlanBound
  <2>2. ASSUME NEW i \in 1 .. 1
        PROVE  /\ length - 1 + i = Place(steps[i], length + 1)
               /\ i = 1 => steps[i].status = "ACTIVE"
               /\ i > 1 => steps[i].status = "PENDING"
    <3>1. i = 1
      OBVIOUS
    <3> QED
      BY <1>3, <1>4, <1>5, <1>6, <3>1
  <2> QED
    BY <1>4, <2>1, <2>2 DEF Opens
<1>8. PlanPast(plan, length, length - 1)
  BY <1>6
<1>9. PlanAt(BeforeQualification(plan, steps), length + Len(steps), length)
  BY <1>7, <1>8, StepsOpened
<1>10. length + Len(steps) = 4 * a + 3
  BY <1>4, <1>6
<1> QED
  BY <1>1, <1>6, <1>9, <1>10

-----------------------------------------------------------------------------
\* Plans: how a step is opened and ended.

\* A mission whose history and plan are in order.
Stands(m) == Recorded(m) /\ NormalPlan(m.plan)

LEMMA Appended ==
  ASSUME NEW m, Stands(m), NEW type \in EventTypes,
         NEW state \in (MissionStates \ {"GREEN"}) \union {m.state}
  PROVE  LET next == Append1(m, type, state) IN
         /\ Stands(next)
         /\ Follows(m, next, 1)
         /\ next.plan = m.plan
         /\ next.state = state
<1>1. m \in MissionValues
  BY DEF Stands, Recorded
<1>2. /\ Follows(m, Append1(m, type, state), 1)
      /\ Append1(m, type, state).plan = m.plan
      /\ Append1(m, type, state).state = state
  BY <1>1, PlainEvent
<1> QED
  BY <1>2 DEF Stands, Follows

LEMMA Planned ==
  ASSUME NEW m, Stands(m), NEW plan \in Seq(Steps), NormalPlan(plan)
  PROVE  LET next == UpdatePlan(m, plan) IN
         /\ Stands(next)
         /\ Follows(m, next, 1)
         /\ next.plan = plan
         /\ next.state = m.state
<1>1. m \in MissionValues /\ m.state \in MissionStates
  BY MissionFields DEF Stands, Recorded
<1>2. PICK with : with = [m EXCEPT !.plan = plan]
  OBVIOUS
<1>3. /\ with \in MissionValues
      /\ with.plan = plan
      /\ with.id = m.id
      /\ with.state = m.state
      /\ with.events = m.events
  BY <1>1, <1>2 DEF MissionValues
<1>4. Stands(with) /\ Follows(m, with, 0)
  <2>1. Len(m.events) \in Nat
    BY <1>1, MissionFields
  <2> QED
    BY <1>3, <2>1 DEF Stands, Recorded, Follows
<1>5. "PLAN_UPDATED" \in EventTypes
  BY DEF EventTypes
<1>6. PICK next : next = Append1(with, "PLAN_UPDATED", m.state)
  OBVIOUS
<1>7. /\ Stands(next)
      /\ Follows(with, next, 1)
      /\ next.plan = plan
      /\ next.state = m.state
  BY <1>3, <1>4, <1>5, <1>6, Appended
<1>8. Follows(m, next, 0 + 1)
  BY <1>1, <1>4, <1>7, FollowsTransitive
<1>9. UpdatePlan(m, plan) = next
  BY <1>2, <1>6 DEF UpdatePlan
<1> QED
  BY <1>7, <1>8, <1>9

LEMMA Updated ==
  ASSUME NEW m, Stands(m), NEW kind, NEW n, NEW status \in Statuses,
         NEW result \in StepResults,
         status = "COMPLETED" => result \in {"NONE", "SUCCESS", "PASSED"},
         status = "BLOCKED" => result \notin {"SUCCESS", "PASSED"},
         status = "ACTIVE" =>
           \A i \in DOMAIN m.plan : m.plan[i].status = "ACTIVE" => Is(m.plan[i], kind, n)
  PROVE  LET next == UpdateStep(m, kind, n, status, result) IN
         /\ Stands(next)
         /\ Follows(m, next, 1)
         /\ next.plan = Marked(m.plan, kind, n, status, result)
         /\ next.state = m.state
<1>1. m \in MissionValues /\ m.plan \in Seq(Steps) /\ NormalPlan(m.plan)
  BY MissionFields DEF Stands, Recorded
<1>2. /\ Follows(m, UpdateStep(m, kind, n, status, result), 1)
      /\ UpdateStep(m, kind, n, status, result).plan = Marked(m.plan, kind, n, status, result)
      /\ UpdateStep(m, kind, n, status, result).state = m.state
  BY <1>1, StepUpdated
<1>3. NormalPlan(Marked(m.plan, kind, n, status, result))
  BY <1>1, MarkedNormal
<1> QED
  BY <1>2, <1>3 DEF Stands, Follows

\* A step that is blocked, whichever it is, and without a result that says otherwise.
LEMMA StepBlocked ==
  ASSUME NEW m, Stands(m), NEW kind, NEW n, NEW result \in StepResults \ {"SUCCESS", "PASSED"}
  PROVE  LET next == UpdateStep(m, kind, n, "BLOCKED", result) IN
         Stands(next) /\ Follows(m, next, 1) /\ next.state = m.state
<1>1. "BLOCKED" \in Statuses
  BY DEF Statuses, PlanTransitions
<1> QED
  BY <1>1, Updated

LEMMA ActiveEnds ==
  ASSUME NEW m, Stands(m), NEW length, NEW a, PlanAt(m.plan, length, a),
         NEW kind, NEW n, Is(m.plan[a], kind, n),
         NEW status \in {"COMPLETED", "BLOCKED"}, NEW result \in StepResults,
         status = "COMPLETED" => result \in {"NONE", "SUCCESS", "PASSED"},
         status = "BLOCKED" => result \notin {"SUCCESS", "PASSED"}
  PROVE  LET next == UpdateStep(m, kind, n, status, result) IN
         /\ Stands(next)
         /\ Follows(m, next, 1)
         /\ next.state = m.state
         /\ PlanPast(next.plan, length, a)
         /\ DOMAIN next.plan = DOMAIN m.plan
         /\ \A i \in DOMAIN m.plan :
              next.plan[i].kind = m.plan[i].kind /\ next.plan[i].n = m.plan[i].n
<1>1. status \in Statuses /\ status # "ACTIVE"
  BY DEF Statuses, PlanTransitions
<1>2. PICK plan : plan = Marked(m.plan, kind, n, status, result)
  OBVIOUS
<1>3. PICK next : next = UpdateStep(m, kind, n, status, result)
  OBVIOUS
<1>4. /\ Stands(next)
      /\ Follows(m, next, 1)
      /\ next.plan = plan
      /\ next.state = m.state
  BY <1>1, <1>2, <1>3, Updated
<1>5. m.plan \in Seq(Steps) /\ LaidOut(m.plan) /\ Len(m.plan) = length /\ Reached(m.plan, a)
  BY DEF PlanAt
<1>6. /\ plan \in Seq(Steps)
      /\ Len(plan) = Len(m.plan)
      /\ DOMAIN plan = DOMAIN m.plan
      /\ \A i \in DOMAIN m.plan : plan[i].kind = m.plan[i].kind /\ plan[i].n = m.plan[i].n
  BY <1>1, <1>2, <1>5, MarkedPlan
<1>7. LaidOut(plan)
  BY <1>1, <1>2, <1>5, MarkedLaidOut
<1>8. SettledTo(plan, a)
  BY <1>2, <1>5, StepEnds
<1>9. PlanPast(plan, length, a)
  BY <1>4, <1>5, <1>6, <1>7, <1>8 DEF PlanPast, Stands
<1> QED
  BY <1>3, <1>4, <1>6, <1>9

LEMMA NextBegins ==
  ASSUME NEW m, Stands(m), NEW length \in Nat, NEW a \in Nat, PlanPast(m.plan, length, a),
         a + 1 <= length, NEW kind, NEW n, Is(m.plan[a + 1], kind, n)
  PROVE  LET next == UpdateStep(m, kind, n, "ACTIVE", "NONE") IN
         /\ Stands(next)
         /\ Follows(m, next, 1)
         /\ next.state = m.state
         /\ PlanAt(next.plan, length, a + 1)
<1>1. "ACTIVE" \in Statuses /\ "NONE" \in StepResults
  BY DEF Statuses, PlanTransitions, StepResults
<1>2. PICK plan : plan = Marked(m.plan, kind, n, "ACTIVE", "NONE")
  OBVIOUS
<1>3. PICK next : next = UpdateStep(m, kind, n, "ACTIVE", "NONE")
  OBVIOUS
<1>4. /\ m.plan \in Seq(Steps) /\ LaidOut(m.plan) /\ NormalPlan(m.plan)
      /\ Len(m.plan) = length /\ SettledTo(m.plan, a)
  BY DEF PlanPast
<1>5. a + 1 \in DOMAIN m.plan
  BY <1>4
<1>6. Reached(plan, a + 1) /\ NormalPlan(plan)
  BY <1>2, <1>4, <1>5, StepBegins
<1>7. plan \in Seq(Steps) /\ Len(plan) = length
  <2>1. PICK was \in Seq(Steps) : was = m.plan
    BY <1>4
  <2>2. LET after == Marked(was, kind, n, "ACTIVE", "NONE") IN
        after \in Seq(Steps) /\ Len(after) = Len(was)
    BY ONLY <1>1, was \in Seq(Steps), MarkedPlan
  <2> QED
    BY <1>2, <1>4, <2>1, <2>2
<1>8. LaidOut(plan)
  <2>1. PICK was \in Seq(Steps) : was = m.plan
    BY <1>4
  <2>2. LaidOut(Marked(was, kind, n, "ACTIVE", "NONE"))
    <3>1. LaidOut(was)
      BY <1>4, <2>1
    <3> QED
      BY ONLY <1>1, was \in Seq(Steps), <3>1, MarkedLaidOut
  <2> QED
    BY <1>2, <2>1, <2>2
<1>9. m \in MissionValues
  BY DEF Stands, Recorded
<1>10. Follows(m, next, 1) /\ next.plan = plan /\ next.state = m.state
  <2>1. PICK was \in MissionValues : was = m
    BY <1>9
  <2>2. PICK after : after = UpdateStep(was, kind, n, "ACTIVE", "NONE")
    OBVIOUS
  <2>3. /\ Follows(was, after, 1)
        /\ after.plan = Marked(was.plan, kind, n, "ACTIVE", "NONE")
        /\ after.state = was.state
    BY ONLY <1>1, <2>2, was \in MissionValues, StepUpdated
  <2> QED
    BY <1>2, <1>3, <2>1, <2>2, <2>3
<1>11. Stands(next)
  BY <1>6, <1>10 DEF Stands, Follows
<1>12. PlanAt(plan, length, a + 1)
  BY <1>6, <1>7, <1>8 DEF PlanAt
<1> QED
  BY <1>3, <1>10, <1>11, <1>12

\* An authority is recorded.
LEMMA GrantRecorded ==
  ASSUME NEW m, Stands(m), NEW grant \in Grants
  PROVE  LET next == RecordGrant(m, grant) IN
         /\ Stands(next)
         /\ Follows(m, next, 1)
         /\ next.plan = m.plan
         /\ next.state = m.state
<1>1. m \in MissionValues /\ m.state \in MissionStates
  BY MissionFields DEF Stands, Recorded
<1>2. PICK more : more = m.grants \union {grant}
  OBVIOUS
<1>3. more \in SUBSET Grants
  BY <1>1, <1>2 DEF MissionValues
<1>4. PICK with : with = [m EXCEPT !.grants = more]
  OBVIOUS
<1>5. /\ with \in MissionValues
      /\ with.plan = m.plan
      /\ with.id = m.id
      /\ with.state = m.state
      /\ with.events = m.events
  BY <1>1, <1>3, <1>4 DEF MissionValues
<1>6. Stands(with) /\ Follows(m, with, 0)
  <2>1. Len(m.events) \in Nat
    BY <1>1, MissionFields
  <2> QED
    BY <1>5, <2>1 DEF Stands, Recorded, Follows
<1>7. "AUTHORITY_GRANTED" \in EventTypes
  BY DEF EventTypes
<1>8. PICK next : next = Append1(with, "AUTHORITY_GRANTED", m.state)
  OBVIOUS
<1>9. /\ Stands(next)
      /\ Follows(with, next, 1)
      /\ next.plan = m.plan
      /\ next.state = m.state
  BY <1>5, <1>6, <1>7, <1>8, Appended
<1>10. Follows(m, next, 0 + 1)
  BY <1>1, <1>6, <1>9, FollowsTransitive
<1>11. RecordGrant(m, grant) = next
  BY <1>2, <1>4, <1>8 DEF RecordGrant
<1> QED
  BY <1>9, <1>10, <1>11

LEMMA FollowsOn ==
  ASSUME NEW m, Stands(m), NEW m2, NEW m3, NEW a \in Nat, NEW b \in Nat,
         Follows(m, m2, a), Follows(m2, m3, b)
  PROVE  Follows(m, m3, a + b)
  BY FollowsTransitive DEF Stands, Recorded

\* The gateway answers on the mission it is asked about.
LEMMA Answers ==
  ASSUME NEW m, Stands(m), NEW op \in Operations, NEW target, NEW before, NEW ref, NEW w,
         op = "mutation.applyConditional" => target \in Target /\ ref \in References
  PROVE  LET answer == Dispatch(Request(m, op, target, before, ref), m, w) IN
         /\ Stands(answer.mission)
         /\ Follows(m, answer.mission, 2)
         /\ answer.mission.plan = m.plan
         /\ answer.class \in Classes
<1>1. Answered(m, op, Dispatch(Request(m, op, target, before, ref), m, w))
  BY Dispatched DEF Stands
<1> QED
  BY <1>1 DEF Answered, Stands, Follows

\* A request for authority adds at most one event.
LEMMA AuthorityAsked ==
  ASSUME NEW m, Stands(m), NEW target, NEW before, NEW ref, NEW w
  PROVE  LET answer == Dispatch(Request(m, "authority.request", NoTarget, before, ref), m, w) IN
         /\ Stands(answer.mission)
         /\ Follows(m, answer.mission, 1)
         /\ answer.mission.plan = m.plan
<1>1. PICK r : r = Request(m, "authority.request", NoTarget, before, ref)
  OBVIOUS
<1>2. /\ r.op = "authority.request" /\ r.target = NoTarget
      /\ BindingStatus(r, m) = "SUCCESS"
  BY <1>1, Requested
<1>3. TargetCas(r, w)
  BY <1>2 DEF TargetCas
<1>4. \/ Dispatch(r, m, w).mission = Append1(m, "OPERATION_DENIED", m.state)
      \/ Dispatch(r, m, w).mission = Append1(m, "AUTHORITY_REQUIRED", m.state)
  BY <1>2, <1>3 DEF Dispatch, LocalFastPath, NeedsAuthority, Answer
<1>5. {"OPERATION_DENIED", "AUTHORITY_REQUIRED"} \subseteq EventTypes
  BY DEF EventTypes
<1> QED
  BY <1>1, <1>4, <1>5, Appended

-----------------------------------------------------------------------------
\* Missions that stand: GREEN is earned, durable and resumed missions.

LEMMA StandsFields ==
  ASSUME NEW m, Stands(m)
  PROVE  /\ m \in MissionValues
         /\ m.events \in Seq(Events) /\ Len(m.events) \in Nat /\ Len(m.events) > 0
         /\ m.plan \in Seq(Steps) /\ NormalPlan(m.plan)
         /\ m.state \in MissionStates
         /\ m.id \in Nat
  BY MissionFields DEF Stands, Recorded

\* One more event, which is not a change: the qualification still comes last.
LEMMA QualificationKept ==
  ASSUME NEW m, Stands(m), QualifiedLast(m), NEW next, next.canonical = m.canonical,
         next.plan = m.plan, next.state = "GREEN", NEW e \in Events,
         e.type # "OPERATION_COMPLETED", next.events = Append(m.events, e)
  PROVE  QualifiedLast(next)
<1>1. m.events \in Seq(Events) /\ Len(m.events) \in Nat
  BY StandsFields
<1>2. /\ Len(next.events) = Len(m.events) + 1
      /\ DOMAIN next.events = 1 .. Len(m.events) + 1
      /\ DOMAIN m.events = 1 .. Len(m.events)
      /\ \A i \in 1 .. Len(m.events) : next.events[i] = m.events[i]
      /\ next.events[Len(m.events) + 1] = e
  BY <1>1
<1>3. CanCompleteGreen(next)
  BY DEF QualifiedLast, CanCompleteGreen, CanAppend
<1>4. PICK i \in CanonicallyPassed(m.events) : \A j \in Changed(m.events) : j < i
  BY DEF QualifiedLast
<1>5. i \in CanonicallyPassed(next.events)
  <2>1. i \in 2 .. Len(m.events) /\ i - 1 \in 1 .. Len(m.events)
    BY <1>1, <1>2, <1>4 DEF CanonicallyPassed
  <2> QED
    BY <1>1, <1>2, <1>4, <2>1 DEF CanonicallyPassed
<1>6. ASSUME NEW j \in Changed(next.events)
      PROVE  j < i
  <2>1. j # Len(m.events) + 1
    BY <1>2, <1>6 DEF Changed, Event
  <2>2. j \in Changed(m.events)
    BY <1>1, <1>2, <1>6, <2>1 DEF Changed
  <2> QED
    BY <1>4, <2>2
<1> QED
  BY <1>3, <1>5, <1>6 DEF QualifiedLast

\* One event more than k.
Grows(t, s, e, k) ==
  /\ t \in Seq(Events)
  /\ Len(t) = k + 1
  /\ t[k + 1] = e
  /\ \A i \in 1 .. k : t[i] = s[i]

LEMMA Grown ==
  ASSUME NEW s \in Seq(Events), NEW k, Len(s) = k, NEW e \in Events, NEW t, t = Append(s, e)
  PROVE  Grows(t, s, e, k)
  BY LastEvent DEF Grows

\* A passing canonical test, the end of the plan and GREEN: the qualification comes last.
LEMMA QualificationReached ==
  ASSUME NEW m, Stands(m), NEW tested, Stands(tested), tested.canonical = "PASSED",
         tested.state = "TESTING",
         tested.events = Append(Append(m.events, Event("OPERATION_STARTED", "QUALIFYING")),
                                Event("TEST_PASSED", "TESTING")),
         NEW kind, NEW n, NEW length, PlanAt(tested.plan, length, length),
         Is(tested.plan[length], kind, n)
  PROVE  LET next == CompleteGreen(UpdateStep(tested, kind, n, "COMPLETED", "PASSED")) IN
         /\ MissionStands(next)
         /\ next.id = tested.id
         /\ Len(next.events) = Len(tested.events) + 2
<1>1. PICK planned : planned = UpdateStep(tested, kind, n, "COMPLETED", "PASSED")
  OBVIOUS
<1>2. tested \in MissionValues /\ m \in MissionValues
  BY StandsFields
<1>3. "COMPLETED" \in Statuses /\ "PASSED" \in StepResults
  BY DEF Statuses, PlanTransitions, StepResults
<1>4. /\ Stands(planned)
      /\ Follows(tested, planned, 1)
      /\ PlanPast(planned.plan, length, length)
  BY <1>1, <1>3, ActiveEnds
<1>5. /\ planned.state = "TESTING"
      /\ planned.canonical = "PASSED"
      /\ planned.events = Append(tested.events, Event("PLAN_UPDATED", "TESTING"))
  <2>1. /\ planned.state = tested.state
        /\ planned.canonical = tested.canonical
        /\ planned.events = Append(tested.events, Event("PLAN_UPDATED", tested.state))
    BY ONLY <1>1, <1>2, <1>3, StepUpdated
  <2> QED
    BY <2>1
<1>6. PICK next : next = CompleteGreen(planned)
  OBVIOUS
<1>7. "MISSION_GREEN" \in EventTypes /\ "GREEN" \in MissionStates
  BY DEF EventTypes, MissionStates
<1>8. /\ next \in MissionValues
      /\ next.events = Append(planned.events, Event("MISSION_GREEN", "GREEN"))
      /\ next.state = "GREEN"
      /\ next.id = planned.id
      /\ next.plan = planned.plan
      /\ next.canonical = "PASSED"
  <2>1. planned \in MissionValues
    BY <1>4, StandsFields
  <2>2. next = Append1(planned, "MISSION_GREEN", "GREEN")
    BY <1>6 DEF CompleteGreen
  <2>3. /\ next \in MissionValues
        /\ next.events = Append(planned.events, Event("MISSION_GREEN", "GREEN"))
        /\ next.state = "GREEN"
        /\ next.id = planned.id
        /\ next.plan = planned.plan
        /\ next.canonical = planned.canonical
    BY <1>7, <2>1, <2>2, EventAdded
  <2> QED
    BY <1>5, <2>3
<1>9. CanCompleteGreen(next)
  <2>1. \A i \in DOMAIN next.plan : next.plan[i].status \notin {"PENDING", "ACTIVE"}
    <3>1. ASSUME NEW i \in DOMAIN next.plan
          PROVE  next.plan[i].status \in {"COMPLETED", "BLOCKED"}
      <4>1. planned.plan \in Seq(Steps) /\ Len(planned.plan) = length
            /\ SettledTo(planned.plan, length)
        BY <1>4 DEF PlanPast
      <4>2. i \in DOMAIN planned.plan /\ i <= length
        BY <1>8, <4>1, PlanIndices
      <4> QED
        BY <1>8, <4>1, <4>2 DEF SettledTo
    <3> QED
      BY <3>1
  <2> QED
    BY <1>8, <2>1 DEF CanCompleteGreen, CanAppend
<1>10. PICK s \in Seq(Events), e1 \in Events, e2 \in Events, e3 \in Events, e4 \in Events :
         /\ s = m.events
         /\ e1 = Event("OPERATION_STARTED", "QUALIFYING")
         /\ e2 = Event("TEST_PASSED", "TESTING")
         /\ e3 = Event("PLAN_UPDATED", "TESTING")
         /\ e4 = Event("MISSION_GREEN", "GREEN")
  <2>1. /\ Event("OPERATION_STARTED", "QUALIFYING") \in Events
        /\ Event("TEST_PASSED", "TESTING") \in Events
        /\ Event("PLAN_UPDATED", "TESTING") \in Events
        /\ Event("MISSION_GREEN", "GREEN") \in Events
    BY DEF Event, Events, EventTypes, MissionStates
  <2>2. m.events \in Seq(Events)
    BY StandsFields
  <2> QED
    BY <2>1, <2>2
<1>11. next.events = Append(Append(Append(Append(s, e1), e2), e3), e4)
  BY <1>5, <1>8, <1>10
<1>12. PICK k \in Nat : k = Len(s) /\ k > 0
  BY <1>10, StandsFields
<1>13. PICK s1 : s1 = Append(s, e1)
  OBVIOUS
<1>14. PICK s2 : s2 = Append(s1, e2)
  OBVIOUS
<1>15. PICK s3 : s3 = Append(s2, e3)
  OBVIOUS
<1>16. PICK s4 : s4 = Append(s3, e4)
  OBVIOUS
<1>a. Grows(s1, s, e1, k)
  BY <1>10, <1>12, <1>13, Grown
<1>b. Grows(s2, s1, e2, k + 1)
  <2>1. s1 \in Seq(Events) /\ Len(s1) = k + 1
    BY <1>a DEF Grows
  <2> QED
    BY <1>10, <1>14, <2>1, Grown
<1>c. Grows(s3, s2, e3, k + 2)
  <2>1. s2 \in Seq(Events) /\ Len(s2) = k + 2
    BY <1>12, <1>b DEF Grows
  <2> QED
    BY <1>10, <1>15, <2>1, Grown
<1>d. Grows(s4, s3, e4, k + 3)
  <2>1. s3 \in Seq(Events) /\ Len(s3) = k + 3
    BY <1>12, <1>c DEF Grows
  <2> QED
    BY <1>10, <1>16, <2>1, Grown
<1>17. next.events = s4
  BY <1>11, <1>13, <1>14, <1>15, <1>16
<1>18. /\ s4[k + 1] = e1 /\ s4[k + 2] = e2 /\ s4[k + 3] = e3 /\ s4[k + 4] = e4
       /\ DOMAIN s4 = 1 .. k + 4
  <2>1. s4[k + 4] = e4 /\ Len(s4) = k + 4 /\ s4 \in Seq(Events)
    BY <1>12, <1>d DEF Grows
  <2>2. s4[k + 3] = e3
    BY <1>12, <1>c, <1>d DEF Grows
  <2>3. s4[k + 2] = e2
    <3>1. s2[k + 2] = e2
      BY <1>12, <1>b DEF Grows
    <3>2. s3[k + 2] = s2[k + 2]
      BY <1>12, <1>c DEF Grows
    <3>3. s4[k + 2] = s3[k + 2]
      BY <1>12, <1>d DEF Grows
    <3> QED
      BY <3>1, <3>2, <3>3
  <2>4. s4[k + 1] = e1
    <3>1. s1[k + 1] = e1
      BY <1>a DEF Grows
    <3>2. s2[k + 1] = s1[k + 1]
      BY <1>12, <1>b DEF Grows
    <3>3. s3[k + 1] = s2[k + 1]
      BY <1>12, <1>c DEF Grows
    <3>4. s4[k + 1] = s3[k + 1]
      BY <1>12, <1>d DEF Grows
    <3> QED
      BY <3>1, <3>2, <3>3, <3>4
  <2> QED
    BY <2>1, <2>2, <2>3, <2>4
<1>19. k + 2 \in CanonicallyPassed(s4)
  <2>1. s4[k + 2].type = "TEST_PASSED" /\ s4[(k + 2) - 1] = Event("OPERATION_STARTED", "QUALIFYING")
    <3>1. (k + 2) - 1 = k + 1
      OBVIOUS
    <3> QED
      BY <1>10, <1>18, <3>1 DEF Event
  <2>2. k + 2 \in DOMAIN s4 \ {1}
    BY <1>12, <1>18
  <2> QED
    BY <2>1, <2>2 DEF CanonicallyPassed
<1>20. ASSUME NEW j \in Changed(s4)
       PROVE  j < k + 2
  <2>1. j \in 1 .. k + 4 /\ s4[j] = Event("OPERATION_COMPLETED", "IMPLEMENTING")
    BY <1>18, <1>20 DEF Changed
  <2>2. j # k + 2 /\ j # k + 3 /\ j # k + 4
    BY <1>10, <1>18, <2>1 DEF Event
  <2> QED
    BY <2>1, <2>2
<1>21. QualifiedLast(next)
  BY <1>9, <1>17, <1>19, <1>20 DEF QualifiedLast
<1>22. next.events[Len(next.events)].state = next.state /\ Len(next.events) > 0
  BY <1>8, <1>10, <1>12, <1>17, <1>18, <1>d DEF Event, Grows
<1>23. NormalPlan(next.plan)
  BY <1>4, <1>8 DEF Stands
<1>24. MissionStands(next)
  BY <1>8, <1>21, <1>22, <1>23 DEF MissionStands
<1>25. Len(next.events) = Len(tested.events) + 2
  <2>1. tested.events = s2
    BY <1>10, <1>13, <1>14
  <2> QED
    BY <1>12, <1>17, <1>b, <1>d, <2>1 DEF Grows
<1>26. next.id = tested.id
  BY <1>4, <1>8 DEF Follows
<1> QED
  BY <1>1, <1>6, <1>24, <1>25, <1>26

LEMMA StandsIs ==
  ASSUME NEW m
  PROVE  /\ MissionStands(m) => Stands(m)
         /\ Stands(m) /\ m.state # "GREEN" => MissionStands(m)
  BY DEF MissionStands, Stands, Recorded

\* What is written of a mission stands as it does.
LEMMA DurableMission ==
  ASSUME NEW m, MissionStands(m)
  PROVE  LET kept == ForDurableRestart(m) IN
         /\ MissionStands(kept)
         /\ kept.id = m.id
         /\ kept.state = m.state
         /\ kept.plan = m.plan
         /\ kept.events = m.events
         /\ kept.head = m.head
         /\ kept.grants = {} /\ kept.used = {}
<1>1. PICK kept : kept = ForDurableRestart(m)
  OBVIOUS
<1>2. /\ kept \in MissionValues
      /\ kept.id = m.id
      /\ kept.state = m.state
      /\ kept.plan = m.plan
      /\ kept.events = m.events
      /\ kept.head = m.head
      /\ kept.canonical = m.canonical
      /\ kept.grants = {} /\ kept.used = {}
  BY <1>1 DEF ForDurableRestart, MissionStands, MissionValues
<1>3. m.state = "GREEN" => QualifiedLast(kept)
  BY <1>2 DEF MissionStands, QualifiedLast, CanCompleteGreen, CanAppend
<1> QED
  BY <1>1, <1>2, <1>3 DEF MissionStands

\* A mission that is resumed has one event more, and is GREEN only if it was.
LEMMA Resumed ==
  ASSUME NEW m, MissionStands(m), NEW at, NEW again \in BOOLEAN
  PROVE  LET next == Resume(m, at, again) IN
         /\ MissionStands(next)
         /\ next.id = m.id
         /\ Len(next.events) = Len(m.events) + 1
         /\ m.head = at => next.state = m.state /\ next.plan = m.plan
         /\ m.head # at => next.state = "BLOCKED"
<1>1. PICK next : next = Resume(m, at, again)
  OBVIOUS
<1>2. Stands(m) /\ m \in MissionValues /\ m.state \in MissionStates
  BY StandsIs, StandsFields
<1>3. CASE m.head = at
  <2>1. PICK times \in Nat : times = IF again THEN m.restarts + 1 ELSE m.restarts
    BY <1>2 DEF MissionValues
  <2>2. PICK with : with = [m EXCEPT !.grants = {}, !.used = {}, !.restarts = times]
    OBVIOUS
  <2>3. next = Append1(with, "WORKSPACE_VALIDATED", m.state)
    BY <1>1, <1>3, <2>1, <2>2 DEF Resume
  <2>4. /\ with \in MissionValues
        /\ with.plan = m.plan
        /\ with.id = m.id
        /\ with.state = m.state
        /\ with.events = m.events
        /\ with.canonical = m.canonical
    BY <1>2, <2>1, <2>2 DEF MissionValues
  <2>5. Stands(with)
    BY <1>2, <2>4 DEF Stands, Recorded
  <2>6. "WORKSPACE_VALIDATED" \in EventTypes
    BY DEF EventTypes
  <2>7. Stands(next)
    BY <2>3, <2>4, <2>5, <2>6, Appended
  <2>8. /\ next.events = Append(m.events, Event("WORKSPACE_VALIDATED", m.state))
        /\ Len(next.events) = Len(m.events) + 1
        /\ next.state = m.state
        /\ next.id = m.id
        /\ next.plan = m.plan
        /\ next.canonical = m.canonical
    BY <1>2, <2>3, <2>4, <2>6, EventAdded
  <2>9. ASSUME next.state = "GREEN"
        PROVE  QualifiedLast(next)
    <3>1. QualifiedLast(m)
      BY <2>8, <2>9 DEF MissionStands
    <3>2. PICK e \in Events : e = Event("WORKSPACE_VALIDATED", m.state)
      BY <1>2, <2>6 DEF Event, Events
    <3>3. e.type # "OPERATION_COMPLETED"
      BY <3>2 DEF Event
    <3> QED
      BY <1>2, <2>8, <2>9, <3>1, <3>2, <3>3, QualificationKept
  <2>10. MissionStands(next)
    BY <2>7, <2>9 DEF MissionStands, Stands, Recorded
  <2> QED
    BY <1>1, <1>3, <2>8, <2>10
<1>4. CASE m.head # at
  <2>1. PICK plan : plan = [i \in DOMAIN m.plan |->
                              IF m.plan[i].status \in {"PENDING", "ACTIVE"}
                                THEN [m.plan[i] EXCEPT !.status = "BLOCKED",
                                                       !.result = "STALE_STATE"]
                                ELSE m.plan[i]]
    OBVIOUS
  <2>2. m.plan \in Seq(Steps) /\ NormalPlan(m.plan)
    BY <1>2, StandsFields
  <2>3. /\ DOMAIN plan = DOMAIN m.plan
        /\ \A i \in DOMAIN m.plan :
             /\ plan[i] \in Steps
             /\ plan[i].kind = m.plan[i].kind /\ plan[i].n = m.plan[i].n
             /\ plan[i].status \notin {"PENDING", "ACTIVE"}
             /\ \/ plan[i] = m.plan[i]
                \/ plan[i].status = "BLOCKED" /\ plan[i].result = "STALE_STATE"
    <3>1. \A i \in DOMAIN m.plan : m.plan[i] \in Steps
      BY <2>2
    <3>2. "BLOCKED" \in Statuses /\ "STALE_STATE" \in StepResults
      BY DEF Statuses, PlanTransitions, StepResults, Classes
    <3> QED
      BY <2>1, <3>1, <3>2 DEF Steps
  <2>4. plan \in Seq(Steps) /\ Len(plan) = Len(m.plan)
    <3>1. DOMAIN m.plan = 1 .. Len(m.plan) /\ Len(m.plan) \in Nat
      BY <2>2, PlanIndices
    <3>2. plan = [i \in 1 .. Len(m.plan) |-> plan[i]]
      BY <2>1, <3>1
    <3> QED
      BY <2>3, <3>1, <3>2
  <2>5. NormalPlan(plan)
    <3>1. Len(plan) <= PlanBound
      BY <2>2, <2>4, NormalIsPlain DEF PlainlyNormal
    <3>2. \A i, j \in DOMAIN plan : Is(plan[i], plan[j].kind, plan[j].n) => i = j
      BY <2>2, <2>3, NormalIsPlain DEF PlainlyNormal, Is
    <3>3. \A i, j \in DOMAIN plan :
            plan[i].status = "ACTIVE" /\ plan[j].status = "ACTIVE" => i = j
      BY <2>3
    <3>4. \A i \in DOMAIN plan :
            /\ plan[i].status = "COMPLETED" => plan[i].result \in {"NONE", "SUCCESS", "PASSED"}
            /\ plan[i].status = "BLOCKED" => plan[i].result \notin {"SUCCESS", "PASSED"}
      BY <2>2, <2>3, NormalIsPlain DEF PlainlyNormal
    <3>5. PlainlyNormal(plan)
      BY <3>1, <3>2, <3>3, <3>4 DEF PlainlyNormal
    <3> QED
      BY <2>4, <3>5, NormalIsPlain
  <2>6. PICK with : with = [m EXCEPT !.grants = {}, !.used = {}, !.allowed = StaleCapabilities,
                                     !.plan = plan]
    OBVIOUS
  <2>7. next = Append1(with, "STATE_INVALIDATED", "BLOCKED")
    BY <1>1, <1>4, <2>1, <2>6 DEF Resume
  <2>8. StaleCapabilities \subseteq Operations
    BY DEF StaleCapabilities, Operations
  <2>9. /\ with \in MissionValues
        /\ with.plan = plan
        /\ with.id = m.id
        /\ with.state = m.state
        /\ with.events = m.events
    BY <1>2, <2>4, <2>6, <2>8 DEF MissionValues
  <2>10. Stands(with)
    BY <1>2, <2>5, <2>9 DEF Stands, Recorded
  <2>11. "STATE_INVALIDATED" \in EventTypes /\ "BLOCKED" \in MissionStates \ {"GREEN"}
    BY DEF EventTypes, MissionStates
  <2>12. Stands(next) /\ next.state = "BLOCKED"
    BY <2>7, <2>9, <2>10, <2>11, Appended
  <2>13. Len(next.events) = Len(m.events) + 1 /\ next.id = m.id
    BY <2>7, <2>9, <2>11, EventAdded
  <2> QED
    BY <1>1, <1>4, <2>12, <2>13, StandsIs
<1> QED
  BY <1>3, <1>4

-----------------------------------------------------------------------------
\* Loops: the operations of the repair loop one after the other.

LEMMA LoopFields ==
  ASSUME NEW l, LoopStands(l)
  PROVE  /\ l \in LoopValues
         /\ Stands(l.mission)
         /\ l.state \in LoopStates
         /\ l.attempts \in Seq([target : Target, passed : BOOLEAN])
         /\ Len(l.attempts) \in Nat /\ Len(l.attempts) <= AttemptCeiling
         /\ l.request \in BOOLEAN /\ l.authority \in BOOLEAN
         /\ l.stop \in Stops
         /\ l.mission.state = "GREEN" => l.state = "GREEN"
<1>1. l \in LoopValues /\ MissionStands(l.mission)
  BY DEF LoopStands
<1>2. /\ l.state \in LoopStates
      /\ l.attempts \in Seq([target : Target, passed : BOOLEAN])
      /\ l.request \in BOOLEAN /\ l.authority \in BOOLEAN
      /\ l.stop \in Stops
  BY <1>1 DEF LoopValues
<1>3. Len(l.attempts) \in Nat
  BY <1>2
<1> QED
  BY <1>1, <1>2, <1>3, StandsIs DEF LoopStands

\* A loop that goes on with the same mission and at most so many new events.
GoesOn(l, next, most) ==
  /\ LoopStands(next)
  /\ next.mission.id = l.mission.id
  /\ Len(l.mission.events) <= Len(next.mission.events)
  /\ Len(next.mission.events) <= Len(l.mission.events) + most

\* A loop with another mission, state, ... stands when they do.
LEMMA LoopWith ==
  ASSUME NEW l, LoopStands(l), NEW next,
         next \in LoopValues, Len(next.attempts) <= AttemptCeiling,
         Stands(next.mission), next.mission.state # "GREEN", next.state # "CANCELLED",
         NEW most \in Nat, Follows(l.mission, next.mission, most)
  PROVE  GoesOn(l, next, most)
<1>1. MissionStands(next.mission)
  BY StandsIs
<1>2. LoopStands(next)
  BY <1>1 DEF LoopStands
<1> QED
  BY <1>2 DEF GoesOn, Follows

LEMMA LoopStops ==
  ASSUME NEW l, LoopStands(l), NEW from \in LoopValues, Len(from.attempts) <= AttemptCeiling,
         NEW m, Stands(m), m.state # "GREEN", NEW most \in Nat, Follows(l.mission, m, most),
         NEW reason \in Stops
  PROVE  LET next == Stopped(from, m, reason) IN
         /\ GoesOn(l, next, most)
         /\ next.state = "BLOCKED"
         /\ next.attempts = from.attempts
         /\ next.mission = m
         /\ ~next.request /\ ~next.authority
         /\ PlanFollows(next)
<1>1. PICK next : next = Stopped(from, m, reason)
  OBVIOUS
<1>2. m \in MissionValues
  BY StandsFields
<1>3. /\ next \in LoopValues
      /\ next.mission = m
      /\ next.state = "BLOCKED"
      /\ next.attempts = from.attempts
      /\ ~next.request /\ ~next.authority
  BY <1>1, <1>2 DEF Stopped, LoopValues, LoopStates, NoPending, NoTarget
<1>4. GoesOn(l, next, most)
  BY <1>3, LoopWith
<1>5. PlanFollows(next)
  BY <1>3 DEF PlanFollows, Live, Awaiting
<1> QED
  BY <1>1, <1>3, <1>4, <1>5

LEMMA PlanOfLoop ==
  ASSUME NEW l, LoopStands(l), NEW own \in Nat, NEW left \in Nat, Underway(l, own, left)
  PROVE  PlanAt(l.mission.plan, 4 * Len(l.attempts) + own, 4 * Len(l.attempts) + own - left)
<1>1. l.mission.plan \in Seq(Steps) /\ NormalPlan(l.mission.plan)
  BY LoopFields, StandsFields
<1> QED
  BY <1>1 DEF Underway, PlanAt

LEMMA LoopOfPlan ==
  ASSUME NEW l, NEW own, NEW left, NEW length, NEW active,
         length = 4 * Len(l.attempts) + own, active = length - left,
         PlanAt(l.mission.plan, length, active)
  PROVE  Underway(l, own, left)
  BY DEF Underway, PlanAt

\* The steps of the next attempt, by their place in the plan.
LEMMA StepsOfAttempt ==
  ASSUME NEW plan \in Seq(Steps), LaidOut(plan), NEW a \in Nat
  PROVE  /\ 4 * a + 2 < Len(plan) => Is(plan[4 * a + 2], "prepare", a + 1)
         /\ 4 * a + 3 < Len(plan) => Is(plan[4 * a + 3], "authority", a + 1)
         /\ 4 * a + 4 < Len(plan) => Is(plan[4 * a + 4], "apply", a + 1)
         /\ 4 * a + 5 < Len(plan) => Is(plan[4 * a + 5], "test", a + 1)
<1>1. Len(plan) \in Nat /\ DOMAIN plan = 1 .. Len(plan)
  BY PlanIndices
<1>2. \A i \in Nat : 1 < i /\ i < Len(plan) => i \in DOMAIN plan
  BY <1>1
<1>3. 4 * a + 2 < Len(plan) => Is(plan[4 * a + 2], "prepare", a + 1)
  <2>1. 4 * a + 2 \in Nat /\ 1 < 4 * a + 2
    OBVIOUS
  <2> QED
    BY <1>2, <2>1, StepAt
<1>4. 4 * a + 3 < Len(plan) => Is(plan[4 * a + 3], "authority", a + 1)
  <2>1. 4 * a + 3 \in Nat /\ 1 < 4 * a + 3
    OBVIOUS
  <2> QED
    BY <1>2, <2>1, StepAt
<1>5. 4 * a + 4 < Len(plan) => Is(plan[4 * a + 4], "apply", a + 1)
  <2>1. 4 * a + 4 \in Nat /\ 1 < 4 * a + 4
    OBVIOUS
  <2> QED
    BY <1>2, <2>1, StepAt
<1>6. 4 * a + 5 < Len(plan) => Is(plan[4 * a + 5], "test", a + 1)
  <2>1. 4 * a + 5 \in Nat /\ 1 < 4 * a + 5
    OBVIOUS
  <2> QED
    BY <1>2, <2>1, StepAt
<1> QED
  BY <1>3, <1>4, <1>5, <1>6

\* Blocking a mission.
LEMMA Blocked ==
  ASSUME NEW m, Stands(m)
  PROVE  Stands(Block(m)) /\ Follows(m, Block(m), 1) /\ Block(m).state = "BLOCKED"
<1>1. "MISSION_BLOCKED" \in EventTypes /\ "BLOCKED" \in MissionStates \ {"GREEN"}
  BY DEF EventTypes, MissionStates
<1> QED
  BY <1>1, Appended DEF Block

\* The first test.
LEMMA InvestigatedLoop ==
  ASSUME NEW l, LoopStands(l), PlanFollows(l), l.state = "INVESTIGATING", NEW w
  PROVE  LET next == Investigated(l, w) IN
         /\ GoesOn(l, next, 6)
         /\ PlanFollows(next)
         /\ next.attempts = l.attempts
         /\ \/ /\ next.state = "READY_FOR_REPAIR"
               /\ next.request
               /\ Len(next.mission.events) <= Len(l.mission.events) + 4
            \/ next.state = "BLOCKED" /\ ~next.request
<1>1. /\ l \in LoopValues /\ Stands(l.mission) /\ l.mission.state # "GREEN"
      /\ Len(l.attempts) <= AttemptCeiling
  BY LoopFields
<1>2. l.attempts = <<>> /\ Underway(l, 3, 2)
  BY DEF PlanFollows
<1>3. PlanAt(l.mission.plan, 3, 1)
  <2>1. Len(l.attempts) = 0
    BY <1>2
  <2>2. PlanAt(l.mission.plan, 4 * Len(l.attempts) + 3, 4 * Len(l.attempts) + 3 - 2)
    BY <1>2, PlanOfLoop
  <2> QED
    BY <2>1, <2>2
<1>4. PICK answer : answer = Sends(l, "tests.run", NoTarget, "none", "none", w)
  OBVIOUS
<1>5. /\ Stands(answer.mission)
      /\ Follows(l.mission, answer.mission, 2)
      /\ answer.mission.plan = l.mission.plan
  <2>1. "tests.run" \in Operations
    BY DEF Operations
  <2> QED
    BY <1>1, <1>4, <2>1, Answers DEF Sends
<1>6. PICK result : result = IF answer.class = "FAILURE" THEN "SUCCESS" ELSE "PASSED"
  OBVIOUS
<1>7. result \in {"SUCCESS", "PASSED"} /\ result \in StepResults
  BY <1>6 DEF StepResults, Classes
<1>8. PICK inspected : inspected = UpdateStep(answer.mission, "inspect", 0, "COMPLETED", result)
  OBVIOUS
<1>9. PlanAt(answer.mission.plan, 3, 1) /\ Is(answer.mission.plan[1], "inspect", 0)
  BY <1>3, <1>5 DEF PlanAt, LaidOut
<1>10. /\ Stands(inspected)
       /\ Follows(answer.mission, inspected, 1)
       /\ PlanPast(inspected.plan, 3, 1)
  BY <1>5, <1>7, <1>8, <1>9, ActiveEnds
<1>11. Follows(l.mission, inspected, 3)
  <2>1. Follows(l.mission, inspected, 2 + 1)
    BY <1>1, <1>5, <1>10, FollowsOn
  <2> QED
    BY <2>1
<1>12. PICK next : next = Investigated(l, w)
  OBVIOUS
<1>13. CASE answer.class = "FAILURE"
  <2>1. PICK m : m = UpdateStep(inspected, "prepare", 1, "ACTIVE", "NONE")
    OBVIOUS
  <2>2. Is(inspected.plan[2], "prepare", 1)
    <3>1. inspected.plan \in Seq(Steps) /\ LaidOut(inspected.plan) /\ Len(inspected.plan) = 3
      BY <1>10 DEF PlanPast
    <3>2. 4 * 0 + 2 < Len(inspected.plan) => Is(inspected.plan[4 * 0 + 2], "prepare", 0 + 1)
      BY <3>1, StepsOfAttempt
    <3> QED
      BY <3>1, <3>2
  <2>3. Stands(m) /\ Follows(inspected, m, 1) /\ PlanAt(m.plan, 3, 2)
    <3>1. /\ Stands(m) /\ Follows(inspected, m, 1)
          /\ PlanAt(m.plan, 3, 1 + 1)
      <4>1. Is(inspected.plan[1 + 1], "prepare", 1) /\ 1 + 1 <= 3
        BY <2>2
      <4> QED
        BY <1>10, <2>1, <4>1, NextBegins
    <3> QED
      BY <3>1
  <2>4. Follows(l.mission, m, 4)
    <3>1. Follows(l.mission, m, 3 + 1)
      BY <1>1, <1>11, <2>3, FollowsOn
    <3> QED
      BY <3>1
  <2>5. m \in MissionValues /\ m.state # "GREEN"
    BY <1>1, <2>3, <2>4, StandsFields DEF Follows
  <2>6. next = [l EXCEPT !.state = "READY_FOR_REPAIR", !.request = TRUE, !.mission = m]
    BY <1>4, <1>6, <1>8, <1>12, <1>13, <2>1 DEF Investigated
  <2>7. /\ next \in LoopValues
        /\ next.mission = m
        /\ next.state = "READY_FOR_REPAIR"
        /\ next.attempts = l.attempts
        /\ next.request
    BY <1>1, <2>5, <2>6 DEF LoopValues, LoopStates
  <2>8. GoesOn(l, next, 4)
    BY <1>1, <2>3, <2>4, <2>5, <2>7, LoopWith
  <2>9. PlanFollows(next)
    <3>1. Len(next.attempts) = 0
      BY <1>2, <2>7
    <3>2. Underway(next, 3, 1)
      BY <2>3, <2>7, <3>1, LoopOfPlan
    <3>3. Len(next.attempts) < AttemptCeiling
      BY <3>1, AttemptCeilingAssumption
    <3> QED
      BY <2>7, <3>2, <3>3 DEF PlanFollows, Live, Awaiting
  <2>10. GoesOn(l, next, 6)
    <3>1. Follows(l.mission, m, 6)
      BY <1>1, <2>4, FollowsAtMost, StandsFields
    <3> QED
      BY <1>1, <2>3, <2>5, <2>7, <3>1, LoopWith
  <2> QED
    BY <1>12, <2>7, <2>8, <2>9, <2>10 DEF GoesOn
<1>14. CASE answer.class # "FAILURE"
  <2>1. "INCOMPLETE_EVIDENCE" \in StepResults \ {"SUCCESS", "PASSED"}
        /\ "INCOMPLETE_EVIDENCE" \in Stops
    BY DEF StepResults, Stops
  <2>2. PICK m1 : m1 = UpdateStep(inspected, "prepare", 1, "BLOCKED", "INCOMPLETE_EVIDENCE")
    OBVIOUS
  <2>3. PICK m2 : m2 = UpdateStep(m1, "qualification", 0, "BLOCKED", "INCOMPLETE_EVIDENCE")
    OBVIOUS
  <2>4. Stands(m1) /\ Follows(inspected, m1, 1)
    BY <1>10, <2>1, <2>2, StepBlocked
  <2>5. Stands(m2) /\ Follows(m1, m2, 1)
    BY <2>1, <2>3, <2>4, StepBlocked
  <2>6. PICK m : m = Block(m2)
    OBVIOUS
  <2>7. Stands(m) /\ Follows(m2, m, 1) /\ m.state = "BLOCKED"
    BY <2>5, <2>6, Blocked
  <2>8. Follows(l.mission, m1, 3 + 1)
    BY <1>1, <1>11, <2>4, FollowsOn
  <2>9. Follows(l.mission, m2, 3 + 1 + 1)
    BY <1>1, <2>5, <2>8, FollowsOn
  <2>10. Follows(l.mission, m, 3 + 1 + 1 + 1)
    BY <1>1, <2>7, <2>9, FollowsOn
  <2>11. Follows(l.mission, m, 6)
    BY <2>10
  <2>12. next = Stopped(l, m, "INCOMPLETE_EVIDENCE")
    BY <1>4, <1>6, <1>8, <1>12, <1>14, <2>2, <2>3, <2>6 DEF Investigated
  <2>13. m.state # "GREEN"
    BY <2>7
  <2> QED
    BY <1>1, <1>12, <2>1, <2>7, <2>11, <2>12, <2>13, LoopStops
<1> QED
  BY <1>13, <1>14

\* A step at its place in a plan with an active step, or one that is past a step.
LEMMA StepsAtPlan ==
  ASSUME NEW plan, NEW length, NEW active, NEW a \in Nat,
         PlanAt(plan, length, active) \/ PlanPast(plan, length, active)
  PROVE  /\ plan \in Seq(Steps) /\ LaidOut(plan) /\ Len(plan) = length
         /\ 4 * a + 2 < length => Is(plan[4 * a + 2], "prepare", a + 1)
         /\ 4 * a + 3 < length => Is(plan[4 * a + 3], "authority", a + 1)
         /\ 4 * a + 4 < length => Is(plan[4 * a + 4], "apply", a + 1)
         /\ 4 * a + 5 < length => Is(plan[4 * a + 5], "test", a + 1)
         /\ Is(plan[length], "qualification", 0)
<1>1. plan \in Seq(Steps) /\ LaidOut(plan) /\ Len(plan) = length
  BY DEF PlanAt, PlanPast
<1> QED
  BY <1>1, StepsOfAttempt DEF LaidOut

LEMMA EnvelopeGrant ==
  ASSUME NEW id \in Nat
  PROVE  Grant(Envelope(id), "mutation.applyConditional", FALSE, TRUE) \in Grants
  BY DEF Grant, Grants, Envelope, References, Operations

LEMMA OneShotGrant ==
  ASSUME NEW id \in Nat, NEW n \in Nat
  PROVE  /\ OneShot(id, n) \in References
         /\ Grant(OneShot(id, n), "mutation.applyConditional", TRUE, FALSE) \in Grants
  BY DEF Grant, Grants, OneShot, References, Operations

LEMMA AuthorizedLoop ==
  ASSUME NEW l, LoopStands(l), PlanFollows(l), l.state = "READY_FOR_REPAIR"
  PROVE  LET next == MissionAuthorized(l) IN
         /\ GoesOn(l, next, 1)
         /\ PlanFollows(next)
         /\ next.attempts = l.attempts
         /\ next.state = l.state
         /\ next.request = l.request /\ next.authority
<1>1. /\ l \in LoopValues /\ Stands(l.mission) /\ l.mission.state # "GREEN"
      /\ Len(l.attempts) <= AttemptCeiling /\ l.mission.id \in Nat
  BY LoopFields, StandsFields
<1>2. PICK m : m = RecordGrant(l.mission, Grant(Envelope(l.mission.id),
                                 "mutation.applyConditional", FALSE, TRUE))
  OBVIOUS
<1>3. Stands(m) /\ Follows(l.mission, m, 1) /\ m.plan = l.mission.plan /\ m.state # "GREEN"
  <2>1. PICK grant \in Grants :
          grant = Grant(Envelope(l.mission.id), "mutation.applyConditional", FALSE, TRUE)
    BY <1>1, EnvelopeGrant
  <2>2. /\ Stands(m) /\ Follows(l.mission, m, 1) /\ m.plan = l.mission.plan
        /\ m.state = l.mission.state
    BY <1>1, <1>2, <2>1, GrantRecorded
  <2> QED
    BY <1>1, <2>2
<1>4. PICK next : next = MissionAuthorized(l)
  OBVIOUS
<1>5. next = [l EXCEPT !.authority = TRUE, !.stop = "NONE", !.mission = m]
  BY <1>2, <1>4 DEF MissionAuthorized
<1>6. m \in MissionValues
  BY <1>3, StandsFields
<1>7. /\ next \in LoopValues
      /\ next.mission = m
      /\ next.state = l.state
      /\ next.attempts = l.attempts
      /\ next.request = l.request /\ next.authority
  BY <1>1, <1>5, <1>6 DEF LoopValues, Stops, StepResults
<1>8. GoesOn(l, next, 1)
  BY <1>1, <1>3, <1>7, LoopWith
<1>9. PlanFollows(next)
  BY <1>3, <1>7 DEF PlanFollows, Underway, Live, Awaiting
<1> QED
  BY <1>4, <1>7, <1>8, <1>9

\* A proposal opens the next attempt.
LEMMA ProposedLoop ==
  ASSUME NEW l, LoopStands(l), PlanFollows(l), l.state = "READY_FOR_REPAIR",
         NEW target \in Target \ Attempted(l), NEW w, w.content \in [Target -> Contents]
  PROVE  LET next == Proposed(l, target, w) IN
         /\ GoesOn(l, next, 6)
         /\ PlanFollows(next)
         /\ next.attempts = l.attempts
         /\ next.state = IF l.authority THEN "MISSION_AUTHORITY_READY" ELSE "AUTHORITY_REQUIRED"
         /\ next.request = l.request /\ next.authority = l.authority
<1>1. /\ l \in LoopValues /\ Stands(l.mission) /\ l.mission.state # "GREEN"
      /\ Len(l.attempts) <= AttemptCeiling /\ l.mission.id \in Nat
      /\ Len(l.attempts) \in Nat
  BY LoopFields, StandsFields
<1>2. PICK a \in Nat : a = Len(l.attempts)
  BY <1>1
<1>3. a < AttemptCeiling /\ PlanAt(l.mission.plan, 4 * a + 3, 4 * a + 2)
  <2>1. Underway(l, 3, 1) /\ Len(l.attempts) < AttemptCeiling
    BY DEF PlanFollows, Live
  <2>2. PlanAt(l.mission.plan, 4 * a + 3, 4 * a + 3 - 1)
    BY <1>2, <2>1, PlanOfLoop
  <2>3. 4 * a + 3 - 1 = 4 * a + 2
    OBVIOUS
  <2> QED
    BY <1>2, <2>1, <2>2, <2>3
<1>4. PICK m1 : m1 = Append1(l.mission, "REPAIR_STARTED", "REPAIRING")
  OBVIOUS
<1>5. Stands(m1) /\ Follows(l.mission, m1, 1) /\ m1.plan = l.mission.plan
  <2>1. "REPAIR_STARTED" \in EventTypes /\ "REPAIRING" \in MissionStates \ {"GREEN"}
    BY DEF EventTypes, MissionStates
  <2> QED
    BY <1>1, <1>4, <2>1, Appended
<1>6. PICK m2 : m2 = Dispatch(Request(m1, "mutation.propose", NoTarget, "none", "none"), m1,
                              [w EXCEPT !.outcome = "done"]).mission
  OBVIOUS
<1>7. Stands(m2) /\ Follows(m1, m2, 2) /\ m2.plan = m1.plan
  <2>1. "mutation.propose" \in Operations
    BY DEF Operations
  <2> QED
    BY <1>5, <1>6, <2>1, Answers
<1>8. PICK m3 : m3 = UpdateStep(m2, "prepare", a + 1, "COMPLETED", "SUCCESS")
  OBVIOUS
<1>9. Stands(m3) /\ Follows(m2, m3, 1) /\ PlanPast(m3.plan, 4 * a + 3, 4 * a + 2)
  <2>1. PlanAt(m2.plan, 4 * a + 3, 4 * a + 2)
    BY <1>3, <1>5, <1>7
  <2>2. Is(m2.plan[4 * a + 2], "prepare", a + 1)
    <3>1. 4 * a + 2 < 4 * a + 3
      OBVIOUS
    <3> QED
      BY <2>1, <3>1, StepsAtPlan
  <2>3. "SUCCESS" \in StepResults
    BY DEF StepResults, Classes
  <2> QED
    BY <1>7, <1>8, <2>1, <2>2, <2>3, ActiveEnds
<1>10. PICK plan : plan = BeforeQualification(m3.plan, AttemptSteps(a + 1))
  OBVIOUS
<1>11. PlanAt(plan, 4 * a + 6, 4 * a + 3)
  BY <1>3, <1>9, <1>10, AttemptOpens
<1>12. PICK m4 : m4 = UpdatePlan(m3, plan)
  OBVIOUS
<1>13. Stands(m4) /\ Follows(m3, m4, 1) /\ m4.plan = plan
  BY <1>9, <1>11, <1>12, Planned DEF PlanAt
<1>14. Follows(l.mission, m4, 5)
  <2>1. Follows(l.mission, m2, 1 + 2)
    BY <1>1, <1>5, <1>7, FollowsOn
  <2>2. Follows(l.mission, m3, 1 + 2 + 1)
    BY <1>1, <1>9, <2>1, FollowsOn
  <2>3. Follows(l.mission, m4, 1 + 2 + 1 + 1)
    BY <1>1, <1>13, <2>2, FollowsOn
  <2> QED
    BY <2>3
<1>15. PICK pending : pending = Pending(target, w.content[target], a + 1)
  OBVIOUS
<1>16. /\ pending \in Proposals
       /\ pending.target = target
  BY <1>15 DEF Pending, Proposals
<1>17. PICK ready : ready = [l EXCEPT !.mission = m4, !.pending = pending, !.stop = "NONE",
                                      !.state = "MISSION_AUTHORITY_READY"]
  OBVIOUS
<1>18. m4 \in MissionValues /\ m4.state # "GREEN"
  BY <1>1, <1>13, <1>14, StandsFields DEF Follows
<1>19. /\ ready \in LoopValues
       /\ ready.mission = m4
       /\ ready.state = "MISSION_AUTHORITY_READY"
       /\ ready.attempts = l.attempts
       /\ ready.pending = pending
       /\ ready.request = l.request /\ ready.authority = l.authority
  BY <1>1, <1>16, <1>17, <1>18 DEF LoopValues, LoopStates, Stops, StepResults
<1>20. PICK next : next = Proposed(l, target, w)
  OBVIOUS
<1>21. PICK started : started = [l EXCEPT !.mission = m1]
  OBVIOUS
<1>22. started.mission = m1
  BY <1>1, <1>21 DEF LoopValues
<1>23. next = IF l.authority THEN ready
              ELSE [ready EXCEPT !.state = "AUTHORITY_REQUIRED", !.stop = "AUTHORITY_REQUIRED",
                     !.mission = Sends(ready, "authority.request", NoTarget, "none", "none",
                                       w).mission]
  <2>1. Attempt(l) = a + 1
    BY <1>2 DEF Attempt
  <2>2. started = [l EXCEPT !.mission = Append1(@, "REPAIR_STARTED", "REPAIRING")]
    BY <1>4, <1>21
  <2>3. Sends(started, "mutation.propose", NoTarget, "none", "none",
              [w EXCEPT !.outcome = "done"]).mission = m2
    BY <1>6, <1>22 DEF Sends
  <2> QED
    BY <1>8, <1>10, <1>12, <1>15, <1>17, <1>20, <2>1, <2>2, <2>3 DEF Proposed, AttemptSteps
<1>24. ASSUME NEW n2, n2.mission.plan = plan, n2.attempts = l.attempts,
              n2.pending = pending, n2.state \in Awaiting
       PROVE  PlanFollows(n2)
  <2>1. Underway(n2, 6, 3)
    <3>1. 4 * a + 6 = 4 * Len(n2.attempts) + 6 /\ 4 * a + 3 = 4 * a + 6 - 3
      BY <1>2, <1>24
    <3> QED
      BY <1>11, <1>24, <3>1, LoopOfPlan
  <2>2. n2.pending.target \in Target \ Attempted(n2)
    BY <1>16, <1>24 DEF Attempted
  <2> QED
    BY <1>2, <1>3, <1>24, <2>1, <2>2 DEF PlanFollows, Awaiting
<1>25. CASE l.authority
  <2>1. next = ready
    BY <1>23, <1>25
  <2>2. Follows(l.mission, m4, 6)
    BY <1>1, <1>14, FollowsAtMost, StandsFields
  <2>3. GoesOn(l, next, 6)
    BY <1>1, <1>13, <1>18, <1>19, <2>1, <2>2, LoopWith
  <2>4. PlanFollows(next)
    BY <1>13, <1>19, <1>24, <2>1 DEF Awaiting
  <2> QED
    BY <1>19, <1>20, <1>25, <2>1, <2>3, <2>4
<1>26. CASE ~l.authority
  <2>1. PICK m5 : m5 = Dispatch(Request(m4, "authority.request", NoTarget, "none", "none"),
                                m4, w).mission
    OBVIOUS
  <2>2. Stands(m5) /\ Follows(m4, m5, 1) /\ m5.plan = m4.plan
    BY <1>13, <2>1, AuthorityAsked
  <2>3. Follows(l.mission, m5, 6)
    <3>1. Follows(l.mission, m5, 5 + 1)
      BY <1>1, <1>14, <2>2, FollowsOn
    <3> QED
      BY <3>1
  <2>4. m5 \in MissionValues /\ m5.state # "GREEN"
    BY <1>1, <2>2, <2>3, StandsFields DEF Follows
  <2>5. next = [ready EXCEPT !.state = "AUTHORITY_REQUIRED", !.stop = "AUTHORITY_REQUIRED",
                             !.mission = m5]
    BY <1>19, <1>23, <1>26, <2>1 DEF Sends
  <2>6. /\ next \in LoopValues
        /\ next.mission = m5
        /\ next.state = "AUTHORITY_REQUIRED"
        /\ next.attempts = l.attempts
        /\ next.pending = pending
        /\ next.request = l.request /\ next.authority = l.authority
    BY <1>19, <2>4, <2>5 DEF LoopValues, LoopStates, Stops, StepResults, Classes
  <2>7. GoesOn(l, next, 6)
    BY <1>1, <2>2, <2>3, <2>4, <2>6, LoopWith
  <2>8. PlanFollows(next)
    BY <1>13, <1>24, <2>2, <2>6 DEF Awaiting
  <2> QED
    BY <1>20, <1>26, <2>6, <2>7, <2>8
<1> QED
  BY <1>25, <1>26

\* The authorization of one attempt.
LEMMA GrantedLoop ==
  ASSUME NEW l, LoopStands(l), PlanFollows(l), l.state \in Awaiting
  PROVE  LET next == Granted(l) IN
         /\ GoesOn(l, next, 3)
         /\ Len(l.mission.events) < Len(next.mission.events)
         /\ Underway(next, 6, 2)
         /\ next.attempts = l.attempts
         /\ next.state = l.state
         /\ next.pending = l.pending
         /\ next.request = l.request /\ next.authority = l.authority
<1>0. l.state \in {"AUTHORITY_REQUIRED", "MISSION_AUTHORITY_READY"}
  BY DEF Awaiting
<1>1. /\ l \in LoopValues /\ Stands(l.mission) /\ l.mission.state # "GREEN"
      /\ Len(l.attempts) <= AttemptCeiling /\ l.mission.id \in Nat
      /\ Len(l.attempts) \in Nat
  BY <1>0, LoopFields, StandsFields
<1>2. PICK a \in Nat : a = Len(l.attempts)
  BY <1>1
<1>3. PlanAt(l.mission.plan, 4 * a + 6, 4 * a + 3)
  <2>1. Underway(l, 6, 3)
    BY DEF PlanFollows
  <2>2. PlanAt(l.mission.plan, 4 * a + 6, 4 * a + 6 - 3)
    BY <1>2, <2>1, PlanOfLoop
  <2>3. 4 * a + 6 - 3 = 4 * a + 3
    OBVIOUS
  <2> QED
    BY <2>2, <2>3
<1>4. PICK grant \in Grants :
        grant = Grant(OneShot(l.mission.id, a + 1), "mutation.applyConditional", TRUE, FALSE)
  <2>1. a + 1 \in Nat
    OBVIOUS
  <2>2. Grant(OneShot(l.mission.id, a + 1), "mutation.applyConditional", TRUE, FALSE) \in Grants
    BY <1>1, <2>1, OneShotGrant
  <2> QED
    BY <2>2
<1>5. PICK m1 : m1 = RecordGrant(l.mission, grant)
  OBVIOUS
<1>6. Stands(m1) /\ Follows(l.mission, m1, 1) /\ m1.plan = l.mission.plan
  BY <1>1, <1>5, GrantRecorded
<1>7. PICK m2 : m2 = UpdateStep(m1, "authority", a + 1, "COMPLETED", "SUCCESS")
  OBVIOUS
<1>8. Stands(m2) /\ Follows(m1, m2, 1) /\ PlanPast(m2.plan, 4 * a + 6, 4 * a + 3)
  <2>1. PlanAt(m1.plan, 4 * a + 6, 4 * a + 3)
    BY <1>3, <1>6
  <2>2. Is(m1.plan[4 * a + 3], "authority", a + 1)
    <3>1. 4 * a + 3 < 4 * a + 6
      OBVIOUS
    <3> QED
      BY <2>1, <3>1, StepsAtPlan
  <2>3. "SUCCESS" \in StepResults
    BY DEF StepResults, Classes
  <2> QED
    BY <1>6, <1>7, <2>1, <2>2, <2>3, ActiveEnds
<1>9. PICK m3 : m3 = UpdateStep(m2, "apply", a + 1, "ACTIVE", "NONE")
  OBVIOUS
<1>10. Stands(m3) /\ Follows(m2, m3, 1) /\ PlanAt(m3.plan, 4 * a + 6, 4 * a + 4)
  <2>1. Is(m2.plan[4 * a + 4], "apply", a + 1)
    <3>1. 4 * a + 4 < 4 * a + 6
      OBVIOUS
    <3> QED
      BY <1>8, <3>1, StepsAtPlan
  <2>2. PICK length \in Nat, last \in Nat : length = 4 * a + 6 /\ last = 4 * a + 3
    OBVIOUS
  <2>3. last + 1 <= length /\ last + 1 = 4 * a + 4
    BY <2>2
  <2>4. Stands(m3) /\ Follows(m2, m3, 1) /\ PlanAt(m3.plan, length, last + 1)
    BY <1>8, <1>9, <2>1, <2>2, <2>3, NextBegins
  <2> QED
    BY <2>2, <2>3, <2>4
<1>11. Follows(l.mission, m3, 3)
  <2>1. Follows(l.mission, m2, 1 + 1)
    BY <1>1, <1>6, <1>8, FollowsOn
  <2>2. Follows(l.mission, m3, 1 + 1 + 1)
    BY <1>1, <1>10, <2>1, FollowsOn
  <2> QED
    BY <2>2
<1>12. m3 \in MissionValues /\ m3.state # "GREEN"
  BY <1>1, <1>10, <1>11, StandsFields DEF Follows
<1>13. PICK next : next = Granted(l)
  OBVIOUS
<1>14. next = [l EXCEPT !.mission = m3]
  BY <1>2, <1>4, <1>5, <1>7, <1>9, <1>13 DEF Granted, Attempt
<1>15. /\ next \in LoopValues
       /\ next.mission = m3
       /\ next.state = l.state
       /\ next.attempts = l.attempts
       /\ next.pending = l.pending
       /\ next.request = l.request /\ next.authority = l.authority
  BY <1>1, <1>12, <1>14 DEF LoopValues
<1>16. GoesOn(l, next, 3)
  BY <1>0, <1>1, <1>10, <1>11, <1>12, <1>15, LoopWith
<1>17. Underway(next, 6, 2)
  <2>1. 4 * a + 6 = 4 * Len(next.attempts) + 6 /\ 4 * a + 4 = 4 * a + 6 - 2
    BY <1>2, <1>15
  <2> QED
    BY <1>10, <1>15, <2>1, LoopOfPlan
<1>18. Len(l.mission.events) < Len(next.mission.events)
  <2>1. m2 \in MissionValues /\ "ACTIVE" \in Statuses /\ "NONE" \in StepResults
    BY <1>8, StandsFields DEF Statuses, PlanTransitions, StepResults
  <2>2. Len(m3.events) = Len(m2.events) + 1
    BY <1>9, <2>1, StepUpdated
  <2>3. Len(l.mission.events) <= Len(m2.events)
    <3>1. Follows(l.mission, m2, 1 + 1)
      BY <1>1, <1>6, <1>8, FollowsOn
    <3> QED
      BY <3>1 DEF Follows
  <2>4. Len(l.mission.events) \in Nat /\ Len(m2.events) \in Nat
    BY <1>1, <1>8, StandsFields
  <2> QED
    BY <1>15, <2>2, <2>3, <2>4
<1> QED
  BY <1>13, <1>15, <1>16, <1>17, <1>18

\* A loop that stops after an answer that is not a success.
LEMMA StoppedAfter ==
  ASSUME NEW l, LoopStands(l), l.mission.state # "GREEN", NEW answer,
         Stands(answer.mission), Follows(l.mission, answer.mission, 2),
         answer.class \in Classes \ {"SUCCESS"}, NEW kind, NEW n
  PROVE  LET next == StopAfter(l, answer, kind, n) IN
         /\ GoesOn(l, next, 4)
         /\ next.state = "BLOCKED"
         /\ next.attempts = l.attempts
         /\ ~next.request /\ ~next.authority
         /\ PlanFollows(next)
<1>1. /\ l \in LoopValues /\ Stands(l.mission) /\ Len(l.attempts) <= AttemptCeiling
  BY LoopFields
<1>2. answer.class \in StepResults \ {"SUCCESS", "PASSED"} /\ answer.class \in Stops
  BY DEF StepResults, Stops, Classes
<1>3. PICK m1 : m1 = UpdateStep(answer.mission, kind, n, "BLOCKED", answer.class)
  OBVIOUS
<1>4. Stands(m1) /\ Follows(answer.mission, m1, 1)
  BY <1>2, <1>3, StepBlocked
<1>5. PICK m : m = Block(m1)
  OBVIOUS
<1>6. Stands(m) /\ Follows(m1, m, 1) /\ m.state # "GREEN"
  BY <1>4, <1>5, Blocked
<1>7. Follows(l.mission, m1, 3)
  <2>1. Follows(l.mission, m1, 2 + 1)
    BY <1>1, <1>4, FollowsOn
  <2> QED
    BY <2>1
<1>8. PICK most \in Nat : most = 4
  OBVIOUS
<1>9. Follows(l.mission, m, most)
  <2>1. Follows(l.mission, m, 3 + 1)
    BY <1>1, <1>6, <1>7, FollowsOn
  <2> QED
    BY <1>8, <2>1
<1>10. PICK next : next = Stopped(l, m, answer.class)
  OBVIOUS
<1>11. next = StopAfter(l, answer, kind, n)
  BY <1>3, <1>5, <1>10 DEF StopAfter
<1>12. /\ GoesOn(l, next, most)
       /\ next.state = "BLOCKED"
       /\ next.attempts = l.attempts
       /\ ~next.request /\ ~next.authority
       /\ PlanFollows(next)
  BY <1>1, <1>2, <1>6, <1>9, <1>10, LoopStops
<1> QED
  BY <1>8, <1>11, <1>12

\* The repair is applied.
LEMMA AppliedLoop ==
  ASSUME NEW l, LoopStands(l), l.state \in Awaiting, Underway(l, 6, 2),
         l.pending.target \in Target, NEW w
  PROVE  LET next == Applied(l, w) IN
         /\ GoesOn(l, next, 4)
         /\ next.attempts = l.attempts
         /\ \/ next.state = "BLOCKED" /\ ~next.request /\ PlanFollows(next)
            \/ /\ next.state = l.state
               /\ Underway(next, 6, 1)
               /\ next.pending = l.pending
               /\ next.request = l.request /\ next.authority = l.authority
<1>0. l.state \in {"AUTHORITY_REQUIRED", "MISSION_AUTHORITY_READY"}
  BY DEF Awaiting
<1>1. /\ l \in LoopValues /\ Stands(l.mission) /\ l.mission.state # "GREEN"
      /\ Len(l.attempts) <= AttemptCeiling /\ l.mission.id \in Nat
      /\ Len(l.attempts) \in Nat
  BY <1>0, LoopFields, StandsFields
<1>2. PICK a \in Nat : a = Len(l.attempts)
  BY <1>1
<1>3. PlanAt(l.mission.plan, 4 * a + 6, 4 * a + 4)
  <2>1. PlanAt(l.mission.plan, 4 * a + 6, 4 * a + 6 - 2)
    BY <1>2, PlanOfLoop
  <2>2. 4 * a + 6 - 2 = 4 * a + 4
    OBVIOUS
  <2> QED
    BY <2>1, <2>2
<1>4. PICK answer : answer = ApplyAnswer(l, w)
  OBVIOUS
<1>5. /\ Stands(answer.mission)
      /\ Follows(l.mission, answer.mission, 2)
      /\ answer.mission.plan = l.mission.plan
      /\ answer.class \in Classes
  <2>1. "mutation.applyConditional" \in Operations
    BY DEF Operations
  <2>2. a + 1 \in Nat
    OBVIOUS
  <2>3. OneShot(l.mission.id, a + 1) \in References
    BY <1>1, <2>2, OneShotGrant
  <2>4. answer = Dispatch(Request(l.mission, "mutation.applyConditional", l.pending.target,
                            l.pending.before, OneShot(l.mission.id, a + 1)), l.mission, w)
    BY <1>2, <1>4 DEF ApplyAnswer, Sends, Attempt
  <2> QED
    BY <1>1, <2>1, <2>3, <2>4, Answers
<1>6. PICK next : next = Applied(l, w)
  OBVIOUS
<1>7. CASE answer.class # "SUCCESS"
  <2>1. next = StopAfter(l, answer, "apply", Attempt(l))
    BY <1>4, <1>6, <1>7 DEF Applied
  <2> QED
    BY <1>1, <1>5, <1>6, <1>7, <2>1, StoppedAfter
<1>8. CASE answer.class = "SUCCESS"
  <2>1. PICK m1 : m1 = UpdateStep(answer.mission, "apply", a + 1, "COMPLETED", "SUCCESS")
    OBVIOUS
  <2>2. Stands(m1) /\ Follows(answer.mission, m1, 1) /\ PlanPast(m1.plan, 4 * a + 6, 4 * a + 4)
    <3>1. PlanAt(answer.mission.plan, 4 * a + 6, 4 * a + 4)
      BY <1>3, <1>5
    <3>2. Is(answer.mission.plan[4 * a + 4], "apply", a + 1)
      <4>1. 4 * a + 4 < 4 * a + 6
        OBVIOUS
      <4> QED
        BY <3>1, <4>1, StepsAtPlan
    <3>3. "SUCCESS" \in StepResults
      BY DEF StepResults, Classes
    <3> QED
      BY <1>5, <2>1, <3>1, <3>2, <3>3, ActiveEnds
  <2>3. PICK m2 : m2 = UpdateStep(m1, "test", a + 1, "ACTIVE", "NONE")
    OBVIOUS
  <2>4. Stands(m2) /\ Follows(m1, m2, 1) /\ PlanAt(m2.plan, 4 * a + 6, 4 * a + 5)
    <3>1. Is(m1.plan[4 * a + 5], "test", a + 1)
      <4>1. 4 * a + 5 < 4 * a + 6
        OBVIOUS
      <4> QED
        BY <2>2, <4>1, StepsAtPlan
    <3>2. PICK length \in Nat, last \in Nat : length = 4 * a + 6 /\ last = 4 * a + 4
      OBVIOUS
    <3>3. last + 1 <= length /\ last + 1 = 4 * a + 5
      BY <3>2
    <3>4. Stands(m2) /\ Follows(m1, m2, 1) /\ PlanAt(m2.plan, length, last + 1)
      BY <2>2, <2>3, <3>1, <3>2, <3>3, NextBegins
    <3> QED
      BY <3>2, <3>3, <3>4
  <2>5. Follows(l.mission, m2, 4)
    <3>1. Follows(l.mission, m1, 2 + 1)
      BY <1>1, <1>5, <2>2, FollowsOn
    <3>2. Follows(l.mission, m1, 3)
      BY <3>1
    <3>3. Follows(l.mission, m2, 3 + 1)
      BY <1>1, <2>4, <3>2, FollowsOn
    <3> QED
      BY <3>3
  <2>6. m2 \in MissionValues /\ m2.state # "GREEN"
    BY <1>1, <2>4, <2>5, StandsFields DEF Follows
  <2>7. next = [l EXCEPT !.mission = m2]
    BY <1>2, <1>4, <1>6, <1>8, <2>1, <2>3 DEF Applied, Attempt
  <2>8. /\ next \in LoopValues
        /\ next.mission = m2
        /\ next.state = l.state
        /\ next.attempts = l.attempts
        /\ next.pending = l.pending
        /\ next.request = l.request /\ next.authority = l.authority
    BY <1>1, <2>6, <2>7 DEF LoopValues
  <2>9. GoesOn(l, next, 4)
    BY <1>0, <1>1, <2>4, <2>5, <2>6, <2>8, LoopWith
  <2>10. Underway(next, 6, 1)
    <3>1. 4 * a + 6 = 4 * Len(next.attempts) + 6 /\ 4 * a + 5 = 4 * a + 6 - 1
      BY <1>2, <2>8
    <3> QED
      BY <2>4, <2>8, <3>1, LoopOfPlan
  <2> QED
    BY <1>6, <2>8, <2>9, <2>10
<1> QED
  BY <1>7, <1>8

Tries == [target : Target, passed : BOOLEAN]

LEMMA OneAttemptMore ==
  ASSUME NEW a \in Nat, NEW b, b = a + 1
  PROVE  4 * b + 2 = 4 * a + 6 /\ 4 * b + 3 = 4 * a + 7
  OBVIOUS

Targets(s) == {s[i].target : i \in DOMAIN s}

LEMMA TryAdded ==
  ASSUME NEW s \in Seq(Tries), NEW e \in Tries, NEW t, t = Append(s, e)
  PROVE  /\ t \in Seq(Tries)
         /\ Len(t) = Len(s) + 1
         /\ Targets(t) = Targets(s) \union {e.target}
<1>1. t \in Seq(Tries) /\ Len(t) = Len(s) + 1 /\ Len(s) \in Nat
  OBVIOUS
<1>2. t[Len(s) + 1] = e /\ \A i \in 1 .. Len(s) : t[i] = s[i]
  OBVIOUS
<1>3. DOMAIN t = 1 .. Len(s) + 1 /\ DOMAIN s = 1 .. Len(s)
  BY <1>1
<1>4. \A i \in DOMAIN t : i \in DOMAIN s \/ i = Len(s) + 1
  BY <1>1, <1>3
<1>5. DOMAIN s \subseteq DOMAIN t /\ Len(s) + 1 \in DOMAIN t
  BY <1>1, <1>3
<1> QED
  BY <1>1, <1>2, <1>3, <1>4, <1>5 DEF Targets

\* The targeted test after a repair.
LEMMA TestedLoop ==
  ASSUME NEW l, LoopStands(l), l.state \in Awaiting, Underway(l, 6, 1),
         Len(l.attempts) < AttemptCeiling, l.pending.target \in Target, NEW w
  PROVE  LET next == Tested(l, w) IN
         /\ GoesOn(l, next, 5)
         /\ Len(next.attempts) = Len(l.attempts) + 1
         /\ Attempted(next) = Attempted(l) \union {l.pending.target}
         /\ \/ next.state = "BLOCKED" /\ ~next.request /\ PlanFollows(next)
            \/ /\ next.state = "READY_FOR_REPAIR"
               /\ PlanFollows(next)
               /\ next.request = l.request /\ next.authority = l.authority
               /\ Len(next.mission.events) <= Len(l.mission.events) + 4
            \/ /\ next.state = l.state
               /\ Underway(next, 2, 0)
               /\ next.request = l.request /\ next.authority = l.authority
               /\ Len(next.mission.events) <= Len(l.mission.events) + 4
<1>0. l.state \in {"AUTHORITY_REQUIRED", "MISSION_AUTHORITY_READY"}
  BY DEF Awaiting
<1>1. /\ l \in LoopValues /\ Stands(l.mission) /\ l.mission.state # "GREEN"
      /\ Len(l.attempts) <= AttemptCeiling /\ l.mission.id \in Nat
      /\ Len(l.attempts) \in Nat /\ l.attempts \in Seq(Tries)
  BY <1>0, LoopFields, StandsFields DEF Tries
<1>2. PICK a \in Nat : a = Len(l.attempts)
  BY <1>1
<1>3. PlanAt(l.mission.plan, 4 * a + 6, 4 * a + 5)
  <2>1. PlanAt(l.mission.plan, 4 * a + 6, 4 * a + 6 - 1)
    BY <1>2, PlanOfLoop
  <2>2. 4 * a + 6 - 1 = 4 * a + 5
    OBVIOUS
  <2> QED
    BY <2>1, <2>2
<1>4. PICK answer : answer = Sends(l, "tests.run", NoTarget, "none", "none", w)
  OBVIOUS
<1>5. /\ Stands(answer.mission)
      /\ Follows(l.mission, answer.mission, 2)
      /\ answer.mission.plan = l.mission.plan
  <2>1. "tests.run" \in Operations
    BY DEF Operations
  <2> QED
    BY <1>1, <1>4, <2>1, Answers DEF Sends
<1>6. PICK passed \in BOOLEAN : passed = (answer.class = "SUCCESS")
  OBVIOUS
<1>7. PICK status, result :
        /\ status = IF passed THEN "COMPLETED" ELSE "BLOCKED"
        /\ result = IF passed THEN "PASSED" ELSE "FAILED"
  OBVIOUS
<1>8. PICK m1 : m1 = UpdateStep(answer.mission, "test", a + 1, status, result)
  OBVIOUS
<1>9. Stands(m1) /\ Follows(answer.mission, m1, 1) /\ PlanPast(m1.plan, 4 * a + 6, 4 * a + 5)
  <2>1. PlanAt(answer.mission.plan, 4 * a + 6, 4 * a + 5)
    BY <1>3, <1>5
  <2>2. Is(answer.mission.plan[4 * a + 5], "test", a + 1)
    <3>1. 4 * a + 5 < 4 * a + 6
      OBVIOUS
    <3> QED
      BY <2>1, <3>1, StepsAtPlan
  <2>3. /\ status \in {"COMPLETED", "BLOCKED"} /\ result \in StepResults
        /\ status = "COMPLETED" => result \in {"NONE", "SUCCESS", "PASSED"}
        /\ status = "BLOCKED" => result \notin {"SUCCESS", "PASSED"}
    BY <1>7 DEF StepResults
  <2> QED
    BY <1>5, <1>8, <2>1, <2>2, <2>3, ActiveEnds
<1>10. Follows(l.mission, m1, 3)
  <2>1. Follows(l.mission, m1, 2 + 1)
    BY <1>1, <1>5, <1>9, FollowsOn
  <2> QED
    BY <2>1
<1>11. PICK attempts \in Seq(Tries) :
         /\ attempts = Append(l.attempts, [target |-> l.pending.target, passed |-> passed])
         /\ Len(attempts) = a + 1
         /\ Targets(attempts) = Attempted(l) \union {l.pending.target}
  <2>1. PICK e \in Tries : e = [target |-> l.pending.target, passed |-> passed]
    BY DEF Tries
  <2>2. PICK t : t = Append(l.attempts, e)
    OBVIOUS
  <2>3. /\ t \in Seq(Tries)
        /\ Len(t) = Len(l.attempts) + 1
        /\ Targets(t) = Targets(l.attempts) \union {e.target}
    BY <1>1, <2>2, TryAdded
  <2>4. Targets(t) = Attempted(l) \union {l.pending.target}
    BY <2>1, <2>3 DEF Attempted, Targets
  <2> QED
    BY <1>2, <2>1, <2>2, <2>3, <2>4
<1>12. PICK recorded : recorded = [l EXCEPT !.attempts = attempts]
  OBVIOUS
<1>13. /\ recorded \in LoopValues
       /\ recorded.attempts = attempts
       /\ recorded.mission = l.mission
       /\ recorded.state = l.state
       /\ recorded.request = l.request /\ recorded.authority = l.authority
       /\ Len(recorded.attempts) <= AttemptCeiling
  <2>1. a + 1 <= AttemptCeiling
    BY <1>2, AttemptCeilingAssumption
  <2> QED
    BY <1>1, <1>11, <1>12, <2>1 DEF LoopValues, Tries
<1>14. ASSUME NEW n2, n2.attempts = attempts
       PROVE  Len(n2.attempts) = Len(l.attempts) + 1
              /\ Attempted(n2) = Attempted(l) \union {l.pending.target}
  BY <1>2, <1>11, <1>14 DEF Attempted, Targets
<1>15. PICK next : next = Tested(l, w)
  OBVIOUS
<1>16. Attempt(l) = a + 1
  BY <1>2 DEF Attempt
<1>17. recorded = [l EXCEPT !.attempts = Append(@, [target |-> l.pending.target,
                                                    passed |-> passed])]
  BY <1>11, <1>12
<1>18. CASE passed
  <2>1. PICK m2 : m2 = UpdateStep(m1, "qualification", 0, "ACTIVE", "NONE")
    OBVIOUS
  <2>2. Stands(m2) /\ Follows(m1, m2, 1) /\ PlanAt(m2.plan, 4 * a + 6, 4 * a + 6)
    <3>1. Is(m1.plan[4 * a + 6], "qualification", 0)
      BY <1>9, StepsAtPlan
    <3>2. PICK length \in Nat, last \in Nat : length = 4 * a + 6 /\ last = 4 * a + 5
      OBVIOUS
    <3>3. last + 1 <= length /\ last + 1 = 4 * a + 6
      BY <3>2
    <3>4. Stands(m2) /\ Follows(m1, m2, 1) /\ PlanAt(m2.plan, length, last + 1)
      BY <1>9, <2>1, <3>1, <3>2, <3>3, NextBegins
    <3> QED
      BY <3>2, <3>3, <3>4
  <2>3. Follows(l.mission, m2, 4)
    <3>1. Follows(l.mission, m2, 3 + 1)
      BY <1>1, <1>10, <2>2, FollowsOn
    <3> QED
      BY <3>1
  <2>4. m2 \in MissionValues /\ m2.state # "GREEN"
    BY <1>1, <2>2, <2>3, StandsFields DEF Follows
  <2>5. next = [recorded EXCEPT !.mission = m2]
    BY <1>4, <1>6, <1>7, <1>8, <1>15, <1>16, <1>17, <1>18, <2>1 DEF Tested
  <2>6. /\ next \in LoopValues
        /\ next.mission = m2
        /\ next.state = l.state
        /\ next.attempts = attempts
        /\ next.request = l.request /\ next.authority = l.authority
    BY <1>13, <2>4, <2>5 DEF LoopValues
  <2>7. Follows(l.mission, m2, 5)
    BY <1>1, <2>3, FollowsAtMost, StandsFields
  <2>8. GoesOn(l, next, 5)
    BY <1>0, <1>13, <2>2, <2>4, <2>6, <2>7, LoopWith
  <2>9. Underway(next, 2, 0)
    <3>1. PICK length \in Nat : length = 4 * a + 6
      OBVIOUS
    <3>2. length = 4 * Len(next.attempts) + 2 /\ length = length - 0
      <4>1. Len(next.attempts) = a + 1
        BY <1>11, <2>6
      <4>2. 4 * Len(next.attempts) + 2 = 4 * a + 6
        BY ONLY a \in Nat, <4>1, OneAttemptMore
      <4>3. length = length - 0
        OBVIOUS
      <4> QED
        BY <3>1, <4>2, <4>3
    <3>3. PlanAt(next.mission.plan, length, length)
      BY <2>2, <2>6, <3>1
    <3> QED
      BY <3>2, <3>3, LoopOfPlan
  <2>10. Len(next.mission.events) <= Len(l.mission.events) + 4
    BY <2>3, <2>6 DEF Follows
  <2> QED
    BY <1>14, <1>15, <2>6, <2>8, <2>9, <2>10
<1>19. CASE ~passed /\ a + 1 >= AttemptCeiling
  <2>1. PICK m2 : m2 = UpdateStep(m1, "qualification", 0, "BLOCKED", "FAILED")
    OBVIOUS
  <2>2. Stands(m2) /\ Follows(m1, m2, 1)
    BY <1>9, <2>1, StepBlocked DEF StepResults
  <2>3. PICK m3 : m3 = Block(m2)
    OBVIOUS
  <2>4. Stands(m3) /\ Follows(m2, m3, 1) /\ m3.state # "GREEN"
    BY <2>2, <2>3, Blocked
  <2>5. Follows(l.mission, m3, 5)
    <3>1. Follows(l.mission, m2, 3 + 1)
      BY <1>1, <1>10, <2>2, FollowsOn
    <3>2. Follows(l.mission, m3, 3 + 1 + 1)
      BY <1>1, <2>4, <3>1, FollowsOn
    <3> QED
      BY <3>2
  <2>6. next = Stopped(recorded, m3, "PATCH_ATTEMPT_BOUND_REACHED")
    BY <1>4, <1>6, <1>7, <1>8, <1>15, <1>16, <1>17, <1>19, <2>1, <2>3 DEF Tested
  <2>7. "PATCH_ATTEMPT_BOUND_REACHED" \in Stops
    BY DEF Stops
  <2>8. /\ GoesOn(l, next, 5)
        /\ next.state = "BLOCKED"
        /\ next.attempts = attempts
        /\ ~next.request
        /\ PlanFollows(next)
    BY <1>13, <2>4, <2>5, <2>6, <2>7, LoopStops
  <2> QED
    BY <1>14, <1>15, <2>8
<1>20. CASE ~passed /\ ~(a + 1 >= AttemptCeiling)
  <2>1. PICK plan : plan = BeforeQualification(m1.plan, <<Step("prepare", a + 2, "ACTIVE")>>)
    OBVIOUS
  <2>2. PlanAt(plan, 4 * a + 7, 4 * a + 6)
    <3>1. PICK b \in Nat : b = a + 1
      OBVIOUS
    <3>2. b < AttemptCeiling
      BY <1>20, <3>1, AttemptCeilingAssumption
    <3>3. /\ 4 * b + 2 = 4 * a + 6 /\ 4 * b + 1 = 4 * a + 5 /\ b + 1 = a + 2
          /\ 4 * b + 3 = 4 * a + 7
      BY <3>1
    <3>4. PlanPast(m1.plan, 4 * b + 2, 4 * b + 1)
      BY <1>9, <3>3
    <3>5. PlanAt(BeforeQualification(m1.plan, <<Step("prepare", b + 1, "ACTIVE")>>),
                 4 * b + 3, 4 * b + 2)
      BY <3>2, <3>4, PrepareOpens
    <3> QED
      BY <2>1, <3>3, <3>5
  <2>3. PICK m2 : m2 = UpdatePlan(m1, plan)
    OBVIOUS
  <2>4. Stands(m2) /\ Follows(m1, m2, 1) /\ m2.plan = plan
    BY <1>9, <2>2, <2>3, Planned DEF PlanAt
  <2>5. Follows(l.mission, m2, 4)
    <3>1. Follows(l.mission, m2, 3 + 1)
      BY <1>1, <1>10, <2>4, FollowsOn
    <3> QED
      BY <3>1
  <2>6. m2 \in MissionValues /\ m2.state # "GREEN"
    BY <1>1, <2>4, <2>5, StandsFields DEF Follows
  <2>7. next = [recorded EXCEPT !.state = "READY_FOR_REPAIR", !.pending = NoPending,
                                !.stop = "TEST_FAILED", !.mission = m2]
    <3>1. a + 1 + 1 = a + 2
      OBVIOUS
    <3> QED
      BY <1>4, <1>6, <1>7, <1>8, <1>15, <1>16, <1>17, <1>20, <2>1, <2>3, <3>1 DEF Tested
  <2>8. /\ next \in LoopValues
        /\ next.mission = m2
        /\ next.state = "READY_FOR_REPAIR"
        /\ next.attempts = attempts
        /\ next.request = l.request /\ next.authority = l.authority
    BY <1>13, <2>6, <2>7 DEF LoopValues, LoopStates, Stops, NoPending, NoTarget
  <2>9. Follows(l.mission, m2, 5)
    BY <1>1, <2>5, FollowsAtMost, StandsFields
  <2>10. GoesOn(l, next, 5)
    BY <1>13, <2>4, <2>6, <2>8, <2>9, LoopWith
  <2>11. PlanFollows(next)
    <3>1. PICK length \in Nat, active \in Nat : length = 4 * a + 7 /\ active = 4 * a + 6
      OBVIOUS
    <3>2. Underway(next, 3, 1)
      <4>1. length = 4 * Len(next.attempts) + 3 /\ active = length - 1
        <5>1. Len(next.attempts) = a + 1
          BY <1>11, <2>8
        <5>2. 4 * Len(next.attempts) + 3 = 4 * a + 7
          BY ONLY a \in Nat, <5>1, OneAttemptMore
        <5>3. active = length - 1
          BY <3>1
        <5> QED
          BY <3>1, <5>2, <5>3
      <4>2. PlanAt(next.mission.plan, length, active)
        BY <2>2, <2>4, <2>8, <3>1
      <4> QED
        BY <4>1, <4>2, LoopOfPlan
    <3>3. Len(next.attempts) < AttemptCeiling
      BY <1>11, <1>20, <2>8, AttemptCeilingAssumption
    <3> QED
      BY <2>8, <3>2, <3>3 DEF PlanFollows, Live, Awaiting
  <2>12. Len(next.mission.events) <= Len(l.mission.events) + 4
    BY <2>5, <2>8 DEF Follows
  <2> QED
    BY <1>14, <1>15, <2>8, <2>10, <2>11, <2>12
<1> QED
  BY <1>18, <1>19, <1>20

\* The canonical qualification.
LEMMA QualifiedLoop ==
  ASSUME NEW l, LoopStands(l), Underway(l, 2, 0), NEW w
  PROVE  LET next == Qualified(l, w) IN
         /\ GoesOn(l, next, 4)
         /\ next.attempts = l.attempts
         /\ next.state \in {"BLOCKED", "GREEN"}
         /\ ~next.request
         /\ PlanFollows(next)
<1>1. /\ l \in LoopValues /\ Stands(l.mission) /\ MissionStands(l.mission)
      /\ Len(l.attempts) <= AttemptCeiling /\ l.mission.id \in Nat
      /\ Len(l.attempts) \in Nat
  BY LoopFields, StandsFields DEF LoopStands
<1>2. PICK length \in Nat : length = 4 * Len(l.attempts) + 2
  BY <1>1
<1>3. PlanAt(l.mission.plan, length, length)
  <2>1. PlanAt(l.mission.plan, 4 * Len(l.attempts) + 2, 4 * Len(l.attempts) + 2 - 0)
    BY PlanOfLoop
  <2>2. 4 * Len(l.attempts) + 2 - 0 = length
    BY <1>2
  <2> QED
    BY <1>2, <2>1, <2>2
<1>4. l.mission.state # "GREEN"
  <2>1. ~QualifiedLast(l.mission)
    <3>1. length \in DOMAIN l.mission.plan /\ l.mission.plan[length].status = "ACTIVE"
      BY <1>3 DEF PlanAt, Reached
    <3> QED
      BY <3>1 DEF QualifiedLast, CanCompleteGreen
  <2> QED
    BY <1>1, <2>1 DEF MissionStands
<1>5. PICK answer : answer = Sends(l, "tests.runCanonical", NoTarget, "none",
                                   Qualification(l.mission.id), w)
  OBVIOUS
<1>6. Answered(l.mission, "tests.runCanonical", answer)
  <2>1. "tests.runCanonical" \in Operations
    BY DEF Operations
  <2>2. Recorded(l.mission)
    BY <1>1 DEF Stands
  <2> QED
    BY <1>5, <2>1, <2>2, Dispatched DEF Sends
<1>7. /\ Stands(answer.mission)
      /\ Follows(l.mission, answer.mission, 2)
      /\ answer.mission.plan = l.mission.plan
      /\ answer.class \in Classes
  BY <1>1, <1>6 DEF Answered, Stands, Follows
<1>8. PICK next : next = Qualified(l, w)
  OBVIOUS
<1>9. CASE answer.class # "SUCCESS"
  <2>1. next = StopAfter(l, answer, "qualification", 0)
    BY <1>5, <1>8, <1>9 DEF Qualified
  <2>2. answer.class \in Classes \ {"SUCCESS"}
    BY <1>7, <1>9
  <2> QED
    BY <1>4, <1>7, <1>8, <2>1, <2>2, StoppedAfter
<1>10. CASE answer.class = "SUCCESS"
  <2>1. PICK m : m = CompleteGreen(UpdateStep(answer.mission, "qualification", 0, "COMPLETED",
                                              "PASSED"))
    OBVIOUS
  <2>2. /\ MissionStands(m)
        /\ m.id = answer.mission.id
        /\ Len(m.events) = Len(answer.mission.events) + 2
    <3>1. PlanAt(answer.mission.plan, length, length)
      BY <1>3, <1>7
    <3>2. Is(answer.mission.plan[length], "qualification", 0)
      BY <3>1 DEF PlanAt, LaidOut
    <3>3. /\ answer.mission.canonical = "PASSED"
          /\ answer.mission.state = "TESTING"
          /\ answer.mission.events
               = Append(Append(l.mission.events, Event("OPERATION_STARTED", "QUALIFYING")),
                        Event("TEST_PASSED", "TESTING"))
      BY <1>6, <1>10 DEF Answered
    <3> QED
      BY ONLY <1>1, <1>7, <2>1, <3>1, <3>2, <3>3, QualificationReached
  <2>3. m.state = "GREEN"
    BY <2>1 DEF CompleteGreen, Append1
  <2>4. next = [Stopped(l, m, "NONE") EXCEPT !.state = "GREEN"]
    BY <1>5, <1>8, <1>10, <2>1 DEF Qualified
  <2>5. m \in MissionValues
    BY <2>2 DEF MissionStands
  <2>6. /\ next \in LoopValues
        /\ next.mission = m
        /\ next.state = "GREEN"
        /\ next.attempts = l.attempts
        /\ ~next.request
    BY <1>1, <2>4, <2>5 DEF Stopped, LoopValues, LoopStates, NoPending, NoTarget, Stops,
                            StepResults
  <2>7. LoopStands(next)
    BY <1>1, <2>2, <2>6 DEF LoopStands
  <2>8. /\ Len(l.mission.events) <= Len(m.events)
        /\ Len(m.events) <= Len(l.mission.events) + 4
    <3>1. Len(l.mission.events) \in Nat /\ Len(answer.mission.events) \in Nat
      BY <1>1, <1>7, StandsFields
    <3>2. /\ Len(l.mission.events) <= Len(answer.mission.events)
          /\ Len(answer.mission.events) <= Len(l.mission.events) + 2
      BY <1>7 DEF Follows
    <3>3. PICK a \in Nat, b \in Nat : a = Len(l.mission.events) /\ b = Len(answer.mission.events)
      BY <3>1
    <3>4. a <= b /\ b <= a + 2 /\ Len(m.events) = b + 2
      BY <2>2, <3>2, <3>3
    <3> QED
      BY <3>3, <3>4
  <2>9. GoesOn(l, next, 4)
    BY <1>7, <2>2, <2>6, <2>7, <2>8 DEF GoesOn, Follows
  <2>10. PlanFollows(next)
    BY <2>6 DEF PlanFollows, Live, Awaiting
  <2> QED
    BY <1>8, <2>6, <2>9, <2>10
<1> QED
  BY <1>9, <1>10

\* A denial.
LEMMA RefusedLoop ==
  ASSUME NEW l, LoopStands(l), l.state = "AUTHORITY_REQUIRED"
  PROVE  LET next == DeniedLoop(l) IN
         /\ GoesOn(l, next, 6)
         /\ next.state = "BLOCKED"
         /\ next.attempts = l.attempts
         /\ ~next.request
         /\ PlanFollows(next)
<1>1. /\ l \in LoopValues /\ Stands(l.mission) /\ Len(l.attempts) <= AttemptCeiling
  BY LoopFields
<1>2. /\ "AUTHORITY_DENIED" \in EventTypes /\ "BLOCKED" \in MissionStates \ {"GREEN"}
      /\ "DENIED" \in StepResults \ {"SUCCESS", "PASSED"} /\ "AUTHORITY_DENIED" \in Stops
  BY DEF EventTypes, MissionStates, StepResults, Classes, Stops
<1>3. PICK n : n = Attempt(l)
  OBVIOUS
<1>4. PICK m0 : m0 = Append1(l.mission, "AUTHORITY_DENIED", "BLOCKED")
  OBVIOUS
<1>5. PICK m1 : m1 = UpdateStep(m0, "authority", n, "BLOCKED", "DENIED")
  OBVIOUS
<1>6. PICK m2 : m2 = UpdateStep(m1, "apply", n, "BLOCKED", "DENIED")
  OBVIOUS
<1>7. PICK m3 : m3 = UpdateStep(m2, "test", n, "BLOCKED", "DENIED")
  OBVIOUS
<1>8. PICK m4 : m4 = UpdateStep(m3, "qualification", 0, "BLOCKED", "DENIED")
  OBVIOUS
<1>9. PICK m : m = Block(m4)
  OBVIOUS
<1>10. Stands(m0) /\ Follows(l.mission, m0, 1)
  BY <1>1, <1>2, <1>4, Appended
<1>11. Stands(m1) /\ Follows(m0, m1, 1)
  BY <1>2, <1>5, <1>10, StepBlocked
<1>12. Stands(m2) /\ Follows(m1, m2, 1)
  BY <1>2, <1>6, <1>11, StepBlocked
<1>13. Stands(m3) /\ Follows(m2, m3, 1)
  BY <1>2, <1>7, <1>12, StepBlocked
<1>14. Stands(m4) /\ Follows(m3, m4, 1)
  BY <1>2, <1>8, <1>13, StepBlocked
<1>15. Stands(m) /\ Follows(m4, m, 1) /\ m.state # "GREEN"
  BY <1>9, <1>14, Blocked
<1>16. Follows(l.mission, m1, 2)
  <2>1. Follows(l.mission, m1, 1 + 1)
    BY <1>1, <1>10, <1>11, FollowsOn
  <2> QED
    BY <2>1
<1>17. Follows(l.mission, m2, 3)
  <2>1. Follows(l.mission, m2, 2 + 1)
    BY <1>1, <1>12, <1>16, FollowsOn
  <2> QED
    BY <2>1
<1>18. Follows(l.mission, m3, 4)
  <2>1. Follows(l.mission, m3, 3 + 1)
    BY <1>1, <1>13, <1>17, FollowsOn
  <2> QED
    BY <2>1
<1>19. Follows(l.mission, m4, 5)
  <2>1. Follows(l.mission, m4, 4 + 1)
    BY <1>1, <1>14, <1>18, FollowsOn
  <2> QED
    BY <2>1
<1>20. Follows(l.mission, m, 6)
  <2>1. Follows(l.mission, m, 5 + 1)
    BY <1>1, <1>15, <1>19, FollowsOn
  <2> QED
    BY <2>1
<1>21. DeniedLoop(l) = Stopped(l, m, "AUTHORITY_DENIED")
  BY <1>3, <1>4, <1>5, <1>6, <1>7, <1>8, <1>9 DEF DeniedLoop
<1> QED
  BY <1>1, <1>2, <1>15, <1>20, <1>21, LoopStops

\* A mission that is cancelled.
LEMMA CancelledMission ==
  ASSUME NEW m, Stands(m)
  PROVE  LET next == Cancel(m) IN
         /\ MissionStands(next)
         /\ next.state = "CANCELLED"
         /\ next.id = m.id
         /\ Len(next.events) = Len(m.events) + 1
<1>1. "MISSION_CANCELLED" \in EventTypes /\ "CANCELLED" \in MissionStates \ {"GREEN"}
  BY DEF EventTypes, MissionStates
<1>2. m \in MissionValues
  BY StandsFields
<1>3. PICK next : next = Append1(m, "MISSION_CANCELLED", "CANCELLED")
  OBVIOUS
<1>4. Stands(next) /\ next.state = "CANCELLED"
  BY <1>1, <1>3, Appended
<1>5. next.id = m.id /\ Len(next.events) = Len(m.events) + 1
  BY <1>1, <1>2, <1>3, EventAdded
<1> QED
  BY <1>3, <1>4, <1>5, StandsIs DEF Cancel

LEMMA WithdrawnLoop ==
  ASSUME NEW l, LoopStands(l)
  PROVE  LET next == CancelledLoop(l) IN
         /\ LoopStands(next)
         /\ next.mission = Cancel(l.mission)
         /\ next.mission.state = "CANCELLED"
         /\ next.mission.id = l.mission.id
         /\ Len(next.mission.events) = Len(l.mission.events) + 1
         /\ next.state = "CANCELLED"
         /\ next.attempts = l.attempts
         /\ ~next.request
         /\ PlanFollows(next)
<1>1. /\ l \in LoopValues /\ Stands(l.mission) /\ Len(l.attempts) <= AttemptCeiling
  BY LoopFields
<1>2. PICK m : m = Cancel(l.mission)
  OBVIOUS
<1>3. /\ MissionStands(m) /\ m.state = "CANCELLED" /\ m.id = l.mission.id
      /\ Len(m.events) = Len(l.mission.events) + 1
  BY <1>1, <1>2, CancelledMission
<1>4. PICK next : next = CancelledLoop(l)
  OBVIOUS
<1>5. next = [Stopped(l, m, "CANCELLED") EXCEPT !.state = "CANCELLED"]
  BY <1>2, <1>4 DEF CancelledLoop
<1>6. m \in MissionValues
  BY <1>3 DEF MissionStands
<1>7. /\ next \in LoopValues
      /\ next.mission = m
      /\ next.state = "CANCELLED"
      /\ next.attempts = l.attempts
      /\ ~next.request
  BY <1>1, <1>5, <1>6 DEF Stopped, LoopValues, LoopStates, NoPending, NoTarget, Stops
<1>8. LoopStands(next)
  BY <1>1, <1>3, <1>7 DEF LoopStands
<1>9. PlanFollows(next)
  BY <1>7 DEF PlanFollows, Live, Awaiting
<1> QED
  BY <1>2, <1>3, <1>4, <1>7, <1>8, <1>9

\* What is written of a loop.
LEMMA DurableLoop ==
  ASSUME NEW l, LoopStands(l), PlanFollows(l)
  PROVE  LET kept == LoopForRestart(l) IN
         /\ LoopStands(kept)
         /\ PlanFollows(kept)
         /\ kept.mission = ForDurableRestart(l.mission)
         /\ kept.state = l.state
         /\ kept.attempts = l.attempts
         /\ ~kept.request /\ ~kept.authority
<1>1. l \in LoopValues /\ MissionStands(l.mission)
  BY DEF LoopStands
<1>2. PICK m : m = ForDurableRestart(l.mission)
  OBVIOUS
<1>3. MissionStands(m) /\ m.plan = l.mission.plan /\ m.state = l.mission.state
  BY <1>1, <1>2, DurableMission
<1>4. PICK kept : kept = LoopForRestart(l)
  OBVIOUS
<1>5. kept = [l EXCEPT !.mission = m, !.request = FALSE, !.authority = FALSE,
                       !.restarted = TRUE]
  BY <1>2, <1>4 DEF LoopForRestart
<1>6. m \in MissionValues
  BY <1>3 DEF MissionStands
<1>7. /\ kept \in LoopValues
      /\ kept.mission = m
      /\ kept.state = l.state
      /\ kept.attempts = l.attempts
      /\ kept.pending = l.pending
      /\ ~kept.request /\ ~kept.authority
  BY <1>1, <1>5, <1>6 DEF LoopValues
<1>8. LoopStands(kept)
  BY <1>3, <1>7 DEF LoopStands
<1>9. PlanFollows(kept)
  BY <1>3, <1>7 DEF PlanFollows, Underway, Attempted
<1> QED
  BY <1>2, <1>4, <1>7, <1>8, <1>9

\* What is read back, with the mission as it was resumed.
LEMMA ReboundLoop ==
  ASSUME NEW l, LoopStands(l), PlanFollows(l), NEW m, MissionStands(m), NEW valid \in BOOLEAN,
         valid => m.state = l.mission.state /\ m.plan = l.mission.plan,
         ~valid => m.state # "GREEN"
  PROVE  LET next == LoopAfterRestart(l, m, valid) IN
         /\ LoopStands(next)
         /\ PlanFollows(next)
         /\ next.mission = m
         /\ next.attempts = l.attempts
         /\ next.request = l.request /\ next.authority = l.authority
         /\ IF valid THEN next.state = l.state ELSE next.state = "BLOCKED"
<1>1. l \in LoopValues /\ m \in MissionValues
  BY DEF LoopStands, MissionStands
<1>2. PICK next : next = LoopAfterRestart(l, m, valid)
  OBVIOUS
<1>3. CASE valid
  <2>1. next = [l EXCEPT !.mission = m]
    BY <1>2, <1>3 DEF LoopAfterRestart
  <2>2. /\ next \in LoopValues
        /\ next.mission = m
        /\ next.state = l.state
        /\ next.attempts = l.attempts
        /\ next.pending = l.pending
        /\ next.request = l.request /\ next.authority = l.authority
    BY <1>1, <2>1 DEF LoopValues
  <2>3. LoopStands(next)
    BY <1>3, <2>2 DEF LoopStands
  <2>4. PlanFollows(next)
    BY <1>3, <2>2 DEF PlanFollows, Underway, Attempted
  <2> QED
    BY <1>2, <1>3, <2>2, <2>3, <2>4
<1>4. CASE ~valid
  <2>1. next = [l EXCEPT !.mission = m, !.state = "BLOCKED", !.pending = NoPending,
                         !.stop = "STALE_STATE"]
    BY <1>2, <1>4 DEF LoopAfterRestart
  <2>2. /\ next \in LoopValues
        /\ next.mission = m
        /\ next.state = "BLOCKED"
        /\ next.attempts = l.attempts
        /\ next.request = l.request /\ next.authority = l.authority
    BY <1>1, <2>1 DEF LoopValues, LoopStates, NoPending, NoTarget, Stops, StepResults, Classes
  <2>3. LoopStands(next)
    BY <1>4, <2>2 DEF LoopStands
  <2>4. PlanFollows(next)
    BY <2>2 DEF PlanFollows, Live, Awaiting
  <2> QED
    BY <1>2, <1>4, <2>2, <2>3, <2>4
<1> QED
  BY <1>3, <1>4

\* A new mission, and a new loop.
LEMMA NewMissionStands ==
  ASSUME NEW id \in Nat, NEW at \in Nat, NEW plan \in Seq(Steps), NormalPlan(plan),
         NEW grants \in SUBSET Grants, NEW allowed \in SUBSET Operations
  PROVE  LET m == NewMission(id, at, plan, grants, allowed) IN
         /\ MissionStands(m)
         /\ m.id = id
         /\ m.plan = plan
         /\ m.state = "PLANNING"
         /\ Len(m.events) = 2
<1>1. PICK e1 \in Events, e2 \in Events :
        e1 = Event("MISSION_STARTED", "PLANNING") /\ e2 = Event("PLAN_UPDATED", "PLANNING")
  BY DEF Events, Event, EventTypes, MissionStates
<1>2. PICK events : events = <<e1, e2>>
  OBVIOUS
<1>3. events \in Seq(Events) /\ Len(events) = 2 /\ events[2] = e2
  BY <1>2
<1>4. PICK m : m = NewMission(id, at, plan, grants, allowed)
  OBVIOUS
<1>5. m = [id |-> id, head |-> at, state |-> "PLANNING", plan |-> plan,
           canonical |-> "NONE", changes |-> <<>>, grants |-> grants, used |-> {},
           allowed |-> allowed, restarts |-> 0, events |-> events]
  BY <1>1, <1>2, <1>4 DEF NewMission
<1>6. /\ m \in MissionValues
      /\ m.id = id /\ m.plan = plan /\ m.state = "PLANNING" /\ m.events = events
  BY <1>3, <1>5 DEF MissionValues, MissionStates
<1>7. MissionStands(m)
  <2>1. e2.state = "PLANNING"
    BY <1>1 DEF Event
  <2>2. Len(m.events) > 0 /\ m.events[Len(m.events)].state = m.state
    <3>1. PICK last \in Nat : last = 2 /\ Len(events) = last /\ events[last] = e2
      BY <1>3
    <3>2. m.events = events /\ m.state = "PLANNING"
      BY <1>6
    <3>3. Len(m.events) = last /\ m.events[last] = e2
      BY ONLY <3>1, <3>2
    <3>4. m.events[Len(m.events)] = e2
      BY ONLY <3>3
    <3>5. Len(m.events) > 0
      BY ONLY <3>1, <3>3
    <3> QED
      BY ONLY <2>1, <3>2, <3>4, <3>5
  <2> QED
    BY <1>6, <2>2 DEF MissionStands
<1> QED
  BY <1>3, <1>4, <1>6, <1>7

LEMMA CreatedLoopStands ==
  ASSUME NEW id \in Nat, NEW at \in Nat
  PROVE  LET l == CreatedLoop(id, at) IN
         /\ LoopStands(l)
         /\ PlanFollows(l)
         /\ l.state = "INVESTIGATING"
         /\ l.mission.id = id
         /\ l.mission.state = "PLANNING"
         /\ Len(l.mission.events) = 2
         /\ l.attempts = <<>>
         /\ ~l.request /\ ~l.authority
<1>1. PICK s1 \in Steps, s2 \in Steps, s3 \in Steps :
        /\ s1 = Step("inspect", 0, "ACTIVE")
        /\ s2 = Step("prepare", 1, "PENDING")
        /\ s3 = Step("qualification", 0, "PENDING")
        /\ s1.kind = "inspect" /\ s1.n = 0 /\ s1.status = "ACTIVE"
        /\ s2.kind = "prepare" /\ s2.n = 1 /\ s2.status = "PENDING"
        /\ s3.kind = "qualification" /\ s3.n = 0 /\ s3.status = "PENDING"
  <2>1. {"inspect", "prepare", "qualification"} \subseteq Kinds
        /\ {"ACTIVE", "PENDING"} \subseteq Statuses
    BY DEF Kinds, Statuses, PlanTransitions
  <2>2. /\ Step("inspect", 0, "ACTIVE") \in Steps
        /\ Step("inspect", 0, "ACTIVE").kind = "inspect"
        /\ Step("inspect", 0, "ACTIVE").n = 0
        /\ Step("inspect", 0, "ACTIVE").status = "ACTIVE"
    BY <2>1, StepIsStep
  <2>3. /\ Step("prepare", 1, "PENDING") \in Steps
        /\ Step("prepare", 1, "PENDING").kind = "prepare"
        /\ Step("prepare", 1, "PENDING").n = 1
        /\ Step("prepare", 1, "PENDING").status = "PENDING"
    BY <2>1, StepIsStep
  <2>4. /\ Step("qualification", 0, "PENDING") \in Steps
        /\ Step("qualification", 0, "PENDING").kind = "qualification"
        /\ Step("qualification", 0, "PENDING").n = 0
        /\ Step("qualification", 0, "PENDING").status = "PENDING"
    BY <2>1, StepIsStep
  <2> QED
    BY <2>2, <2>3, <2>4
<1>2. PICK plan : plan = <<s1, s2, s3>>
  OBVIOUS
<1>3. /\ plan \in Seq(Steps) /\ Len(plan) = 3 /\ DOMAIN plan = 1 .. 3
      /\ plan[1] = s1 /\ plan[2] = s2 /\ plan[3] = s3
  BY <1>2
<1>4. \A i \in DOMAIN plan : i = 1 \/ i = 2 \/ i = 3
  BY <1>3
<1>5. LaidOut(plan)
  <2>1. Place(s1, 3) = 1 /\ Place(s2, 3) = 2 /\ Place(s3, 3) = 3
    BY <1>1 DEF Place
  <2>2. Is(s1, "inspect", 0) /\ Is(s3, "qualification", 0)
    BY <1>1 DEF Is
  <2> QED
    BY <1>3, <1>4, <2>1, <2>2 DEF LaidOut
<1>6. Reached(plan, 1)
  BY <1>1, <1>3, <1>4 DEF Reached
<1>7. NormalPlan(plan)
  <2>1. \A i \in DOMAIN plan : plan[i].status \notin {"COMPLETED", "BLOCKED"}
    BY <1>1, <1>3, <1>4
  <2>2. Len(plan) <= PlanBound
    BY <1>3 DEF PlanBound
  <2>3. \A i \in DOMAIN plan :
          /\ plan[i].status = "COMPLETED" => plan[i].result \in {"NONE", "SUCCESS", "PASSED"}
          /\ plan[i].status = "BLOCKED" => plan[i].result \notin {"SUCCESS", "PASSED"}
    BY <2>1
  <2>4. plan \in Seq(Steps)
    BY <1>3
  <2> QED
    BY ONLY <1>5, <1>6, <2>2, <2>3, <2>4, LaidOutNormal
<1>8. PICK grants \in SUBSET Grants :
        grants = {Grant(Qualification(id), "tests.runCanonical", FALSE, FALSE)}
  <2>1. Grant(Qualification(id), "tests.runCanonical", FALSE, FALSE) \in Grants
    BY DEF Grant, Grants, Qualification, References, Operations
  <2> QED
    BY <2>1
<1>9. PICK m : m = NewMission(id, at, plan, grants, RepairCapabilities)
  OBVIOUS
<1>10. /\ MissionStands(m) /\ m.id = id /\ m.plan = plan /\ m.state = "PLANNING"
       /\ Len(m.events) = 2
  <2>1. RepairCapabilities \in SUBSET Operations
    BY DEF RepairCapabilities, Operations
  <2> QED
    BY <1>3, <1>7, <1>9, <2>1, NewMissionStands
<1>11. PICK l : l = CreatedLoop(id, at)
  OBVIOUS
<1>12. l = [state |-> "INVESTIGATING", mission |-> m, attempts |-> <<>>, pending |-> NoPending,
            request |-> FALSE, authority |-> FALSE, stop |-> "NONE", restarted |-> FALSE]
  BY <1>1, <1>2, <1>8, <1>9, <1>11 DEF CreatedLoop
<1>13. m \in MissionValues
  BY <1>10 DEF MissionStands
<1>14. /\ l \in LoopValues
       /\ l.mission = m
       /\ l.state = "INVESTIGATING"
       /\ l.attempts = <<>>
       /\ ~l.request /\ ~l.authority
  BY <1>12, <1>13 DEF LoopValues, LoopStates, NoPending, NoTarget, Stops, StepResults
<1>15. Len(l.attempts) = 0
  BY <1>14
<1>16. LoopStands(l)
  BY <1>10, <1>14, <1>15, AttemptCeilingAssumption DEF LoopStands
<1>17. Underway(l, 3, 2)
  <2>1. l.mission.plan = plan /\ 4 * Len(l.attempts) + 3 = 3 /\ Len(plan) = 3 /\ 3 - 2 = 1
    BY <1>3, <1>10, <1>14, <1>15
  <2> QED
    BY ONLY <1>5, <1>6, <2>1 DEF Underway
<1>18. PlanFollows(l)
  BY <1>14, <1>15, <1>17, AttemptCeilingAssumption DEF PlanFollows, Live, Awaiting
<1> QED
  BY <1>10, <1>11, <1>14, <1>16, <1>18

-----------------------------------------------------------------------------
\* Loops: what was written for a loop, and how much of its history is accounted for.

\* Settled, of what was written and cancelled at any time.
Quiet(l, ws, cs) ==
  LET made == {i \in DOMAIN ws : ws[i][1] = l.mission.id} IN
  /\ l.mission.id \notin cs
  /\ {ws[i][2] : i \in made} \subseteq Attempted(l)
  /\ Cardinality(made) <= Len(l.attempts)

LEMMA SettledIs ==
  ASSUME NEW l
  PROVE  Settled(l) <=> Quiet(l, writes, cancelled)
  BY DEF Settled, Quiet, Made, Written

LEMMA SettledLater ==
  /\ Settled(loop)' <=> Quiet(loop', writes', cancelled')
  /\ Settled(work)' <=> Quiet(work', writes', cancelled')
  /\ Settled(store.loop)' <=> Quiet(store'.loop, writes', cancelled')
<1>1. Settled(loop)' <=> Quiet(loop', writes', cancelled')
  BY DEF Settled, Quiet, Made, Written, Attempted
<1>2. Settled(work)' <=> Quiet(work', writes', cancelled')
  BY DEF Settled, Quiet, Made, Written, Attempted
<1>3. Settled(store.loop)' <=> Quiet(store'.loop, writes', cancelled')
  BY DEF Settled, Quiet, Made, Written, Attempted
<1> QED
  BY <1>1, <1>2, <1>3

LEMMA QuietLike ==
  ASSUME NEW l, NEW k, NEW ws, NEW cs, Quiet(l, ws, cs),
         k.mission.id = l.mission.id, k.attempts = l.attempts
  PROVE  Quiet(k, ws, cs)
  BY DEF Quiet, Attempted

\* What stands for no mission and no loop.
LEMMA NothingStands ==
  /\ MissionStands(NoMission) /\ NoMission.id = 0 /\ NoMission.plan = <<>>
  /\ LoopStands(NoLoop) /\ PlanFollows(NoLoop)
  /\ NoLoop.mission.id = 0 /\ Len(NoLoop.mission.events) = 2
  /\ NoLoop.state = "INVESTIGATING" /\ NoLoop.attempts = <<>> /\ Len(NoLoop.attempts) = 0
  /\ ~NoLoop.request /\ ~NoLoop.authority
<1>1. PICK plan \in Seq(Steps) : plan = <<>>
  <2>1. <<>> \in Seq(Steps)
    BY EmptySeq
  <2> QED
    BY <2>1
<1>2. NormalPlan(plan)
  <2>1. PlainlyNormal(plan)
    BY <1>1 DEF PlainlyNormal, PlanBound
  <2> QED
    BY <2>1, NormalIsPlain
<1>3. PICK none \in Nat : none = 0
  OBVIOUS
<1>4. PICK grants \in SUBSET Grants : grants = {}
  OBVIOUS
<1>5. PICK allowed \in SUBSET Operations : allowed = {}
  OBVIOUS
<1>6. NoMission = NewMission(none, none, plan, grants, allowed)
  BY <1>1, <1>3, <1>4, <1>5 DEF NoMission
<1>7. MissionStands(NoMission) /\ NoMission.id = 0 /\ NoMission.plan = <<>>
  <2>1. /\ MissionStands(NewMission(none, none, plan, grants, allowed))
        /\ NewMission(none, none, plan, grants, allowed).id = none
        /\ NewMission(none, none, plan, grants, allowed).plan = plan
    BY <1>2, NewMissionStands
  <2> QED
    BY <1>1, <1>3, <1>6, <2>1
<1>8. NoLoop = CreatedLoop(none, none)
  BY <1>3 DEF NoLoop
<1>9. /\ LoopStands(NoLoop) /\ PlanFollows(NoLoop)
      /\ NoLoop.mission.id = none /\ Len(NoLoop.mission.events) = 2
      /\ NoLoop.state = "INVESTIGATING" /\ NoLoop.attempts = <<>>
      /\ ~NoLoop.request /\ ~NoLoop.authority
  BY <1>8, CreatedLoopStands
<1> QED
  BY <1>3, <1>7, <1>9

LEMMA NoLoopQuiet ==
  ASSUME NEW c \in Nat, NEW ws \in Seq((1 .. c) \X Target), NEW cs, cs \subseteq 1 .. c
  PROVE  Quiet(NoLoop, ws, cs)
<1>1. \A i \in DOMAIN ws : ws[i][1] \in 1 .. c
  <2>1. \A i \in DOMAIN ws : ws[i] \in (1 .. c) \X Target
    OBVIOUS
  <2> QED
    BY <2>1
<1>2. {i \in DOMAIN ws : ws[i][1] = 0} = {}
  BY <1>1
<1>3. NoLoop.mission.id = 0 /\ Len(NoLoop.attempts) = 0
  BY NothingStands
<1>4. Cardinality({}) = 0
  BY FS_EmptySet
<1>5. 0 \notin cs
  OBVIOUS
<1>6. \A S : S = {} => {ws[i][2] : i \in S} = {}
  OBVIOUS
<1> QED
  <2>1. NoLoop.mission.id \notin cs
    BY <1>3, <1>5
  <2>2. PICK made : made = {i \in DOMAIN ws : ws[i][1] = NoLoop.mission.id}
    OBVIOUS
  <2>3. made = {}
    BY <1>2, <1>3, <2>2
  <2>4. {ws[i][2] : i \in made} = {}
    BY <2>3
  <2>5. Cardinality(made) = 0
    BY <1>4, <2>3
  <2>6. Cardinality(made) <= Len(NoLoop.attempts)
    BY <1>3, <2>5
  <2>7. {ws[i][2] : i \in made} \subseteq Attempted(NoLoop)
    BY <2>4
  <2> QED
    BY <2>1, <2>2, <2>6, <2>7 DEF Quiet

\* How much of the history of a loop is accounted for.
Bit(l) == IF l.request /\ ~l.authority THEN 0 ELSE 1

LEMMA SpentFacts ==
  ASSUME NEW l, LoopStands(l), NEW a \in Nat, a = Len(l.attempts)
  PROVE  /\ a <= AttemptCeiling
         /\ Len(l.mission.events) \in Nat /\ Len(l.mission.events) > 0
         /\ l.mission.id \in Nat
         /\ Bit(l) \in Nat /\ Bit(l) <= 1
         /\ ~l.request => Bit(l) = 1
         /\ l.request /\ ~l.authority => Bit(l) = 0
         /\ Spent(l) \in Nat
         /\ l.state = "INVESTIGATING" => Spent(l) = 17 * a + 1 + Bit(l)
         /\ l.state = "READY_FOR_REPAIR" => Spent(l) = 17 * a + 6 + Bit(l)
         /\ l.state \in Awaiting => Spent(l) = 17 * a + 12 + Bit(l)
         /\ l.state \in {"BLOCKED", "GREEN"} => Spent(l) = 17 * a + 24 + Bit(l)
         /\ l.state = "CANCELLED" => Spent(l) = 17 * a + 25 + Bit(l)
         /\ l.state # "CANCELLED" => Spent(l) <= 17 * a + 24 + Bit(l)
<1>1. /\ a <= AttemptCeiling /\ Stands(l.mission) /\ l.state \in LoopStates
      /\ l.request \in BOOLEAN /\ l.authority \in BOOLEAN
  BY LoopFields
<1>2. Len(l.mission.events) \in Nat /\ Len(l.mission.events) > 0 /\ l.mission.id \in Nat
  BY <1>1, StandsFields
<1>3. /\ Bit(l) \in Nat /\ Bit(l) <= 1
      /\ ~l.request => Bit(l) = 1
      /\ l.request /\ ~l.authority => Bit(l) = 0
  BY <1>1 DEF Bit
<1>4. PICK b \in Nat : b = Bit(l)
  BY <1>3
<1>5. PICK c : c = Base[l.state]
  OBVIOUS
<1>6. Spent(l) = 17 * a + c + b
  BY <1>4, <1>5 DEF Spent, Bit
<1>7. /\ l.state = "INVESTIGATING" => c = 1
      /\ l.state = "READY_FOR_REPAIR" => c = 6
      /\ l.state \in Awaiting => c = 12
      /\ l.state \in {"BLOCKED", "GREEN"} => c = 24
      /\ l.state = "CANCELLED" => c = 25
  BY <1>5 DEF Base, Awaiting
<1>8. c \in Nat /\ (l.state # "CANCELLED" => c <= 24)
  BY <1>1, <1>7 DEF LoopStates, Awaiting
<1>9. Spent(l) \in Nat /\ (l.state # "CANCELLED" => Spent(l) <= 17 * a + 24 + b)
  BY <1>4, <1>6, <1>8
<1> QED
  BY <1>1, <1>2, <1>3, <1>4, <1>6, <1>7, <1>9

\* What is written of a loop accounts for as much of its history.
LEMMA KeptSpends ==
  ASSUME NEW l, LoopStands(l), PlanFollows(l)
  PROVE  Spent(l) <= Spent(LoopForRestart(l))
<1>1. PICK kept : kept = LoopForRestart(l)
  OBVIOUS
<1>2. LoopStands(kept) /\ kept.state = l.state /\ kept.attempts = l.attempts /\ ~kept.request
  BY <1>1, DurableLoop
<1>3. PICK a \in Nat : a = Len(l.attempts)
  BY LoopFields
<1>4. PICK c : c = Base[l.state]
  OBVIOUS
<1>5. PICK b \in Nat, k \in Nat : b = Bit(l) /\ k = Bit(kept) /\ b <= 1 /\ k = 1
  BY <1>2, <1>3, SpentFacts
<1>6. Spent(l) = 17 * a + c + b /\ Spent(kept) = 17 * a + c + k
  BY <1>2, <1>3, <1>4, <1>5 DEF Spent, Bit
<1>7. Spent(l) \in Nat /\ Spent(kept) \in Nat
  BY <1>2, <1>3, SpentFacts
<1>8. c \in Nat
  <2>1. l.state \in LoopStates
    BY LoopFields
  <2> QED
    BY <2>1, <1>4 DEF Base, LoopStates
<1> QED
  BY <1>1, <1>3, <1>5, <1>6, <1>8

-----------------------------------------------------------------------------
\* Steps that leave a part of the session as it is.

LEMMA MissionNumbers ==
  ASSUME NEW m, MissionStands(m)
  PROVE  Len(m.events) \in Nat /\ Len(m.events) > 0 /\ m.id \in Nat
  BY StandsIs, StandsFields

\* A step that leaves the durable record as it is.
LEMMA StoreKept ==
  ASSUME StoreInv, store' = store, durable' = durable, alive \in BOOLEAN, alive' = alive,
         created \in Nat, created' \in Nat, created <= created',
         faults \in Nat, faults' \in Nat, faults <= faults',
         LoopStands(loop), LoopStands(loop'),
         turn' \in Working => store.loop = NoLoop,
         store.loop # NoLoop /\ store.loop.state \in Live =>
           Quiet(store.loop, writes', cancelled'),
         store.loop # NoLoop /\ alive =>
           /\ loop'.mission.id = loop.mission.id
           /\ Len(loop.mission.events) <= Len(loop'.mission.events)
           /\ loop'.state \in {"GREEN", "CANCELLED"} =>
                loop'.state = loop.state \/ store.loop.state \notin Live
  PROVE  StoreInv'
<1>1. store' # NoRecord => durable' /\ store'.mission.id \in 1 .. created'
  BY DEF StoreInv
<1>2. MissionStands(store'.mission) /\ LoopStands(store'.loop) /\ PlanFollows(store'.loop)
  BY DEF StoreInv
<1>3. ASSUME store'.loop # NoLoop
      PROVE  /\ store'.loop.mission = store'.mission
             /\ Len(store'.mission.events) + (IF alive' THEN 0 ELSE 1)
                  <= Spent(store'.loop) + faults'
             /\ store'.loop.state \in Live => Settled(store.loop)'
             /\ turn' \notin Working
             /\ alive' =>
                  /\ loop'.mission.id = store'.mission.id
                  /\ Len(store'.mission.events) <= Len(loop'.mission.events)
                  /\ loop'.state \in {"GREEN", "CANCELLED"} => store'.loop.state \notin Live
  <2>1. store'.loop.mission = store'.mission
    BY <1>3 DEF StoreInv
  <2>2. Len(store'.mission.events) + (IF alive' THEN 0 ELSE 1) <= Spent(store'.loop) + faults'
    <3>1. PICK x \in Nat, s \in Nat : x = Len(store.mission.events) /\ s = Spent(store.loop)
      BY <1>2, MissionNumbers, LoopFields, SpentFacts
    <3>2. x + (IF alive THEN 0 ELSE 1) <= s + faults
      BY <1>3, <3>1 DEF StoreInv
    <3>3. CASE alive = TRUE
      <4>1. x + 0 <= s + faults'
        BY <3>1, <3>2, <3>3
      <4> QED
        BY <3>1, <3>3, <4>1
    <3>4. CASE alive = FALSE
      <4>1. x + 1 <= s + faults'
        BY <3>1, <3>2, <3>4
      <4> QED
        BY <3>1, <3>4, <4>1
    <3> QED
      BY <3>3, <3>4
  <2>3. store'.loop.state \in Live => Settled(store.loop)'
    BY <1>3, SettledLater
  <2>4. turn' \notin Working
    BY <1>3
  <2>5. ASSUME alive'
        PROVE  /\ loop'.mission.id = store'.mission.id
               /\ Len(store'.mission.events) <= Len(loop'.mission.events)
               /\ loop'.state \in {"GREEN", "CANCELLED"} => store'.loop.state \notin Live
    <3>1. /\ loop.mission.id = store.mission.id
          /\ Len(store.mission.events) <= Len(loop.mission.events)
          /\ loop.state \in {"GREEN", "CANCELLED"} => store.loop.state \notin Live
      BY <1>3, <2>5 DEF StoreInv
    <3>2. PICK x \in Nat, y \in Nat, z \in Nat :
            /\ x = Len(store.mission.events) /\ y = Len(loop.mission.events)
            /\ z = Len(loop'.mission.events)
      BY <1>2, MissionNumbers, LoopFields, SpentFacts
    <3>3. x <= y /\ y <= z
      BY <1>3, <2>5, <3>1, <3>2
    <3>4. Len(store'.mission.events) <= Len(loop'.mission.events)
      BY <3>2, <3>3
    <3> QED
      BY <1>3, <2>5, <3>1, <3>4
  <2> QED
    BY <2>1, <2>2, <2>3, <2>4, <2>5
<1> QED
  BY <1>1, <1>2, <1>3 DEF StoreInv

\* A record without a loop.
LEMMA StoreWithoutLoop ==
  ASSUME NEW m, MissionStands(m), m.id \in 1 .. created', durable',
         store' = [mission |-> ForDurableRestart(m), loop |-> NoLoop]
  PROVE  StoreInv'
<1>1. MissionStands(ForDurableRestart(m)) /\ ForDurableRestart(m).id = m.id
  BY DurableMission
<1>2. LoopStands(NoLoop) /\ PlanFollows(NoLoop)
  BY NothingStands
<1>3. store'.mission = ForDurableRestart(m) /\ store'.loop = NoLoop
  OBVIOUS
<1> QED
  BY <1>1, <1>2, <1>3 DEF StoreInv

\* A record of the loop of the session.
LEMMA StoreWithLoop ==
  ASSUME LoopStands(loop'), PlanFollows(loop'), loop'.mission.id \in 1 .. created', durable',
         alive', faults' \in Nat,
         Len(loop'.mission.events) <= Spent(loop') + faults',
         loop'.state \in Live => Settled(loop)', turn' \notin Working,
         store' = [mission |-> ForDurableRestart(loop'.mission),
                   loop |-> LoopForRestart(loop')]
  PROVE  StoreInv'
<1>1. MissionStands(loop'.mission)
  BY DEF LoopStands
<1>2. PICK m : m = ForDurableRestart(loop'.mission)
  OBVIOUS
<1>3. MissionStands(m) /\ m.id = loop'.mission.id /\ m.events = loop'.mission.events
  BY <1>1, <1>2, DurableMission
<1>4. PICK kept : kept = LoopForRestart(loop')
  OBVIOUS
<1>5. /\ LoopStands(kept) /\ PlanFollows(kept) /\ kept.mission = m
      /\ kept.state = loop'.state /\ kept.attempts = loop'.attempts
  BY <1>2, <1>4, DurableLoop
<1>6. store'.mission = m /\ store'.loop = kept
  BY <1>2, <1>4
<1>7. Len(m.events) + 0 <= Spent(kept) + faults'
  <2>1. PICK x \in Nat, s \in Nat, t \in Nat :
          /\ x = Len(loop'.mission.events) /\ s = Spent(loop') /\ t = Spent(kept)
    BY <1>5, LoopFields, SpentFacts
  <2>2. s <= t
    BY <1>4, <2>1, KeptSpends
  <2>3. x <= s + faults'
    BY <2>1
  <2>4. PICK y \in Nat : y = faults'
    OBVIOUS
  <2>5. x + 0 <= t + y
    <3>1. x <= s + y
      BY <2>3, <2>4
    <3>2. x \in Nat /\ s \in Nat /\ t \in Nat /\ y \in Nat
      OBVIOUS
    <3> QED
      BY ONLY <2>2, <3>1, <3>2
  <2>6. Len(m.events) = x
    BY <1>3, <2>1
  <2> QED
    BY ONLY <2>1, <2>4, <2>5, <2>6
<1>8. kept.state \in Live => Settled(store.loop)'
  <2>1. ASSUME kept.state \in Live
        PROVE  Quiet(kept, writes', cancelled')
    <3>1. Quiet(loop', writes', cancelled')
      BY <1>5, <2>1, SettledLater
    <3> QED
      BY <1>3, <1>5, <3>1, QuietLike
  <2> QED
    BY <1>6, <2>1, SettledLater
<1>9. kept.state \in {"GREEN", "CANCELLED"} => kept.state \notin Live
  BY DEF Live
<1>10. Len(m.events) <= Len(loop'.mission.events)
  BY <1>1, <1>3, MissionNumbers
<1> QED
  BY <1>3, <1>5, <1>6, <1>7, <1>8, <1>9, <1>10 DEF StoreInv

\* A checkpoint that is written, or not.
LEMMA Persisted ==
  ASSUME NEW m, MissionStands(m), m.id \in 1 .. created', NEW l, Persist(m, l),
         durable' = durable, l = NoLoop \/ l = loop',
         store' = store => StoreInv',
         alive', LoopStands(loop'), PlanFollows(loop'), faults' \in Nat,
         Len(loop'.mission.events) <= Spent(loop') + faults',
         loop'.state \in Live => Settled(loop)', l # NoLoop => turn' \notin Working
  PROVE  StoreInv'
<1>1. CASE ~(durable /\ Saves(m, l))
  <2>1. store' = store
    BY <1>1 DEF Persist
  <2> QED
    BY <2>1
<1>2. CASE durable /\ Saves(m, l)
  <2>1. store' = Checkpoint(m, l)
    BY <1>2 DEF Persist
  <2>2. CASE l # NoLoop /\ l.mission = m
    <3>1. l = loop'
      BY <2>2
    <3>2. store' = [mission |-> ForDurableRestart(loop'.mission),
                    loop |-> LoopForRestart(loop')]
      BY <2>1, <2>2, <3>1 DEF Checkpoint
    <3> QED
      BY <1>2, <2>2, <3>1, <3>2, StoreWithLoop
  <2>3. CASE ~(l # NoLoop /\ l.mission = m)
    <3>1. store' = [mission |-> ForDurableRestart(m), loop |-> NoLoop]
      BY <2>1, <2>3 DEF Checkpoint
    <3> QED
      BY <1>2, <3>1, StoreWithoutLoop
  <2> QED
    BY <2>2, <2>3
<1> QED
  BY <1>1, <1>2

\* The counters only grow.
Onwards ==
  /\ created \in Nat /\ created' \in Nat /\ created <= created'
  /\ faults \in Nat /\ faults' \in Nat /\ faults <= faults'

LEMMA MoreFaults ==
  ASSUME NEW x \in Nat, NEW s \in Nat, NEW p \in Nat, NEW q \in Nat, p <= q
  PROVE  /\ x <= s + p => x <= s + q
         /\ x <= s + p + 3 => x <= s + q + 3
         /\ x <= s + p + 7 => x <= s + q + 7
  OBVIOUS

LEMMA MoreFaultsNow ==
  ASSUME Onwards, NEW x \in Nat, NEW s \in Nat
  PROVE  /\ x <= s + faults => x <= s + faults'
         /\ x <= s + faults + 3 => x <= s + faults' + 3
         /\ x <= s + faults + 7 => x <= s + faults' + 7
<1>1. faults \in Nat /\ faults' \in Nat /\ faults <= faults'
  BY DEF Onwards
<1> QED
  BY <1>1, MoreFaults

LEMMA AgenticKept ==
  ASSUME AgenticInv, Onwards, agentic' = agentic, turn' = "read" => turn = "read"
  PROVE  AgenticInv'
<1>1. agentic' # NoMission => agentic'.id \in 1 .. created'
  BY DEF AgenticInv, Onwards
<1> QED
  BY <1>1 DEF AgenticInv

LEMMA LoopKept ==
  ASSUME LoopInv, Onwards, loop' = loop,
         loop.state \in Live /\ turn' \notin Working => Quiet(loop, writes', cancelled'),
         turn' = "investigate" => turn = "investigate",
         turn' = "prepare" =>
           \/ turn = "prepare"
           \/ loop # NoLoop /\ loop.state = "READY_FOR_REPAIR"
  PROVE  LoopInv'
<1>1. LoopStands(loop') /\ PlanFollows(loop')
  BY DEF LoopInv
<1>2. Len(loop'.mission.events) <= Spent(loop') + faults'
  <2>1. PICK x \in Nat, s \in Nat : x = Len(loop.mission.events) /\ s = Spent(loop)
    BY <1>1, LoopFields, SpentFacts
  <2>2. x <= s + faults
    BY <2>1 DEF LoopInv
  <2>3. x <= s + faults'
    BY <2>1, <2>2, MoreFaultsNow
  <2> QED
    BY <2>1, <2>3
<1>3. loop' # NoLoop => loop'.mission.id \in 1 .. created'
  BY DEF LoopInv, Onwards
<1>4. /\ turn' = "investigate" => loop' # NoLoop /\ loop'.state = "INVESTIGATING"
      /\ turn' = "prepare" => loop' # NoLoop /\ loop'.state = "READY_FOR_REPAIR"
  BY DEF LoopInv
<1>5. loop'.state \in Live /\ turn' \notin Working => Settled(loop)'
  BY SettledLater
<1> QED
  BY <1>1, <1>2, <1>3, <1>4, <1>5 DEF LoopInv

LEMMA LoopGone ==
  ASSUME loop' = NoLoop, turn' = "idle", faults' \in Nat, created' \in Nat,
         writes' \in Seq((1 .. created') \X Target), cancelled' \subseteq 1 .. created'
  PROVE  LoopInv'
<1>1. LoopStands(loop') /\ PlanFollows(loop')
  BY NothingStands
<1>2. Len(loop'.mission.events) <= Spent(loop') + faults'
  <2>1. PICK s \in Nat : s = Spent(NoLoop) /\ s = 17 * 0 + 1 + 1
    BY NothingStands, SpentFacts
  <2>2. 2 <= s + faults'
    <3>1. PICK y \in Nat : y = faults'
      OBVIOUS
    <3>2. 2 <= 2 + y
      OBVIOUS
    <3>3. s = 2
      BY <2>1
    <3> QED
      BY <3>1, <3>2, <3>3
  <2> QED
    BY <2>1, <2>2, NothingStands
<1>3. Settled(loop)'
  BY NoLoopQuiet, SettledLater
<1> QED
  BY <1>1, <1>2, <1>3 DEF LoopInv

LEMMA WorkGone ==
  ASSUME work' = NoLoop, turn' \notin Working
  PROVE  WorkInv'
<1>1. LoopStands(work')
  BY NothingStands
<1>2. turn' # "apply" /\ turn' # "test" /\ turn' # "qualify" /\ turn' # "finish"
  BY DEF Working
<1> QED
  BY <1>1, <1>2 DEF WorkInv

\* Something happens around a handler.
LEMMA WorkKept ==
  ASSUME WorkInv, Onwards, work' = work, turn' = turn, writes' = writes,
         cancelled' = cancelled
  PROVE  WorkInv'
<1>1. LoopStands(work')
  BY DEF WorkInv
<1>2. /\ turn' \notin Working => work' = NoLoop
      /\ turn' \in Working => work'.mission.id \in 1 .. created'
  BY DEF WorkInv, Onwards
<1>3. PICK x \in Nat, s \in Nat, a \in Nat :
        x = Len(work.mission.events) /\ s = Spent(work) /\ a = Len(work.attempts)
  BY <1>1, LoopFields, SpentFacts
<1>4. Settled(work) => Settled(work)'
  BY SettledIs, SettledLater
<1>5. ASSUME turn' = "apply"
      PROVE  /\ work'.state \in Awaiting
             /\ Len(work'.attempts) < AttemptCeiling
             /\ Underway(work', 6, 2)
             /\ work'.pending.target \in Target \ Attempted(work')
             /\ Len(work'.mission.events) <= Spent(work') + faults' + 3
             /\ Settled(work)'
  <2>1. x <= s + faults + 3
    BY <1>3, <1>5 DEF WorkInv
  <2>2. x <= s + faults' + 3
    BY <1>3, <2>1, MoreFaultsNow
  <2>3. Len(work'.mission.events) <= Spent(work') + faults' + 3
    BY <1>3, <2>2
  <2> QED
    BY <1>4, <1>5, <2>3 DEF WorkInv
<1>6. ASSUME turn' = "test"
      PROVE  /\ work'.state \in Awaiting
             /\ Len(work'.attempts) < AttemptCeiling
             /\ Underway(work', 6, 1)
             /\ work'.pending.target \in Target
             /\ Len(work'.mission.events) <= Spent(work') + faults' + 7
             /\ work'.mission.id \notin cancelled'
             /\ (Written(work.mission.id))' \subseteq Attempted(work') \union {work'.pending.target}
             /\ Cardinality((Made(work.mission.id))') <= Len(work'.attempts) + 1
  <2>1. x <= s + faults + 7
    BY <1>3, <1>6 DEF WorkInv
  <2>2. x <= s + faults' + 7
    BY <1>3, <2>1, MoreFaultsNow
  <2>3. Len(work'.mission.events) <= Spent(work') + faults' + 7
    BY <1>3, <2>2
  <2>4. /\ (Written(work.mission.id))' = Written(work.mission.id)
        /\ (Made(work.mission.id))' = Made(work.mission.id)
    BY DEF Written, Made
  <2> QED
    BY <1>6, <2>3, <2>4 DEF WorkInv
<1>7. ASSUME turn' = "qualify"
      PROVE  /\ Underway(work', 2, 0)
             /\ Len(work'.mission.events) <= 17 * Len(work'.attempts) + 7 + faults'
  <2>1. x <= 17 * a + 7 + faults
    BY <1>3, <1>7 DEF WorkInv
  <2>2. x <= 17 * a + 7 + faults'
    <3>1. PICK y \in Nat : y = 17 * a + 7
      BY <1>3
    <3>2. x <= y + faults'
      BY <1>3, <2>1, <3>1, MoreFaultsNow
    <3> QED
      BY <3>1, <3>2
  <2> QED
    BY <1>3, <1>7, <2>2 DEF WorkInv
<1>8. ASSUME turn' = "finish"
      PROVE  /\ work'.state \in {"READY_FOR_REPAIR", "BLOCKED", "GREEN"}
             /\ PlanFollows(work')
             /\ Len(work'.mission.events) <= Spent(work') + faults'
             /\ work'.state = "READY_FOR_REPAIR" => Settled(work)'
  <2>1. x <= s + faults
    BY <1>3, <1>8 DEF WorkInv
  <2>2. x <= s + faults'
    BY <1>3, <2>1, MoreFaultsNow
  <2>3. Len(work'.mission.events) <= Spent(work') + faults'
    BY <1>3, <2>2
  <2> QED
    BY <1>4, <1>8, <2>3 DEF WorkInv
<1> QED
  BY <1>1, <1>2, <1>5, <1>6, <1>7, <1>8 DEF WorkInv

LEMMA WritesKept ==
  ASSUME WritesInv, Onwards, writes' = writes
  PROVE  WritesInv'
<1>1. writes' \in Seq((1 .. created') \X Target)
  <2>1. (1 .. created) \X Target \subseteq (1 .. created') \X Target
    BY DEF Onwards
  <2>2. \A i \in 1 .. Len(writes) : writes[i] \in (1 .. created') \X Target
    BY <2>1 DEF WritesInv
  <2> QED
    BY <2>2 DEF WritesInv
<1>2. ASSUME NEW id \in 1 .. created'
      PROVE  Cardinality({i \in DOMAIN writes : writes[i][1] = id}) <= AttemptCeiling
  <2>1. CASE id \in 1 .. created
    BY <2>1 DEF WritesInv, EachTargetIsWrittenOnce
  <2>2. CASE id \notin 1 .. created
    <3>1. \A i \in DOMAIN writes : writes[i] \in (1 .. created) \X Target
      BY DEF WritesInv
    <3>2. {i \in DOMAIN writes : writes[i][1] = id} = {}
      BY <2>2, <3>1
    <3>3. 0 <= AttemptCeiling
      BY AttemptCeilingAssumption
    <3> QED
      BY <3>2, <3>3, FS_EmptySet
  <2> QED
    BY <2>1, <2>2
<1>3. \A i, j \in DOMAIN writes' : writes'[i] = writes'[j] => i = j
  BY DEF WritesInv, EachTargetIsWrittenOnce
<1>4. \A id \in 1 .. created' :
        Cardinality({i \in DOMAIN writes' : writes'[i][1] = id}) <= AttemptCeiling
  BY <1>2
<1> QED
  BY <1>1, <1>3, <1>4 DEF WritesInv, EachTargetIsWrittenOnce

-----------------------------------------------------------------------------
\* The world, and the end of the process.

LEMMA GoesOnwards ==
  ASSUME WorldInv, created' = created \/ created' = created + 1,
         faults' = faults \/ faults' = faults + 1
  PROVE  Onwards
<1>1. created \in Nat /\ faults \in Nat
  BY BoundsAssumption DEF WorldInv
<1> QED
  BY <1>1 DEF Onwards

LEMMA LoopQuiet ==
  ASSUME LoopInv, loop.state \in Live, turn \notin Working
  PROVE  Quiet(loop, writes, cancelled)
  BY SettledIs DEF LoopInv

LEMMA RecordQuiet ==
  ASSUME StoreInv, store.loop # NoLoop, store.loop.state \in Live
  PROVE  Quiet(store.loop, writes, cancelled)
  BY SettledIs DEF StoreInv

\* The world changes around whatever the session does.
LEMMA WorldStep ==
  ASSUME IInv, faults < MaxFaults, faults' = faults + 1,
         UNCHANGED <<durable, alive, processVars, store, created, writes, cancelled>>,
         content' \in [Target -> Contents], head' = head \/ head' = head + 1
  PROVE  IInv'
<1>1. Onwards
  BY GoesOnwards DEF IInv
<1>2. WorldInv'
  <2>1. faults' \in 0 .. MaxFaults
    BY BoundsAssumption DEF IInv, WorldInv
  <2>2. head' \in 1 .. faults' + 1
    BY DEF IInv, WorldInv
  <2> QED
    BY <2>1, <2>2 DEF IInv, WorldInv, processVars
<1>3. AgenticInv'
  BY <1>1, AgenticKept DEF IInv, processVars
<1>4. LoopInv'
  <2>1. loop' = loop /\ turn' = turn /\ writes' = writes /\ cancelled' = cancelled
    BY DEF processVars
  <2>2. turn' = "prepare" => turn = "prepare"
    BY <2>1
  <2>3. loop.state \in Live /\ turn' \notin Working => Quiet(loop, writes', cancelled')
    BY <2>1, LoopQuiet DEF IInv
  <2> QED
    BY <1>1, <2>1, <2>2, <2>3, LoopKept DEF IInv
<1>5. WorkInv'
  BY <1>1, WorkKept DEF IInv, processVars
<1>6. StoreInv'
  <2>1. LoopStands(loop) /\ alive \in BOOLEAN
    BY DEF IInv, LoopInv, WorldInv
  <2>2. turn' \in Working => store.loop = NoLoop
    BY DEF IInv, StoreInv, processVars
  <2>3. Len(loop.mission.events) <= Len(loop'.mission.events)
    BY <2>1, LoopFields, SpentFacts DEF processVars
  <2> QED
    BY <1>1, <2>1, <2>2, <2>3, StoreKept, RecordQuiet DEF IInv, Onwards, processVars
<1>7. WritesInv'
  BY <1>1, WritesKept DEF IInv
<1> QED
  BY <1>2, <1>3, <1>4, <1>5, <1>6, <1>7 DEF IInv

LEMMA DriftStep ==
  ASSUME IInv, Drift
  PROVE  IInv'
  BY WorldStep DEF IInv, WorldInv, Drift

LEMMA EditStep ==
  ASSUME IInv, Edit
  PROVE  IInv'
<1>1. content' \in [Target -> Contents]
  BY DEF IInv, WorldInv, Edit, Contents
<1> QED
  BY <1>1, WorldStep DEF Edit

LEMMA LapseStep ==
  ASSUME IInv, Lapse
  PROVE  IInv'
  BY WorldStep DEF IInv, WorldInv, Lapse

\* The process ends: nothing is left of the session but the record.
LEMMA CrashStep ==
  ASSUME IInv, Crash
  PROVE  IInv'
<1>1. Onwards
  BY GoesOnwards DEF IInv, Crash
<1>2. WorldInv'
  <2>1. faults' \in 0 .. MaxFaults
    BY BoundsAssumption DEF IInv, WorldInv, Crash
  <2>2. head' \in 1 .. faults' + 1
    BY DEF IInv, WorldInv, Crash, worldVars
  <2>3. turn' \in Turns /\ content' = content /\ cancelled' = cancelled /\ created' = created
    BY DEF Crash, Turns, worldVars
  <2> QED
    BY <2>1, <2>2, <2>3 DEF IInv, WorldInv, Crash
<1>3. AgenticInv'
  BY NothingStands DEF AgenticInv, Crash
<1>4. LoopInv'
  BY <1>1, LoopGone DEF IInv, WorldInv, WritesInv, Crash, Onwards
<1>5. WorkInv'
  BY WorkGone DEF Crash, Working
<1>6. StoreInv'
  <2>1. store' # NoRecord => durable' /\ store'.mission.id \in 1 .. created'
    BY DEF IInv, StoreInv, Crash
  <2>2. MissionStands(store'.mission) /\ LoopStands(store'.loop) /\ PlanFollows(store'.loop)
    BY DEF IInv, StoreInv, Crash
  <2>3. ASSUME store'.loop # NoLoop
        PROVE  /\ store'.loop.mission = store'.mission
               /\ Len(store'.mission.events) + (IF alive' THEN 0 ELSE 1)
                    <= Spent(store'.loop) + faults'
               /\ store'.loop.state \in Live => Settled(store.loop)'
               /\ turn' \notin Working
    <3>1. store'.loop.mission = store'.mission
      BY <2>3 DEF IInv, StoreInv, Crash
    <3>2. PICK x \in Nat, s \in Nat, p \in Nat :
            x = Len(store.mission.events) /\ s = Spent(store.loop) /\ p = faults
      BY <1>1, <2>2, MissionNumbers, LoopFields, SpentFacts DEF Crash, Onwards
    <3>3. x + 0 <= s + p
      BY <2>3, <3>2 DEF IInv, StoreInv, Crash
    <3>4. x + 1 <= s + (p + 1)
      BY <3>3
    <3>5. Len(store'.mission.events) + 1 <= Spent(store'.loop) + faults'
      BY <3>2, <3>4 DEF Crash
    <3>6. store'.loop.state \in Live => Settled(store.loop)'
      BY <2>3, RecordQuiet, SettledLater DEF IInv, Crash
    <3> QED
      BY <3>1, <3>5, <3>6 DEF Crash, Working
  <2>4. ~alive'
    BY DEF Crash
  <2> QED
    BY <2>1, <2>2, <2>3, <2>4 DEF StoreInv
<1>7. WritesInv'
  BY <1>1, WritesKept DEF IInv, Crash
<1> QED
  BY <1>2, <1>3, <1>4, <1>5, <1>6, <1>7 DEF IInv

\* A repair is asked for, or cannot be prepared.
LEMMA AskStep ==
  ASSUME IInv, PrepareRepair \/ PrepareFails
  PROVE  IInv'
<1>1. Onwards
  BY GoesOnwards DEF IInv, PrepareRepair, PrepareFails
<1>2. turn \notin Working /\ turn' \in {"prepare", "idle"}
  BY DEF PrepareRepair, PrepareFails, Listens, Idle, Working
<1>3. WorldInv'
  BY <1>2 DEF IInv, WorldInv, PrepareRepair, PrepareFails, Turns, worldVars, Listens, Idle
<1>4. AgenticInv'
  BY <1>1, <1>2, AgenticKept DEF IInv, PrepareRepair, PrepareFails
<1>5. LoopInv'
  BY <1>1, <1>2, LoopKept, LoopQuiet DEF IInv, PrepareRepair, PrepareFails
<1>6. WorkInv'
  BY <1>2, WorkGone DEF IInv, WorkInv, Working, PrepareRepair, PrepareFails
<1>7. StoreInv'
  <2>1. LoopStands(loop) /\ alive \in BOOLEAN
    BY DEF IInv, LoopInv, WorldInv
  <2>2. turn' \notin Working
    BY <1>2 DEF Working
  <2>3. Len(loop.mission.events) <= Len(loop'.mission.events)
    BY <2>1, LoopFields, SpentFacts DEF PrepareRepair, PrepareFails
  <2> QED
    BY <1>1, <2>1, <2>2, <2>3, StoreKept, RecordQuiet
    DEF IInv, Onwards, PrepareRepair, PrepareFails
<1>8. WritesInv'
  BY <1>1, WritesKept DEF IInv, PrepareRepair, PrepareFails
<1> QED
  BY <1>3, <1>4, <1>5, <1>6, <1>7, <1>8 DEF IInv

-----------------------------------------------------------------------------
\* The actions on the current mission.

\* A line about the current mission, which leaves the loop as it is.
LEMMA MissionStep ==
  ASSUME IInv, alive, turn \notin Working, turn' \in {"idle", "read"},
         created' = created \/ (created < MaxMissions /\ created' = created + 1),
         UNCHANGED <<durable, alive, loop, work, auto, trusted, worldVars, faults, writes,
                     cancelled>>,
         MissionStands(agentic'), agentic' = NoMission \/ agentic'.id \in 1 .. created',
         turn' = "read" => \E i \in DOMAIN agentic'.plan : agentic'.plan[i].status = "ACTIVE",
         store' = store \/ (Persist(agentic', loop) /\ agentic'.id \in 1 .. created')
  PROVE  IInv'
<1>1. Onwards
  BY GoesOnwards DEF IInv
<1>2. turn' \notin Working /\ turn' # "investigate" /\ turn' # "prepare"
  BY DEF Working
<1>3. WorldInv'
  <2>1. created' \in 0 .. MaxMissions /\ cancelled' \subseteq 1 .. created'
    BY <1>1, BoundsAssumption DEF IInv, WorldInv, Onwards
  <2>2. turn' \in Turns
    BY DEF Turns
  <2> QED
    BY <2>1, <2>2 DEF IInv, WorldInv, worldVars
<1>4. AgenticInv'
  BY DEF AgenticInv
<1>5. LoopInv'
  BY <1>1, <1>2, LoopKept, LoopQuiet DEF IInv
<1>6. WorkInv'
  BY <1>2, WorkGone DEF IInv, WorkInv
<1>7. StoreInv'
  <2>1. LoopStands(loop) /\ PlanFollows(loop) /\ alive \in BOOLEAN
    BY DEF IInv, LoopInv, WorldInv
  <2>2. Len(loop.mission.events) <= Len(loop'.mission.events)
    BY <2>1, LoopFields, SpentFacts
  <2>3. store' = store => StoreInv'
    BY <1>1, <1>2, <2>1, <2>2, StoreKept, RecordQuiet DEF IInv, Onwards
  <2>4. Len(loop'.mission.events) <= Spent(loop') + faults'
    BY DEF IInv, LoopInv
  <2>5. loop'.state \in Live => Settled(loop)'
    BY LoopQuiet, SettledLater DEF IInv
  <2> QED
    BY <1>1, <1>2, <2>1, <2>3, <2>4, <2>5, Persisted DEF Onwards
<1>8. WritesInv'
  BY <1>1, WritesKept DEF IInv
<1> QED
  BY <1>3, <1>4, <1>5, <1>6, <1>7, <1>8 DEF IInv

LEMMA ListensIs ==
  ASSUME Listens \/ Idle
  PROVE  alive /\ turn = "idle" /\ turn \notin Working
  BY DEF Listens, Idle, Working

LEMMA ResumeStep ==
  ASSUME IInv, ResumeMission
  PROVE  IInv'
<1>1. alive /\ turn \notin Working /\ turn' = "idle"
  BY ListensIs DEF ResumeMission
<1>2. MissionStands(agentic) /\ agentic.id \in 1 .. created
  BY DEF IInv, AgenticInv, ResumeMission
<1>3. MissionStands(agentic') /\ agentic'.id = agentic.id
  BY <1>2, Resumed DEF ResumeMission
<1> QED
  BY <1>1, <1>2, <1>3, MissionStep DEF ResumeMission

\* The step that is left is blocked, when there is exactly one.
LEMMA StaleStands ==
  ASSUME NEW m, Stands(m)
  PROVE  Stands(Stale(m)) /\ Follows(m, Stale(m), 1)
<1>1. "STALE_STATE" \in StepResults \ {"SUCCESS", "PASSED"}
  BY DEF StepResults, Classes
<1>2. CASE Cardinality(PendingSteps(m)) = 1
  <2>1. PICK kind, n : kind = FirstPending(m).kind /\ n = FirstPending(m).n
    OBVIOUS
  <2>2. Stale(m) = UpdateStep(m, kind, n, "BLOCKED", "STALE_STATE")
    BY <1>2, <2>1 DEF Stale
  <2> QED
    BY <1>1, <2>2, StepBlocked
<1>3. CASE Cardinality(PendingSteps(m)) # 1
  <2>1. Stale(m) = m
    BY <1>3 DEF Stale
  <2>2. Len(m.events) \in Nat
    BY StandsFields
  <2>3. Len(m.events) <= Len(m.events) + 1
    BY <2>2
  <2> QED
    BY <2>1, <2>2, <2>3 DEF Stands, Follows
<1> QED
  BY <1>2, <1>3

LEMMA InvalidatedStands ==
  ASSUME NEW m, Stands(m)
  PROVE  MissionStands(Invalidated(m)) /\ Invalidated(m).id = m.id
<1>1. Stands(Stale(m)) /\ Stale(m).id = m.id
  BY StaleStands DEF Follows
<1>2. "STATE_INVALIDATED" \in EventTypes /\ "BLOCKED" \in MissionStates \ {"GREEN"}
  BY DEF EventTypes, MissionStates
<1>3. PICK next : next = Append1(Stale(m), "STATE_INVALIDATED", "BLOCKED")
  OBVIOUS
<1>4. Stands(next) /\ Follows(Stale(m), next, 1) /\ next.state = "BLOCKED"
  BY <1>1, <1>2, <1>3, Appended
<1> QED
  BY <1>1, <1>3, <1>4, StandsIs DEF Invalidated, Follows

LEMMA ProjectStep ==
  ASSUME IInv, ProjectMission
  PROVE  IInv'
<1>1. alive /\ turn \notin Working /\ turn' = "idle"
  BY ListensIs DEF ProjectMission
<1>2. MissionStands(agentic) /\ agentic.id \in 1 .. created
  BY DEF IInv, AgenticInv, ProjectMission
<1>3. MissionStands(agentic') /\ agentic'.id = agentic.id
  BY <1>2, StandsIs, InvalidatedStands DEF ProjectMission
<1> QED
  BY <1>1, <1>2, <1>3, MissionStep DEF ProjectMission

LEMMA ContinueStaleStep ==
  ASSUME IInv, ContinueStale
  PROVE  IInv'
<1>1. alive /\ turn \notin Working /\ turn' = "idle"
  BY ListensIs DEF ContinueStale
<1>2. MissionStands(agentic) /\ agentic.id \in 1 .. created /\ Stands(agentic)
  BY StandsIs DEF IInv, AgenticInv, ContinueStale
<1>3. MissionStands(agentic') /\ agentic'.id = agentic.id
  <2>1. CASE agentic.state \in {"BLOCKED", "CANCELLED"}
    <3>1. agentic' = Stale(agentic)
      BY <2>1 DEF ContinueStale
    <3>2. /\ Stands(agentic') /\ agentic'.id = agentic.id
          /\ agentic'.state = "GREEN" => agentic.state = "GREEN"
      BY <1>2, <3>1, StaleStands DEF Follows
    <3> QED
      BY <2>1, <3>2, StandsIs
  <2>2. CASE agentic.state \notin {"BLOCKED", "CANCELLED"}
    BY <1>2, <2>2, InvalidatedStands DEF ContinueStale
  <2> QED
    BY <2>1, <2>2
<1>4. store' = store \/ Persist(agentic', loop)
  BY DEF ContinueStale
<1> QED
  BY <1>1, <1>2, <1>3, <1>4, MissionStep DEF ContinueStale

\* A step becomes the active one.
LEMMA StepActivated ==
  ASSUME NEW m, Stands(m), NEW kind, NEW n, m.state # "GREEN",
         \E i \in DOMAIN m.plan : Is(m.plan[i], kind, n),
         \A i \in DOMAIN m.plan : m.plan[i].status = "ACTIVE" => Is(m.plan[i], kind, n)
  PROVE  LET next == UpdateStep(m, kind, n, "ACTIVE", "NONE") IN
         /\ MissionStands(next)
         /\ next.id = m.id
         /\ \E i \in DOMAIN next.plan : next.plan[i].status = "ACTIVE"
<1>1. "ACTIVE" \in Statuses /\ "NONE" \in StepResults
  BY DEF Statuses, PlanTransitions, StepResults
<1>2. PICK next : next = UpdateStep(m, kind, n, "ACTIVE", "NONE")
  OBVIOUS
<1>3. /\ Stands(next) /\ Follows(m, next, 1)
      /\ next.plan = Marked(m.plan, kind, n, "ACTIVE", "NONE")
      /\ next.state = m.state
  BY <1>1, <1>2, Updated
<1>4. PICK i \in DOMAIN m.plan : Is(m.plan[i], kind, n)
  OBVIOUS
<1>5. i \in DOMAIN next.plan /\ next.plan[i].status = "ACTIVE"
  <2>1. m.plan[i] \in Steps
    BY <1>4, StandsFields
  <2> QED
    BY <1>3, <1>4, <2>1 DEF Marked, Steps
<1> QED
  BY <1>2, <1>3, <1>5, StandsIs DEF Follows

LEMMA ContinueStep ==
  ASSUME IInv, ContinueMission
  PROVE  IInv'
<1>1. alive /\ turn \notin Working
  BY ListensIs DEF ContinueMission
<1>2. MissionStands(agentic) /\ agentic.id \in 1 .. created /\ Stands(agentic)
  BY StandsIs DEF IInv, AgenticInv, ContinueMission
<1>3. PICK n : n = FirstPending(agentic).n
  OBVIOUS
<1>4. CanUpdateStep(agentic, "read", n, "ACTIVE") /\ Activates(agentic, n)
  BY <1>3 DEF ContinueMission
<1>5. PICK i \in DOMAIN agentic.plan : Is(agentic.plan[i], "read", n)
  BY <1>4 DEF CanUpdateStep, HasStep
<1>6. \A j \in DOMAIN agentic.plan :
        agentic.plan[j].status = "ACTIVE" => Is(agentic.plan[j], "read", n)
  BY <1>4 DEF CanUpdateStep
<1>7. agentic.state # "GREEN"
  <2>1. PICK j \in DOMAIN agentic.plan : agentic.plan[j].status = "PENDING"
    <3>1. Cardinality(PendingSteps(agentic)) # 0
      BY DEF ContinueMission, Continuation
    <3>2. PendingSteps(agentic) # {}
      BY <3>1, FS_EmptySet
    <3> QED
      BY <3>2 DEF PendingSteps, StepsThatAre
  <2> QED
    BY <1>2, <2>1 DEF MissionStands, QualifiedLast, CanCompleteGreen
<1>8. /\ MissionStands(agentic') /\ agentic'.id = agentic.id
      /\ \E j \in DOMAIN agentic'.plan : agentic'.plan[j].status = "ACTIVE"
  BY <1>2, <1>4, <1>5, <1>6, <1>7, StepActivated DEF Activates
<1>9. turn' \in {"idle", "read"} /\ Persist(agentic', loop)
  BY <1>4 DEF Activates
<1> QED
  BY <1>1, <1>2, <1>8, <1>9, MissionStep DEF ContinueMission

LEMMA ReadPlan ==
  ASSUME NEW plan, plan = <<Step("read", 1, "PENDING"), Step("read", 2, "PENDING")>>
  PROVE  /\ plan \in Seq(Steps)
         /\ NormalPlan(plan)
         /\ 1 \in DOMAIN plan /\ Is(plan[1], "read", 1)
         /\ \A i \in DOMAIN plan : plan[i].status # "ACTIVE"
<1>1. PICK s1 \in Steps, s2 \in Steps :
        /\ s1 = Step("read", 1, "PENDING") /\ s2 = Step("read", 2, "PENDING")
        /\ s1.kind = "read" /\ s1.n = 1 /\ s1.status = "PENDING"
        /\ s2.kind = "read" /\ s2.n = 2 /\ s2.status = "PENDING"
  <2>1. "read" \in Kinds /\ "PENDING" \in Statuses
    BY DEF Kinds, Statuses, PlanTransitions
  <2>2. /\ Step("read", 1, "PENDING") \in Steps
        /\ Step("read", 1, "PENDING").kind = "read"
        /\ Step("read", 1, "PENDING").n = 1
        /\ Step("read", 1, "PENDING").status = "PENDING"
    BY <2>1, StepIsStep
  <2>3. /\ Step("read", 2, "PENDING") \in Steps
        /\ Step("read", 2, "PENDING").kind = "read"
        /\ Step("read", 2, "PENDING").n = 2
        /\ Step("read", 2, "PENDING").status = "PENDING"
    BY <2>1, StepIsStep
  <2> QED
    BY <2>2, <2>3
<1>2. /\ plan \in Seq(Steps) /\ Len(plan) = 2 /\ DOMAIN plan = 1 .. 2
      /\ plan[1] = s1 /\ plan[2] = s2
  BY <1>1
<1>3. \A i \in DOMAIN plan : i = 1 \/ i = 2
  BY <1>2
<1>4. \A i, j \in DOMAIN plan : Is(plan[i], plan[j].kind, plan[j].n) => i = j
  BY <1>1, <1>2, <1>3 DEF Is
<1>5. \A i \in DOMAIN plan : plan[i].status = "PENDING"
  BY <1>1, <1>2, <1>3
<1>6. Len(plan) <= PlanBound
  BY <1>2 DEF PlanBound
<1>7. NormalPlan(plan)
  <2>1. PlainlyNormal(plan)
    BY ONLY <1>4, <1>5, <1>6 DEF PlainlyNormal
  <2> QED
    BY <1>2, <2>1, NormalIsPlain
<1> QED
  BY <1>1, <1>2, <1>5, <1>7 DEF Is

LEMMA AskGatewayStep ==
  ASSUME IInv, AskGateway
  PROVE  IInv'
<1>1. alive /\ turn \notin Working
  BY ListensIs DEF AskGateway
<1>2. PICK plan : plan = <<Step("read", 1, "PENDING"), Step("read", 2, "PENDING")>>
  OBVIOUS
<1>3. PICK m : m = NewMission(created', head, plan, {}, ReadCapabilities)
  OBVIOUS
<1>4. Activates(m, 1)
  BY <1>2, <1>3 DEF AskGateway
<1>5. MissionStands(m) /\ m.id = created' /\ m.plan = plan /\ m.state = "PLANNING"
  <2>1. created' \in Nat /\ head \in Nat
    BY BoundsAssumption DEF IInv, WorldInv, AskGateway
  <2>2. {} \in SUBSET Grants /\ ReadCapabilities \in SUBSET Operations
    BY DEF ReadCapabilities, Operations
  <2> QED
    BY <1>2, <1>3, <2>1, <2>2, ReadPlan, NewMissionStands
<1>6. /\ MissionStands(agentic') /\ agentic'.id = created'
      /\ \E j \in DOMAIN agentic'.plan : agentic'.plan[j].status = "ACTIVE"
  <2>1. Stands(m) /\ m.state # "GREEN"
    BY <1>5, StandsIs
  <2> QED
    BY <1>2, <1>4, <1>5, <2>1, ReadPlan, StepActivated DEF Activates
<1>7. turn' \in {"idle", "read"} /\ Persist(agentic', loop)
  BY <1>4 DEF Activates
<1>8. created' \in 1 .. created'
  BY BoundsAssumption DEF IInv, WorldInv, AskGateway
<1> QED
  BY <1>1, <1>6, <1>7, <1>8, MissionStep DEF AskGateway

LEMMA ReadStep ==
  ASSUME IInv, NEW outcome, ReadWorkspace(outcome)
  PROVE  IInv'
<1>1. alive /\ turn \notin Working /\ turn' = "idle"
  BY DEF ReadWorkspace, Working
<1>2. PICK answer :
        answer = Dispatch(Request(agentic, "workspace.read", NoTarget, "none", "none"), agentic,
                          World(outcome))
  OBVIOUS
<1>3. PICK n : n = agentic.plan[CHOOSE i \in DOMAIN agentic.plan :
                                  agentic.plan[i].status = "ACTIVE"].n
  OBVIOUS
<1>4. MissionStands(agentic) /\ Stands(agentic)
  BY StandsIs DEF IInv, AgenticInv
<1>5. agentic.id \in 1 .. created /\ agentic.state # "GREEN"
  <2>1. PICK i \in DOMAIN agentic.plan : agentic.plan[i].status = "ACTIVE"
    BY DEF IInv, AgenticInv, ReadWorkspace
  <2>2. agentic # NoMission
    BY <2>1, NothingStands
  <2> QED
    BY <1>4, <2>1, <2>2
    DEF IInv, AgenticInv, MissionStands, QualifiedLast, CanCompleteGreen
<1>6. Stands(answer.mission) /\ Follows(agentic, answer.mission, 2) /\ answer.class \in Classes
  <2>1. "workspace.read" \in Operations
    BY DEF Operations
  <2> QED
    BY <1>2, <1>4, <2>1, Answers
<1>7. CASE answer.mission.state = "CANCELLED"
  <2>1. agentic' = agentic /\ store' = store
    BY <1>2, <1>7 DEF ReadWorkspace
  <2> QED
    BY <1>1, <1>4, <1>5, <2>1, MissionStep DEF ReadWorkspace
<1>8. CASE answer.mission.state # "CANCELLED"
  <2>1. /\ agentic' = RecordPlanResult(answer.mission, "read", n, answer.class)
        /\ Persist(agentic', loop)
    BY <1>2, <1>3, <1>8 DEF ReadWorkspace
  <2>2. answer.mission.state # "GREEN" /\ answer.mission.id = agentic.id
    BY <1>5, <1>6 DEF Follows
  <2>3. MissionStands(agentic') /\ agentic'.id = agentic.id
    <3>1. CASE answer.class = "SUCCESS"
      <4>1. agentic' = UpdateStep(answer.mission, "read", n, "COMPLETED", "SUCCESS")
        BY <2>1, <3>1 DEF RecordPlanResult
      <4>2. "COMPLETED" \in Statuses /\ "SUCCESS" \in StepResults
        BY DEF Statuses, PlanTransitions, StepResults, Classes
      <4>3. Stands(agentic') /\ Follows(answer.mission, agentic', 1)
        BY <1>6, <4>1, <4>2, Updated
      <4> QED
        BY <2>2, <4>3, StandsIs DEF Follows
    <3>2. CASE answer.class # "SUCCESS"
      <4>1. PICK blocked : blocked = UpdateStep(answer.mission, "read", n, "BLOCKED", answer.class)
        OBVIOUS
      <4>2. agentic' = IF blocked.state = "BLOCKED" THEN blocked ELSE Block(blocked)
        BY <2>1, <3>2, <4>1 DEF RecordPlanResult
      <4>3. answer.class \in StepResults \ {"SUCCESS", "PASSED"}
        BY <1>6, <3>2 DEF StepResults, Classes
      <4>4. Stands(blocked) /\ Follows(answer.mission, blocked, 1)
        BY <1>6, <4>1, <4>3, StepBlocked
      <4>5. MissionStands(blocked) /\ blocked.id = agentic.id
        BY <2>2, <4>4, StandsIs DEF Follows
      <4>6. MissionStands(Block(blocked)) /\ Block(blocked).id = blocked.id
        BY <4>4, Blocked, StandsIs DEF Follows
      <4> QED
        BY <4>2, <4>5, <4>6
    <3> QED
      BY <3>1, <3>2
  <2> QED
    BY <1>1, <1>5, <2>1, <2>3, MissionStep DEF ReadWorkspace
<1> QED
  BY <1>7, <1>8

-----------------------------------------------------------------------------
\* The actions on the loop between two physical operations.

\* A step of the loop between two physical operations.
LEMMA LoopStep ==
  ASSUME IInv, alive, turn \notin Working, turn' \in {"idle", "prepare"},
         turn' = "prepare" => loop'.state = "READY_FOR_REPAIR",
         UNCHANGED <<durable, alive, work, worldVars, created, faults, writes, cancelled>>,
         trusted' \in BOOLEAN, auto' \in BOOLEAN,
         loop # NoLoop, loop.state \in Live, loop'.state \in Live \union {"BLOCKED"},
         LoopStands(loop'), PlanFollows(loop'), loop'.attempts = loop.attempts,
         loop'.mission.id = loop.mission.id,
         Len(loop.mission.events) <= Len(loop'.mission.events),
         Len(loop'.mission.events) <= Spent(loop') + faults,
         agentic' = loop'.mission,
         NEW m, MissionStands(m), m.id = loop.mission.id, NEW l, l = NoLoop \/ l = loop',
         Persist(m, l)
  PROVE  IInv'
<1>1. Onwards /\ created' = created /\ faults' = faults
  BY GoesOnwards DEF IInv
<1>2. turn' \notin Working /\ turn' # "investigate"
  BY DEF Working
<1>3. loop.mission.id \in 1 .. created /\ LoopStands(loop)
  BY DEF IInv, LoopInv
<1>4. Quiet(loop', writes', cancelled')
  BY LoopQuiet, QuietLike DEF IInv
<1>5. WorldInv'
  <2>1. turn' \in Turns
    BY DEF Turns
  <2> QED
    BY <1>1, <2>1 DEF IInv, WorldInv, worldVars
<1>6. AgenticInv'
  <2>1. MissionStands(agentic') /\ agentic'.id \in 1 .. created'
    BY <1>1, <1>3 DEF LoopStands
  <2>2. turn' # "read"
    OBVIOUS
  <2> QED
    BY <2>1, <2>2 DEF AgenticInv
<1>7. LoopInv'
  <2>1. turn' = "prepare" => loop' # NoLoop
    BY NothingStands
  <2>2. Settled(loop)'
    BY <1>4, SettledLater
  <2> QED
    BY <1>1, <1>2, <1>3, <2>1, <2>2 DEF LoopInv
<1>8. WorkInv'
  BY <1>2, WorkGone DEF IInv, WorkInv
<1>9. StoreInv'
  <2>1. alive \in BOOLEAN
    BY DEF IInv, WorldInv
  <2>2. loop'.state \notin {"GREEN", "CANCELLED"}
    BY DEF Live
  <2>3. store' = store => StoreInv'
    BY <1>1, <1>2, <1>3, <2>1, <2>2, StoreKept, RecordQuiet DEF IInv, Onwards
  <2>4. loop'.state \in Live => Settled(loop)'
    BY <1>4, SettledLater
  <2>5. m.id \in 1 .. created' /\ faults' \in Nat
    BY <1>1, <1>3 DEF Onwards
  <2> QED
    BY <1>1, <1>2, <2>3, <2>4, <2>5, Persisted
<1>10. WritesInv'
  BY <1>1, WritesKept DEF IInv
<1> QED
  BY <1>5, <1>6, <1>7, <1>8, <1>9, <1>10 DEF IInv

\* A new loop, whose mission is later than every recorded one, so that the store takes it.
LEMMA NewLoopSaves ==
  ASSUME IInv, created < MaxMissions
  PROVE  LET new == CreatedLoop(created + 1, head) IN Saves(new.mission, new)
<1>1. PICK new : new = CreatedLoop(created + 1, head)
  OBVIOUS
<1>2. created \in Nat /\ created + 1 \in Nat /\ head \in Nat
  BY BoundsAssumption DEF IInv, WorldInv
<1>3. /\ LoopStands(new) /\ PlanFollows(new) /\ new.state = "INVESTIGATING"
      /\ new.mission.id = created + 1 /\ Len(new.mission.events) = 2
      /\ MissionStands(new.mission)
  <2>1. /\ LoopStands(new) /\ PlanFollows(new) /\ new.state = "INVESTIGATING"
        /\ new.mission.id = created + 1 /\ Len(new.mission.events) = 2
        /\ new.attempts = <<>> /\ ~new.request
    BY <1>1, <1>2, CreatedLoopStands
  <2>2. MissionStands(new.mission)
    BY <2>1 DEF LoopStands
  <2> QED
    BY <2>1, <2>2
<1>4. PICK c : c = Checkpoint(new.mission, new)
  OBVIOUS
<1>5. new # NoLoop
  BY <1>2, <1>3, NothingStands
<1>6. c.mission = ForDurableRestart(new.mission) /\ c.loop = LoopForRestart(new)
  BY <1>4, <1>5 DEF Checkpoint
<1>7. /\ MissionStands(c.mission) /\ c.mission.id = created + 1
      /\ Len(c.mission.events) = 2 /\ c.mission.grants = {} /\ c.mission.used = {}
  BY <1>3, <1>6, DurableMission
<1>8. Rehydrates(c.mission)
  <2>1. Len(c.mission.events) \in 1 .. HistoryBound
    BY <1>7 DEF HistoryBound
  <2> QED
    BY <1>7, <2>1 DEF Rehydrates, MissionStands
<1>9. ReadsBack(c.loop)
  <2>1. /\ LoopStands(c.loop) /\ c.loop.state = "INVESTIGATING"
        /\ ~c.loop.request /\ ~c.loop.authority
    BY <1>3, <1>6, DurableLoop
  <2>2. Len(c.loop.attempts) <= AttemptCeiling
    BY <2>1 DEF LoopStands
  <2> QED
    BY <2>1, <2>2 DEF ReadsBack, ValidLoop, LoopStates
<1>10. Accepts(c)
  <2>1. CASE store # NoRecord
    <3>1. store.mission.id \in 1 .. created
      BY <2>1 DEF IInv, StoreInv
    <3>2. c.mission.id > store.mission.id
      BY <1>2, <1>7, <3>1
    <3> QED
      BY <3>2 DEF Accepts
  <2>2. CASE store = NoRecord
    BY <2>2 DEF Accepts
  <2> QED
    BY <2>1, <2>2
<1> QED
  BY <1>1, <1>4, <1>8, <1>9, <1>10 DEF Saves

\* No record is written without durable continuity.
LEMMA NothingDurable ==
  ASSUME StoreInv, ~durable
  PROVE  store.loop = NoLoop
<1>1. store = NoRecord
  BY DEF StoreInv
<1> QED
  BY <1>1 DEF NoRecord

LEMMA StartStep ==
  ASSUME IInv, StartRepair
  PROVE  IInv'
<1>1. Onwards
  BY GoesOnwards DEF IInv, StartRepair
<1>2. alive /\ turn \notin Working /\ turn' = "investigate" /\ turn' \notin Working
  BY ListensIs DEF StartRepair, Working
<1>3. PICK new : new = CreatedLoop(created + 1, head)
  OBVIOUS
<1>4. created \in Nat /\ created + 1 \in Nat /\ head \in Nat
  BY BoundsAssumption DEF IInv, WorldInv
<1>5. /\ LoopStands(new) /\ PlanFollows(new) /\ new.state = "INVESTIGATING"
      /\ new.mission.id = created + 1 /\ Len(new.mission.events) = 2
      /\ new.attempts = <<>> /\ ~new.request /\ MissionStands(new.mission)
  <2>1. /\ LoopStands(new) /\ PlanFollows(new) /\ new.state = "INVESTIGATING"
        /\ new.mission.id = created + 1 /\ Len(new.mission.events) = 2
        /\ new.attempts = <<>> /\ ~new.request
    BY <1>3, <1>4, CreatedLoopStands
  <2>2. MissionStands(new.mission)
    BY <2>1 DEF LoopStands
  <2> QED
    BY <2>1, <2>2
<1>6. /\ loop' = new /\ agentic' = new.mission /\ created' = created + 1
      /\ Persist(new.mission, new) /\ created < MaxMissions
  BY <1>3 DEF StartRepair
<1>7. new # NoLoop /\ new.mission.id \in 1 .. created'
  BY <1>4, <1>5, <1>6, NothingStands
<1>8. WorldInv'
  <2>1. created' \in 0 .. MaxMissions /\ cancelled' \subseteq 1 .. created'
    BY <1>4, <1>6, BoundsAssumption DEF IInv, WorldInv, StartRepair
  <2>2. turn' \in Turns
    BY <1>2 DEF Turns
  <2> QED
    BY <1>2, <2>1, <2>2 DEF IInv, WorldInv, worldVars, StartRepair
<1>9. AgenticInv'
  BY <1>2, <1>5, <1>6, <1>7 DEF AgenticInv
<1>10. Quiet(new, writes, cancelled)
  <2>1. PICK made : made = {i \in DOMAIN writes : writes[i][1] = new.mission.id}
    OBVIOUS
  <2>2. made = {}
    <3>1. \A i \in DOMAIN writes : writes[i] \in (1 .. created) \X Target
      BY DEF IInv, WritesInv
    <3>2. \A i \in DOMAIN writes : writes[i][1] \in 1 .. created
      BY <3>1
    <3>3. created + 1 \notin 1 .. created
      BY <1>4
    <3> QED
      BY <1>5, <2>1, <3>2, <3>3
  <2>3. Cardinality(made) <= Len(new.attempts)
    BY <1>5, <2>2, FS_EmptySet
  <2>4. {writes[i][2] : i \in made} \subseteq Attempted(new)
    BY <2>2
  <2>5. new.mission.id \notin cancelled
    <3>1. cancelled \subseteq 1 .. created
      BY DEF IInv, WorldInv
    <3> QED
      BY <1>4, <1>5, <3>1
  <2> QED
    BY <2>1, <2>3, <2>4, <2>5 DEF Quiet
<1>11. Settled(loop)'
  BY <1>6, <1>10, SettledLater DEF StartRepair
<1>12. Len(loop'.mission.events) <= Spent(loop') + faults'
  <2>1. PICK zero \in Nat : zero = 0 /\ zero = Len(new.attempts)
    BY <1>5
  <2>2. PICK s \in Nat, y \in Nat : s = Spent(new) /\ s = 17 * zero + 1 + 1 /\ y = faults'
    BY <1>1, <1>5, <2>1, SpentFacts DEF Onwards
  <2>3. s = 2
    BY <2>1, <2>2
  <2>4. 2 <= s + y
    BY <2>3
  <2> QED
    BY <1>5, <1>6, <2>2, <2>4
<1>13. LoopInv'
  BY <1>2, <1>5, <1>6, <1>7, <1>11, <1>12 DEF LoopInv
<1>14. WorkInv'
  BY <1>2, WorkGone DEF IInv, WorkInv, StartRepair
<1>15. StoreInv'
  <2>1. ASSUME store' = store, ~durable
        PROVE  StoreInv'
    <3>1. store.loop = NoLoop
      BY <2>1, NothingDurable DEF IInv
    <3>2. alive \in BOOLEAN /\ LoopStands(loop)
      BY DEF IInv, WorldInv, LoopInv
    <3> QED
      BY <1>1, <1>2, <1>5, <1>6, <2>1, <3>1, <3>2, StoreKept DEF IInv, Onwards, StartRepair
  <2>2. CASE ~durable
    <3>1. store' = store
      BY <1>6, <2>2 DEF Persist
    <3> QED
      BY <2>1, <2>2, <3>1
  <2>3. CASE durable
    <3>1. Saves(new.mission, new)
      BY <1>3, <1>6, NewLoopSaves
    <3>2. store' = [mission |-> ForDurableRestart(loop'.mission),
                    loop |-> LoopForRestart(loop')]
      BY <1>6, <1>7, <2>3, <3>1 DEF Persist, Checkpoint
    <3> QED
      BY <1>1, <1>2, <1>5, <1>6, <1>7, <1>11, <1>12, <2>3, <3>2, StoreWithLoop
      DEF Onwards, StartRepair
  <2> QED
    BY <2>2, <2>3
<1>16. WritesInv'
  BY <1>1, WritesKept DEF IInv, StartRepair
<1> QED
  BY <1>8, <1>9, <1>13, <1>14, <1>15, <1>16 DEF IInv

\* The numbers of a loop: its attempts, its history, what is accounted for, its authority.
LEMMA LoopNumbers ==
  ASSUME NEW l, LoopStands(l)
  PROVE  \E a \in Nat, x \in Nat, s \in Nat, b \in Nat :
           /\ a = Len(l.attempts) /\ x = Len(l.mission.events) /\ s = Spent(l) /\ b = Bit(l)
           /\ b <= 1 /\ a <= AttemptCeiling
<1>1. PICK a \in Nat : a = Len(l.attempts)
  BY LoopFields
<1> QED
  BY <1>1, SpentFacts

LEMMA FaultsAre ==
  ASSUME WorldInv
  PROVE  \E f \in Nat : f = faults /\ f <= MaxFaults
<1>1. faults \in 0 .. MaxFaults /\ MaxFaults \in Nat
  BY BoundsAssumption DEF WorldInv
<1> QED
  BY <1>1

LEMMA LoopBudget ==
  ASSUME LoopInv
  PROVE  Len(loop.mission.events) <= Spent(loop) + faults
  BY DEF LoopInv

LEMMA InvestigateStep ==
  ASSUME IInv, Investigate
  PROVE  IInv'
<1>1. /\ alive /\ turn \notin Working /\ turn' \in {"idle", "prepare"}
      /\ turn' # "prepare" /\ loop # NoLoop /\ loop.state = "INVESTIGATING"
      /\ LoopStands(loop) /\ PlanFollows(loop)
  BY DEF IInv, LoopInv, Investigate, Working
<1>2. PICK w : loop' = Investigated(loop, w)
  BY DEF Investigate
<1>3. /\ GoesOn(loop, loop', 6)
      /\ PlanFollows(loop')
      /\ loop'.attempts = loop.attempts
      /\ \/ /\ loop'.state = "READY_FOR_REPAIR"
            /\ Len(loop'.mission.events) <= Len(loop.mission.events) + 4
         \/ loop'.state = "BLOCKED" /\ ~loop'.request
  BY <1>1, <1>2, InvestigatedLoop
<1>4. /\ LoopStands(loop') /\ loop'.mission.id = loop.mission.id
      /\ Len(loop.mission.events) <= Len(loop'.mission.events)
      /\ Len(loop'.mission.events) <= Len(loop.mission.events) + 6
  BY <1>3 DEF GoesOn
<1>5. Len(loop'.mission.events) <= Spent(loop') + faults
  <2>1. PICK a \in Nat, x \in Nat, s \in Nat, b \in Nat :
          /\ a = Len(loop.attempts) /\ x = Len(loop.mission.events) /\ s = Spent(loop)
          /\ b = Bit(loop) /\ b <= 1
    BY <1>1, LoopNumbers
  <2>2. PICK y \in Nat, t \in Nat, c \in Nat :
          y = Len(loop'.mission.events) /\ t = Spent(loop') /\ c = Bit(loop') /\ c <= 1
    BY <1>4, LoopNumbers
  <2>3. PICK f \in Nat : f = faults
    BY FaultsAre DEF IInv
  <2>4. s = 17 * a + 1 + b
    BY <1>1, <2>1, SpentFacts
  <2>5. x <= s + f
    BY <2>1, <2>3, LoopBudget DEF IInv
  <2>6. b <= 1
    BY <2>1
  <2>7. CASE loop'.state = "READY_FOR_REPAIR"
    <3>1. t = 17 * a + 6 + c
      BY <1>3, <1>4, <2>1, <2>2, <2>7, SpentFacts
    <3>2. y <= x + 4
      BY <1>3, <2>1, <2>2, <2>7
    <3>3. y <= t + f
      BY <2>4, <2>5, <2>6, <3>1, <3>2
    <3> QED
      BY <2>2, <2>3, <3>3
  <2>8. CASE loop'.state = "BLOCKED"
    <3>1. t = 17 * a + 24 + c
      BY <1>3, <1>4, <2>1, <2>2, <2>8, SpentFacts
    <3>2. y <= x + 6
      BY <1>4, <2>1, <2>2
    <3>3. y <= t + f
      BY <2>4, <2>5, <2>6, <3>1, <3>2
    <3> QED
      BY <2>2, <2>3, <3>3
  <2> QED
    BY <1>3, <2>7, <2>8
<1>6. /\ loop.state \in Live /\ loop'.state \in Live \union {"BLOCKED"}
      /\ trusted' \in BOOLEAN /\ auto' \in BOOLEAN
  BY <1>1, <1>3 DEF Live, IInv, WorldInv, Investigate
<1>7. MissionStands(loop'.mission) /\ Persist(loop'.mission, loop') /\ agentic' = loop'.mission
  BY <1>4 DEF LoopStands, Investigate
<1> QED
  BY <1>1, <1>3, <1>4, <1>5, <1>6, <1>7, LoopStep DEF Investigate

LEMMA AuthorizeStep ==
  ASSUME IInv, AuthorizeMission
  PROVE  IInv'
<1>1. /\ alive /\ turn \notin Working /\ turn' \in {"idle", "prepare"}
      /\ loop # NoLoop /\ loop.state = "READY_FOR_REPAIR" /\ loop.request /\ ~loop.authority
      /\ LoopStands(loop) /\ PlanFollows(loop)
  BY ListensIs DEF IInv, LoopInv, AuthorizeMission, CanAuthorizeMission
<1>2. loop' = MissionAuthorized(loop)
  BY DEF AuthorizeMission
<1>3. /\ GoesOn(loop, loop', 1)
      /\ PlanFollows(loop')
      /\ loop'.attempts = loop.attempts
      /\ loop'.state = "READY_FOR_REPAIR" /\ loop'.authority
  BY <1>1, <1>2, AuthorizedLoop
<1>4. /\ LoopStands(loop') /\ loop'.mission.id = loop.mission.id
      /\ Len(loop.mission.events) <= Len(loop'.mission.events)
      /\ Len(loop'.mission.events) <= Len(loop.mission.events) + 1
  BY <1>3 DEF GoesOn
<1>5. Len(loop'.mission.events) <= Spent(loop') + faults
  <2>1. PICK a \in Nat, x \in Nat, s \in Nat :
          a = Len(loop.attempts) /\ x = Len(loop.mission.events) /\ s = Spent(loop)
    BY <1>1, LoopNumbers
  <2>2. PICK y \in Nat, t \in Nat : y = Len(loop'.mission.events) /\ t = Spent(loop')
    BY <1>4, LoopNumbers
  <2>3. PICK f \in Nat : f = faults
    BY FaultsAre DEF IInv
  <2>4. Bit(loop) = 0 /\ Bit(loop') = 1
    BY <1>1, <1>3 DEF Bit
  <2>5. s = 17 * a + 6 + 0
    BY <1>1, <2>1, <2>4, SpentFacts
  <2>6. t = 17 * a + 6 + 1
    <3>1. t = 17 * a + 6 + Bit(loop')
      BY <1>3, <1>4, <2>1, <2>2, SpentFacts
    <3> QED
      BY <2>4, <3>1
  <2>7. x <= s + f /\ y <= x + 1
    BY <1>4, <2>1, <2>2, <2>3, LoopBudget DEF IInv
  <2>8. y <= t + f
    BY <2>5, <2>6, <2>7
  <2> QED
    BY <2>2, <2>3, <2>8
<1>6. /\ loop.state \in Live /\ loop'.state \in Live \union {"BLOCKED"}
      /\ trusted' \in BOOLEAN
  BY <1>1, <1>3 DEF Live, AuthorizeMission, Trusts
<1>7. auto' \in BOOLEAN
  BY DEF AuthorizeMission, Saves
<1>8. MissionStands(loop'.mission) /\ Persist(loop'.mission, loop') /\ agentic' = loop'.mission
  BY <1>2, <1>4 DEF LoopStands, AuthorizeMission
<1> QED
  BY <1>1, <1>3, <1>4, <1>5, <1>6, <1>7, <1>8, LoopStep DEF AuthorizeMission

\* A proposal for the next attempt.
LEMMA ProposalStands ==
  ASSUME IInv, turn = "prepare",
         \E t \in Target : CanPropose(loop, t) /\ loop' = Proposed(loop, t, World("done"))
  PROVE  /\ loop # NoLoop /\ loop.state \in Live /\ LoopStands(loop)
         /\ loop.mission.id \in 1 .. created
         /\ LoopStands(loop') /\ PlanFollows(loop')
         /\ loop'.attempts = loop.attempts
         /\ loop'.mission.id = loop.mission.id
         /\ loop'.state = IF loop.authority THEN "MISSION_AUTHORITY_READY"
                          ELSE "AUTHORITY_REQUIRED"
         /\ loop'.authority = loop.authority
         /\ Len(loop.mission.events) <= Len(loop'.mission.events)
         /\ Len(loop'.mission.events) <= Spent(loop') + faults
<1>1. /\ loop # NoLoop /\ loop.state = "READY_FOR_REPAIR" /\ LoopStands(loop)
      /\ PlanFollows(loop) /\ loop.mission.id \in 1 .. created
  BY DEF IInv, LoopInv
<1>2. PICK target \in Target :
        CanPropose(loop, target) /\ loop' = Proposed(loop, target, World("done"))
  OBVIOUS
<1>3. target \in Target \ Attempted(loop)
  BY <1>2 DEF CanPropose
<1>4. World("done").content \in [Target -> Contents]
  BY DEF World, IInv, WorldInv
<1>5. /\ GoesOn(loop, loop', 6)
      /\ PlanFollows(loop')
      /\ loop'.attempts = loop.attempts
      /\ loop'.state = IF loop.authority THEN "MISSION_AUTHORITY_READY"
                       ELSE "AUTHORITY_REQUIRED"
      /\ loop'.request = loop.request /\ loop'.authority = loop.authority
  BY <1>1, <1>2, <1>3, <1>4, ProposedLoop
<1>6. /\ LoopStands(loop') /\ loop'.mission.id = loop.mission.id
      /\ Len(loop.mission.events) <= Len(loop'.mission.events)
      /\ Len(loop'.mission.events) <= Len(loop.mission.events) + 6
  BY <1>5 DEF GoesOn
<1>7. Len(loop'.mission.events) <= Spent(loop') + faults
  <2>1. PICK a \in Nat, x \in Nat, s \in Nat, b \in Nat :
          /\ a = Len(loop.attempts) /\ x = Len(loop.mission.events) /\ s = Spent(loop)
          /\ b = Bit(loop)
    BY <1>1, LoopNumbers
  <2>2. PICK y \in Nat, t \in Nat : y = Len(loop'.mission.events) /\ t = Spent(loop')
    BY <1>6, LoopNumbers
  <2>3. PICK f \in Nat : f = faults
    BY FaultsAre DEF IInv
  <2>4. Bit(loop') = b /\ loop'.state \in Awaiting
    BY <1>5, <2>1 DEF Bit, Awaiting
  <2>5. s = 17 * a + 6 + b
    BY <1>1, <2>1, SpentFacts
  <2>6. t = 17 * a + 12 + b
    BY <1>5, <1>6, <2>1, <2>2, <2>4, SpentFacts
  <2>7. x <= s + f /\ y <= x + 6
    BY <1>6, <2>1, <2>2, <2>3, LoopBudget DEF IInv
  <2>8. y <= t + f
    BY <2>5, <2>6, <2>7
  <2> QED
    BY <2>2, <2>3, <2>8
<1> QED
  BY <1>1, <1>5, <1>6, <1>7 DEF Live

LEMMA ProposeStep ==
  ASSUME IInv, ProposeForApproval
  PROVE  IInv'
<1>1. /\ alive /\ turn = "prepare" /\ turn \notin Working /\ turn' = "idle" /\ ~loop.authority
      /\ \E t \in Target : CanPropose(loop, t) /\ loop' = Proposed(loop, t, World("done"))
  BY DEF ProposeForApproval, Working
<1>2. /\ loop'.state = "AUTHORITY_REQUIRED" /\ LoopStands(loop')
      /\ loop'.state \in Live \union {"BLOCKED"}
  BY <1>1, ProposalStands DEF Live
<1>3. trusted' \in BOOLEAN /\ auto' \in BOOLEAN
  BY DEF IInv, WorldInv, ProposeForApproval
<1>4. MissionStands(loop'.mission) /\ Persist(loop'.mission, loop') /\ agentic' = loop'.mission
  BY <1>2 DEF LoopStands, ProposeForApproval
<1> QED
  BY <1>1, <1>2, <1>3, <1>4, ProposalStands, LoopStep DEF ProposeForApproval

LEMMA DenyStep ==
  ASSUME IInv, DenyRepair
  PROVE  IInv'
<1>1. /\ alive /\ turn \notin Working /\ turn' = "idle" /\ loop # NoLoop
      /\ loop.state = "AUTHORITY_REQUIRED" /\ LoopStands(loop) /\ PlanFollows(loop)
  BY ListensIs DEF IInv, LoopInv, DenyRepair
<1>2. loop' = DeniedLoop(loop)
  BY DEF DenyRepair
<1>3. /\ GoesOn(loop, loop', 6)
      /\ loop'.state = "BLOCKED" /\ loop'.attempts = loop.attempts /\ ~loop'.request
      /\ PlanFollows(loop')
  BY <1>1, <1>2, RefusedLoop
<1>4. /\ LoopStands(loop') /\ loop'.mission.id = loop.mission.id
      /\ Len(loop.mission.events) <= Len(loop'.mission.events)
      /\ Len(loop'.mission.events) <= Len(loop.mission.events) + 6
  BY <1>3 DEF GoesOn
<1>5. Len(loop'.mission.events) <= Spent(loop') + faults
  <2>1. PICK a \in Nat, x \in Nat, s \in Nat, b \in Nat :
          /\ a = Len(loop.attempts) /\ x = Len(loop.mission.events) /\ s = Spent(loop)
          /\ b = Bit(loop) /\ b <= 1
    BY <1>1, LoopNumbers
  <2>2. PICK y \in Nat, t \in Nat : y = Len(loop'.mission.events) /\ t = Spent(loop')
    BY <1>4, LoopNumbers
  <2>3. PICK f \in Nat : f = faults
    BY FaultsAre DEF IInv
  <2>4. s = 17 * a + 12 + b
    BY <1>1, <2>1, SpentFacts DEF Awaiting
  <2>5. t = 17 * a + 24 + 1
    <3>1. t = 17 * a + 24 + Bit(loop')
      BY <1>3, <1>4, <2>1, <2>2, SpentFacts
    <3>2. Bit(loop') = 1
      BY <1>3 DEF Bit
    <3> QED
      BY <3>1, <3>2
  <2>6. x <= s + f /\ y <= x + 6
    BY <1>4, <2>1, <2>2, <2>3, LoopBudget DEF IInv
  <2>7. y <= t + f
    <3>1. b <= 1
      BY <2>1
    <3> QED
      BY <2>4, <2>5, <2>6, <3>1
  <2> QED
    BY <2>2, <2>3, <2>7
<1>6. /\ loop.state \in Live /\ loop'.state \in Live \union {"BLOCKED"}
      /\ trusted' \in BOOLEAN /\ auto' \in BOOLEAN
  BY <1>1, <1>3 DEF Live, IInv, WorldInv, DenyRepair
<1>7. MissionStands(loop'.mission) /\ Persist(loop'.mission, loop') /\ agentic' = loop'.mission
  BY <1>4 DEF LoopStands, DenyRepair
<1> QED
  BY <1>1, <1>3, <1>4, <1>5, <1>6, <1>7, LoopStep DEF DenyRepair

-----------------------------------------------------------------------------
\* The approval of a repair.

\* No repair mission outgrows its history.
LEMMA HistoryFits ==
  ASSUME NEW y \in Nat, NEW a \in Nat, a <= AttemptCeiling, NEW f \in Nat, f <= MaxFaults,
         y <= 17 * a + 26 + f
  PROVE  y <= HistoryBound
<1>1. PICK c \in Nat, q \in Nat, h \in Nat : c = AttemptCeiling /\ q = MaxFaults /\ h = HistoryBound
  BY AttemptCeilingAssumption, BoundsAssumption DEF HistoryBound
<1>2. 17 * c + q + 26 <= h
  BY <1>1, HistoryAssumption
<1>3. y <= h
  BY <1>1, <1>2
<1> QED
  BY <1>1, <1>3

\* A record of the mission of the loop that is later than the recorded one is taken.
LEMMA LaterSaves ==
  ASSUME StoreInv, alive, store.loop # NoLoop, LoopStands(loop),
         NEW m, MissionStands(m), m.id = loop.mission.id,
         Len(loop.mission.events) < Len(m.events), Len(m.events) <= HistoryBound,
         NEW l, ReadsBack(Checkpoint(m, l).loop)
  PROVE  Saves(m, l)
<1>1. PICK c : c = Checkpoint(m, l)
  OBVIOUS
<1>2. c.mission = ForDurableRestart(m)
  BY <1>1 DEF Checkpoint
<1>3. /\ MissionStands(c.mission) /\ c.mission.id = m.id /\ c.mission.events = m.events
      /\ c.mission.grants = {} /\ c.mission.used = {}
  BY <1>2, DurableMission
<1>4. Rehydrates(c.mission)
  <2>1. Len(c.mission.events) \in 1 .. HistoryBound
    <3>1. Len(m.events) \in Nat /\ Len(m.events) > 0
      BY MissionNumbers
    <3>2. PICK y \in Nat : y = Len(m.events) /\ y > 0
      BY <3>1
    <3>3. PICK h \in Nat : h = HistoryBound
      BY DEF HistoryBound
    <3>4. y \in 1 .. h
      BY <3>2, <3>3
    <3> QED
      BY <1>3, <3>2, <3>3, <3>4
  <2> QED
    BY <1>3, <2>1 DEF Rehydrates, MissionStands
<1>5. Accepts(c)
  <2>1. /\ loop.mission.id = store.mission.id
        /\ Len(store.mission.events) <= Len(loop.mission.events)
        /\ MissionStands(store.mission)
    BY DEF StoreInv
  <2>2. PICK x \in Nat, y \in Nat, z \in Nat :
          /\ x = Len(store.mission.events) /\ y = Len(loop.mission.events)
          /\ z = Len(c.mission.events)
    BY <1>3, <2>1, MissionNumbers, LoopFields, SpentFacts
  <2>3. x <= y /\ y < z
    BY <1>3, <2>1, <2>2
  <2>4. x < z
    BY <2>3
  <2>5. z >= x /\ z # x
    BY <2>4
  <2> QED
    BY <1>3, <2>1, <2>2, <2>5 DEF Accepts
<1> QED
  BY <1>1, <1>4, <1>5 DEF Saves

LEMMA NoLoopReadsBack ==
  ReadsBack(NoLoop)
<1>1. 0 <= AttemptCeiling
  BY AttemptCeilingAssumption
<1> QED
  BY <1>1, NothingStands DEF ReadsBack, ValidLoop, LoopStates

\* The work of a handler begins.
LEMMA GrantedWork ==
  ASSUME NEW l, LoopStands(l), PlanFollows(l), l.state \in Awaiting,
         l.mission.id \in 1 .. created', faults' \in Nat,
         Len(l.mission.events) <= Spent(l) + faults',
         Quiet(l, writes', cancelled'), work' = Granted(l), turn' = "apply"
  PROVE  /\ WorkInv'
         /\ MissionStands(work'.mission) /\ work'.mission.id = l.mission.id
         /\ Len(l.mission.events) < Len(work'.mission.events)
         /\ Len(work'.mission.events) <= Len(l.mission.events) + 3
<1>1. /\ GoesOn(l, work', 3)
      /\ Len(l.mission.events) < Len(work'.mission.events)
      /\ Underway(work', 6, 2)
      /\ work'.attempts = l.attempts
      /\ work'.state = l.state
      /\ work'.pending = l.pending
      /\ work'.request = l.request /\ work'.authority = l.authority
  BY GrantedLoop
<1>2. /\ LoopStands(work') /\ work'.mission.id = l.mission.id
      /\ Len(work'.mission.events) <= Len(l.mission.events) + 3
  BY <1>1 DEF GoesOn
<1>3. MissionStands(work'.mission)
  BY <1>2 DEF LoopStands
<1>4. Len(work'.attempts) < AttemptCeiling
  BY <1>1 DEF PlanFollows, Live, Awaiting
<1>5. work'.pending.target \in Target \ Attempted(work')
  BY <1>1 DEF PlanFollows, Attempted
<1>6. Len(work'.mission.events) <= Spent(work') + faults' + 3
  <2>1. PICK a \in Nat, x \in Nat, s \in Nat, b \in Nat :
          /\ a = Len(l.attempts) /\ x = Len(l.mission.events) /\ s = Spent(l) /\ b = Bit(l)
    BY LoopNumbers
  <2>2. PICK y \in Nat, t \in Nat : y = Len(work'.mission.events) /\ t = Spent(work')
    BY <1>2, LoopNumbers
  <2>3. PICK f \in Nat : f = faults'
    OBVIOUS
  <2>4. Bit(work') = b
    BY <1>1, <2>1 DEF Bit
  <2>5. s = 17 * a + 12 + b
    BY <2>1, SpentFacts
  <2>6. t = 17 * a + 12 + b
    <3>1. work'.state \in Awaiting /\ a = Len(work'.attempts)
      BY <1>1, <2>1
    <3>2. t = 17 * a + 12 + Bit(work')
      BY <1>2, <2>2, <3>1, SpentFacts
    <3> QED
      BY <2>4, <3>2
  <2>7. x <= s + f /\ y <= x + 3
    BY <1>2, <2>1, <2>2, <2>3
  <2>8. y <= t + f + 3
    BY <2>5, <2>6, <2>7
  <2> QED
    BY <2>2, <2>3, <2>8
<1>7. Settled(work)'
  BY <1>1, <1>2, QuietLike, SettledLater
<1>8. WorkInv'
  <2>1. "apply" \in Working
    BY DEF Working
  <2> QED
    BY <1>1, <1>2, <1>4, <1>5, <1>6, <1>7, <2>1 DEF WorkInv
<1> QED
  BY <1>1, <1>2, <1>3, <1>8

LEMMA UnderMissionStep ==
  ASSUME IInv, ProposeUnderMission
  PROVE  IInv'
<1>1. /\ alive /\ turn = "prepare" /\ turn \notin Working /\ loop.authority
      /\ \E t \in Target : CanPropose(loop, t) /\ loop' = Proposed(loop, t, World("done"))
      /\ agentic' = loop'.mission
  BY DEF ProposeUnderMission, Working
<1>2. /\ loop'.state = "MISSION_AUTHORITY_READY"
      /\ loop # NoLoop /\ loop.state \in Live /\ LoopStands(loop)
      /\ loop.mission.id \in 1 .. created
      /\ LoopStands(loop') /\ PlanFollows(loop')
      /\ loop'.attempts = loop.attempts
      /\ loop'.mission.id = loop.mission.id
      /\ Len(loop.mission.events) <= Len(loop'.mission.events)
      /\ Len(loop'.mission.events) <= Spent(loop') + faults
  BY <1>1, ProposalStands
<1>3. PICK started : started = Append1(loop.mission, "REPAIR_STARTED", "REPAIRING")
  OBVIOUS
<1>4. MissionStands(started) /\ started.id = loop.mission.id
  <2>1. "REPAIR_STARTED" \in EventTypes /\ "REPAIRING" \in MissionStates \ {"GREEN"}
    BY DEF EventTypes, MissionStates
  <2>2. Stands(loop.mission)
    BY <1>2, LoopFields
  <2>3. Stands(started) /\ Follows(loop.mission, started, 1) /\ started.state = "REPAIRING"
    BY <1>3, <2>1, <2>2, Appended
  <2> QED
    BY <2>3, StandsIs DEF Follows
<1>5. Persist(started, NoLoop) /\ trusted' \in BOOLEAN
  BY <1>3 DEF ProposeUnderMission, Trusts
<1>6. CASE ~(Saves(loop'.mission, loop') /\ Derives(loop'))
  <2>1. turn' = "idle" /\ work' = work /\ auto' = FALSE
    BY <1>6 DEF ProposeUnderMission
  <2>2. loop'.state \in Live
    BY <1>2 DEF Live
  <2> QED
    BY <1>1, <1>2, <1>4, <1>5, <2>1, <2>2, LoopStep DEF ProposeUnderMission
<1>7. CASE Saves(loop'.mission, loop') /\ Derives(loop')
  <2>1. turn' = "apply" /\ work' = Granted(loop') /\ auto' = auto
    BY <1>7 DEF ProposeUnderMission
  <2>2. ~durable
    <3>1. loop' # NoLoop
      BY <1>2, NothingStands
    <3>2. Checkpoint(loop'.mission, loop').loop = LoopForRestart(loop')
      BY <3>1 DEF Checkpoint
    <3>3. /\ LoopForRestart(loop').state = "MISSION_AUTHORITY_READY"
          /\ ~LoopForRestart(loop').authority
      BY <1>2, DurableLoop
    <3>4. ~ReadsBack(LoopForRestart(loop'))
      BY <3>3 DEF ReadsBack, ValidLoop
    <3> QED
      BY <1>7, <3>2, <3>4 DEF Saves
  <2>3. store' = store /\ store.loop = NoLoop
    BY <1>5, <2>2, NothingDurable DEF IInv, Persist
  <2>4. Onwards /\ created' = created /\ faults' = faults
    BY GoesOnwards DEF IInv, ProposeUnderMission
  <2>5. WorldInv'
    <3>1. turn' \in Turns
      BY <2>1 DEF Turns
    <3> QED
      BY <1>1, <1>5, <2>1, <3>1 DEF IInv, WorldInv, worldVars, ProposeUnderMission
  <2>6. AgenticInv'
    <3>1. MissionStands(agentic') /\ agentic'.id \in 1 .. created'
      BY <1>1, <1>2, <2>4 DEF LoopStands
    <3> QED
      BY <2>1, <3>1 DEF AgenticInv
  <2>7. turn' \in Working
    BY <2>1 DEF Working
  <2>8. LoopInv'
    BY <1>2, <2>1, <2>4, <2>7 DEF LoopInv
  <2>9. WorkInv'
    <3>1. Quiet(loop', writes', cancelled')
      BY <1>1, <1>2, LoopQuiet, QuietLike DEF IInv, ProposeUnderMission
    <3>2. loop'.state \in Awaiting /\ faults' \in Nat
      BY <1>2, <2>4 DEF Awaiting, Onwards
    <3> QED
      BY <1>2, <2>1, <2>4, <3>1, <3>2, GrantedWork
  <2>10. StoreInv'
    <3>1. alive \in BOOLEAN
      BY DEF IInv, WorldInv
    <3> QED
      BY <1>2, <2>3, <2>4, <3>1, StoreKept DEF IInv, Onwards, ProposeUnderMission
  <2>11. WritesInv'
    BY <2>4, WritesKept DEF IInv, ProposeUnderMission
  <2> QED
    BY <2>5, <2>6, <2>8, <2>9, <2>10, <2>11 DEF IInv
<1> QED
  BY <1>6, <1>7

LEMMA ApproveStep ==
  ASSUME IInv, ApproveRepair
  PROVE  IInv'
<1>1. /\ alive /\ turn = "idle" /\ turn \notin Working /\ loop # NoLoop
      /\ loop.state = "AUTHORITY_REQUIRED" /\ loop.state \in Live /\ loop.state \in Awaiting
      /\ LoopStands(loop) /\ PlanFollows(loop) /\ loop.mission.id \in 1 .. created
  BY ListensIs DEF IInv, LoopInv, ApproveRepair, Live, Awaiting
<1>2. /\ work' = Granted(loop) /\ loop' = loop /\ turn' = "apply"
      /\ Persist(work'.mission, NoLoop)
  BY DEF ApproveRepair
<1>3. Onwards /\ created' = created /\ faults' = faults
  BY GoesOnwards DEF IInv, ApproveRepair
<1>4. turn' \in Working
  BY <1>2 DEF Working
<1>5. Quiet(loop, writes', cancelled')
  BY <1>1, LoopQuiet DEF IInv, ApproveRepair
<1>6. /\ WorkInv'
      /\ MissionStands(work'.mission) /\ work'.mission.id = loop.mission.id
      /\ Len(loop.mission.events) < Len(work'.mission.events)
      /\ Len(work'.mission.events) <= Len(loop.mission.events) + 3
  <2>1. faults' \in Nat /\ Len(loop.mission.events) <= Spent(loop) + faults'
    BY <1>3, LoopBudget DEF IInv, Onwards
  <2> QED
    BY <1>1, <1>2, <1>3, <1>5, <2>1, GrantedWork
<1>7. WorldInv'
  <2>1. turn' \in Turns
    BY <1>2 DEF Turns
  <2> QED
    BY <1>1, <2>1 DEF IInv, WorldInv, worldVars, ApproveRepair
<1>8. AgenticInv'
  BY <1>2, <1>3, AgenticKept DEF IInv, ApproveRepair
<1>9. LoopInv'
  BY <1>2, <1>3, <1>4, LoopKept DEF IInv
<1>10. StoreInv'
  <2>1. CASE store' = store
    <3>1. store.loop = NoLoop
      <4>1. SUFFICES ASSUME store.loop # NoLoop
                     PROVE  FALSE
        OBVIOUS
      <4>2. Len(work'.mission.events) <= HistoryBound
        <5>1. PICK a \in Nat, x \in Nat, s \in Nat, b \in Nat :
                /\ a = Len(loop.attempts) /\ x = Len(loop.mission.events) /\ s = Spent(loop)
                /\ b = Bit(loop) /\ b <= 1 /\ a <= AttemptCeiling
          BY <1>1, LoopNumbers
        <5>2. PICK y \in Nat : y = Len(work'.mission.events)
          BY <1>6, MissionNumbers
        <5>3. PICK f \in Nat : f = faults /\ f <= MaxFaults
          BY FaultsAre DEF IInv
        <5>4. s = 17 * a + 12 + b
          BY <1>1, <5>1, SpentFacts
        <5>5. x <= s + f /\ y <= x + 3 /\ b <= 1
          BY <1>6, <5>1, <5>2, <5>3, LoopBudget DEF IInv
        <5>6. y <= 17 * a + 26 + f
          BY <5>4, <5>5
        <5> QED
          BY <5>1, <5>2, <5>3, <5>6, HistoryFits
      <4>3. Checkpoint(work'.mission, NoLoop).loop = NoLoop
        BY DEF Checkpoint
      <4>4. Saves(work'.mission, NoLoop)
        BY <1>1, <1>6, <4>1, <4>2, <4>3, NoLoopReadsBack, LaterSaves DEF IInv
      <4>5. durable
        BY <4>1, NothingDurable DEF IInv
      <4>6. store' = Checkpoint(work'.mission, NoLoop)
        BY <1>2, <4>4, <4>5 DEF Persist
      <4> QED
        BY <2>1, <4>1, <4>3, <4>6
    <3>2. alive \in BOOLEAN
      BY DEF IInv, WorldInv
    <3> QED
      BY <1>1, <1>2, <1>3, <2>1, <3>1, <3>2, StoreKept DEF IInv, Onwards, ApproveRepair
  <2>2. CASE store' # store
    <3>1. durable /\ store' = Checkpoint(work'.mission, NoLoop)
      BY <1>2, <2>2 DEF Persist
    <3>2. store' = [mission |-> ForDurableRestart(work'.mission), loop |-> NoLoop]
      BY <3>1 DEF Checkpoint
    <3> QED
      BY <1>1, <1>3, <1>6, <3>1, <3>2, StoreWithoutLoop DEF ApproveRepair
  <2> QED
    BY <2>1, <2>2
<1>11. WritesInv'
  BY <1>3, WritesKept DEF IInv, ApproveRepair
<1> QED
  BY <1>6, <1>7, <1>8, <1>9, <1>10, <1>11 DEF IInv

-----------------------------------------------------------------------------
\* The handler that applies, tests and qualifies a repair.

\* A physical operation of a handler: the session is as it was.
LEMMA HandlerStep ==
  ASSUME IInv, turn \in Working, turn' \in Working,
         UNCHANGED <<durable, alive, agentic, loop, auto, trusted, head, created, faults,
                     cancelled>>,
         content' \in [Target -> Contents],
         MissionStands(work'.mission), work'.mission.id = work.mission.id,
         store' = store \/ Persist(work'.mission, NoLoop)
  PROVE  /\ WorldInv' /\ AgenticInv' /\ LoopInv' /\ StoreInv'
         /\ Onwards /\ faults' = faults /\ created' = created
         /\ work.mission.id \in 1 .. created
<1>1. Onwards /\ faults' = faults /\ created' = created
  BY GoesOnwards DEF IInv
<1>2. /\ turn' # "read" /\ turn' # "idle" /\ turn' # "investigate" /\ turn' # "prepare"
      /\ turn \in Working /\ turn # "idle"
  BY DEF Working
<1>3. work.mission.id \in 1 .. created
  BY DEF IInv, WorkInv
<1>4. WorldInv'
  <2>1. turn' \in Turns
    BY DEF Turns, Working
  <2> QED
    BY <1>2, <2>1 DEF IInv, WorldInv
<1>5. AgenticInv'
  BY <1>1, <1>2, AgenticKept DEF IInv
<1>6. LoopInv'
  BY <1>1, <1>2, LoopKept DEF IInv
<1>7. store.loop = NoLoop
  BY DEF IInv, StoreInv
<1>8. StoreInv'
  <2>1. alive \in BOOLEAN /\ LoopStands(loop) /\ LoopStands(loop')
    BY DEF IInv, WorldInv, LoopInv
  <2>2. CASE store' = store
    BY <1>1, <1>7, <2>1, <2>2, StoreKept DEF IInv, Onwards
  <2>3. CASE store' # store
    <3>1. durable /\ store' = Checkpoint(work'.mission, NoLoop)
      BY <2>3 DEF Persist
    <3>2. store' = [mission |-> ForDurableRestart(work'.mission), loop |-> NoLoop]
      BY <3>1 DEF Checkpoint
    <3> QED
      BY <1>1, <1>3, <3>1, <3>2, StoreWithoutLoop
  <2> QED
    BY <2>2, <2>3
<1> QED
  BY <1>1, <1>3, <1>4, <1>5, <1>6, <1>8

MadeIn(ws, id) == {i \in DOMAIN ws : ws[i][1] = id}
WrittenIn(ws, id) == {ws[i][2] : i \in MadeIn(ws, id)}

LEMMA MadeFinite ==
  ASSUME NEW S, NEW ws \in Seq(S), NEW id
  PROVE  IsFiniteSet(MadeIn(ws, id)) /\ Cardinality(MadeIn(ws, id)) \in Nat
<1>1. PICK n \in Nat : n = Len(ws)
  OBVIOUS
<1>2. IsFiniteSet(1 .. n)
  BY FS_Interval
<1>3. MadeIn(ws, id) \in SUBSET (1 .. n)
  BY <1>1 DEF MadeIn
<1>4. IsFiniteSet(MadeIn(ws, id))
  BY <1>2, <1>3, FS_Subset
<1> QED
  BY <1>4, FS_CardinalityType

\* One more write.
OneMore(next, ws, id, t, c) ==
  /\ next \in Seq((1 .. c) \X Target)
  /\ next[Len(ws) + 1] = <<id, t>>
  /\ \A i \in DOMAIN ws : i \in DOMAIN next /\ next[i] = ws[i]
  /\ \A i \in DOMAIN next : i = Len(ws) + 1 \/ i \in DOMAIN ws
  /\ WrittenIn(next, id) = WrittenIn(ws, id) \union {t}
  /\ \A other : other # id => MadeIn(next, other) = MadeIn(ws, other)
  /\ Cardinality(MadeIn(next, id)) <= Cardinality(MadeIn(ws, id)) + 1
  /\ Cardinality(MadeIn(ws, id)) \in Nat
  /\ Cardinality(MadeIn(next, id)) \in Nat

LEMMA WriteAdded ==
  ASSUME NEW c, NEW ws \in Seq((1 .. c) \X Target), NEW id \in 1 .. c, NEW t \in Target,
         NEW next, next = Append(ws, <<id, t>>)
  PROVE  OneMore(next, ws, id, t, c)
<1>1. PICK n \in Nat : n = Len(ws)
  OBVIOUS
<1>2. PICK e : e = <<id, t>> /\ e \in (1 .. c) \X Target /\ e[1] = id /\ e[2] = t
  <2>1. PICK e : e = <<id, t>>
    OBVIOUS
  <2>2. e \in (1 .. c) \X Target
    BY ONLY <2>1, id \in 1 .. c, t \in Target
  <2>3. e[1] = id /\ e[2] = t
    BY ONLY <2>1
  <2> QED
    BY <2>1, <2>2, <2>3
<1>3. /\ next \in Seq((1 .. c) \X Target) /\ Len(next) = n + 1
      /\ next[n + 1] = e /\ \A i \in 1 .. n : next[i] = ws[i]
  BY <1>1, <1>2, AppendProperties
<1>4. DOMAIN ws = 1 .. n /\ DOMAIN next = 1 .. n + 1
  BY <1>1, <1>3
<1>5. \A i \in DOMAIN ws : i \in DOMAIN next /\ next[i] = ws[i]
  BY <1>3, <1>4
<1>6. \A i \in DOMAIN next : i = n + 1 \/ i \in DOMAIN ws
  BY <1>4
<1>7. n + 1 \in DOMAIN next
  BY <1>4
<1>8. MadeIn(next, id) = MadeIn(ws, id) \union {n + 1}
  BY <1>2, <1>3, <1>5, <1>6, <1>7 DEF MadeIn
<1>9. \A other : other # id => MadeIn(next, other) = MadeIn(ws, other)
  BY <1>2, <1>3, <1>5, <1>6 DEF MadeIn
<1>10. \A i \in MadeIn(ws, id) : next[i] = ws[i]
  BY <1>5 DEF MadeIn
<1>11. WrittenIn(next, id) = WrittenIn(ws, id) \union {t}
  <2>1. next[n + 1][2] = t
    BY <1>2, <1>3
  <2>2. \A i \in MadeIn(ws, id) : next[i][2] = ws[i][2]
    BY <1>10
  <2>3. PICK made, k : made = MadeIn(ws, id) /\ k = n + 1
    OBVIOUS
  <2>4. MadeIn(next, id) = made \union {k}
    BY <1>8, <2>3
  <2>5. {next[i][2] : i \in made \union {k}} = {ws[i][2] : i \in made} \union {t}
    BY ONLY <2>1, <2>2, <2>3
  <2> QED
    BY ONLY <2>3, <2>4, <2>5 DEF WrittenIn
<1>12. /\ Cardinality(MadeIn(next, id)) <= Cardinality(MadeIn(ws, id)) + 1
       /\ Cardinality(MadeIn(ws, id)) \in Nat
  <2>1. IsFiniteSet(MadeIn(ws, id)) /\ Cardinality(MadeIn(ws, id)) \in Nat
    BY MadeFinite
  <2>2. PICK p \in Nat : p = Cardinality(MadeIn(ws, id))
    BY <2>1
  <2>3. Cardinality(MadeIn(next, id)) = p \/ Cardinality(MadeIn(next, id)) = p + 1
    BY <1>8, <2>1, <2>2, FS_AddElement
  <2> QED
    BY <2>2, <2>3
<1>13. Cardinality(MadeIn(next, id)) \in Nat
  BY <1>3, MadeFinite
<1> QED
  BY <1>1, <1>2, <1>3, <1>5, <1>6, <1>9, <1>11, <1>12, <1>13 DEF OneMore

LEMMA SettledIn ==
  ASSUME NEW l
  PROVE  Settled(l) <=> /\ l.mission.id \notin cancelled
                        /\ WrittenIn(writes, l.mission.id) \subseteq Attempted(l)
                        /\ Cardinality(MadeIn(writes, l.mission.id)) <= Len(l.attempts)
  BY DEF Settled, Made, Written, MadeIn, WrittenIn

LEMMA QuietIn ==
  ASSUME NEW l, NEW ws, NEW cs
  PROVE  Quiet(l, ws, cs) <=> /\ l.mission.id \notin cs
                              /\ WrittenIn(ws, l.mission.id) \subseteq Attempted(l)
                              /\ Cardinality(MadeIn(ws, l.mission.id)) <= Len(l.attempts)
  BY DEF Quiet, MadeIn, WrittenIn

LEMMA MadeLater ==
  /\ Made(work.mission.id) = MadeIn(writes, work.mission.id)
  /\ Written(work.mission.id) = WrittenIn(writes, work.mission.id)
  /\ (Made(work.mission.id))' = MadeIn(writes', work'.mission.id)
  /\ (Written(work.mission.id))' = WrittenIn(writes', work'.mission.id)
<1>1. /\ Made(work.mission.id) = MadeIn(writes, work.mission.id)
      /\ Written(work.mission.id) = WrittenIn(writes, work.mission.id)
  BY DEF Made, Written, MadeIn, WrittenIn
<1>2. (Made(work.mission.id))' = MadeIn(writes', work'.mission.id)
  BY DEF Made, MadeIn
<1>3. (Written(work.mission.id))' = WrittenIn(writes', work'.mission.id)
  BY <1>2 DEF Written, WrittenIn
<1> QED
  BY <1>1, <1>2, <1>3

LEMMA WriteStands ==
  ASSUME WritesInv, created' = created, created \in Nat,
         NEW id \in 1 .. created, NEW t \in Target, writes' = Append(writes, <<id, t>>),
         t \notin WrittenIn(writes, id),
         Cardinality(MadeIn(writes, id)) < AttemptCeiling
  PROVE  WritesInv'
<1>1. /\ writes' \in Seq((1 .. created) \X Target)
      /\ writes'[Len(writes) + 1] = <<id, t>>
      /\ \A i \in DOMAIN writes : i \in DOMAIN writes' /\ writes'[i] = writes[i]
      /\ \A i \in DOMAIN writes' : i = Len(writes) + 1 \/ i \in DOMAIN writes
      /\ \A other : other # id => MadeIn(writes', other) = MadeIn(writes, other)
      /\ Cardinality(MadeIn(writes', id)) <= Cardinality(MadeIn(writes, id)) + 1
      /\ Cardinality(MadeIn(writes, id)) \in Nat
      /\ Cardinality(MadeIn(writes', id)) \in Nat
  <2>1. PICK ws \in Seq((1 .. created) \X Target) : ws = writes
    BY DEF WritesInv
  <2>2. PICK next : next = writes'
    OBVIOUS
  <2>3. next = Append(ws, <<id, t>>)
    BY <2>1, <2>2
  <2>4. OneMore(next, ws, id, t, created)
    BY ONLY id \in 1 .. created, t \in Target, ws \in Seq((1 .. created) \X Target), <2>3,
            WriteAdded
  <2> QED
    BY <2>1, <2>2, <2>4 DEF OneMore
<1>2. PICK last, e : last = Len(writes) + 1 /\ e = <<id, t>>
  OBVIOUS
<1>3. \A i \in DOMAIN writes : writes[i] # e
  <2>1. ASSUME NEW i \in DOMAIN writes, writes[i] = e
        PROVE  FALSE
    <3>1. writes[i][1] = id /\ writes[i][2] = t
      BY <1>2, <2>1
    <3>2. t \in WrittenIn(writes, id)
      BY <2>1, <3>1 DEF WrittenIn, MadeIn
    <3> QED
      BY <3>2
  <2> QED
    BY <2>1
<1>4. \A i, j \in DOMAIN writes' : writes'[i] = writes'[j] => i = j
  <2>1. \A i, j \in DOMAIN writes : writes[i] = writes[j] => i = j
    BY DEF WritesInv, EachTargetIsWrittenOnce
  <2>2. writes'[last] = e /\ \A i \in DOMAIN writes' : i = last \/ i \in DOMAIN writes
    BY <1>1, <1>2
  <2>3. ASSUME NEW i \in DOMAIN writes', NEW j \in DOMAIN writes', writes'[i] = writes'[j]
        PROVE  i = j
    <3>1. CASE i \in DOMAIN writes /\ j \in DOMAIN writes
      BY <1>1, <2>1, <2>3, <3>1
    <3>2. CASE i = last /\ j \in DOMAIN writes
      BY <1>1, <1>3, <2>2, <2>3, <3>2
    <3>3. CASE j = last /\ i \in DOMAIN writes
      BY <1>1, <1>3, <2>2, <2>3, <3>3
    <3> QED
      BY <2>2, <3>1, <3>2, <3>3
  <2> QED
    BY <2>3
<1>5. ASSUME NEW other \in 1 .. created
      PROVE  Cardinality(MadeIn(writes', other)) <= AttemptCeiling
  <2>1. CASE other = id
    <3>1. PICK p \in Nat, c \in Nat : p = Cardinality(MadeIn(writes, id)) /\ c = AttemptCeiling
      BY <1>1, AttemptCeilingAssumption
    <3>2. p < c /\ MadeIn(writes', other) = MadeIn(writes', id)
      BY <2>1, <3>1
    <3>3. PICK q \in Nat : q = Cardinality(MadeIn(writes', id))
      BY <1>1
    <3>4. q <= p + 1
      BY <1>1, <3>1, <3>3
    <3>5. q <= c
      BY <3>2, <3>4
    <3> QED
      BY <3>1, <3>2, <3>3, <3>5
  <2>2. CASE other # id
    <3>1. MadeIn(writes', other) = MadeIn(writes, other)
      BY <1>1, <2>2
    <3>2. Cardinality(MadeIn(writes, other)) <= AttemptCeiling
      BY DEF WritesInv, EachTargetIsWrittenOnce, MadeIn
    <3> QED
      BY <3>1, <3>2
  <2> QED
    BY <2>1, <2>2
<1>6. \A other \in 1 .. created' :
        Cardinality({i \in DOMAIN writes' : writes'[i][1] = other}) <= AttemptCeiling
  BY <1>5 DEF MadeIn
<1> QED
  BY <1>1, <1>4, <1>6 DEF WritesInv, EachTargetIsWrittenOnce

LEMMA ApplyStep ==
  ASSUME IInv, NEW outcome, ApplyRepair(outcome)
  PROVE  IInv'
<1>1. /\ turn = "apply" /\ turn \in Working
      /\ LoopStands(work) /\ work.state \in Awaiting /\ Underway(work, 6, 2)
      /\ Len(work.attempts) < AttemptCeiling
      /\ work.pending.target \in Target \ Attempted(work)
      /\ Len(work.mission.events) <= Spent(work) + faults + 3
      /\ Settled(work)
      /\ work.mission.id \in 1 .. created
  BY DEF IInv, WorkInv, ApplyRepair, Working
<1>2. work' = Applied(work, World(outcome))
  BY DEF ApplyRepair
<1>3. /\ GoesOn(work, work', 4)
      /\ work'.attempts = work.attempts
      /\ \/ work'.state = "BLOCKED" /\ ~work'.request /\ PlanFollows(work')
         \/ /\ work'.state = work.state
            /\ Underway(work', 6, 1)
            /\ work'.pending = work.pending
            /\ work'.request = work.request /\ work'.authority = work.authority
  BY <1>1, <1>2, AppliedLoop
<1>4. /\ LoopStands(work') /\ work'.mission.id = work.mission.id
      /\ Len(work'.mission.events) <= Len(work.mission.events) + 4
      /\ MissionStands(work'.mission)
  BY <1>3 DEF GoesOn, LoopStands
<1>5. /\ turn' = IF work'.state = "BLOCKED" THEN "finish" ELSE "test"
      /\ store' = store \/ Persist(work'.mission, NoLoop)
  BY DEF ApplyRepair
<1>6. /\ WorldInv' /\ AgenticInv' /\ LoopInv' /\ StoreInv'
      /\ Onwards /\ faults' = faults /\ created' = created
  <2>1. turn' \in Working
    BY <1>5 DEF Working
  <2>2. content' \in [Target -> Contents]
    BY DEF IInv, WorldInv, ApplyRepair, Contents
  <2> QED
    BY <1>1, <1>4, <1>5, <2>1, <2>2, HandlerStep DEF ApplyRepair
<1>7. PICK id, t : id = work.mission.id /\ t = work.pending.target
  OBVIOUS
<1>8. /\ id \notin cancelled
      /\ WrittenIn(writes, id) \subseteq Attempted(work)
      /\ Cardinality(MadeIn(writes, id)) <= Len(work.attempts)
  BY <1>1, <1>7, SettledIn
<1>9. writes' = writes \/ writes' = Append(writes, <<id, t>>)
  BY <1>7 DEF ApplyRepair
<1>10. writes \in Seq((1 .. created) \X Target) /\ id \in 1 .. created /\ t \in Target
  BY <1>1, <1>7 DEF IInv, WritesInv
<1>11. /\ Cardinality(MadeIn(writes, id)) \in Nat /\ Len(work.attempts) \in Nat
       /\ Append(writes, <<id, t>>) = writes' =>
            /\ WrittenIn(writes', id) = WrittenIn(writes, id) \union {t}
            /\ Cardinality(MadeIn(writes', id)) <= Cardinality(MadeIn(writes, id)) + 1
            /\ Cardinality(MadeIn(writes', id)) \in Nat
  <2>1. Len(work.attempts) \in Nat
    BY <1>1, LoopFields
  <2>2. PICK ws \in Seq((1 .. created) \X Target) : ws = writes
    BY <1>10
  <2>3. PICK next : next = Append(ws, <<id, t>>)
    OBVIOUS
  <2>4. id \in 1 .. created /\ t \in Target
    BY <1>10
  <2>5. OneMore(next, ws, id, t, created)
    BY ONLY ws \in Seq((1 .. created) \X Target), <2>3, <2>4, WriteAdded
  <2>6. /\ Cardinality(MadeIn(ws, id)) \in Nat
        /\ WrittenIn(next, id) = WrittenIn(ws, id) \union {t}
        /\ Cardinality(MadeIn(next, id)) <= Cardinality(MadeIn(ws, id)) + 1
        /\ Cardinality(MadeIn(next, id)) \in Nat
    BY ONLY <2>5 DEF OneMore
  <2>7. ws = writes /\ (Append(writes, <<id, t>>) = writes' => next = writes')
    BY <2>2, <2>3
  <2> QED
    BY ONLY <2>1, <2>6, <2>7
<1>12. WritesInv'
  <2>1. CASE writes' = writes
    BY <1>6, <2>1, WritesKept DEF IInv
  <2>2. CASE writes' = Append(writes, <<id, t>>)
    <3>1. t \notin WrittenIn(writes, id)
      BY <1>1, <1>7, <1>8
    <3>2. PICK p \in Nat, a \in Nat, c \in Nat :
            /\ p = Cardinality(MadeIn(writes, id)) /\ a = Len(work.attempts)
            /\ c = AttemptCeiling
      BY <1>11, AttemptCeilingAssumption
    <3>3. p <= a /\ a < c
      BY <1>1, <1>8, <3>2
    <3>4. p < c
      BY <3>3
    <3>5. created \in Nat
      BY <1>6 DEF Onwards
    <3> QED
      BY <1>6, <1>10, <2>2, <3>1, <3>2, <3>4, <3>5, WriteStands DEF IInv
  <2> QED
    BY <1>9, <2>1, <2>2
<1>13. PICK a \in Nat, x \in Nat, s \in Nat, b \in Nat :
         /\ a = Len(work.attempts) /\ x = Len(work.mission.events) /\ s = Spent(work)
         /\ b = Bit(work)
  BY <1>1, LoopNumbers
<1>14. PICK y \in Nat, u \in Nat, f \in Nat :
         y = Len(work'.mission.events) /\ u = Spent(work') /\ f = faults
  BY <1>4, LoopNumbers, FaultsAre DEF IInv
<1>15. b <= 1
  BY <1>1, <1>13, LoopNumbers, SpentFacts
<1>16. s = 17 * a + 12 + b
  BY <1>1, <1>13, SpentFacts
<1>17. x <= s + f + 3 /\ y <= x + 4
  BY <1>1, <1>4, <1>13, <1>14
<1>18. CASE work'.state = "BLOCKED"
  <2>1. turn' = "finish" /\ PlanFollows(work') /\ ~work'.request
    BY <1>3, <1>5, <1>18, <1>1 DEF Awaiting
  <2>2. u = 17 * a + 24 + 1
    <3>1. u = 17 * a + 24 + Bit(work')
      BY <1>3, <1>4, <1>13, <1>14, <1>18, SpentFacts
    <3>2. Bit(work') = 1
      BY <2>1 DEF Bit
    <3> QED
      BY <3>1, <3>2
  <2>3. y <= u + f
    BY <1>15, <1>16, <1>17, <2>2
  <2>4. Len(work'.mission.events) <= Spent(work') + faults'
    BY <1>6, <1>14, <2>3
  <2>5. WorkInv'
    BY <1>1, <1>4, <1>6, <1>18, <2>1, <2>4 DEF WorkInv, Working
  <2> QED
    BY <1>6, <1>12, <2>5 DEF IInv
<1>19. CASE work'.state # "BLOCKED"
  <2>1. /\ turn' = "test" /\ Underway(work', 6, 1) /\ work'.state \in Awaiting
        /\ work'.pending = work.pending
    BY <1>1, <1>3, <1>5, <1>19
  <2>2. u = 17 * a + 12 + b
    <3>1. u = 17 * a + 12 + Bit(work')
      BY <1>3, <1>4, <1>13, <1>14, <2>1, SpentFacts
    <3>2. Bit(work') = b
      BY <1>3, <1>13, <1>19 DEF Bit
    <3> QED
      BY <3>1, <3>2
  <2>3. y <= u + f + 7
    BY <1>16, <1>17, <2>2
  <2>4. Len(work'.mission.events) <= Spent(work') + faults' + 7
    BY <1>6, <1>14, <2>3
  <2>5. WrittenIn(writes', id) \subseteq Attempted(work') \union {work'.pending.target}
    <3>1. Attempted(work') = Attempted(work)
      BY <1>3 DEF Attempted
    <3> QED
      BY <1>7, <1>8, <1>9, <1>11, <2>1, <3>1
  <2>6. Cardinality(MadeIn(writes', id)) <= Len(work'.attempts) + 1
    <3>1. PICK p \in Nat, q \in Nat :
            p = Cardinality(MadeIn(writes, id)) /\ q = Cardinality(MadeIn(writes', id))
      BY <1>9, <1>11
    <3>2. p <= a /\ (q = p \/ q <= p + 1)
      BY <1>8, <1>9, <1>11, <1>13, <3>1
    <3>3. q <= a + 1
      BY <3>2
    <3> QED
      BY <1>3, <1>13, <3>1, <3>3
  <2>7. /\ (Written(work.mission.id))' \subseteq Attempted(work') \union {work'.pending.target}
        /\ Cardinality((Made(work.mission.id))') <= Len(work'.attempts) + 1
    BY <1>4, <1>7, <2>5, <2>6, MadeLater
  <2>8. work'.mission.id \notin cancelled'
    BY <1>4, <1>7, <1>8 DEF ApplyRepair
  <2>9. Len(work'.attempts) < AttemptCeiling /\ work'.pending.target \in Target
    BY <1>1, <1>3, <2>1
  <2>10. turn' \in Working /\ work'.mission.id \in 1 .. created'
    BY <1>1, <1>4, <1>6, <2>1 DEF Working
  <2>11. WorkInv'
    BY <1>4, <2>1, <2>4, <2>7, <2>8, <2>9, <2>10 DEF WorkInv
  <2> QED
    BY <1>6, <1>12, <2>11 DEF IInv
<1> QED
  BY <1>18, <1>19

LEMMA TestStep ==
  ASSUME IInv, NEW outcome, TestRepair(outcome)
  PROVE  IInv'
<1>1. /\ turn = "test" /\ turn \in Working
      /\ LoopStands(work) /\ work.state \in Awaiting /\ Underway(work, 6, 1)
      /\ Len(work.attempts) < AttemptCeiling
      /\ work.pending.target \in Target
      /\ Len(work.mission.events) <= Spent(work) + faults + 7
      /\ work.mission.id \notin cancelled
      /\ Written(work.mission.id) \subseteq Attempted(work) \union {work.pending.target}
      /\ Cardinality(Made(work.mission.id)) <= Len(work.attempts) + 1
      /\ work.mission.id \in 1 .. created
  BY DEF IInv, WorkInv, TestRepair, Working
<1>2. work' = Tested(work, World(outcome))
  BY DEF TestRepair
<1>3. /\ GoesOn(work, work', 5)
      /\ Len(work'.attempts) = Len(work.attempts) + 1
      /\ Attempted(work') = Attempted(work) \union {work.pending.target}
      /\ \/ work'.state = "BLOCKED" /\ ~work'.request /\ PlanFollows(work')
         \/ /\ work'.state = "READY_FOR_REPAIR"
            /\ PlanFollows(work')
            /\ work'.request = work.request /\ work'.authority = work.authority
            /\ Len(work'.mission.events) <= Len(work.mission.events) + 4
         \/ /\ work'.state = work.state
            /\ Underway(work', 2, 0)
            /\ work'.request = work.request /\ work'.authority = work.authority
            /\ Len(work'.mission.events) <= Len(work.mission.events) + 4
  BY <1>1, <1>2, TestedLoop
<1>4. /\ LoopStands(work') /\ work'.mission.id = work.mission.id
      /\ Len(work'.mission.events) <= Len(work.mission.events) + 5
      /\ MissionStands(work'.mission)
  BY <1>3 DEF GoesOn, LoopStands
<1>5. /\ turn' = IF work'.state \in {"BLOCKED", "READY_FOR_REPAIR"} THEN "finish" ELSE "qualify"
      /\ store' = store \/ Persist(work'.mission, NoLoop)
  BY DEF TestRepair
<1>6. turn' \in Working
  BY <1>5 DEF Working
<1>7. /\ WorldInv' /\ AgenticInv' /\ LoopInv' /\ StoreInv'
      /\ Onwards /\ faults' = faults /\ created' = created
  <2>1. content' \in [Target -> Contents]
    BY DEF IInv, WorldInv, TestRepair, worldVars
  <2> QED
    BY <1>1, <1>4, <1>5, <1>6, <2>1, HandlerStep DEF TestRepair, worldVars
<1>8. WritesInv'
  BY <1>7, WritesKept DEF IInv, TestRepair
<1>9. work'.mission.id \in 1 .. created'
  BY <1>1, <1>4, <1>7
<1>10. PICK a \in Nat, x \in Nat, s \in Nat, b \in Nat :
         /\ a = Len(work.attempts) /\ x = Len(work.mission.events) /\ s = Spent(work)
         /\ b = Bit(work)
  BY <1>1, LoopNumbers
<1>11. PICK d \in Nat, y \in Nat, u \in Nat, f \in Nat :
         /\ d = Len(work'.attempts) /\ y = Len(work'.mission.events) /\ u = Spent(work')
         /\ f = faults
  BY <1>4, LoopNumbers, FaultsAre DEF IInv
<1>12. b <= 1
  BY <1>1, <1>10, SpentFacts
<1>13. s = 17 * a + 12 + b
  BY <1>1, <1>10, SpentFacts
<1>14. x <= s + f + 7 /\ y <= x + 5 /\ d = a + 1
  BY <1>1, <1>3, <1>4, <1>10, <1>11
<1>15. CASE work'.state = "BLOCKED"
  <2>1. turn' = "finish" /\ PlanFollows(work') /\ ~work'.request
    BY <1>1, <1>3, <1>5, <1>15 DEF Awaiting
  <2>2. u = 17 * d + 24 + 1
    <3>1. u = 17 * d + 24 + Bit(work')
      BY <1>4, <1>11, <1>15, SpentFacts
    <3>2. Bit(work') = 1
      BY <2>1 DEF Bit
    <3> QED
      BY <3>1, <3>2
  <2>3. y <= u + f
    BY <1>12, <1>13, <1>14, <2>2
  <2>4. Len(work'.mission.events) <= Spent(work') + faults'
    BY <1>7, <1>11, <2>3
  <2>5. WorkInv'
    BY <1>4, <1>6, <1>9, <1>15, <2>1, <2>4 DEF WorkInv
  <2> QED
    BY <1>7, <1>8, <2>5 DEF IInv
<1>16. CASE work'.state = "READY_FOR_REPAIR"
  <2>1. /\ turn' = "finish" /\ PlanFollows(work')
        /\ work'.request = work.request /\ work'.authority = work.authority
        /\ Len(work'.mission.events) <= Len(work.mission.events) + 4
    BY <1>1, <1>3, <1>5, <1>16 DEF Awaiting
  <2>2. u = 17 * d + 6 + b
    <3>1. u = 17 * d + 6 + Bit(work')
      BY <1>4, <1>11, <1>16, SpentFacts
    <3>2. Bit(work') = b
      BY <1>10, <2>1 DEF Bit
    <3> QED
      BY <3>1, <3>2
  <2>3. y <= x + 4
    BY <1>10, <1>11, <2>1
  <2>4. y <= u + f
    BY <1>13, <1>14, <2>2, <2>3
  <2>5. Len(work'.mission.events) <= Spent(work') + faults'
    BY <1>7, <1>11, <2>4
  <2>6. Settled(work)'
    <3>1. work'.mission.id \notin cancelled'
      BY <1>1, <1>4 DEF TestRepair
    <3>2. WrittenIn(writes', work'.mission.id) \subseteq Attempted(work')
      BY <1>1, <1>3, <1>4, MadeLater DEF TestRepair
    <3>3. Cardinality(MadeIn(writes', work'.mission.id)) <= Len(work'.attempts)
      BY <1>1, <1>3, <1>4, MadeLater DEF TestRepair
    <3> QED
      BY <3>1, <3>2, <3>3, QuietIn, SettledLater
  <2>7. WorkInv'
    BY <1>4, <1>6, <1>9, <1>16, <2>1, <2>5, <2>6 DEF WorkInv
  <2> QED
    BY <1>7, <1>8, <2>7 DEF IInv
<1>17. CASE work'.state \notin {"BLOCKED", "READY_FOR_REPAIR"}
  <2>1. /\ turn' = "qualify" /\ Underway(work', 2, 0)
        /\ Len(work'.mission.events) <= Len(work.mission.events) + 4
    BY <1>3, <1>5, <1>17
  <2>2. y <= x + 4
    BY <1>10, <1>11, <2>1
  <2>3. y <= 17 * d + 7 + f
    BY <1>12, <1>13, <1>14, <2>2
  <2>4. Len(work'.mission.events) <= 17 * Len(work'.attempts) + 7 + faults'
    BY <1>7, <1>11, <2>3
  <2>5. WorkInv'
    BY <1>4, <1>6, <1>9, <2>1, <2>4 DEF WorkInv
  <2> QED
    BY <1>7, <1>8, <2>5 DEF IInv
<1> QED
  BY <1>15, <1>16, <1>17

LEMMA QualifyStep ==
  ASSUME IInv, NEW outcome, Qualify(outcome)
  PROVE  IInv'
<1>1. /\ turn = "qualify" /\ turn \in Working
      /\ LoopStands(work) /\ Underway(work, 2, 0)
      /\ Len(work.mission.events) <= 17 * Len(work.attempts) + 7 + faults
      /\ work.mission.id \in 1 .. created
  BY DEF IInv, WorkInv, Qualify, Working
<1>2. work' = Qualified(work, World(outcome)) /\ turn' = "finish" /\ store' = store
  BY DEF Qualify
<1>3. /\ GoesOn(work, work', 4)
      /\ work'.attempts = work.attempts
      /\ work'.state \in {"BLOCKED", "GREEN"}
      /\ ~work'.request
      /\ PlanFollows(work')
  BY <1>1, <1>2, QualifiedLoop
<1>4. /\ LoopStands(work') /\ work'.mission.id = work.mission.id
      /\ Len(work'.mission.events) <= Len(work.mission.events) + 4
      /\ MissionStands(work'.mission)
  BY <1>3 DEF GoesOn, LoopStands
<1>5. turn' \in Working
  BY <1>2 DEF Working
<1>6. /\ WorldInv' /\ AgenticInv' /\ LoopInv' /\ StoreInv'
      /\ Onwards /\ faults' = faults /\ created' = created
  <2>1. content' \in [Target -> Contents]
    BY DEF IInv, WorldInv, Qualify, worldVars
  <2> QED
    BY <1>1, <1>2, <1>4, <1>5, <2>1, HandlerStep DEF Qualify, worldVars
<1>7. WritesInv'
  BY <1>6, WritesKept DEF IInv, Qualify
<1>8. Len(work'.mission.events) <= Spent(work') + faults'
  <2>1. PICK a \in Nat, x \in Nat : a = Len(work.attempts) /\ x = Len(work.mission.events)
    BY <1>1, LoopNumbers
  <2>2. PICK y \in Nat, u \in Nat, f \in Nat :
          y = Len(work'.mission.events) /\ u = Spent(work') /\ f = faults
    BY <1>4, LoopNumbers, FaultsAre DEF IInv
  <2>3. u = 17 * a + 24 + 1
    <3>1. u = 17 * a + 24 + Bit(work')
      BY <1>3, <1>4, <2>1, <2>2, SpentFacts
    <3>2. Bit(work') = 1
      BY <1>3 DEF Bit
    <3> QED
      BY <3>1, <3>2
  <2>4. x <= 17 * a + 7 + f /\ y <= x + 4
    BY <1>1, <1>4, <2>1, <2>2
  <2>5. y <= u + f
    BY <2>3, <2>4
  <2> QED
    BY <1>6, <2>2, <2>5
<1>9. WorkInv'
  <2>1. work'.mission.id \in 1 .. created'
    BY <1>1, <1>4, <1>6
  <2>2. work'.state # "READY_FOR_REPAIR"
    BY <1>3
  <2> QED
    BY <1>2, <1>3, <1>4, <1>5, <1>8, <2>1, <2>2 DEF WorkInv
<1> QED
  BY <1>6, <1>7, <1>9 DEF IInv

LEMMA FinishStep ==
  ASSUME IInv, FinishRepair
  PROVE  IInv'
<1>1. /\ alive /\ turn = "finish" /\ turn \in Working
      /\ LoopStands(work) /\ PlanFollows(work)
      /\ work.state \in {"READY_FOR_REPAIR", "BLOCKED", "GREEN"}
      /\ Len(work.mission.events) <= Spent(work) + faults
      /\ work.state = "READY_FOR_REPAIR" => Settled(work)
      /\ work.mission.id \in 1 .. created
  BY DEF IInv, WorkInv, FinishRepair, Working
<1>2. /\ loop' = work /\ agentic' = work.mission /\ work' = NoLoop
      /\ Persist(work.mission, loop')
      /\ turn' \in {"prepare", "idle"}
      /\ turn' = "prepare" => work.state = "READY_FOR_REPAIR"
      /\ trusted' \in BOOLEAN /\ auto' \in BOOLEAN
  BY DEF FinishRepair, Trusts, Saves
<1>3. Onwards /\ created' = created /\ faults' = faults
  BY GoesOnwards DEF IInv, FinishRepair
<1>4. turn' \notin Working /\ turn' # "investigate" /\ turn' # "read"
  BY <1>2 DEF Working
<1>5. MissionStands(work.mission) /\ work.mission.id \in 1 .. created'
  BY <1>1, <1>3 DEF LoopStands
<1>6. WorldInv'
  <2>1. turn' \in Turns
    BY <1>2 DEF Turns
  <2> QED
    BY <1>1, <1>2, <2>1 DEF IInv, WorldInv, worldVars, FinishRepair
<1>7. AgenticInv'
  BY <1>2, <1>4, <1>5 DEF AgenticInv
<1>8. loop'.state \in Live => Settled(loop)'
  <2>1. ASSUME work.state \in Live
        PROVE  Quiet(work, writes, cancelled)
    <3>1. work.state = "READY_FOR_REPAIR"
      BY <1>1, <2>1 DEF Live
    <3> QED
      BY <1>1, <3>1, SettledIs
  <2> QED
    BY <1>2, <2>1, SettledLater DEF FinishRepair
<1>9. Len(loop'.mission.events) <= Spent(loop') + faults'
  BY <1>1, <1>2, <1>3
<1>10. LoopInv'
  <2>1. turn' = "prepare" => loop' # NoLoop /\ loop'.state = "READY_FOR_REPAIR"
    BY <1>2, NothingStands
  <2> QED
    BY <1>1, <1>2, <1>4, <1>5, <1>8, <1>9, <2>1 DEF LoopInv
<1>11. WorkInv'
  BY <1>2, <1>4, WorkGone
<1>12. StoreInv'
  <2>1. store.loop = NoLoop
    BY <1>1 DEF IInv, StoreInv
  <2>2. alive \in BOOLEAN /\ LoopStands(loop)
    BY DEF IInv, WorldInv, LoopInv
  <2>3. store' = store => StoreInv'
    BY <1>1, <1>2, <1>3, <2>1, <2>2, StoreKept DEF IInv, Onwards, FinishRepair
  <2>4. alive' /\ durable' = durable /\ faults' \in Nat
    BY <1>1, <1>3 DEF FinishRepair, Onwards
  <2> QED
    BY <1>1, <1>2, <1>4, <1>5, <1>8, <1>9, <2>3, <2>4, Persisted
<1>13. WritesInv'
  BY <1>3, WritesKept DEF IInv, FinishRepair
<1> QED
  BY <1>6, <1>7, <1>10, <1>11, <1>12, <1>13 DEF IInv

-----------------------------------------------------------------------------
\* The cancellation, and the restart from the durable record.

\* A human cancels the loop, and with it the mission.
LEMMA CancelLoop ==
  ASSUME IInv, CancelMission, loop # NoLoop, CanCancelLoop(loop)
  PROVE  IInv'
<1>1. /\ alive /\ turn = "idle" /\ turn \notin Working /\ turn' = "idle"
      /\ LoopStands(loop) /\ loop.mission.id \in 1 .. created
  BY ListensIs DEF IInv, LoopInv, CancelMission
<1>2. /\ loop' = CancelledLoop(loop) /\ cancelled' = cancelled \union {loop'.mission.id}
      /\ agentic' = IF loop'.mission.state = "CANCELLED" THEN loop'.mission
                    ELSE Cancel(loop'.mission)
      /\ Persist(agentic', loop')
      /\ trusted' = FALSE
  BY DEF CancelMission
<1>3. /\ LoopStands(loop') /\ PlanFollows(loop')
      /\ loop'.mission.state = "CANCELLED" /\ loop'.state = "CANCELLED"
      /\ loop'.mission.id = loop.mission.id
      /\ loop'.attempts = loop.attempts /\ ~loop'.request
      /\ Len(loop'.mission.events) = Len(loop.mission.events) + 1
  BY <1>1, <1>2, WithdrawnLoop
<1>4. agentic' = loop'.mission /\ MissionStands(loop'.mission)
  BY <1>2, <1>3 DEF LoopStands
<1>5. Onwards /\ created' = created /\ faults' = faults
  BY GoesOnwards DEF IInv, CancelMission
<1>6. /\ loop'.state \notin Live /\ turn' \notin Working /\ loop' # NoLoop
      /\ turn' # "investigate" /\ turn' # "prepare" /\ turn' # "read"
  BY <1>1, <1>3, NothingStands DEF Live, Working
<1>7. /\ Len(loop'.mission.events) <= Spent(loop') + faults'
      /\ Len(loop'.mission.events) <= HistoryBound
      /\ Len(loop.mission.events) < Len(loop'.mission.events)
  <2>1. PICK a \in Nat, x \in Nat, s \in Nat, b \in Nat :
          /\ a = Len(loop.attempts) /\ x = Len(loop.mission.events) /\ s = Spent(loop)
          /\ b = Bit(loop) /\ b <= 1 /\ a <= AttemptCeiling
    BY <1>1, LoopNumbers
  <2>2. PICK y \in Nat, t \in Nat : y = Len(loop'.mission.events) /\ t = Spent(loop')
    BY <1>3, LoopNumbers
  <2>3. PICK f \in Nat : f = faults /\ f <= MaxFaults
    BY FaultsAre DEF IInv
  <2>4. s <= 17 * a + 24 + b
    <3>1. loop.state # "CANCELLED"
      BY DEF CanCancelLoop
    <3> QED
      BY <1>1, <2>1, <3>1, SpentFacts
  <2>5. t = 17 * a + 25 + 1
    <3>1. t = 17 * a + 25 + Bit(loop')
      BY <1>3, <2>1, <2>2, SpentFacts
    <3>2. Bit(loop') = 1
      BY <1>3 DEF Bit
    <3> QED
      BY <3>1, <3>2
  <2>6. x <= s + f /\ y = x + 1
    BY <1>3, <2>1, <2>2, <2>3, LoopBudget DEF IInv
  <2>7. b <= 1
    BY <2>1
  <2>8. y <= 17 * a + 26 + f
    BY <2>4, <2>6, <2>7
  <2>9. y <= t + f
    BY <2>5, <2>8
  <2>10. y <= HistoryBound
    BY <2>1, <2>3, <2>8, HistoryFits
  <2>11. x < y
    BY <2>6
  <2> QED
    BY <1>5, <2>1, <2>2, <2>3, <2>9, <2>10, <2>11
<1>8. WorldInv'
  <2>1. cancelled' \subseteq 1 .. created
    BY <1>1, <1>2, <1>3 DEF IInv, WorldInv
  <2>2. turn' \in Turns
    BY <1>1 DEF Turns
  <2> QED
    BY <1>1, <1>2, <2>1, <2>2 DEF IInv, WorldInv, worldVars, CancelMission
<1>9. AgenticInv'
  BY <1>1, <1>3, <1>4, <1>5, <1>6 DEF AgenticInv
<1>10. LoopInv'
  BY <1>1, <1>3, <1>5, <1>6, <1>7 DEF LoopInv
<1>11. WorkInv'
  BY <1>6, WorkGone DEF IInv, WorkInv, CancelMission, Idle, Working
<1>12. StoreInv'
  <2>1. ASSUME store' = store
        PROVE  store.loop = NoLoop \/ store.loop.state \notin Live
    <3>1. SUFFICES ASSUME store.loop # NoLoop
                   PROVE  store.loop.state \notin Live
      OBVIOUS
    <3>2. PICK kept : kept = LoopForRestart(loop')
      OBVIOUS
    <3>3. kept.state = "CANCELLED" /\ ~kept.request /\ ~kept.authority
          /\ kept.attempts = loop'.attempts
      BY <1>3, <3>2, DurableLoop
    <3>4. Checkpoint(loop'.mission, loop').loop = kept
      BY <1>6, <3>2 DEF Checkpoint
    <3>5. Len(loop'.attempts) <= AttemptCeiling
      BY <1>3, LoopFields
    <3>6. ReadsBack(kept)
      BY <3>3, <3>5 DEF ReadsBack, ValidLoop, LoopStates
    <3>7. Saves(loop'.mission, loop')
      BY <1>1, <1>3, <1>4, <1>7, <3>1, <3>4, <3>6, LaterSaves DEF IInv
    <3>8. durable
      BY <3>1, NothingDurable DEF IInv
    <3>9. store' = Checkpoint(loop'.mission, loop')
      BY <1>2, <1>4, <3>7, <3>8 DEF Persist
    <3> QED
      BY <2>1, <3>3, <3>4, <3>9 DEF Live
  <2>2. alive \in BOOLEAN
    BY DEF IInv, WorldInv
  <2>3. Len(loop.mission.events) <= Len(loop'.mission.events)
    <3>1. PICK x \in Nat, y \in Nat :
            x = Len(loop.mission.events) /\ y = Len(loop'.mission.events)
      BY <1>1, <1>4, MissionNumbers, LoopFields, SpentFacts
    <3>2. x < y
      BY <1>7, <3>1
    <3>3. x <= y
      BY <3>2
    <3> QED
      BY <3>1, <3>3
  <2>4. ASSUME store' = store
        PROVE  StoreInv'
    BY <1>1, <1>3, <1>5, <1>6, <2>1, <2>2, <2>3, <2>4, StoreKept
    DEF IInv, Onwards, CancelMission
  <2>5. alive' /\ durable' = durable /\ faults' \in Nat /\ loop'.mission.id \in 1 .. created'
    BY <1>1, <1>3, <1>5 DEF CancelMission, Onwards
  <2> QED
    BY <1>2, <1>3, <1>4, <1>6, <1>7, <2>4, <2>5, Persisted
<1>13. WritesInv'
  BY <1>5, WritesKept DEF IInv, CancelMission
<1> QED
  BY <1>8, <1>9, <1>10, <1>11, <1>12, <1>13 DEF IInv

\* A human cancels the current mission; the loop, when there is one, has ended before.
LEMMA CancelCurrent ==
  ASSUME IInv, CancelMission, ~(loop # NoLoop /\ CanCancelLoop(loop))
  PROVE  IInv'
<1>1. /\ alive /\ turn = "idle" /\ turn \notin Working /\ turn' = "idle"
      /\ LoopStands(loop) /\ loop' = loop
      /\ loop = NoLoop \/ loop.state \in {"GREEN", "CANCELLED"}
  BY ListensIs DEF IInv, LoopInv, CancelMission, CanCancelLoop
<1>2. /\ agentic # NoMission
      /\ cancelled' = cancelled \union {agentic.id}
      /\ agentic' = IF agentic.state = "CANCELLED" THEN agentic ELSE Cancel(agentic)
      /\ Persist(agentic', loop')
      /\ trusted' = trusted
  <2>1. trusted \in BOOLEAN
    BY DEF IInv, WorldInv
  <2> QED
    BY <2>1 DEF CancelMission
<1>3. MissionStands(agentic) /\ agentic.id \in 1 .. created
  BY <1>2 DEF IInv, AgenticInv
<1>4. MissionStands(agentic') /\ agentic'.id = agentic.id
  BY <1>2, <1>3, StandsIs, CancelledMission
<1>5. Onwards /\ created' = created /\ faults' = faults
  BY GoesOnwards DEF IInv, CancelMission
<1>6. turn' \notin Working /\ turn' # "investigate" /\ turn' # "prepare" /\ turn' # "read"
  BY <1>1 DEF Working
<1>7. cancelled' \subseteq 1 .. created
  BY <1>2, <1>3 DEF IInv, WorldInv
<1>8. WorldInv'
  <2>1. turn' \in Turns
    BY <1>1 DEF Turns
  <2> QED
    BY <1>1, <1>2, <1>7, <2>1 DEF IInv, WorldInv, worldVars, CancelMission
<1>9. AgenticInv'
  BY <1>3, <1>4, <1>5, <1>6 DEF AgenticInv
<1>10. loop.state \in Live => Quiet(loop, writes', cancelled')
  <2>1. ASSUME loop.state \in Live
        PROVE  loop = NoLoop
    BY <1>1, <2>1 DEF Live
  <2>2. Quiet(NoLoop, writes, cancelled')
    <3>1. created \in Nat /\ writes \in Seq((1 .. created) \X Target)
      BY <1>5 DEF Onwards, IInv, WritesInv
    <3> QED
      BY <1>7, <3>1, NoLoopQuiet
  <2> QED
    BY <2>1, <2>2 DEF CancelMission
<1>11. LoopInv'
  BY <1>1, <1>5, <1>6, <1>10, LoopKept DEF IInv
<1>12. WorkInv'
  BY <1>1, <1>6, WorkGone DEF IInv, WorkInv, CancelMission
<1>13. StoreInv'
  <2>1. store.loop # NoLoop => store.loop.state \notin Live
    <3>1. SUFFICES ASSUME store.loop # NoLoop
                   PROVE  store.loop.state \notin Live
      OBVIOUS
    <3>2. store # NoRecord
      BY <3>1 DEF NoRecord
    <3>3. store.mission.id \in 1 .. created /\ loop.mission.id = store.mission.id
      BY <1>1, <3>1, <3>2 DEF IInv, StoreInv
    <3>4. loop # NoLoop
      BY <3>3, NothingStands
    <3> QED
      BY <1>1, <3>1, <3>4 DEF IInv, StoreInv
  <2>2. alive \in BOOLEAN
    BY DEF IInv, WorldInv
  <2>3. Len(loop.mission.events) <= Len(loop'.mission.events)
    BY <1>1, LoopFields, SpentFacts
  <2>4. ASSUME store' = store
        PROVE  StoreInv'
    BY <1>1, <1>5, <1>6, <2>1, <2>2, <2>3, <2>4, StoreKept
    DEF IInv, Onwards, CancelMission
  <2>5. alive' /\ durable' = durable /\ faults' \in Nat /\ agentic'.id \in 1 .. created'
    BY <1>1, <1>3, <1>4, <1>5 DEF CancelMission, Onwards
  <2>6. /\ PlanFollows(loop')
        /\ loop'.state \in Live => Settled(loop)'
        /\ Len(loop'.mission.events) <= Spent(loop') + faults'
    BY <1>6, <1>11 DEF LoopInv
  <2> QED
    BY <1>1, <1>2, <1>4, <1>6, <2>4, <2>5, <2>6, Persisted
<1>14. WritesInv'
  BY <1>5, WritesKept DEF IInv, CancelMission
<1> QED
  BY <1>8, <1>9, <1>11, <1>12, <1>13, <1>14 DEF IInv

LEMMA CancelStep ==
  ASSUME IInv, CancelMission
  PROVE  IInv'
  BY CancelLoop, CancelCurrent

\* What a new session makes of the recorded mission.
Continued(m) ==
  IF m.state = "CANCELLED" \/ (m.state = "GREEN" /\ m.head = head) THEN m
  ELSE Resume(m, head, TRUE)

LEMMA ContinuedMission ==
  ASSUME NEW m, MissionStands(m), NEW next, next = Continued(m),
         NEW x \in Nat, x = Len(m.events)
  PROVE  /\ MissionStands(next) /\ next.id = m.id
         /\ m.head = head => next.state = m.state /\ next.plan = m.plan
         /\ m.head # head => next.state # "GREEN"
         /\ \E y \in Nat : /\ y = Len(next.events) /\ x <= y /\ y <= x + 1
                           /\ m.state = "CANCELLED" => y = x
<1>1. CASE m.state = "CANCELLED" \/ (m.state = "GREEN" /\ m.head = head)
  <2>1. next = m
    BY <1>1 DEF Continued
  <2>2. m.head # head => m.state = "CANCELLED"
    BY <1>1
  <2>3. x = Len(next.events) /\ x <= x /\ x <= x + 1
    BY <2>1
  <2> QED
    BY <2>1, <2>2, <2>3
<1>2. CASE ~(m.state = "CANCELLED" \/ (m.state = "GREEN" /\ m.head = head))
  <2>1. next = Resume(m, head, TRUE)
    BY <1>2 DEF Continued
  <2>2. PICK again \in BOOLEAN : again = TRUE
    OBVIOUS
  <2>3. next = Resume(m, head, again)
    BY <2>1, <2>2
  <2>4. MissionStands(next) /\ next.id = m.id
    BY <2>3, Resumed
  <2>5. Len(next.events) = Len(m.events) + 1
    BY <2>3, Resumed
  <2>6. /\ m.head = head => next.state = m.state /\ next.plan = m.plan
        /\ m.head # head => next.state = "BLOCKED"
    BY <2>3, Resumed
  <2>7. PICK y \in Nat : y = x + 1
    OBVIOUS
  <2>8. y = Len(next.events) /\ x <= y /\ y <= x + 1
    BY <2>5, <2>7
  <2>9. m.state # "CANCELLED"
    BY <1>2
  <2> QED
    BY <2>4, <2>6, <2>8, <2>9
<1> QED
  BY <1>1, <1>2

\* A session that starts without a record, or with one that holds no loop.
LEMMA RestartWithoutLoop ==
  ASSUME IInv, Restart, store.loop = NoLoop
  PROVE  IInv'
<1>1. /\ alive = FALSE /\ turn = "idle" /\ turn' = "idle" /\ alive' = TRUE
      /\ loop = NoLoop
  BY DEF IInv, WorldInv, Restart
<1>2. Onwards /\ created' = created /\ faults' = faults
  BY GoesOnwards DEF IInv, Restart
<1>3. turn' \notin Working /\ turn' # "investigate" /\ turn' # "prepare" /\ turn' # "read"
  BY <1>1 DEF Working
<1>4. loop' = NoLoop
  BY <1>1 DEF Restart
<1>5. WorldInv'
  <2>1. turn' \in Turns
    BY <1>1 DEF Turns
  <2> QED
    BY <1>1, <2>1 DEF IInv, WorldInv, worldVars, Restart
<1>6. LoopInv'
  BY <1>1, <1>2, <1>4, LoopGone DEF IInv, WorldInv, WritesInv, Onwards, Restart
<1>7. WorkInv'
  BY <1>1, <1>3, WorkGone DEF IInv, WorkInv, Restart
<1>8. WritesInv'
  BY <1>2, WritesKept DEF IInv, Restart
<1>9. store' = store => StoreInv'
  BY <1>2 DEF IInv, StoreInv, Restart
<1>10. CASE store = NoRecord
  <2>1. agentic' = agentic /\ store' = store
    BY <1>10 DEF Restart
  <2>2. AgenticInv'
    BY <1>2, <1>3, <2>1, AgenticKept DEF IInv
  <2> QED
    BY <1>5, <1>6, <1>7, <1>8, <1>9, <2>1, <2>2 DEF IInv
<1>11. CASE store # NoRecord
  <2>1. MissionStands(store.mission) /\ store.mission.id \in 1 .. created /\ durable
    BY <1>11 DEF IInv, StoreInv
  <2>2. agentic' = Continued(store.mission) /\ Persist(agentic', NoLoop)
    BY <1>4, <1>11 DEF Restart, Continued
  <2>3. PICK x \in Nat : x = Len(store.mission.events)
    BY <2>1, MissionNumbers
  <2>4. MissionStands(agentic') /\ agentic'.id = store.mission.id
    BY <2>1, <2>2, <2>3, ContinuedMission
  <2>5. AgenticInv'
    BY <1>2, <1>3, <2>1, <2>4 DEF AgenticInv
  <2>6. StoreInv'
    <3>1. CASE store' = store
      BY <1>9, <3>1
    <3>2. CASE store' # store
      <4>1. store' = Checkpoint(agentic', NoLoop)
        BY <2>2, <3>2 DEF Persist
      <4>2. store' = [mission |-> ForDurableRestart(agentic'), loop |-> NoLoop]
        BY <4>1 DEF Checkpoint
      <4>3. durable' /\ agentic'.id \in 1 .. created'
        BY <1>2, <2>1, <2>4 DEF Restart
      <4> QED
        BY <2>4, <4>2, <4>3, StoreWithoutLoop
    <3> QED
      BY <3>1, <3>2
  <2> QED
    BY <1>5, <1>6, <1>7, <1>8, <2>5, <2>6 DEF IInv
<1> QED
  BY <1>10, <1>11

\* A session that takes up the recorded loop.
LEMMA RestartWithLoop ==
  ASSUME IInv, Restart, store.loop # NoLoop
  PROVE  IInv'
<1>1. alive = FALSE /\ turn = "idle" /\ turn' = "idle" /\ alive' = TRUE
  BY DEF IInv, WorldInv, Restart
<1>2. Onwards /\ created' = created /\ faults' = faults
  BY GoesOnwards DEF IInv, Restart
<1>3. turn' \notin Working /\ turn' # "investigate" /\ turn' # "prepare" /\ turn' # "read"
  BY <1>1 DEF Working
<1>4. store # NoRecord
  BY DEF NoRecord
<1>5. /\ MissionStands(store.mission) /\ store.mission.id \in 1 .. created /\ durable
      /\ LoopStands(store.loop) /\ PlanFollows(store.loop)
      /\ store.loop.mission = store.mission
  BY <1>4 DEF IInv, StoreInv
<1>6. PICK valid \in BOOLEAN : valid <=> store.mission.head = head
  OBVIOUS
<1>7. /\ agentic' = Continued(store.mission)
      /\ loop' = LoopAfterRestart(store.loop, agentic', valid)
      /\ Persist(agentic', loop')
  <2>1. valid = (store.mission.head = head)
    BY <1>6
  <2> QED
    BY <1>4, <2>1 DEF Restart, Continued
<1>8. PICK x \in Nat : x = Len(store.mission.events)
  BY <1>5, MissionNumbers
<1>9. PICK next : next = agentic'
  OBVIOUS
<1>10. /\ MissionStands(next) /\ next.id = store.mission.id
       /\ valid => next.state = store.mission.state /\ next.plan = store.mission.plan
       /\ ~valid => next.state # "GREEN"
       /\ \E y \in Nat : /\ y = Len(next.events) /\ x <= y /\ y <= x + 1
                         /\ store.mission.state = "CANCELLED" => y = x
  BY <1>5, <1>6, <1>7, <1>8, <1>9, ContinuedMission
<1>11. /\ LoopStands(loop') /\ PlanFollows(loop')
       /\ loop'.mission = agentic'
       /\ loop'.attempts = store.loop.attempts
       /\ loop'.request = store.loop.request /\ loop'.authority = store.loop.authority
       /\ IF valid THEN loop'.state = store.loop.state ELSE loop'.state = "BLOCKED"
  BY <1>5, <1>7, <1>9, <1>10, ReboundLoop
<1>12. PICK y \in Nat : /\ y = Len(next.events) /\ x <= y /\ y <= x + 1
                        /\ store.mission.state = "CANCELLED" => y = x
  BY <1>10
<1>13. Len(loop'.mission.events) <= Spent(loop') + faults'
  <2>1. PICK a \in Nat, s \in Nat, b \in Nat :
          a = Len(store.loop.attempts) /\ s = Spent(store.loop) /\ b = Bit(store.loop)
    BY <1>5, LoopNumbers
  <2>2. PICK t \in Nat : t = Spent(loop')
    BY <1>11, LoopNumbers
  <2>3. PICK f \in Nat : f = faults
    BY FaultsAre DEF IInv
  <2>4. Bit(loop') = b
    BY <1>11, <2>1 DEF Bit
  <2>5. x + 1 <= s + f
    BY <1>1, <1>8, <2>1, <2>3 DEF IInv, StoreInv
  <2>6. CASE valid
    <3>1. Spent(loop') = s
      BY <1>11, <2>1, <2>6 DEF Spent
    <3>2. y <= x + 1
      BY <1>12
    <3>3. y <= s + f
      BY <2>5, <3>2
    <3> QED
      BY <1>2, <1>9, <1>11, <1>12, <2>1, <2>3, <3>1, <3>3
  <2>7. CASE ~valid
    <3>1. Spent(loop') = 17 * a + 24 + b
      <4>1. loop'.state = "BLOCKED" /\ a = Len(loop'.attempts)
        BY <1>11, <2>1, <2>7
      <4>2. Spent(loop') = 17 * a + 24 + Bit(loop')
        BY <1>11, <4>1, SpentFacts
      <4> QED
        BY <2>4, <4>2
    <3>2. y <= 17 * a + 24 + b + f
      <4>1. CASE store.loop.state = "CANCELLED"
        <5>1. s = 17 * a + 25 + b
          BY <1>5, <2>1, <4>1, SpentFacts
        <5>2. y = x
          BY <1>5, <1>12, <4>1 DEF LoopStands
        <5> QED
          BY <2>5, <5>1, <5>2
      <4>2. CASE store.loop.state # "CANCELLED"
        <5>1. s <= 17 * a + 24 + b
          BY <1>5, <2>1, <4>2, SpentFacts
        <5>2. y <= x + 1
          BY <1>12
        <5> QED
          BY <2>5, <5>1, <5>2
      <4> QED
        BY <4>1, <4>2
    <3> QED
      BY <1>2, <1>9, <1>11, <1>12, <2>3, <3>1, <3>2
  <2> QED
    BY <2>6, <2>7
<1>14. loop'.state \in Live => Settled(loop)'
  <2>1. SUFFICES ASSUME loop'.state \in Live
                 PROVE  Quiet(loop', writes', cancelled')
    BY SettledLater
  <2>2. store.loop.state \in Live
    BY <1>11, <2>1 DEF Live
  <2>3. Quiet(store.loop, writes', cancelled')
    BY <2>2, RecordQuiet DEF IInv, Restart
  <2>4. loop'.mission.id = store.loop.mission.id
    BY <1>5, <1>9, <1>10, <1>11
  <2> QED
    BY <1>11, <2>3, <2>4, QuietLike
<1>15. loop'.mission.id \in 1 .. created'
  BY <1>2, <1>5, <1>9, <1>10, <1>11
<1>16. WorldInv'
  <2>1. turn' \in Turns
    BY <1>1 DEF Turns
  <2> QED
    BY <1>1, <2>1 DEF IInv, WorldInv, worldVars, Restart
<1>17. AgenticInv'
  BY <1>2, <1>3, <1>5, <1>9, <1>10 DEF AgenticInv
<1>18. LoopInv'
  BY <1>3, <1>11, <1>13, <1>14, <1>15 DEF LoopInv
<1>19. WorkInv'
  BY <1>1, <1>3, WorkGone DEF IInv, WorkInv, Restart
<1>20. StoreInv'
  <2>1. ASSUME store' = store
        PROVE  StoreInv'
    <3>1. store' # NoRecord => durable' /\ store'.mission.id \in 1 .. created'
      BY <1>2, <1>5, <2>1 DEF Restart
    <3>2. MissionStands(store'.mission) /\ LoopStands(store'.loop) /\ PlanFollows(store'.loop)
      BY <1>5, <2>1
    <3>3. store'.loop.mission = store'.mission
      BY <1>5, <2>1
    <3>4. Len(store'.mission.events) + (IF alive' THEN 0 ELSE 1) <= Spent(store'.loop) + faults'
      <4>1. PICK s \in Nat, f \in Nat : s = Spent(store.loop) /\ f = faults
        BY <1>5, LoopNumbers, FaultsAre DEF IInv
      <4>2. x + 1 <= s + f
        BY <1>1, <1>8, <4>1 DEF IInv, StoreInv
      <4>3. x + 0 <= s + f
        BY <4>2
      <4> QED
        BY <1>1, <1>2, <1>8, <2>1, <4>1, <4>3
    <3>5. store'.loop.state \in Live => Settled(store.loop)'
      BY <2>1, RecordQuiet, SettledLater DEF IInv, Restart
    <3>6. /\ loop'.mission.id = store'.mission.id
          /\ Len(store'.mission.events) <= Len(loop'.mission.events)
      BY <1>8, <1>9, <1>10, <1>11, <1>12, <2>1
    <3>7. loop'.state \in {"GREEN", "CANCELLED"} => store'.loop.state \notin Live
      BY <1>11, <2>1 DEF Live
    <3> QED
      BY <1>3, <3>1, <3>2, <3>3, <3>4, <3>5, <3>6, <3>7 DEF StoreInv
  <2>2. durable' = durable /\ faults' \in Nat
    BY <1>2 DEF Restart, Onwards
  <2>3. MissionStands(agentic') /\ agentic'.id \in 1 .. created'
    BY <1>9, <1>10, <1>11, <1>15
  <2> QED
    BY <1>1, <1>3, <1>7, <1>11, <1>13, <1>14, <2>1, <2>2, <2>3, Persisted
<1>21. WritesInv'
  BY <1>2, WritesKept DEF IInv, Restart
<1> QED
  BY <1>16, <1>17, <1>18, <1>19, <1>20, <1>21 DEF IInv

LEMMA RestartStep ==
  ASSUME IInv, Restart
  PROVE  IInv'
  BY RestartWithoutLoop, RestartWithLoop

-----------------------------------------------------------------------------
\* The theorems.

LEMMA InitStands ==
  ASSUME Init
  PROVE  IInv
<1>1. /\ alive = TRUE /\ agentic = NoMission /\ loop = NoLoop /\ work = NoLoop
      /\ turn = "idle" /\ store = NoRecord /\ created = 0 /\ faults = 0
      /\ writes = <<>> /\ cancelled = {} /\ created \in Nat /\ faults \in Nat
  BY DEF Init
<1>2. turn \notin Working
  BY <1>1 DEF Working
<1>3. WorldInv
  <2>1. created \in 0 .. MaxMissions /\ faults \in 0 .. MaxFaults
    BY <1>1, BoundsAssumption
  <2>2. head \in 1 .. faults + 1
    BY <1>1 DEF Init
  <2>3. turn \in Turns /\ content \in [Target -> Contents] /\ cancelled \subseteq 1 .. created
    BY DEF Init, Turns, Contents
  <2> QED
    BY <2>1, <2>2, <2>3 DEF Init, WorldInv
<1>4. AgenticInv
  BY <1>1, NothingStands DEF AgenticInv
<1>5. writes \in Seq((1 .. created) \X Target)
  BY <1>1, EmptySeq
<1>6. LoopInv
  <2>1. Settled(loop)
    <3>1. Quiet(NoLoop, writes, cancelled)
      BY <1>1, <1>5, NoLoopQuiet
    <3> QED
      BY <1>1, <3>1, SettledIs
  <2>2. Len(loop.mission.events) <= Spent(loop) + faults
    <3>1. Spent(NoLoop) = 17 * 0 + 1 + 1
      BY NothingStands, SpentFacts
    <3>2. Len(NoLoop.mission.events) = 2
      BY NothingStands
    <3> QED
      BY <1>1, <3>1, <3>2
  <2> QED
    BY <1>1, <2>1, <2>2, NothingStands DEF LoopInv
<1>7. WorkInv
  BY <1>1, <1>2, NothingStands DEF WorkInv
<1>8. StoreInv
  <2>1. store.mission = NoMission /\ store.loop = NoLoop
    BY <1>1 DEF NoRecord
  <2> QED
    BY <1>1, <2>1, NothingStands DEF StoreInv
<1>9. WritesInv
  <2>1. DOMAIN writes = {}
    BY <1>1
  <2>2. \A id \in 1 .. created :
          Cardinality({i \in DOMAIN writes : writes[i][1] = id}) <= AttemptCeiling
    BY <1>1
  <2> QED
    BY <1>5, <2>1, <2>2 DEF WritesInv, EachTargetIsWrittenOnce
<1> QED
  BY <1>3, <1>4, <1>6, <1>7, <1>8, <1>9 DEF IInv

LEMMA NothingHappens ==
  ASSUME IInv, UNCHANGED vars
  PROVE  IInv'
<1>1. Onwards
  BY GoesOnwards DEF IInv, vars
<1>2. WorldInv'
  BY DEF IInv, WorldInv, vars
<1>3. AgenticInv'
  BY <1>1, AgenticKept DEF IInv, vars
<1>4. LoopInv'
  BY <1>1, LoopKept, LoopQuiet DEF IInv, vars
<1>5. WorkInv'
  BY <1>1, WorkKept DEF IInv, vars
<1>6. StoreInv'
  <2>1. LoopStands(loop) /\ alive \in BOOLEAN
    BY DEF IInv, LoopInv, WorldInv
  <2>2. turn' \in Working => store.loop = NoLoop
    BY DEF IInv, StoreInv, vars
  <2>3. Len(loop.mission.events) <= Len(loop'.mission.events)
    BY <2>1, LoopFields, SpentFacts DEF vars
  <2> QED
    BY <1>1, <2>1, <2>2, <2>3, StoreKept, RecordQuiet DEF IInv, Onwards, vars
<1>7. WritesInv'
  BY <1>1, WritesKept DEF IInv, vars
<1> QED
  BY <1>2, <1>3, <1>4, <1>5, <1>6, <1>7 DEF IInv

LEMMA Inductive ==
  ASSUME IInv, [Next]_vars
  PROVE  IInv'
<1>1. CASE StartRepair
  BY <1>1, StartStep
<1>2. CASE Investigate
  BY <1>2, InvestigateStep
<1>3. CASE AuthorizeMission
  BY <1>3, AuthorizeStep
<1>4. CASE PrepareRepair \/ PrepareFails
  BY <1>4, AskStep
<1>5. CASE ProposeForApproval
  BY <1>5, ProposeStep
<1>6. CASE ProposeUnderMission
  BY <1>6, UnderMissionStep
<1>7. CASE ApproveRepair
  BY <1>7, ApproveStep
<1>8. ASSUME NEW outcome \in Outcomes, ApplyRepair(outcome)
      PROVE  IInv'
  BY <1>8, ApplyStep
<1>9. ASSUME NEW outcome \in Outcomes \ {"late"}, TestRepair(outcome) \/ Qualify(outcome)
      PROVE  IInv'
  BY <1>9, TestStep, QualifyStep
<1>10. CASE FinishRepair
  BY <1>10, FinishStep
<1>11. CASE DenyRepair
  BY <1>11, DenyStep
<1>12. CASE CancelMission
  BY <1>12, CancelStep
<1>13. CASE ResumeMission
  BY <1>13, ResumeStep
<1>14. CASE ProjectMission
  BY <1>14, ProjectStep
<1>15. CASE AskGateway
  BY <1>15, AskGatewayStep
<1>16. CASE ContinueMission
  BY <1>16, ContinueStep
<1>17. CASE ContinueStale
  BY <1>17, ContinueStaleStep
<1>18. ASSUME NEW outcome \in {"done", "refused"}, ReadWorkspace(outcome)
       PROVE  IInv'
  BY <1>18, ReadStep
<1>19. CASE Crash
  BY <1>19, CrashStep
<1>20. CASE Restart
  BY <1>20, RestartStep
<1>21. CASE Drift \/ Edit \/ Lapse
  BY <1>21, DriftStep, EditStep, LapseStep
<1>22. CASE UNCHANGED vars
  BY <1>22, NothingHappens
<1> QED
  BY <1>1, <1>2, <1>3, <1>4, <1>5, <1>6, <1>7, <1>8, <1>9, <1>10, <1>11, <1>12, <1>13, <1>14,
     <1>15, <1>16, <1>17, <1>18, <1>19, <1>20, <1>21, <1>22
  DEF Next

\* The plan of a loop follows from its state, every mission stands, the history of a loop
\* stays within what its attempts account for, and the durable record never holds a loop
\* that is behind the writes made for it or a cancellation of it (IInv).
THEOREM MissionsInductive == Spec => []IInv
<1>1. Init => IInv
  BY InitStands
<1>2. IInv /\ [Next]_vars => IInv'
  BY Inductive
<1> QED
  BY <1>1, <1>2, PTL DEF Spec

\* The durable record, which a restarted session goes on from, never holds a loop that may
\* still write and does not know of a write made for its mission or of its cancellation
\* (surgical.js:2121).
THEOREM RecordNeverBehind == Spec => []RecordKeepsUp
<1>1. ASSUME IInv
      PROVE  Settled(NoLoop)
  <2>1. writes \in Seq((1 .. created) \X Target) /\ cancelled \subseteq 1 .. created
    BY <1>1 DEF IInv, WorldInv, WritesInv
  <2>2. created \in Nat
    BY <1>1, BoundsAssumption DEF IInv, WorldInv
  <2>3. Quiet(NoLoop, writes, cancelled)
    BY <2>1, <2>2, NoLoopQuiet
  <2> QED
    BY <2>3, SettledIs
<1>2. IInv => RecordKeepsUp
  BY <1>1 DEF IInv, StoreInv, RecordKeepsUp
<1> QED
  BY <1>2, MissionsInductive, PTL

LEMMA EveryMissionStands ==
  ASSUME IInv, NEW m \in Missions
  PROVE  MissionStands(m)
<1>1. /\ MissionStands(agentic) /\ MissionStands(loop.mission)
      /\ MissionStands(work.mission) /\ MissionStands(store.mission)
  BY DEF IInv, AgenticInv, LoopInv, WorkInv, StoreInv, LoopStands
<1> QED
  BY <1>1 DEF Missions

\* No handler leaves a plan, in the session or in the durable record, that the plan
\* normalization would refuse (natural-agentic-mission.js:404).
THEOREM PlansAreNormal == Spec => []PlansStayNormal
<1>1. IInv => PlansStayNormal
  BY EveryMissionStands DEF MissionStands, PlansStayNormal
<1> QED
  BY <1>1, MissionsInductive, PTL

\* A GREEN mission, in the session or in the durable record, has no step left and passed
\* its canonical test after every change recorded in it (natural-agentic-mission.js:1367).
THEOREM GreenIsEarned == Spec => []GreenIsQualified
<1>1. IInv => GreenIsQualified
  BY EveryMissionStands DEF MissionStands, GreenIsQualified
<1> QED
  BY <1>1, MissionsInductive, PTL

\* No target is written twice for one mission and no more attempts are written than the
\* ceiling allows, however many crashes, restarts and late failures come between a write
\* and its record (natural-governed-repair-loop.js:921).
THEOREM WritesOnce == Spec => []EachTargetIsWrittenOnce
<1>1. IInv => EachTargetIsWrittenOnce
  BY DEF IInv, WritesInv
<1> QED
  BY <1>1, MissionsInductive, PTL

\* No write, of this process or of one that restarts from the durable record, is for a
\* mission that a human has cancelled (surgical.js:3752).
THEOREM CancelledStaysUnwritten == Spec => CancelledIsNeverWritten
<1> DEFINE Unwritten ==
      \A id \in cancelled :
        Cardinality({i \in DOMAIN writes' : writes'[i][1] = id})
          = Cardinality({i \in DOMAIN writes : writes[i][1] = id})
<1>1. ASSUME IInv, NEW outcome, ApplyRepair(outcome)
      PROVE  Unwritten
  <2>1. writes' = writes \/ writes' = Append(writes, <<work.mission.id, work.pending.target>>)
    BY <1>1 DEF ApplyRepair
  <2>2. work.mission.id \notin cancelled
    BY <1>1 DEF IInv, WorkInv, Settled, ApplyRepair
  <2>3. ASSUME NEW id \in cancelled
        PROVE  {i \in DOMAIN writes' : writes'[i][1] = id}
                 = {i \in DOMAIN writes : writes[i][1] = id}
    <3>1. CASE writes' = writes
      BY <3>1
    <3>2. CASE writes' = Append(writes, <<work.mission.id, work.pending.target>>)
      <4>1. /\ writes \in Seq((1 .. created) \X Target)
            /\ work.mission.id \in 1 .. created /\ work.pending.target \in Target
        BY <1>1 DEF IInv, WritesInv, WorkInv, ApplyRepair, Working
      <4>2. OneMore(writes', writes, work.mission.id, work.pending.target, created)
        BY <3>2, <4>1, WriteAdded
      <4>3. MadeIn(writes', id) = MadeIn(writes, id)
        BY <2>2, <4>2 DEF OneMore
      <4> QED
        BY <4>3 DEF MadeIn
    <3> QED
      BY <2>1, <3>1, <3>2
  <2> QED
    BY <2>3
<1>2. ASSUME writes' = writes
      PROVE  Unwritten
  BY <1>2
<1>3. IInv /\ [Next]_vars => Unwritten
  <2>1. SUFFICES ASSUME IInv, [Next]_vars
                 PROVE  Unwritten
    OBVIOUS
  <2>2. writes' = writes \/ \E outcome \in Outcomes : ApplyRepair(outcome)
    BY <2>1
    DEF Next, vars, processVars, worldVars, StartRepair, Investigate, AuthorizeMission,
        PrepareRepair, PrepareFails, ProposeForApproval, ProposeUnderMission, ApproveRepair,
        TestRepair, Qualify, FinishRepair, DenyRepair, CancelMission, ResumeMission,
        ProjectMission, AskGateway, ContinueMission, ContinueStale, ReadWorkspace, Crash,
        Restart, Drift, Edit, Lapse
  <2> QED
    BY <1>1, <1>2, <2>1, <2>2
<1>4. IInv /\ [Next]_vars => [Unwritten]_vars
  BY <1>3
<1>5. Spec => [][Next]_vars
  BY PTL DEF Spec
<1> QED
  BY <1>4, <1>5, MissionsInductive, PTL DEF CancelledIsNeverWritten

----------------------------------------------------------------------------
(***************************************************************************)
(* The refinement of GovernedRepair.  A permit is given only to a loop     *)
(* that knows every write made for its mission, and which nobody has       *)
(* cancelled: this is what IInv says of the loop in the turn "apply".      *)
(***************************************************************************)

\* Who may write holds a permit that GovernedRepair would have given.
PermitStands ==
  turn = "apply" =>
    /\ work.mission.id \in 1 .. created
    /\ work.mission.id \notin cancelled
    /\ work.pending.target \in Target
    /\ work.pending.before \in Contents
    /\ \A i \in DOMAIN writes : writes[i] # <<work.mission.id, work.pending.target>>
    /\ Cardinality(MadeIn(writes, work.mission.id)) < AttemptCeiling
    /\ created \in Nat

LEMMA WritersArePermitted == IInv => PermitStands
<1> SUFFICES ASSUME IInv, turn = "apply"
             PROVE  /\ work.mission.id \in 1 .. created
                    /\ work.mission.id \notin cancelled
                    /\ work.pending.target \in Target
                    /\ work.pending.before \in Contents
                    /\ \A i \in DOMAIN writes :
                         writes[i] # <<work.mission.id, work.pending.target>>
                    /\ Cardinality(MadeIn(writes, work.mission.id)) < AttemptCeiling
                    /\ created \in Nat
  BY DEF PermitStands
<1>1. /\ WorldInv /\ WorkInv /\ WritesInv /\ turn \in Working
  BY DEF IInv, Working
<1>2. /\ work.mission.id \in 1 .. created
      /\ Settled(work)
      /\ Len(work.attempts) < AttemptCeiling
      /\ work.pending.target \in Target \ Attempted(work)
      /\ work \in LoopValues
  BY <1>1 DEF WorkInv, LoopStands
<1>3. created \in Nat
  BY <1>1, BoundsAssumption DEF WorldInv
<1>4. work.pending.before \in Contents
  <2>1. work.pending \in Proposals \union {NoPending}
    BY <1>2 DEF LoopValues
  <2>2. work.pending # NoPending
    BY <1>2, TargetAssumption DEF NoPending
  <2> QED
    BY <2>1, <2>2 DEF Proposals
<1>5. ASSUME NEW i \in DOMAIN writes, writes[i] = <<work.mission.id, work.pending.target>>
      PROVE  FALSE
  <2>1. i \in Made(work.mission.id) /\ writes[i][2] = work.pending.target
    BY <1>5 DEF Made
  <2>2. work.pending.target \in Written(work.mission.id)
    BY <2>1 DEF Written
  <2> QED
    BY <1>2, <2>2 DEF Settled
<1>6. Cardinality(MadeIn(writes, work.mission.id)) < AttemptCeiling
  <2>1. Cardinality(MadeIn(writes, work.mission.id)) <= Len(work.attempts)
    BY <1>2 DEF Settled, Made, MadeIn
  <2>2. Cardinality(MadeIn(writes, work.mission.id)) \in Nat
    BY <1>1, MadeFinite DEF WritesInv
  <2>3. Len(work.attempts) \in Nat /\ AttemptCeiling \in Nat
    BY <1>1, AttemptCeilingAssumption, LoopFields DEF WorkInv
  <2> QED
    BY <1>2, <2>1, <2>2, <2>3
<1> QED
  BY <1>2, <1>3, <1>4, <1>5, <1>6 DEF Settled

LEMMA NextWriterIsPermitted == IInv' => PermitStands'
  BY WritersArePermitted, PTL

\* The gateway lets nothing happen to a target that does not hold what was reviewed.
LEMMA OnlyReviewed ==
  ASSUME NEW r, NEW m, NEW w, r.target # NoTarget, Dispatch(r, m, w).effect
  PROVE  w.content[r.target] = r.before
<1>1. ASSUME ~TargetCas(r, w)
      PROVE  FALSE
  <2>1. \E next, class : Dispatch(r, m, w) = Answer(next, class, FALSE)
    BY <1>1 DEF Dispatch
  <2> QED
    BY <2>1 DEF Answer
<1> QED
  BY <1>1 DEF TargetCas

LEMMA PermitGiven ==
  ASSUME IInv', turn # "apply", turn' = "apply",
         UNCHANGED <<created, cancelled, content, writes>>
  PROVE  Governed!RNext
<1>1. PICK id, t, before :
        id = work'.mission.id /\ t = work'.pending.target /\ before = work'.pending.before
  OBVIOUS
<1>2. /\ id \in 1 .. created /\ id \notin cancelled
      /\ t \in Target /\ before \in Contents
      /\ \A i \in DOMAIN writes : writes[i] # <<id, t>>
      /\ Cardinality({i \in DOMAIN writes : writes[i][1] = id}) < AttemptCeiling
  <2>1. PermitStands'
    BY NextWriterIsPermitted
  <2> QED
    BY <1>1, <2>1 DEF PermitStands, MadeIn
<1>3. Permit = Governed!NoPermit /\ Permit' = [mission |-> id, target |-> t, before |-> before]
  BY <1>1 DEF Permit, Governed!NoPermit
<1>4. Governed!Allow(id, t, before)
  BY <1>2, <1>3, Zenon DEF Governed!Allow, Governed!Cardinality, Cardinality
<1> QED
  BY ONLY <1>2, <1>4 DEF Governed!RNext

LEMMA PermitUsed ==
  ASSUME IInv, NEW outcome, ApplyRepair(outcome)
  PROVE  Governed!Repair \/ Governed!Withdraw
<1>1. turn = "apply" /\ turn' # "apply" /\ UNCHANGED <<created, cancelled>>
  BY DEF ApplyRepair
<1>2. /\ work.mission.id \in 1 .. created
      /\ work.pending.target \in Target
      /\ created \in Nat
  BY <1>1, WritersArePermitted DEF PermitStands
<1>3. Permit # Governed!NoPermit /\ Permit' = Governed!NoPermit
  BY <1>1, <1>2 DEF Permit, Governed!NoPermit
<1>4. CASE ApplyAnswer(work, World(outcome)).effect
  <2>1. content[work.pending.target] = work.pending.before
    <3>1. PICK r : r = Request(work.mission, "mutation.applyConditional", work.pending.target,
                               work.pending.before, OneShot(work.mission.id, Attempt(work)))
      OBVIOUS
    <3>2. r.target = work.pending.target /\ r.before = work.pending.before
      BY <3>1 DEF Request
    <3>3. Dispatch(r, work.mission, World(outcome)).effect
      BY <1>4, <3>1 DEF ApplyAnswer, Sends
    <3>4. World(outcome).content[r.target] = r.before
      BY <1>2, <3>2, <3>3, TargetAssumption, OnlyReviewed
    <3> QED
      BY <3>2, <3>4 DEF World
  <2>2. /\ content' = [content EXCEPT ![work.pending.target] = "repaired"]
        /\ writes' = Append(writes, <<work.mission.id, work.pending.target>>)
    BY <1>4 DEF ApplyRepair
  <2>3. /\ Permit.mission = work.mission.id
        /\ Permit.target = work.pending.target
        /\ Permit.before = work.pending.before
    BY <1>1 DEF Permit
  <2> QED
    BY <1>1, <1>3, <2>1, <2>2, <2>3 DEF Governed!Repair
<1>5. CASE ~ApplyAnswer(work, World(outcome)).effect
  BY <1>1, <1>3, <1>5 DEF ApplyRepair, Governed!Withdraw
<1> QED
  BY <1>4, <1>5

LEMMA RepairStep ==
  ASSUME IInv, IInv', [Next]_vars
  PROVE  [Governed!RNext]_(Governed!rvars)
<1>1. CASE StartRepair \/ AskGateway
  <2>1. /\ turn # "apply" /\ turn' # "apply"
        /\ created' = created + 1 /\ UNCHANGED <<cancelled, content, writes>>
    BY <1>1 DEF StartRepair, AskGateway, Activates, Listens, Idle, worldVars
  <2> QED
    BY <2>1 DEF Governed!RNext, Governed!Ask, Permit
<1>2. CASE ApproveRepair \/ ProposeUnderMission
  <2>1. turn # "apply" /\ UNCHANGED <<created, cancelled, content, writes>>
    BY <1>2 DEF ApproveRepair, ProposeUnderMission, Idle, worldVars
  <2>2. CASE turn' = "apply"
    BY <2>1, <2>2, PermitGiven
  <2>3. CASE turn' # "apply"
    BY <2>1, <2>3 DEF Governed!rvars, Permit
  <2> QED
    BY <2>2, <2>3
<1>3. ASSUME NEW outcome \in Outcomes, ApplyRepair(outcome)
      PROVE  Governed!RNext
  BY <1>3, PermitUsed DEF Governed!RNext
<1>4. CASE CancelMission
  <2>1. /\ turn # "apply" /\ turn' = turn
        /\ UNCHANGED <<created, content, writes>>
        /\ \E id : cancelled' = cancelled \union {id}
    BY <1>4 DEF CancelMission, Idle, worldVars
  <2>2. PICK id : cancelled' = cancelled \union {id}
    BY <2>1
  <2>3. id \in 1 .. created
    BY <2>1, <2>2 DEF IInv, WorldInv
  <2>4. Permit = Governed!NoPermit /\ Permit' = Permit
    BY <2>1 DEF Permit, Governed!NoPermit
  <2>5. Governed!Cancel(id)
    BY <2>1, <2>2, <2>4 DEF Governed!Cancel
  <2> QED
    BY <2>3, <2>5 DEF Governed!RNext
<1>5. CASE Crash
  <2>1. turn' # "apply" /\ UNCHANGED <<created, cancelled, content, writes>>
    BY <1>5 DEF Crash, worldVars
  <2>2. CASE turn = "apply"
    <3>1. Permit # Governed!NoPermit /\ Permit' = Governed!NoPermit
      BY <2>1, <2>2, WritersArePermitted DEF Permit, PermitStands, Governed!NoPermit
    <3> QED
      BY <2>1, <3>1 DEF Governed!RNext, Governed!Withdraw
  <2>3. CASE turn # "apply"
    BY <2>1, <2>3 DEF Governed!rvars, Permit
  <2> QED
    BY <2>2, <2>3
<1>6. CASE Edit
  <2>1. /\ UNCHANGED <<created, cancelled, turn, work, writes>>
        /\ \E t \in Target : content' = [content EXCEPT ![t] = "foreign"]
    BY <1>6 DEF Edit, processVars
  <2> QED
    BY <2>1 DEF Governed!RNext, Governed!Edit, Permit, Contents
<1>7. CASE UNCHANGED <<created, cancelled, turn, work, content, writes>>
  BY <1>7 DEF Governed!rvars, Permit
<1>8. CASE /\ turn # "apply" /\ turn' # "apply"
           /\ UNCHANGED <<created, cancelled, content, writes>>
  BY <1>8 DEF Governed!rvars, Permit
<1>9. Drift \/ Lapse \/ UNCHANGED vars
        => UNCHANGED <<created, cancelled, turn, work, content, writes>>
  BY DEF Drift, Lapse, vars, processVars, worldVars
<1>10. Investigate \/ AuthorizeMission \/ PrepareRepair \/ PrepareFails \/ ProposeForApproval
       \/ FinishRepair \/ DenyRepair \/ ResumeMission \/ ProjectMission \/ ContinueMission
       \/ ContinueStale \/ Restart
         => /\ turn # "apply" /\ turn' # "apply"
            /\ UNCHANGED <<created, cancelled, content, writes>>
  BY DEF IInv, WorldInv, Investigate, AuthorizeMission, PrepareRepair, PrepareFails,
         ProposeForApproval, FinishRepair, DenyRepair, ResumeMission, ProjectMission,
         ContinueMission, ContinueStale, Restart, Activates, Listens, Idle, worldVars
<1>11. \A outcome : TestRepair(outcome) \/ Qualify(outcome) \/ ReadWorkspace(outcome)
         => /\ turn # "apply" /\ turn' # "apply"
            /\ UNCHANGED <<created, cancelled, content, writes>>
  BY DEF TestRepair, Qualify, ReadWorkspace, worldVars
<1> QED
  BY <1>1, <1>2, <1>3, <1>4, <1>5, <1>6, <1>7, <1>8, <1>9, <1>10, <1>11 DEF Next

\* To someone who sees only the targets and what humans decided, a session with its loop, its
\* provider, its record and its restarts is a sequence of permits, each used at most once, on
\* the content that was reviewed, and never for a cancelled mission: for every number of
\* targets, missions and disturbances.
THEOREM ImplementsRepairs == Spec => ImplementsGovernedRepair
<1>1. Init => Governed!RInit
  BY DEF Init, Governed!RInit, Governed!NoPermit, Permit
<1>2. IInv /\ IInv' /\ [Next]_vars => [Governed!RNext]_(Governed!rvars)
  BY RepairStep
<1> QED
  BY <1>1, <1>2, MissionsInductive, PTL DEF Spec, ImplementsGovernedRepair, Governed!RSpec
=============================================================================
