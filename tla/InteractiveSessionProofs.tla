------------------------ MODULE InteractiveSessionProofs ------------------------
(***************************************************************************)
(* The natural session, for any workspace, any lines, any providers and    *)
(* any bounds: no governed task runs without a yes to that very task, and  *)
(* by the inductive invariant of InteractiveSessionInvariant every answer  *)
(* comes from the selected provider and all evidence is current and stays  *)
(* under its authorization.                                                *)
(***************************************************************************)
EXTENDS InteractiveSessionInvariant, FiniteSetTheorems, WellFoundedInduction, TLAPS

(***************************************************************************)
(* Approvals                                                               *)
(***************************************************************************)

\* A yes is remembered for the task in work and for the task of the context; the lines and
\* the task that waits are what the detectors make of the input.
Approvals ==
  /\ habit \subseteq Lines
  /\ queue \in Seq(Lines)
  /\ pending \in Tasks \union {NoTask}
  /\ approved \subseteq Tasks
  /\ "task" \in DOMAIN work
  /\ work.task # NoTask => work.task \in approved
  /\ context # NoContext => context.task \in approved

\* A task is made of the three fields the fingerprint binds.
LEMMA TaskFields ==
  ASSUME NEW task \in Tasks
  PROVE  task = [kind |-> task.kind, objective |-> task.objective, target |-> task.target]
<1>1. CASE task = ListTask
  BY <1>1 DEF ListTask
<1>2. CASE task \in FileTasks
  BY <1>2 DEF FileTasks, FileTask
<1>3. CASE task \in AnalysisTasks
  BY <1>3 DEF AnalysisTasks
<1> QED
  BY <1>1, <1>2, <1>3 DEF Tasks

\* Two tasks with the same fingerprint are the same task.
LEMMA FingerprintIdentifies ==
  ASSUME NEW a \in Tasks, NEW b \in Tasks, Fingerprint(a) = Fingerprint(b)
  PROVE  a = b
<1>1. a.kind = b.kind /\ a.objective = b.objective /\ a.target = b.target
  BY DEF Fingerprint
<1> QED
  BY <1>1, TaskFields

\* A repeated task runs only when it is the task of the context.
LEMMA ReuseIsOfTheContextTask ==
  ASSUME NEW task, NEW waiting \in Tasks, NEW at, NEW session,
         context.task \in Tasks,
         MayReuseAuthorization(context, task, now, world),
         AcceptsReuse(waiting, Provenance(task, context.authorization, session, at))
  PROVE  context # NoContext /\ waiting = context.task
<1>1. context # NoContext /\ Fingerprint(context.task) = Fingerprint(task)
  BY DEF MayReuseAuthorization
<1>2. Fingerprint(waiting) = Fingerprint(task)
  BY DEF AcceptsReuse, Provenance
<1> QED
  BY <1>1, <1>2, FingerprintIdentifies

LEMMA InitApproves == Init => Approvals
<1> SUFFICES ASSUME Init PROVE Approvals
  OBVIOUS
<1>1. /\ \E opening \in Openings : habit = opening.lines
      /\ queue = <<>> /\ pending = NoTask /\ approved = {} /\ context = NoContext
      /\ work = NoWork
  BY DEF Init
<1>2. habit \subseteq Lines
  BY <1>1, SessionAssumption
<1>3. work.task = NoTask /\ "task" \in DOMAIN work
  BY <1>1 DEF NoWork
<1>4. queue \in Seq(Lines)
  BY <1>1
<1> QED
  BY <1>1, <1>2, <1>3, <1>4 DEF Approvals

\* What a step of a handler, or of the world, leaves of the approvals.
LEMMA FrameApproves ==
  ASSUME Approvals, habit' = habit, queue' \in Seq(Lines),
         pending' \in {pending, NoTask}, approved' = approved,
         "task" \in DOMAIN work', work'.task \in {work.task, NoTask},
         context' = context \/ (work.task # NoTask /\ context'.task = work.task)
  PROVE  Approvals'
BY DEF Approvals

LEMMA WorkResumes == Resume => "task" \in DOMAIN work' /\ work'.task = NoTask
BY DEF Resume, NoWork

\* A line is taken from the queue.
LEMMA TakenLine ==
  ASSUME Approvals, NEW kind, Takes(kind)
  PROVE  /\ queue' \in Seq(Lines)
         /\ Head(queue) \in Lines
         /\ Head(queue).kind = kind
<1>1. queue \in Seq(Lines) /\ queue # <<>>
  BY DEF Approvals, Takes
<1>2. Head(queue) \in Lines /\ Tail(queue) \in Seq(Lines)
  BY <1>1
<1> QED
  BY <1>2 DEF Takes

LEMMA TakenTask ==
  ASSUME Approvals, Takes("task")
  PROVE  Head(queue).task \in Tasks
<1>1. Head(queue) \in Lines /\ Head(queue).kind = "task"
  BY TakenLine
<1>2. Head(queue) \notin {Line(kind) : kind \in LineKinds}
  BY <1>1 DEF Line, LineKinds
<1>3. Head(queue) \notin {LocalLine(model) : model \in LocalModel}
  BY <1>1 DEF LocalLine
<1> QED
  BY <1>1, <1>2, <1>3 DEF Lines, TaskLine

LEMMA ProposeTaskApproves == Approvals /\ ProposeTask => Approvals'
<1> SUFFICES ASSUME Approvals, ProposeTask PROVE Approvals'
  OBVIOUS
<1> DEFINE task == Head(queue).task
           waiting == IF pending = NoTask THEN task ELSE pending
           provenance == Provenance(task, context.authorization, context.experience.session, now)
           reused == MayReuseAuthorization(context, task, now, world)
                       /\ AcceptsReuse(waiting, provenance)
<1>1. task \in Tasks /\ queue' \in Seq(Lines)
  BY TakenTask, TakenLine DEF ProposeTask
<1>2. waiting \in Tasks
  BY <1>1 DEF Approvals
<1>3. habit' = habit /\ approved' = approved /\ context' = context
  BY DEF ProposeTask, humanVars, evidenceVars
<1>4. CASE reused
  <2>1. context # NoContext
    BY <1>4 DEF MayReuseAuthorization
  <2>2. context.task \in approved
    BY <2>1 DEF Approvals
  <2>3. context.task \in Tasks
    BY <2>2 DEF Approvals
  <2>4. waiting = context.task
    BY <1>2, <1>4, <2>3, ReuseIsOfTheContextTask
  <2>5. pending' = NoTask /\ work' = [NoWork EXCEPT !.task = waiting, !.repeated = TRUE]
    BY <1>4 DEF ProposeTask, Begins
  <2>6. "task" \in DOMAIN work' /\ work'.task = waiting
    BY <2>5 DEF NoWork
  <2> HIDE DEF waiting
  <2> QED
    BY <1>1, <1>3, <2>2, <2>4, <2>5, <2>6 DEF Approvals
<1>5. CASE ~reused
  <2>1. pending' = waiting /\ work' = work
    BY <1>5 DEF ProposeTask, Stays
  <2> HIDE DEF waiting
  <2> QED
    BY <1>1, <1>2, <1>3, <2>1 DEF Approvals
<1> QED
  BY <1>4, <1>5

LEMMA YesApproves == Approvals /\ Yes => Approvals'
<1> SUFFICES ASSUME Approvals, Yes PROVE Approvals'
  OBVIOUS
<1>1. queue' \in Seq(Lines) /\ pending' = NoTask /\ habit' = habit /\ context' = context
  BY TakenLine DEF Yes, humanVars, evidenceVars
<1>2. CASE pending = NoTask
  BY <1>1, <1>2 DEF Yes, Stays, Approvals
<1>3. CASE pending # NoTask
  <2>1. work' = [NoWork EXCEPT !.task = pending, !.repeated = FALSE]
    BY <1>3 DEF Yes, Begins
  <2>2. "task" \in DOMAIN work' /\ work'.task = pending
    BY <2>1 DEF NoWork
  <2>3. approved' = approved \union {pending}
    BY <1>3 DEF Yes
  <2> QED
    BY <1>1, <1>3, <2>2, <2>3 DEF Approvals
<1> QED
  BY <1>2, <1>3

\* The lines that begin no governed task.
LEMMA OtherLineApproves ==
  Approvals /\ (Refuse \/ Remind \/ Question \/ Status \/ SelectLocal \/ SelectExternal
                \/ Disable \/ Reset \/ Exit)
  => Approvals'
<1> SUFFICES ASSUME Approvals,
                    Refuse \/ Remind \/ Question \/ Status \/ SelectLocal \/ SelectExternal
                      \/ Disable \/ Reset \/ Exit
             PROVE  Approvals'
  OBVIOUS
<1>1. queue' \in Seq(Lines)
  BY TakenLine DEF Refuse, Remind, Question, Status, SelectLocal, SelectExternal, Disable,
                   Reset, Exit
<1>2. habit' = habit /\ approved' = approved /\ context' = context
  BY DEF Refuse, Remind, Question, Status, SelectLocal, SelectExternal, Disable, Reset, Exit,
         humanVars, evidenceVars
<1>3. pending' \in {pending, NoTask}
  BY DEF Refuse, Remind, Question, Status, SelectLocal, SelectExternal, Disable, Reset, Exit,
         Closes
<1>4. work' = work \/ work' = NoWork
  BY DEF Refuse, Remind, Question, Status, SelectLocal, SelectExternal, Disable, Reset, Exit,
         Stays
<1>5. "task" \in DOMAIN work' /\ work'.task \in {work.task, NoTask}
  BY <1>4 DEF Approvals, NoWork
<1> QED
  BY <1>1, <1>2, <1>3, <1>5, FrameApproves

\* The world: only the queue grows, or the session closes.
LEMMA WorldApproves == Approvals /\ (Type \/ Tick \/ Edit \/ Close) => Approvals'
<1> SUFFICES ASSUME Approvals, Type \/ Tick \/ Edit \/ Close PROVE Approvals'
  OBVIOUS
<1>1. queue' \in Seq(Lines)
  <2>1. CASE Type
    <3>1. PICK line \in habit : queue' = Append(queue, line)
      BY <2>1 DEF Type
    <3> QED
      BY <3>1 DEF Approvals
  <2>2. CASE Tick \/ Edit \/ Close
    BY <2>2 DEF Tick, Edit, Close, Approvals
  <2> QED
    BY <2>1, <2>2
<1>2. habit' = habit /\ approved' = approved /\ context' = context /\ work' = work
  BY DEF Type, Tick, Edit, Close, humanVars, evidenceVars
<1>3. pending' \in {pending, NoTask}
  BY DEF Type, Tick, Edit, Close, Closes
<1> QED
  BY <1>1, <1>2, <1>3, FrameApproves DEF Approvals

\* The context becomes one for the task in work, which has an envelope.
LEMMA AdoptsForTheTask ==
  ASSUME Approvals, NEW experience, NEW at, Adopts(experience, at)
  PROVE  /\ context' = context \/ (work.task # NoTask /\ context'.task = work.task)
         /\ "task" \in DOMAIN work'
         /\ work'.task \in {work.task, NoTask}
<1>1. CASE HasEnvelope(work.task)
  <2>1. work.task # NoTask
    BY <1>1 DEF HasEnvelope, TaskProfile, NoTask
  <2>2. context'.task = work.task
    BY <1>1 DEF Adopts, Context
  <2>3. work' = work \/ Resume
    BY <1>1 DEF Adopts, Proceeds
  <2> QED
    BY <2>1, <2>2, <2>3, WorkResumes DEF Approvals
<1>2. CASE ~HasEnvelope(work.task)
  BY <1>2, WorkResumes DEF Adopts
<1> QED
  BY <1>1, <1>2

LEMMA ContextApproves == Approvals /\ (Contextualize \/ OpenExperience) => Approvals'
<1> SUFFICES ASSUME Approvals, Contextualize \/ OpenExperience PROVE Approvals'
  OBVIOUS
<1>1. queue' = queue /\ habit' = habit /\ approved' = approved /\ pending' = pending
  BY DEF Contextualize, OpenExperience, handlerFrame, humanVars
<1>2. /\ context' = context \/ (work.task # NoTask /\ context'.task = work.task)
      /\ "task" \in DOMAIN work'
      /\ work'.task \in {work.task, NoTask}
  <2>1. CASE OpenExperience
    <3>1. PICK experience : Adopts(experience, work.at)
      BY <2>1 DEF OpenExperience
    <3> QED
      BY <3>1, AdoptsForTheTask
  <2>2. CASE Contextualize /\ ContextStands(context, work.task, now, world)
    <3>1. context' = context /\ (work' = work \/ Resume)
      BY <2>2 DEF Contextualize, Proceeds
    <3> QED
      BY <3>1, WorkResumes DEF Approvals
  <2>3. CASE Contextualize /\ ~ContextStands(context, work.task, now, world)
    <3>1. CASE ExperienceStands(context, world)
      <4>1. Adopts(context.experience, now)
        BY <2>3, <3>1 DEF Contextualize
      <4> QED
        BY <4>1, AdoptsForTheTask
    <3>2. CASE ~ExperienceStands(context, world)
      <4>1. context' = context
            /\ work' = [work EXCEPT !.at = now, !.session = Session(world, now)]
        BY <2>3, <3>2 DEF Contextualize
      <4>2. "task" \in DOMAIN work' /\ work'.task = work.task
        BY <4>1 DEF Approvals
      <4> QED
        BY <4>1, <4>2
    <3> QED
      BY <3>1, <3>2
  <2> QED
    BY <2>1, <2>2, <2>3
<1>3. queue' \in Seq(Lines) /\ pending' \in {pending, NoTask}
  BY <1>1 DEF Approvals
<1> QED
  BY <1>1, <1>2, <1>3, FrameApproves

\* The other steps of a handler: the task in work stays or is done with.
LEMMA HandlerKeepsTask ==
  ASSUME Approvals,
         Revalidate \/ ReadFile \/ Describe \/ AskProvider \/ Answer \/ Plan \/ Decide
           \/ Qualify \/ Dispatch \/ Remember
  PROVE  "task" \in DOMAIN work' /\ work'.task \in {work.task, NoTask}
<1> USE DEF Approvals
<1>1. CASE Revalidate
  BY <1>1, WorkResumes DEF Revalidate
<1>2. CASE ReadFile
  BY <1>2, WorkResumes DEF ReadFile
<1>3. CASE Describe
  BY <1>3, WorkResumes DEF Describe
<1>4. CASE AskProvider
  BY <1>4, WorkResumes DEF AskProvider
<1>5. CASE Answer
  BY <1>5, WorkResumes DEF Answer
<1>6. CASE Plan
  BY <1>6, WorkResumes DEF Plan, Asks, Responds
<1>7. CASE Decide
  BY <1>7, WorkResumes DEF Decide, Asks
<1>8. CASE Qualify
  BY <1>8, WorkResumes DEF Qualify
<1>9. CASE Dispatch
  BY <1>9, WorkResumes DEF Dispatch, DispatchFresh, Acquires
<1>10. CASE Remember
  BY <1>10 DEF Remember, Acquires
<1> QED
  BY <1>1, <1>2, <1>3, <1>4, <1>5, <1>6, <1>7, <1>8, <1>9, <1>10

LEMMA HandlerApproves ==
  Approvals /\ (Revalidate \/ ReadFile \/ Describe \/ AskProvider \/ Answer \/ Plan \/ Decide
                \/ Qualify \/ Dispatch \/ Remember)
  => Approvals'
<1> SUFFICES ASSUME Approvals,
                    Revalidate \/ ReadFile \/ Describe \/ AskProvider \/ Answer \/ Plan
                      \/ Decide \/ Qualify \/ Dispatch \/ Remember
             PROVE  Approvals'
  OBVIOUS
<1>1. queue' = queue /\ habit' = habit /\ approved' = approved /\ pending' = pending
  BY DEF Revalidate, ReadFile, Describe, AskProvider, Answer, Plan, Decide, Qualify, Dispatch,
         Remember, handlerFrame, humanVars
<1>2. context' = context
  BY DEF Revalidate, ReadFile, Describe, AskProvider, Answer, Plan, Decide, Qualify, Dispatch,
         Remember, evidenceVars
<1>3. queue' \in Seq(Lines) /\ pending' \in {pending, NoTask}
  BY <1>1 DEF Approvals
<1> QED
  BY <1>1, <1>2, <1>3, HandlerKeepsTask, FrameApproves

LEMMA NextApproves == Approvals /\ [Next]_vars => Approvals'
<1> SUFFICES ASSUME Approvals, [Next]_vars PROVE Approvals'
  OBVIOUS
<1>1. CASE LineTaken
  BY <1>1, ProposeTaskApproves, YesApproves, OtherLineApproves DEF LineTaken
<1>2. CASE Handler
  BY <1>2, ContextApproves, HandlerApproves DEF Handler
<1>3. CASE Type \/ Tick \/ Edit \/ Close
  BY <1>3, WorldApproves
<1>4. CASE UNCHANGED vars
  BY <1>4 DEF vars, Approvals
<1> QED
  BY <1>1, <1>2, <1>3, <1>4 DEF Next

\* A governed task runs only after the human said yes to that very task: the reuse of an
\* authorization, the task that waits and the one that was proposed are the same one
\* (handleNaturalSessionInput, createAuthorizedNaturalTaskReuse).
THEOREM ApprovedTasksOnly == Spec => []OnlyApprovedTasksRun
<1>1. Approvals => OnlyApprovedTasksRun
  BY DEF Approvals, OnlyApprovedTasksRun
<1> QED
  BY <1>1, InitApproves, NextApproves, PTL DEF Spec
-----------------------------------------------------------------------------
(***************************************************************************)
(* Positions and sequences                                                 *)
(***************************************************************************)

\* Every set of numbers that is not empty has a least one.
LEMMA LeastExists ==
  ASSUME NEW S \in SUBSET Nat, S # {}
  PROVE  \E n \in S : \A m \in S : n <= m
<1>1. IsWellFoundedOn({pair \in Nat \X Nat : pair[1] < pair[2]}, Nat)
  BY NatLessThanWellFounded, Zenon DEF OpToRel
<1>2. PICK R : R = {pair \in Nat \X Nat : pair[1] < pair[2]}
  OBVIOUS
<1>3. IsWellFoundedOn(R, Nat)
  BY <1>1, <1>2, Zenon
<1>4. \E n \in S : \A m \in S : ~ (<<m, n>> \in R)
  BY <1>3, WFMin, Zenon
<1>5. PICK n \in S : \A m \in S : ~ (<<m, n>> \in R)
  BY <1>4
<1>6. ASSUME NEW m \in S PROVE n <= m
  <2>1. <<m, n>> \notin R
    BY <1>5
  <2> QED
    BY <1>2, <2>1
<1> QED
  BY <1>6

\* Every finite set of numbers that is not empty has a greatest one: a set of the least size
\* that had none would still have none without one of its elements.
LEMMA GreatestExists ==
  ASSUME NEW S \in SUBSET Nat, IsFiniteSet(S), S # {}
  PROVE  \E n \in S : \A m \in S : n >= m
<1> DEFINE Without(T) == T # {} /\ IsFiniteSet(T) /\ \A n \in T : \E m \in T : ~(n >= m)
           Sizes == {k \in Nat : \E T \in SUBSET Nat : Cardinality(T) = k /\ Without(T)}
<1> SUFFICES ASSUME Without(S) PROVE FALSE
  OBVIOUS
<1>1. Cardinality(S) \in Nat
  BY FS_CardinalityType
<1>2. Sizes \in SUBSET Nat /\ Sizes # {}
  BY <1>1
<1>3. PICK k \in Sizes : \A j \in Sizes : k <= j
  <2> HIDE DEF Sizes
  <2> QED
    BY <1>2, LeastExists
<1>4. PICK T \in SUBSET Nat : Cardinality(T) = k /\ Without(T)
  BY <1>3
<1>5. PICK x \in T : TRUE
  BY <1>4
<1>6. IsFiniteSet(T \ {x}) /\ Cardinality(T \ {x}) = k - 1
  BY <1>4, <1>5, FS_RemoveElement
<1>7. Cardinality(T \ {x}) \in Nat
  BY <1>6, FS_CardinalityType
<1>8. CASE T \ {x} = {}
  <2>1. \A m \in T : x >= m
    BY <1>8
  <2> QED
    BY <1>4, <2>1
<1>9. CASE T \ {x} # {}
  <2>1. ~Without(T \ {x})
    <3>1. SUFFICES ASSUME Without(T \ {x}) PROVE FALSE
      OBVIOUS
    <3>2. k - 1 \in Sizes
      BY <1>6, <1>7, <3>1
    <3> QED
      BY <1>3, <3>2
  <2>2. PICK n \in T \ {x} : \A m \in T \ {x} : n >= m
    BY <1>6, <1>9, <2>1
  <2>3. PICK g \in T : \A m \in T : g >= m
    <3>1. CASE n >= x
      BY <2>2, <3>1
    <3>2. CASE ~(n >= x)
      <4>1. \A m \in T : x >= m
        BY <2>2, <3>2
      <4> QED
        BY <4>1
    <3> QED
      BY <3>1, <3>2
  <2> QED
    BY <1>4, <2>3
<1> QED
  BY <1>8, <1>9

LEMMA OldestIsOne ==
  ASSUME NEW S \in SUBSET Nat, S # {}
  PROVE  Oldest(S) \in S
<1>1. \E n \in S : \A m \in S : n <= m
  BY LeastExists
<1> QED
  BY <1>1 DEF Oldest, Min

LEMMA LatestIsOne ==
  ASSUME NEW S \in SUBSET Nat, IsFiniteSet(S)
  PROVE  /\ Latest(S) \in Nat
         /\ S # {} => Latest(S) \in S
         /\ \A m \in S : m <= Latest(S)
<1>1. CASE S = {}
  BY <1>1 DEF Latest
<1>2. CASE S # {}
  <2>1. \E n \in S : \A m \in S : n >= m
    BY <1>2, GreatestExists
  <2>2. Max(S) \in S /\ \A m \in S : Max(S) >= m
    BY <2>1 DEF Max
  <2> QED
    BY <1>2, <2>2 DEF Latest
<1> QED
  BY <1>1, <1>2

LEMMA EmptyIsSequence == IsSequence(<<>>) /\ Len(<<>>) = 0 /\ DOMAIN <<>> = {}
BY DEF IsSequence

LEMMA SingleIsSequence ==
  ASSUME NEW x
  PROVE  /\ IsSequence(<<x>>) /\ Len(<<x>>) = 1 /\ DOMAIN <<x>> = {1} /\ <<x>>[1] = x
<1>1. <<x>> \in Seq({x})
  OBVIOUS
<1>2. {<<x>>[i] : i \in DOMAIN <<x>>} = {x}
  OBVIOUS
<1> QED
  BY <1>1, <1>2 DEF IsSequence

LEMMA AppendIsSequence ==
  ASSUME NEW s, IsSequence(s), NEW x
  PROVE  /\ IsSequence(Append(s, x))
         /\ Len(s) \in Nat /\ DOMAIN s = 1 .. Len(s)
         /\ Len(Append(s, x)) = Len(s) + 1
         /\ DOMAIN Append(s, x) \ DOMAIN s = {Len(s) + 1}
         /\ Append(s, x)[Len(s) + 1] = x
         /\ DOMAIN Append(s, x) = DOMAIN s \union {Len(s) + 1}
         /\ \A i \in DOMAIN s : Append(s, x)[i] = s[i]
<1> DEFINE S == {s[i] : i \in DOMAIN s}
<1>1. s \in Seq(S)
  BY DEF IsSequence
<1>2. s \in Seq(S \union {x})
  <2>1. \A i \in DOMAIN s : s[i] \in S
    OBVIOUS
  <2> HIDE DEF S
  <2> QED
    BY <1>1
<1>3. Append(s, x) \in Seq(S \union {x})
  <2> HIDE DEF S
  <2> QED BY <1>2
<1>4. /\ Len(s) \in Nat /\ DOMAIN s = 1 .. Len(s)
      /\ Len(Append(s, x)) = Len(s) + 1
      /\ Append(s, x)[Len(s) + 1] = x
      /\ \A i \in DOMAIN s : Append(s, x)[i] = s[i]
  <2> HIDE DEF S
  <2> QED BY <1>1
<1>5. DOMAIN Append(s, x) = 1 .. Len(s) + 1
  <2> HIDE DEF S
  <2> QED BY <1>3, <1>4
<1>6. {Append(s, x)[i] : i \in DOMAIN Append(s, x)} = S \union {x}
  BY <1>4, <1>5
<1>7. IsSequence(Append(s, x))
  BY <1>3, <1>6 DEF IsSequence
<1> QED
  BY <1>4, <1>5, <1>7

(***************************************************************************)
(* The evidence cache                                                      *)
(***************************************************************************)

LEMMA RestrictStands ==
  ASSUME NEW entries, CacheStands(entries), NEW kept \in SUBSET DOMAIN entries
  PROVE  /\ CacheStands(Restrict(entries, kept))
         /\ DOMAIN Restrict(entries, kept) = kept
         /\ \A i \in kept : Restrict(entries, kept)[i] = entries[i]
<1>1. /\ DOMAIN Restrict(entries, kept) = kept
      /\ \A i \in kept : Restrict(entries, kept)[i] = entries[i]
  BY DEF Restrict
<1>2. IsFiniteSet(kept) /\ Cardinality(kept) <= Cardinality(DOMAIN entries)
  BY FS_Subset DEF CacheStands
<1>3. Cardinality(kept) \in Nat /\ Cardinality(DOMAIN entries) \in Nat
  BY <1>2, FS_CardinalityType DEF CacheStands
<1>4. Cardinality(kept) <= MaxCache
  BY <1>2, <1>3, EvidenceAssumption DEF CacheStands
<1> QED
  BY <1>1, <1>2, <1>4 DEF CacheStands

\* What is left of the cache was read under the authorization of the context, and its grant is
\* still valid (pruneNaturalEvidenceCache).
LEMMA PrunedStands ==
  ASSUME NEW entries, CacheStands(entries), NEW ctx, NEW at
  PROVE  /\ CacheStands(Pruned(entries, ctx, at))
         /\ \A i \in DOMAIN Pruned(entries, ctx, at) :
              /\ at < Pruned(entries, ctx, at)[i].expires
              /\ Pruned(entries, ctx, at)[i].authorization = ctx.authorization
<1> DEFINE keeps(entry) ==
             /\ entry.read.observedAt <= at
             /\ at < entry.expires
             /\ entry.authorization = ctx.authorization
             /\ entry.session = ctx.experience.session
           kept == IF ctx = NoContext THEN {} ELSE {i \in DOMAIN entries : keeps(entries[i])}
<1>1. Pruned(entries, ctx, at) = Restrict(entries, kept)
  BY DEF Pruned
<1>2. kept \in SUBSET DOMAIN entries
  OBVIOUS
<1>3. \A i \in kept : at < entries[i].expires /\ entries[i].authorization = ctx.authorization
  OBVIOUS
<1> HIDE DEF kept
<1> QED
  BY <1>1, <1>2, <1>3, RestrictStands

\* An entry found for reuse stands, is what the search looked for and is kept by the pruning.
LEMMA ReusableStands ==
  ASSUME NEW entries, CacheStands(entries), NEW ctx, NEW capability, NEW target, NEW at, NEW w,
         NEW found, found = Reusable(entries, ctx, capability, target, at, w)
  PROVE  /\ CacheStands(found.cache)
         /\ found.entry # NoEntry =>
              /\ EntryStands(found.entry)
              /\ at < found.entry.expires
              /\ found.entry.authorization = ctx.authorization
              /\ found.entry.capability = capability
              /\ found.entry.identity = Identity(capability, target, ctx.experience.session, w)
              /\ HasIdentity(capability, target, w)
<1> DEFINE pruned == Pruned(entries, ctx, at)
           identity == Identity(capability, target, ctx.experience.session, w)
           matching == {i \in DOMAIN pruned : pruned[i].capability = capability
                                              /\ pruned[i].identity = identity}
           newest == Newest(pruned, capability, identity)
           kept == {i \in DOMAIN pruned : i <= newest \/ pruned[i].capability # capability}
<1>1. CacheStands(pruned)
  BY PrunedStands
<1>2. CASE ~(ExperienceStands(ctx, w) /\ HasIdentity(capability, target, w))
  BY <1>1, <1>2 DEF Reusable
<1>3. CASE ExperienceStands(ctx, w) /\ HasIdentity(capability, target, w)
  <2>1. /\ found.cache = Searched(pruned, capability, newest)
        /\ found.entry = IF newest = 0 THEN NoEntry ELSE pruned[newest]
    BY <1>3 DEF Reusable
  <2>2. Searched(pruned, capability, newest) = Restrict(pruned, kept)
    BY DEF Searched
  <2>3. CacheStands(found.cache)
    <3>1. kept \in SUBSET DOMAIN pruned
      OBVIOUS
    <3> HIDE DEF pruned, kept, newest
    <3> QED
      BY <1>1, <2>1, <2>2, <3>1, RestrictStands
  <2>4. ASSUME found.entry # NoEntry
        PROVE  newest \in matching /\ found.entry = pruned[newest]
    <3>1. newest # 0 /\ found.entry = pruned[newest]
      BY <2>1, <2>4
    <3>2. newest = Latest(matching)
      BY DEF Newest
    <3>3. matching # {}
      BY <3>1, <3>2 DEF Latest
    <3>4. matching \in SUBSET DOMAIN pruned
      OBVIOUS
    <3>5. matching \in SUBSET Nat /\ IsFiniteSet(matching)
      <4> HIDE DEF matching, pruned
      <4> QED
        BY <1>1, <3>4, FS_Subset DEF CacheStands
    <3> HIDE DEF matching, pruned, newest
    <3> QED
      BY <3>1, <3>2, <3>3, <3>5, LatestIsOne
  <2>5. ASSUME found.entry # NoEntry
        PROVE  /\ newest \in DOMAIN pruned
               /\ found.entry = pruned[newest]
               /\ pruned[newest].capability = capability
               /\ pruned[newest].identity = identity
    BY <2>4, <2>5
  <2>6. ASSUME found.entry # NoEntry
        PROVE  /\ EntryStands(found.entry)
               /\ at < found.entry.expires
               /\ found.entry.authorization = ctx.authorization
    <3>1. EntryStands(pruned[newest])
      <4> HIDE DEF pruned, newest
      <4> QED
        BY <1>1, <2>5, <2>6 DEF CacheStands
    <3>2. at < pruned[newest].expires /\ pruned[newest].authorization = ctx.authorization
      <4> HIDE DEF newest
      <4> QED
        BY <2>5, <2>6, PrunedStands
    <3> QED
      BY <2>5, <2>6, <3>1, <3>2
  <2> HIDE DEF pruned, newest, kept, matching
  <2> QED
    BY <1>3, <2>3, <2>5, <2>6
<1> QED
  BY <1>2, <1>3

\* A new entry comes after all others, and the oldest goes when there is no room.
LEMMA CachedStands ==
  ASSUME NEW entries, CacheStands(entries), NEW entry, EntryStands(entry)
  PROVE  CacheStands(Cached(entries, entry))
<1> DEFINE next == 1 + Latest(DOMAIN entries)
           longer == [i \in DOMAIN entries \union {next} |-> IF i = next THEN entry ELSE entries[i]]
<1>1. DOMAIN entries \in SUBSET Nat /\ IsFiniteSet(DOMAIN entries)
  BY DEF CacheStands
<1>2. next \in Nat \ {0}
  BY <1>1, LatestIsOne
<1>3. DOMAIN longer = DOMAIN entries \union {next}
  OBVIOUS
<1>4. /\ DOMAIN longer \subseteq Nat \ {0} /\ IsFiniteSet(DOMAIN longer)
      /\ Cardinality(DOMAIN longer) <= Cardinality(DOMAIN entries) + 1
  <2> HIDE DEF next, longer
  <2>1. Cardinality(DOMAIN entries) \in Nat
    BY <1>1, FS_CardinalityType
  <2> QED
    BY <1>1, <1>2, <1>3, <2>1, FS_AddElement DEF CacheStands
<1>5. \A i \in DOMAIN longer : EntryStands(longer[i])
  <2> HIDE DEF next
  <2> QED
    BY DEF CacheStands
<1>6. Cardinality(DOMAIN longer) \in Nat /\ Cardinality(DOMAIN entries) \in Nat
  BY <1>1, <1>4, FS_CardinalityType
<1>7. CASE Cardinality(DOMAIN longer) <= MaxCache
  <2>1. Cached(entries, entry) = longer
    BY <1>6, <1>7, EvidenceAssumption DEF Cached
  <2> HIDE DEF longer
  <2> QED
    BY <1>4, <1>5, <1>7, <2>1 DEF CacheStands
<1>8. CASE ~(Cardinality(DOMAIN longer) <= MaxCache)
  <2> DEFINE kept == DOMAIN longer \ {Oldest(DOMAIN longer)}
             shorter == Restrict(longer, kept)
  <2>1. Cached(entries, entry) = shorter
    BY <1>6, <1>8, EvidenceAssumption DEF Cached
  <2>2. Oldest(DOMAIN longer) \in DOMAIN longer
    <3>1. DOMAIN longer \in SUBSET Nat /\ DOMAIN longer # {}
      BY <1>2, <1>3, <1>4
    <3> HIDE DEF longer
    <3> QED
      BY <3>1, OldestIsOne
  <2>3. IsFiniteSet(kept) /\ Cardinality(kept) = Cardinality(DOMAIN longer) - 1
    <3> HIDE DEF longer
    <3> QED
      BY <1>4, <2>2, FS_RemoveElement
  <2>4. Cardinality(kept) <= MaxCache
    <3> HIDE DEF longer, kept
    <3> QED
      BY <1>4, <1>6, <2>3, EvidenceAssumption DEF CacheStands
  <2>5. DOMAIN shorter = kept /\ \A i \in kept : shorter[i] = longer[i]
    <3> HIDE DEF longer
    <3> QED
      BY DEF Restrict
  <2>6. kept \subseteq DOMAIN longer
    OBVIOUS
  <2> HIDE DEF longer, kept, shorter
  <2> QED
    BY <1>4, <1>5, <2>1, <2>3, <2>4, <2>5, <2>6 DEF CacheStands
<1> QED
  BY <1>7, <1>8

\* What is kept of a governed read (cacheNaturalEvidence).
LEMMA CacheEntryStands ==
  ASSUME NEW ctx, ctx.authorization.proposal.expires \in Nat, NEW read, NEW w,
         read.observedAt \in Nat, read.expires = read.observedAt + GrantLife,
         Cacheable(ctx, read, w)
  PROVE  EntryStands(CacheEntry(ctx, read, w))
<1>1. /\ read.kind \in {"WORKSPACE_FILES", "READ_FILE"}
      /\ read.kind = "READ_FILE" => read.content = w[read.target]
  BY DEF Cacheable
<1>2. read.expires \in Nat
  BY EvidenceAssumption
<1>3. PICK e : e = CacheEntry(ctx, read, w)
  OBVIOUS
<1>4. /\ e.capability = CacheCapability(read.kind)
      /\ e.identity = Identity(CacheCapability(read.kind), read.target, ctx.experience.session, w)
      /\ e.read = read
      /\ e.expires = MinOf(read.expires, ctx.authorization.proposal.expires)
  BY <1>3 DEF CacheEntry
<1>5. e.expires \in Nat /\ e.expires <= read.expires
  BY <1>2, <1>4 DEF MinOf
<1>6. read.kind = "READ_FILE" => e.identity = <<read.target, read.content>>
  BY <1>1, <1>4 DEF Identity, CacheCapability
<1> QED
  BY <1>1, <1>3, <1>4, <1>5, <1>6 DEF EntryStands

(***************************************************************************)
(* The provider                                                            *)
(***************************************************************************)

LEMMA PermittedProviders == Permitted(choice) \subseteq Providers
BY ProviderAssumption DEF Permitted, Providers

LEMMA PermittedKept ==
  ASSUME choice' = choice, provider'.codex = provider.codex
  PROVE  Permitted(choice)' = Permitted(choice)
BY DEF Permitted

\* A session that initializes itself again comes to the provider that was selected, or to none.
LEMMA StatesKeepSelection ==
  ASSUME SelectionInv, NEW installed, provider' \in States(provider, installed), choice' = choice
  PROVE  SelectionInv' /\ provider'.codex = provider.codex
<1>1. CASE provider.initialized
  <2>1. provider' = provider
    BY <1>1 DEF States
  <2> QED
    BY <2>1 DEF SelectionInv, Permitted
<1>2. CASE ~provider.initialized
  <2>1. PICK c \in Compositions(provider, installed) :
          provider' = [provider EXCEPT !.initialized = TRUE, !.composition = c]
    BY <1>2 DEF States, Initialized
  <2>2. c \in Permitted(choice) \union {NoProvider}
    <3>1. CASE provider.preference = "DISABLED"
      BY <2>1, <3>1 DEF Compositions
    <3>2. CASE provider.preference = "EXPLICIT_EXTERNAL"
      BY <2>1, <3>2, ProviderAssumption
         DEF Compositions, CodexCompositions, SelectionInv, Permitted
    <3>3. CASE provider.preference = "EXPLICIT_LOCAL"
      <4>1. provider.model = choice /\ choice \in LocalModel
        BY <3>3 DEF SelectionInv
      <4>2. provider.model # NoModel
        BY <4>1, ProviderAssumption
      <4>3. c \in {choice, NoProvider}
        BY <2>1, <3>3, <4>1, <4>2 DEF Compositions, Discovered
      <4>4. choice # "auto" /\ Permitted(choice) = {choice}
        BY <4>1, ProviderAssumption DEF Permitted
      <4> QED
        BY <4>3, <4>4
    <3>4. CASE provider.preference = "AUTO_LOCAL"
      <4>1. provider.model = NoModel /\ choice = "auto"
        BY <3>4 DEF SelectionInv
      <4>2. c \in {DefaultModel, NoProvider}
        BY <2>1, <3>4, <4>1, ProviderAssumption
           DEF Compositions, Discovered, QualifiesAutomatically
      <4> QED
        BY <4>1, <4>2, ProviderAssumption DEF Permitted
    <3>5. provider.preference \in Preferences
      BY DEF SelectionInv
    <3> QED
      BY <3>1, <3>2, <3>3, <3>4, <3>5 DEF Preferences
  <2>3. c \in Providers \union {NoProvider}
    BY <2>2, PermittedProviders
  <2>4. /\ provider'.preference = provider.preference /\ provider'.model = provider.model
        /\ provider'.codex = provider.codex /\ provider'.composition = c
    BY <2>1 DEF SelectionInv
  <2>5. provider' \in [preference : Preferences, model : LocalModel \union {NoModel},
                   initialized : BOOLEAN, composition : Providers \union {NoProvider},
                   codex : BOOLEAN, closed : BOOLEAN]
    BY <2>1, <2>3 DEF SelectionInv
  <2>6. Permitted(choice)' = Permitted(choice)
    BY <2>4, PermittedKept
  <2> QED
    BY <2>2, <2>4, <2>5, <2>6 DEF SelectionInv
<1> QED
  BY <1>1, <1>2

LEMMA ClosedKeepsSelection ==
  ASSUME SelectionInv, provider' = ProviderClosed(provider), choice' = choice
  PROVE  SelectionInv' /\ provider'.codex = provider.codex
<1>1. provider' = [provider EXCEPT !.initialized = FALSE, !.composition = NoProvider,
                                   !.closed = TRUE]
  BY DEF ProviderClosed, ConversationReset, SelectionInv
<1>2. provider'.codex = provider.codex
  BY <1>1 DEF SelectionInv
<1>3. Permitted(choice)' = Permitted(choice)
  BY <1>2, PermittedKept
<1> QED
  BY <1>1, <1>2, <1>3 DEF SelectionInv

LEMMA ParsedDecisionsAre ==
  ASSUME NEW composition, NEW objective, NEW history,
         NEW d \in ParsedDecisions(composition, objective, history, Decisions)
  PROVE  d \in Decisions \union {NoDecision}
<1>1. PICK result \in Results(composition, "PLAN", objective, history,
                              Decisions \union {NoDecision}) :
        d = IF result.status = "COMPLETED" THEN result.output ELSE NoDecision
  BY DEF ParsedDecisions
<1>2. result.status = "COMPLETED" => result.output \in Decisions \union {NoDecision}
  BY <1>1 DEF Results, SeamResults, FailedResult
<1> QED
  BY <1>1, <1>2

LEMMA DecisionIs ==
  ASSUME NEW d \in Decisions, d # Respond
  PROVE  d.request \in Requests
BY DEF Decisions, Ask

(***************************************************************************)
(* The handler in work                                                     *)
(***************************************************************************)

WorkFields == {"task", "repeated", "at", "session", "evidence", "cached", "request", "reuse",
               "read", "with", "by", "heard"}

LEMMA NoWorkIs ==
  /\ DOMAIN NoWork = WorkFields
  /\ NoWork.task = NoTask /\ NoWork.at = 0 /\ NoWork.evidence = <<>>
  /\ NoWork.repeated = FALSE /\ NoWork.cached = FALSE /\ NoWork.reuse = FALSE
  /\ NoWork.request = NoRequest /\ NoWork.with = NoProvider /\ NoWork.by = NoProvider
  /\ NoWork.heard = {}
BY DEF NoWork, WorkFields

LEMMA NoTaskIsNone == NoTask \notin Tasks /\ NoTask.kind = "NONE"
<1>1. NoTask.kind = "NONE"
  BY DEF NoTask
<1>2. ASSUME NEW task \in Tasks PROVE task.kind # "NONE"
  <2>1. CASE task = ListTask
    BY <2>1 DEF ListTask
  <2>2. CASE task \in FileTasks
    BY <2>2 DEF FileTasks, FileTask
  <2>3. CASE task \in AnalysisTasks
    BY <2>3 DEF AnalysisTasks
  <2> QED
    BY <2>1, <2>2, <2>3 DEF Tasks
<1> QED
  BY <1>1, <1>2

LEMMA AnalysisTask ==
  ASSUME NEW task \in Tasks \union {NoTask}, task.kind = "PROJECT_ANALYSIS"
  PROVE  task \in Tasks /\ task.objective \in Objective
<1>1. task # ListTask /\ task # NoTask
  BY DEF ListTask, NoTask
<1>2. ASSUME task \in FileTasks PROVE FALSE
  <2>1. task.kind \in {"READ_FILE", "READ_AND_EXPLAIN_FILE"}
    BY <1>2 DEF FileTasks, FileTask
  <2> QED
    BY <2>1
<1>3. task \in AnalysisTasks
  BY <1>1, <1>2 DEF Tasks
<1> QED
  BY <1>3 DEF AnalysisTasks, Tasks

\* The part of the invariant that a handler which is done leaves.
HandlerInv ==
  WorkInv /\ EvidenceInv /\ ReadInv /\ EvidenceStaysUnderItsAuthorization

LEMMA ResumedHandler ==
  ASSUME Resume
  PROVE  HandlerInv' /\ work' = NoWork /\ phase' = "idle"
<1>1. phase' = "idle" /\ work' = NoWork
  BY DEF Resume
<1>2. WorkInv'
  <2>1. phase' \in Phases /\ phase' \notin Analysing /\ phase' \notin {"await", "answer"}
    BY <1>1 DEF Phases, Analysing
  <2>2. DOMAIN work' = DOMAIN NoWork /\ work'.task \in Tasks \union {NoTask} /\ work'.at \in Nat
    BY <1>1, NoWorkIs
  <2>3. {work'.repeated, work'.cached, work'.reuse} \subseteq BOOLEAN
    BY <1>1, NoWorkIs
  <2>4. /\ work'.request \in Requests \union {NoRequest}
        /\ {work'.with, work'.by} \subseteq Providers \union {NoProvider}
    BY <1>1, NoWorkIs
  <2> QED
    BY <1>1, <2>1, <2>2, <2>3, <2>4 DEF WorkInv
<1>3. EvidenceInv'
  BY <1>1, NoWorkIs, EmptyIsSequence, TaskAssumption DEF EvidenceInv, BeforeEvidence, Acquiring
<1>4. ReadInv'
  BY <1>1 DEF ReadInv
<1>5. EvidenceStaysUnderItsAuthorization'
  BY <1>1, NoWorkIs DEF EvidenceStaysUnderItsAuthorization
<1> QED
  BY <1>1, <1>2, <1>3, <1>4, <1>5 DEF HandlerInv

\* What a step that is no observation of the workspace leaves of it.
LEMMA WorldStays ==
  ASSUME WorldInv, now' = now, world' = world,
         seen' = seen \/ seen' = [t \in Target |-> {world[t]}]
  PROVE  WorldInv'
BY DEF WorldInv

LEMMA LinesStay ==
  ASSUME LinesInv, UNCHANGED <<habit, typed, open, queue, pending, approved>>
  PROVE  LinesInv'
BY DEF LinesInv

\* What a step of a handler leaves alone.
LEMMA HandlerFrame ==
  ASSUME IInv, UNCHANGED handlerFrame, seen' = seen \/ seen' = [t \in Target |-> {world[t]}]
  PROVE  WorldInv' /\ LinesInv'
<1>1. now' = now /\ world' = world /\ UNCHANGED <<habit, typed, open, queue, pending, approved>>
  BY DEF handlerFrame, humanVars
<1> QED
  BY <1>1, WorldStays, LinesStay DEF IInv

LEMMA ProviderStays ==
  ASSUME IInv, provider' = provider, choice' = choice
  PROVE  SelectionInv' /\ Permitted(choice)' = Permitted(choice)
BY DEF IInv, SelectionInv, Permitted

\* The answers of the handler in work, and those the session remembers.
WorkAnswers ==
  {work.with, work.by} \union work.heard \subseteq Permitted(choice) \union {NoProvider}
MemoryAnswers ==
  memory.turns \union {d.by : d \in memory.decisions}
    \subseteq Permitted(choice) \union {NoProvider}

LEMMA AnswersAre ==
  (AnswersComeFromTheSelectedProvider <=> WorkAnswers /\ MemoryAnswers)
  /\ (AnswersComeFromTheSelectedProvider' <=> WorkAnswers' /\ MemoryAnswers')
BY DEF AnswersComeFromTheSelectedProvider, WorkAnswers, MemoryAnswers

LEMMA NoAnswers ==
  /\ work' = NoWork => WorkAnswers'
  /\ memory' = EmptyMemory => MemoryInv' /\ MemoryAnswers'
<1>1. ASSUME work' = NoWork PROVE WorkAnswers'
  BY <1>1, NoWorkIs DEF WorkAnswers
<1>2. ASSUME memory' = EmptyMemory PROVE MemoryInv' /\ MemoryAnswers'
  BY <1>2 DEF MemoryInv, MemoryAnswers, EmptyMemory
<1> QED
  BY <1>1, <1>2

\* The parts of the invariant, as the lemmas on the actions put them together.
LEMMA Assembled ==
  ASSUME WorldInv', LinesInv', MemoryInv', ContextInv', SelectionInv', HandlerInv',
         CacheStands(cache)', WorkAnswers', MemoryAnswers'
  PROVE  IInv'
BY AnswersAre DEF IInv, HandlerInv

\* The handler in work is not touched.
LEMMA HandlerStays ==
  ASSUME IInv, phase' = phase, work' = work, seen' = seen, context' = context
  PROVE  HandlerInv'
<1>1. WorkInv'
  BY DEF IInv, WorkInv
<1>2. EvidenceInv'
  BY DEF IInv, EvidenceInv, IsSequence
<1>3. ReadInv'
  BY DEF IInv, ReadInv
<1>4. EvidenceStaysUnderItsAuthorization'
  BY DEF IInv, EvidenceStaysUnderItsAuthorization
<1> QED
  BY <1>1, <1>2, <1>3, <1>4 DEF HandlerInv

LEMMA EvidenceVarsStay ==
  ASSUME IInv, context' = context, cache' = cache
  PROVE  ContextInv' /\ CacheStands(cache)'
BY DEF IInv, ContextInv, CacheStands, EntryStands

LEMMA AnswersStay ==
  ASSUME IInv, Permitted(choice)' = Permitted(choice)
  PROVE  /\ work' = work => WorkAnswers'
         /\ memory' = memory => MemoryInv' /\ MemoryAnswers'
<1>1. WorkAnswers /\ MemoryAnswers
  BY AnswersAre DEF IInv
<1>2. work' = work => WorkAnswers'
  BY <1>1 DEF WorkAnswers
<1>3. memory' = memory => MemoryInv' /\ MemoryAnswers'
  BY <1>1 DEF MemoryAnswers, MemoryInv, IInv
<1> QED
  BY <1>2, <1>3

(***************************************************************************)
(* Init and the world                                                      *)
(***************************************************************************)

LEMMA InitIInv == Init => IInv
<1> SUFFICES ASSUME Init PROVE IInv
  OBVIOUS
<1>1. PICK opening \in Openings : /\ habit = opening.lines
                                  /\ provider = NewProvider(opening.codex)
                                  /\ choice = IF opening.codex THEN "codex" ELSE "auto"
  BY DEF Init
<1>2. opening.codex \in BOOLEAN /\ opening.lines \subseteq Lines
  BY SessionAssumption
<1>3. WorldInv
  BY SessionAssumption DEF Init, WorldInv
<1>4. LinesInv
  BY <1>1, <1>2, SessionAssumption DEF Init, LinesInv
<1>5. MemoryInv
  BY DEF Init, MemoryInv, EmptyMemory
<1>6. ContextInv
  BY TaskAssumption DEF Init, ContextInv, NoContext, Context, Authorization, Proposal
<1>7. SelectionInv
  <2>1. provider = [preference |-> IF opening.codex THEN "EXPLICIT_EXTERNAL" ELSE "AUTO_LOCAL",
                    model |-> NoModel, initialized |-> FALSE, composition |-> NoProvider,
                    codex |-> opening.codex, closed |-> FALSE]
    BY <1>1 DEF NewProvider
  <2>2. CASE opening.codex
    BY <1>1, <1>2, <2>1, <2>2 DEF SelectionInv, Preferences
  <2>3. CASE ~opening.codex
    BY <1>1, <1>2, <2>1, <2>3 DEF SelectionInv, Preferences
  <2> QED
    BY <2>2, <2>3
<1>8. WorkInv
  <2>1. phase = "idle" /\ work = NoWork
    BY DEF Init
  <2>2. phase \in Phases /\ phase \notin Analysing /\ phase \notin {"await", "answer"}
    BY <2>1 DEF Phases, Analysing
  <2>3. DOMAIN work = DOMAIN NoWork /\ work.task \in Tasks \union {NoTask} /\ work.at \in Nat
    BY <2>1, NoWorkIs
  <2>5. {work.repeated, work.cached, work.reuse} \subseteq BOOLEAN
    BY <2>1, NoWorkIs
  <2>4. /\ work.request \in Requests \union {NoRequest}
        /\ {work.with, work.by} \subseteq Providers \union {NoProvider}
    BY <2>1, NoWorkIs
  <2> QED
    BY <2>1, <2>2, <2>3, <2>4, <2>5 DEF WorkInv
<1>9. EvidenceInv
  BY NoWorkIs, EmptyIsSequence, TaskAssumption DEF Init, EvidenceInv, Acquiring
<1>10. ReadInv
  BY DEF Init, ReadInv
<1>11. CacheStands(cache)
  BY FS_EmptySet, EvidenceAssumption DEF Init, CacheStands
<1>12. EvidenceStaysUnderItsAuthorization
  BY NoWorkIs DEF Init, EvidenceStaysUnderItsAuthorization
<1>13. AnswersComeFromTheSelectedProvider
  BY NoWorkIs DEF Init, AnswersComeFromTheSelectedProvider, EmptyMemory
<1> QED
  BY <1>3, <1>4, <1>5, <1>6, <1>7, <1>8, <1>9, <1>10, <1>11, <1>12, <1>13 DEF IInv

LEMMA TypeKeeps == IInv /\ Type => IInv'
<1> SUFFICES ASSUME IInv, Type PROVE IInv'
  OBVIOUS
<1>1. /\ now' = now /\ world' = world /\ seen' = seen /\ habit' = habit /\ open' = open
      /\ pending' = pending /\ approved' = approved /\ provider' = provider /\ memory' = memory
      /\ choice' = choice /\ context' = context /\ cache' = cache /\ phase' = phase
      /\ work' = work
  BY DEF Type, worldVars, providerVars, evidenceVars
<1>2. LinesInv'
  <2>1. PICK line \in habit : queue' = Append(queue, line)
    BY DEF Type
  <2>2. queue \in Seq(habit) /\ Len(queue) < MaxQueue /\ typed < MaxLines /\ typed' = typed + 1
    BY DEF IInv, LinesInv, Type
  <2>3. queue' \in Seq(habit) /\ Len(queue') <= MaxQueue
    BY <2>1, <2>2, SessionAssumption
  <2>4. typed' \in 0 .. MaxLines
    BY <2>2, SessionAssumption DEF IInv, LinesInv
  <2> QED
    BY <1>1, <2>3, <2>4 DEF IInv, LinesInv
<1>3. WorldInv'
  BY <1>1, WorldStays DEF IInv
<1> QED
  BY <1>1, <1>2, <1>3, HandlerStays, EvidenceVarsStay, AnswersStay, ProviderStays, Assembled

LEMMA TickKeeps == IInv /\ Tick => IInv'
<1> SUFFICES ASSUME IInv, Tick PROVE IInv'
  OBVIOUS
<1>1. /\ world' = world /\ seen' = seen /\ provider' = provider /\ memory' = memory
      /\ choice' = choice /\ context' = context /\ cache' = cache /\ phase' = phase
      /\ work' = work /\ UNCHANGED <<habit, typed, open, queue, pending, approved>>
  BY DEF Tick, humanVars, providerVars, evidenceVars
<1>2. now' \in Nat
  BY TaskAssumption DEF Tick, IInv, WorldInv
<1>3. WorldInv'
  BY <1>1, <1>2 DEF IInv, WorldInv
<1>4. LinesInv'
  BY <1>1, LinesStay DEF IInv
<1> QED
  BY <1>1, <1>3, <1>4, HandlerStays, EvidenceVarsStay, AnswersStay, ProviderStays, Assembled

\* What a file held while a handler is in work stays known.
LEMMA EditKeeps == IInv /\ Edit => IInv'
<1> SUFFICES ASSUME IInv, Edit PROVE IInv'
  OBVIOUS
<1>1. /\ now' = now /\ provider' = provider /\ memory' = memory
      /\ choice' = choice /\ context' = context /\ cache' = cache /\ phase' = phase
      /\ work' = work /\ UNCHANGED <<habit, typed, open, queue, pending, approved>>
  BY DEF Edit, humanVars, providerVars, evidenceVars
<1>2. PICK t \in Target, c \in 0 .. MaxContent :
        /\ world' = [world EXCEPT ![t] = c]
        /\ seen' = [seen EXCEPT ![t] = IF phase = "idle" THEN {c} ELSE @ \union {c}]
  BY DEF Edit
<1>3. WorldInv'
  BY <1>1, <1>2 DEF IInv, WorldInv
<1>4. phase # "idle" => \A u \in Target : seen[u] \subseteq seen'[u]
  BY <1>2 DEF IInv, WorldInv
<1>5. WorkInv' /\ EvidenceInv' /\ EvidenceStaysUnderItsAuthorization'
  BY <1>1 DEF IInv, WorkInv, EvidenceInv, EvidenceStaysUnderItsAuthorization, IsSequence
<1>6. ReadInv'
  BY <1>1, <1>4 DEF IInv, ReadInv
<1>7. LinesInv'
  BY <1>1, LinesStay DEF IInv
<1> QED
  BY <1>1, <1>3, <1>5, <1>6, <1>7, EvidenceVarsStay, AnswersStay, ProviderStays, Assembled
     DEF HandlerInv

LEMMA CloseKeeps == IInv /\ Close => IInv'
<1> SUFFICES ASSUME IInv, Close PROVE IInv'
  OBVIOUS
<1>1. /\ now' = now /\ world' = world /\ seen' = seen /\ choice' = choice /\ context' = context
      /\ cache' = cache /\ phase' = phase /\ work' = work
      /\ UNCHANGED <<habit, typed, queue, approved>>
      /\ open' = FALSE /\ pending' = NoTask /\ provider' = ProviderClosed(provider)
      /\ memory' = EmptyMemory
  BY DEF Close, Closes, worldVars, evidenceVars
<1>2. SelectionInv' /\ Permitted(choice)' = Permitted(choice)
  BY <1>1, ClosedKeepsSelection, PermittedKept DEF IInv
<1>3. LinesInv'
  BY <1>1 DEF IInv, LinesInv
<1>4. WorldInv'
  BY <1>1, WorldStays DEF IInv
<1> QED
  BY <1>1, <1>2, <1>3, <1>4, HandlerStays, EvidenceVarsStay, AnswersStay, NoAnswers, Assembled

(***************************************************************************)
(* The lines                                                               *)
(***************************************************************************)

LEMMA LineTakenIs ==
  ASSUME IInv, NEW kind, Takes(kind)
  PROVE  /\ phase = "idle" /\ work = NoWork
         /\ Head(queue) \in Lines /\ Head(queue).kind = kind
         /\ queue' \in Seq(habit) /\ Len(queue') <= MaxQueue
<1>1. phase = "idle" /\ queue # <<>> /\ Head(queue).kind = kind /\ queue' = Tail(queue)
  BY DEF Takes
<1>2. queue \in Seq(habit) /\ habit \subseteq Lines /\ Len(queue) <= MaxQueue /\ MaxQueue \in Nat
  BY SessionAssumption DEF IInv, LinesInv
<1>3. Head(queue) \in habit /\ queue' \in Seq(habit) /\ Len(queue') = Len(queue) - 1
  BY <1>1, <1>2
<1>4. Len(queue) \in Nat
  BY <1>2
<1> QED
  BY <1>1, <1>2, <1>3, <1>4 DEF IInv, WorkInv

LEMMA TaskLineIs ==
  ASSUME IInv, Takes("task")
  PROVE  Head(queue).task \in Tasks
<1>1. Head(queue) \in Lines /\ Head(queue).kind = "task"
  BY LineTakenIs
<1>2. Head(queue) \notin {Line(kind) : kind \in LineKinds}
  BY <1>1 DEF Line, LineKinds
<1>3. Head(queue) \notin {LocalLine(model) : model \in LocalModel}
  BY <1>1 DEF LocalLine
<1> QED
  BY <1>1, <1>2, <1>3 DEF Lines, TaskLine

LEMMA LocalLineIs ==
  ASSUME IInv, Takes("local")
  PROVE  Head(queue).model \in LocalModel
<1>1. Head(queue) \in Lines /\ Head(queue).kind = "local"
  BY LineTakenIs
<1>2. Head(queue) \notin {Line(kind) : kind \in LineKinds}
  BY <1>1 DEF Line, LineKinds
<1>3. Head(queue) \notin {TaskLine(task) : task \in Tasks}
  BY <1>1 DEF TaskLine
<1> QED
  BY <1>1, <1>2, <1>3 DEF Lines, LocalLine

\* The handler of a governed task starts with nothing but its task.
LEMMA BegunHandler ==
  ASSUME NEW task \in Tasks, NEW repeated \in BOOLEAN, Begins(task, repeated)
  PROVE  HandlerInv' /\ WorkAnswers' /\ seen' = seen
<1>1. phase' = "context" /\ seen' = seen
      /\ work' = [NoWork EXCEPT !.task = task, !.repeated = repeated]
  BY DEF Begins, Goes
<1>2. /\ DOMAIN work' = DOMAIN NoWork /\ work'.task = task /\ work'.repeated = repeated
      /\ work'.at = 0 /\ work'.evidence = <<>> /\ work'.cached = FALSE /\ work'.reuse = FALSE
      /\ work'.request = NoRequest /\ work'.with = NoProvider /\ work'.by = NoProvider
      /\ work'.heard = {}
  BY <1>1, NoWorkIs DEF WorkFields
<1>3. WorkInv'
  <2>1. phase' \in Phases /\ phase' \notin Analysing /\ phase' \notin {"await", "answer", "idle"}
    BY <1>1 DEF Phases, Analysing
  <2>2. task # NoTask
    BY NoTaskIsNone
  <2>3. {work'.repeated, work'.cached, work'.reuse} \subseteq BOOLEAN
    BY <1>2
  <2>4. /\ work'.request \in Requests \union {NoRequest}
        /\ {work'.with, work'.by} \subseteq Providers \union {NoProvider}
    BY <1>2
  <2>5. work'.task \in Tasks \union {NoTask} /\ work'.task # NoTask /\ work'.at \in Nat
        /\ DOMAIN work' = DOMAIN NoWork
    BY <1>2, <2>2
  <2> QED
    BY <2>1, <2>3, <2>4, <2>5 DEF WorkInv
<1>4. EvidenceInv'
  BY <1>1, <1>2, EmptyIsSequence, TaskAssumption DEF EvidenceInv, BeforeEvidence, Acquiring
<1>5. ReadInv'
  BY <1>1 DEF ReadInv
<1>6. EvidenceStaysUnderItsAuthorization'
  BY <1>2 DEF EvidenceStaysUnderItsAuthorization
<1>7. WorkAnswers'
  BY <1>2 DEF WorkAnswers
<1> QED
  BY <1>1, <1>3, <1>4, <1>5, <1>6, <1>7 DEF HandlerInv

\* What all lines leave alone.
LEMMA LineFrame ==
  ASSUME IInv, NEW kind, Takes(kind), now' = now, world' = world, seen' = seen,
         habit' = habit, typed' = typed, open' \in BOOLEAN,
         pending' \in Tasks \union {NoTask}, approved' \subseteq Tasks
  PROVE  WorldInv' /\ LinesInv'
<1>1. WorldInv'
  BY WorldStays DEF IInv
<1>2. LinesInv'
  BY LineTakenIs DEF IInv, LinesInv
<1> QED
  BY <1>1, <1>2

LEMMA ProposeTaskKeeps == IInv /\ ProposeTask => IInv'
<1> SUFFICES ASSUME IInv, ProposeTask PROVE IInv'
  OBVIOUS
<1> DEFINE waiting == IF pending = NoTask THEN Head(queue).task ELSE pending
<1>1. Takes("task") /\ Head(queue).task \in Tasks
  BY TaskLineIs DEF ProposeTask
<1>2. /\ now' = now /\ world' = world /\ habit' = habit /\ typed' = typed /\ open' = open
      /\ provider' = provider /\ memory' = memory /\ choice' = choice /\ context' = context
      /\ cache' = cache /\ approved' = approved
  BY DEF ProposeTask, humanVars, providerVars, evidenceVars
<1>3. waiting \in Tasks
  BY <1>1 DEF IInv, LinesInv
<1>4. \/ pending' = NoTask /\ Begins(waiting, TRUE)
      \/ pending' = waiting /\ Stays
  BY DEF ProposeTask
<1>5. seen' = seen /\ pending' \in Tasks \union {NoTask} /\ HandlerInv' /\ WorkAnswers'
  <2> HIDE DEF waiting
  <2>1. CASE pending' = NoTask /\ Begins(waiting, TRUE)
    BY <1>3, <2>1, BegunHandler
  <2>2. CASE pending' = waiting /\ Stays
    BY <1>2, <1>3, <2>2, HandlerStays, AnswersStay, ProviderStays DEF Stays
  <2> QED
    BY <1>4, <2>1, <2>2
<1>6. WorldInv' /\ LinesInv'
  <2>1. open' \in BOOLEAN /\ approved' \subseteq Tasks
    BY <1>2 DEF IInv, LinesInv
  <2> QED
    BY <1>1, <1>2, <1>5, <2>1, LineFrame
<1> QED
  BY <1>2, <1>5, <1>6, EvidenceVarsStay, AnswersStay, ProviderStays, Assembled

LEMMA YesKeeps == IInv /\ Yes => IInv'
<1> SUFFICES ASSUME IInv, Yes PROVE IInv'
  OBVIOUS
<1>1. /\ Takes("yes") /\ pending' = NoTask
      /\ now' = now /\ world' = world /\ habit' = habit /\ typed' = typed /\ open' = open
      /\ provider' = provider /\ memory' = memory /\ choice' = choice /\ context' = context
      /\ cache' = cache
  BY DEF Yes, humanVars, providerVars, evidenceVars
<1>2. pending \in Tasks \union {NoTask} /\ open \in BOOLEAN /\ approved \subseteq Tasks
  BY DEF IInv, LinesInv
<1>3. seen' = seen /\ approved' \subseteq Tasks /\ HandlerInv' /\ WorkAnswers'
  <2>1. CASE pending = NoTask
    <3>1. Stays /\ approved' = approved
      BY <2>1 DEF Yes
    <3> QED
      BY <1>1, <1>2, <3>1, HandlerStays, AnswersStay, ProviderStays DEF Stays
  <2>2. CASE pending # NoTask
    <3>1. Begins(pending, FALSE) /\ approved' = approved \union {pending}
      BY <2>2 DEF Yes
    <3> QED
      BY <1>2, <2>2, <3>1, BegunHandler
  <2> QED
    BY <2>1, <2>2
<1>4. WorldInv' /\ LinesInv'
  BY <1>1, <1>2, <1>3, LineFrame
<1> QED
  BY <1>1, <1>3, <1>4, EvidenceVarsStay, AnswersStay, ProviderStays, Assembled

\* A no, a cancellation, and the lines that change nothing.
LEMMA IdleLineKeeps == IInv /\ (Refuse \/ Remind) => IInv'
<1> SUFFICES ASSUME IInv, Refuse \/ Remind PROVE IInv'
  OBVIOUS
<1>1. /\ \E kind : Takes(kind)
      /\ pending' \in {pending, NoTask} /\ Stays
      /\ now' = now /\ world' = world /\ habit' = habit /\ typed' = typed /\ open' = open
      /\ provider' = provider /\ memory' = memory /\ choice' = choice /\ context' = context
      /\ cache' = cache /\ approved' = approved
  BY DEF Refuse, Remind, humanVars, providerVars, evidenceVars
<1>2. pending \in Tasks \union {NoTask} /\ open \in BOOLEAN /\ approved \subseteq Tasks
  BY DEF IInv, LinesInv
<1>3. phase' = phase /\ work' = work /\ seen' = seen
  BY <1>1 DEF Stays
<1>4. WorldInv' /\ LinesInv'
  <2>1. PICK kind : Takes(kind)
    BY <1>1
  <2> QED
    BY <1>1, <1>2, <1>3, <2>1, LineFrame
<1> QED
  BY <1>1, <1>3, <1>4, HandlerStays, EvidenceVarsStay, AnswersStay, ProviderStays, Assembled

LEMMA QuestionKeeps == IInv /\ Question => IInv'
<1> SUFFICES ASSUME IInv, Question PROVE IInv'
  OBVIOUS
<1>1. /\ Takes("ask") /\ pending' = pending /\ phase' = "describe" /\ seen' = seen
      /\ work' = NoWork
      /\ now' = now /\ world' = world /\ habit' = habit /\ typed' = typed /\ open' = open
      /\ provider' = provider /\ memory' = memory /\ choice' = choice /\ context' = context
      /\ cache' = cache /\ approved' = approved
  BY DEF Question, Goes, humanVars, providerVars, evidenceVars
<1>2. pending \in Tasks \union {NoTask} /\ open \in BOOLEAN /\ approved \subseteq Tasks
  BY DEF IInv, LinesInv
<1>3. WorldInv' /\ LinesInv'
  BY <1>1, <1>2, LineFrame
<1>4. WorkInv'
  <2>1. phase' \in Phases /\ phase' \notin Analysing
        /\ phase' \notin {"await", "answer", "idle", "context", "open", "list", "read"}
    BY <1>1 DEF Phases, Analysing
  <2>2. DOMAIN work' = DOMAIN NoWork /\ work'.task \in Tasks \union {NoTask} /\ work'.at \in Nat
    BY <1>1, NoWorkIs
  <2>4. {work'.repeated, work'.cached, work'.reuse} \subseteq BOOLEAN
    BY <1>1, NoWorkIs
  <2>3. /\ work'.request \in Requests \union {NoRequest}
        /\ {work'.with, work'.by} \subseteq Providers \union {NoProvider}
    BY <1>1, NoWorkIs
  <2> QED
    BY <2>1, <2>2, <2>3, <2>4 DEF WorkInv
<1>5. EvidenceInv'
  BY <1>1, NoWorkIs, EmptyIsSequence, TaskAssumption DEF EvidenceInv, BeforeEvidence, Acquiring
<1>6. ReadInv' /\ EvidenceStaysUnderItsAuthorization'
  BY <1>1, NoWorkIs DEF ReadInv, EvidenceStaysUnderItsAuthorization
<1> QED
  BY <1>1, <1>3, <1>4, <1>5, <1>6, NoAnswers, EvidenceVarsStay, AnswersStay, ProviderStays,
     Assembled DEF HandlerInv

LEMMA StatusKeeps == IInv /\ Status => IInv'
<1> SUFFICES ASSUME IInv, Status PROVE IInv'
  OBVIOUS
<1>1. /\ Takes("status") /\ pending' = pending /\ phase' = phase /\ seen' = seen
      /\ work' = work
      /\ now' = now /\ world' = world /\ habit' = habit /\ typed' = typed /\ open' = open
      /\ memory' = memory /\ choice' = choice /\ context' = context
      /\ cache' = cache /\ approved' = approved
  BY DEF Status, Stays, humanVars, evidenceVars
<1>2. pending \in Tasks \union {NoTask} /\ open \in BOOLEAN /\ approved \subseteq Tasks
  BY DEF IInv, LinesInv
<1>3. WorldInv' /\ LinesInv'
  BY <1>1, <1>2, LineFrame
<1>4. SelectionInv' /\ Permitted(choice)' = Permitted(choice)
  <2>1. CASE provider.closed
    BY <1>1, <2>1, ProviderStays DEF Status
  <2>2. CASE ~provider.closed
    <3>1. PICK installed : provider' \in States(provider, installed)
      BY <2>2 DEF Status
    <3> QED
      BY <1>1, <3>1, StatesKeepSelection, PermittedKept DEF IInv
  <2> QED
    BY <2>1, <2>2
<1> QED
  BY <1>1, <1>3, <1>4, HandlerStays, EvidenceVarsStay, AnswersStay, Assembled

\* A line that changes the selection forgets what was answered under the last one.
LEMMA SelectionLine ==
  ASSUME IInv, NEW kind, Takes(kind), Stays, memory' = EmptyMemory, SelectionInv',
         UNCHANGED <<now, world, habit, typed, pending, context, cache, approved>>,
         open' = open
  PROVE  IInv'
<1>1. pending' \in Tasks \union {NoTask} /\ open' \in BOOLEAN /\ approved' \subseteq Tasks
  BY DEF IInv, LinesInv
<1>2. phase' = phase /\ work' = work /\ seen' = seen
  BY DEF Stays
<1>3. WorldInv' /\ LinesInv'
  BY <1>1, <1>2, LineFrame
<1>4. work' = NoWork
  BY <1>2, LineTakenIs
<1> QED
  BY <1>2, <1>3, <1>4, HandlerStays, EvidenceVarsStay, NoAnswers, Assembled

LEMMA SelectLocalKeeps == IInv /\ SelectLocal => IInv'
<1> SUFFICES ASSUME IInv, SelectLocal PROVE IInv'
  OBVIOUS
<1>1. Takes("local") /\ Stays
      /\ UNCHANGED <<now, world, habit, typed, pending, context, cache, approved>> /\ open' = open
  BY DEF SelectLocal, humanVars, evidenceVars
<1>2. PICK model \in LocalModel :
        \/ /\ provider' = LocalSelected(provider, model)
           /\ memory' = EmptyMemory
           /\ choice' = model
        \/ UNCHANGED providerVars
  BY <1>1, LocalLineIs DEF SelectLocal
<1>3. CASE UNCHANGED providerVars
  <2>1. provider' = provider /\ memory' = memory /\ choice' = choice
    BY <1>3 DEF providerVars
  <2>2. pending' \in Tasks \union {NoTask} /\ open' \in BOOLEAN /\ approved' \subseteq Tasks
    BY <1>1 DEF IInv, LinesInv
  <2>3. phase' = phase /\ work' = work /\ seen' = seen
    BY <1>1 DEF Stays
  <2>4. WorldInv' /\ LinesInv'
    BY <1>1, <2>2, <2>3, LineFrame
  <2> QED
    BY <1>1, <2>1, <2>3, <2>4, HandlerStays, EvidenceVarsStay, AnswersStay, ProviderStays, Assembled
<1>4. CASE provider' = LocalSelected(provider, model) /\ memory' = EmptyMemory /\ choice' = model
  <2>1. provider' = [provider EXCEPT !.preference = "EXPLICIT_LOCAL", !.model = model,
                                     !.initialized = TRUE, !.composition = model]
    BY <1>4 DEF LocalSelected
  <2>2. Permitted(choice)' = {model}
    BY <1>4, ProviderAssumption DEF Permitted
  <2>3. SelectionInv'
    BY <1>4, <2>1, <2>2 DEF IInv, SelectionInv, Preferences, Providers
  <2> QED
    BY <1>1, <1>4, <2>3, SelectionLine
<1> QED
  BY <1>2, <1>3, <1>4

LEMMA ChoiceKeeps == IInv /\ (SelectExternal \/ Disable \/ Reset) => IInv'
<1> SUFFICES ASSUME IInv, SelectExternal \/ Disable \/ Reset PROVE IInv'
  OBVIOUS
<1>1. /\ \E kind : Takes(kind)
      /\ Stays /\ memory' = EmptyMemory
      /\ UNCHANGED <<now, world, habit, typed, pending, context, cache, approved>> /\ open' = open
  BY DEF SelectExternal, Disable, Reset, humanVars, evidenceVars
<1>2. SelectionInv'
  <2>1. CASE SelectExternal
    <3>1. provider' = [provider EXCEPT !.preference = "EXPLICIT_EXTERNAL", !.initialized = TRUE,
                                       !.composition = NoProvider] /\ choice' = "external"
      BY <2>1 DEF SelectExternal, ExternalSelected
    <3> QED
      BY <3>1 DEF IInv, SelectionInv, Preferences
  <2>2. CASE Disable
    <3>1. provider' = [provider EXCEPT !.preference = "DISABLED", !.initialized = TRUE,
                                       !.composition = NoProvider] /\ choice' = "disabled"
      BY <2>2 DEF Disable, ProviderDisabled
    <3> QED
      BY <3>1 DEF IInv, SelectionInv, Preferences
  <2>3. CASE Reset
    <3>1. provider' = [provider EXCEPT !.initialized = FALSE, !.composition = NoProvider]
          /\ choice' = choice
      BY <2>3 DEF Reset, ConversationReset
    <3> QED
      BY <3>1 DEF IInv, SelectionInv
  <2> QED
    BY <2>1, <2>2, <2>3
<1> QED
  BY <1>1, <1>2, SelectionLine

LEMMA ExitKeeps == IInv /\ Exit => IInv'
<1> SUFFICES ASSUME IInv, Exit PROVE IInv'
  OBVIOUS
<1>1. /\ Takes("exit") /\ phase' = phase /\ seen' = seen /\ work' = work
      /\ now' = now /\ world' = world /\ habit' = habit /\ typed' = typed
      /\ choice' = choice /\ context' = context /\ cache' = cache /\ approved' = approved
  BY DEF Exit, Stays, evidenceVars
<1>2. \/ /\ open' = FALSE /\ pending' = NoTask /\ provider' = ProviderClosed(provider)
         /\ memory' = EmptyMemory
      \/ UNCHANGED <<open, pending, provider, memory>>
  BY DEF Exit, Closes
<1>3. pending' \in Tasks \union {NoTask} /\ open' \in BOOLEAN /\ approved' \subseteq Tasks
  BY <1>1, <1>2 DEF IInv, LinesInv
<1>4. WorldInv' /\ LinesInv'
  BY <1>1, <1>3, LineFrame
<1>5. SelectionInv' /\ Permitted(choice)' = Permitted(choice)
  BY <1>1, <1>2, ClosedKeepsSelection, PermittedKept, ProviderStays DEF IInv
<1>6. MemoryInv' /\ MemoryAnswers'
  BY <1>2, <1>5, NoAnswers, AnswersStay
<1> QED
  BY <1>1, <1>4, <1>5, <1>6, HandlerStays, EvidenceVarsStay, AnswersStay, Assembled

(***************************************************************************)
(* The steps of a handler                                                  *)
(***************************************************************************)

LEMMA HandlerStep ==
  ASSUME IInv, UNCHANGED handlerFrame, seen' = seen \/ seen' = [t \in Target |-> {world[t]}],
         MemoryInv', ContextInv', SelectionInv', HandlerInv', CacheStands(cache)',
         WorkAnswers', MemoryAnswers'
  PROVE  IInv'
BY HandlerFrame, Assembled

\* A handler that is done, whatever it made of the context.
LEMMA DoneStep ==
  ASSUME IInv, UNCHANGED handlerFrame, Resume,
         MemoryInv', ContextInv', SelectionInv', CacheStands(cache)', MemoryAnswers'
  PROVE  IInv'
<1>1. HandlerInv' /\ WorkAnswers'
  BY ResumedHandler, NoAnswers
<1>2. seen' = [t \in Target |-> {world[t]}]
  BY DEF Resume
<1> QED
  BY <1>1, <1>2, HandlerStep

\* What a step leaves alone stands.
LEMMA RestStays ==
  ASSUME IInv, UNCHANGED handlerFrame
  PROVE  /\ provider' = provider =>
              SelectionInv' /\ Permitted(choice)' = Permitted(choice)
         /\ provider' = provider /\ memory' = memory => MemoryInv' /\ MemoryAnswers'
         /\ provider' = provider /\ work' = work => WorkAnswers'
         /\ context' = context => ContextInv'
         /\ cache' = cache => CacheStands(cache)'
<1>1. choice' = choice
  BY DEF handlerFrame
<1>2. provider' = provider => SelectionInv' /\ Permitted(choice)' = Permitted(choice)
  BY <1>1, ProviderStays
<1>3. context' = context => ContextInv'
  BY DEF IInv, ContextInv
<1>4. cache' = cache => CacheStands(cache)'
  BY DEF IInv, CacheStands, EntryStands
<1> QED
  BY <1>2, <1>3, <1>4, AnswersStay

LEMMA DoneAlone ==
  ASSUME IInv, UNCHANGED handlerFrame, Resume, UNCHANGED <<provider, memory, context, cache>>
  PROVE  IInv'
BY RestStays, DoneStep

LEMMA WorkMoves ==
  ASSUME IInv, phase' \in Phases, phase' # "idle",
         DOMAIN work' = DOMAIN work, work'.task = work.task, work'.at \in Nat,
         work'.repeated = work.repeated, work'.cached \in BOOLEAN, work'.reuse \in BOOLEAN,
         work'.request \in Requests \union {NoRequest},
         {work'.with, work'.by} \subseteq Providers \union {NoProvider},
         phase' \in {"context", "open", "list", "read"} => work.task # NoTask,
         phase' \in Analysing => work.task.kind = "PROJECT_ANALYSIS",
         phase' \in {"await", "answer"} => work'.with # NoProvider
  PROVE  WorkInv'
<1>1. DOMAIN work = DOMAIN NoWork /\ work.task \in Tasks \union {NoTask}
  BY DEF IInv, WorkInv
<1>2. {work'.repeated, work'.cached, work'.reuse} \subseteq BOOLEAN
  <2>1. work.repeated \in BOOLEAN
    BY DEF IInv, WorkInv
  <2> QED
    BY <2>1
<1> QED
  BY <1>1, <1>2 DEF WorkInv

LEMMA EvidenceStays ==
  ASSUME IInv, work'.evidence = work.evidence,
         context' = context \/ work.evidence = <<>>,
         phase' \in BeforeEvidence => work.evidence = <<>>,
         phase' \in Acquiring => Len(work.evidence) < MaxEvidenceSteps
  PROVE  EvidenceInv' /\ EvidenceStaysUnderItsAuthorization'
<1>1. EvidenceInv'
  BY DEF IInv, EvidenceInv, IsSequence
<1>2. ASSUME context' = context PROVE EvidenceStaysUnderItsAuthorization'
  BY <1>2 DEF IInv, EvidenceStaysUnderItsAuthorization
<1>3. ASSUME work.evidence = <<>> PROVE EvidenceStaysUnderItsAuthorization'
  BY <1>3 DEF EvidenceStaysUnderItsAuthorization
<1> QED
  BY <1>1, <1>2, <1>3

\* The fields of the work of a handler.
LEMMA WorkHas == IInv => DOMAIN work = WorkFields
BY NoWorkIs DEF IInv, WorkInv

LEMMA WorkTyped ==
  ASSUME IInv
  PROVE  /\ work.task \in Tasks \union {NoTask} /\ work.at \in Nat
         /\ work.request \in Requests \union {NoRequest}
         /\ work.with \in Providers \union {NoProvider}
         /\ work.by \in Providers \union {NoProvider}
         /\ work.repeated \in BOOLEAN /\ work.cached \in BOOLEAN /\ work.reuse \in BOOLEAN
         /\ phase \in Phases
BY DEF IInv, WorkInv

\* The handler goes on to the next phase with what it holds.
LEMMA GoesOn ==
  ASSUME IInv, NEW next \in Phases \ {"idle", "remember", "await", "answer"}, Goes(next),
         work' = work,
         context' = context \/ work.evidence = <<>>,
         next \in BeforeEvidence => work.evidence = <<>> /\ work.task # NoTask,
         next \in Analysing => work.task.kind = "PROJECT_ANALYSIS",
         next \in Acquiring => Len(work.evidence) < MaxEvidenceSteps
  PROVE  HandlerInv'
<1>1. phase' = next
  BY DEF Goes
<1>2. WorkInv'
  BY <1>1, WorkTyped, WorkMoves DEF BeforeEvidence
<1>3. EvidenceInv' /\ EvidenceStaysUnderItsAuthorization'
  BY <1>1, EvidenceStays
<1>4. ReadInv'
  BY <1>1 DEF ReadInv
<1> QED
  BY <1>2, <1>3, <1>4 DEF HandlerInv

\* The context of a task is there: the handler proceeds, or is done.
LEMMA ProceedsStep ==
  ASSUME IInv, UNCHANGED handlerFrame, UNCHANGED <<provider, memory, cache>>,
         phase \in {"context", "list"}, Proceeds(work.task), ContextInv'
  PROVE  IInv'
<1>1. work.evidence = <<>> /\ work.task # NoTask
  BY DEF IInv, EvidenceInv, WorkInv, BeforeEvidence
<1>2. MemoryInv' /\ SelectionInv' /\ CacheStands(cache)' /\ MemoryAnswers'
  BY RestStays
<1>3. CASE Resume
  BY <1>2, <1>3, DoneStep
<1>4. CASE Goes("describe") /\ work' = work
  <2>1. HandlerInv'
    BY <1>1, <1>4, GoesOn DEF Phases, BeforeEvidence, Analysing, Acquiring
  <2>2. WorkAnswers' /\ seen' = seen
    BY <1>4, RestStays DEF Goes
  <2> QED
    BY <1>2, <2>1, <2>2, HandlerStep
<1>5. CASE Goes("read") /\ work' = work
  <2>1. HandlerInv'
    BY <1>1, <1>5, GoesOn DEF Phases, Analysing, Acquiring
  <2>2. WorkAnswers' /\ seen' = seen
    BY <1>5, RestStays DEF Goes
  <2> QED
    BY <1>2, <2>1, <2>2, HandlerStep
<1> QED
  BY <1>3, <1>4, <1>5 DEF Proceeds

LEMMA AdoptsStep ==
  ASSUME IInv, UNCHANGED handlerFrame, UNCHANGED <<provider, memory, cache>>,
         phase \in {"context", "list"}, NEW experience, NEW at \in Nat, Adopts(experience, at)
  PROVE  IInv'
<1>1. CASE HasEnvelope(work.task)
  <2>1. context' = Context(work.task, experience, at) /\ Proceeds(work.task)
    BY <1>1 DEF Adopts
  <2>2. ContextInv'
    BY <2>1, TaskAssumption DEF ContextInv, Context, Authorization, Proposal
  <2> QED
    BY <2>1, <2>2, ProceedsStep
<1>2. CASE ~HasEnvelope(work.task)
  <2>1. Resume /\ context' = context
    BY <1>2 DEF Adopts
  <2> QED
    BY <2>1, DoneAlone
<1> QED
  BY <1>1, <1>2

LEMMA ContextualizeKeeps == IInv /\ Contextualize => IInv'
<1> SUFFICES ASSUME IInv, Contextualize PROVE IInv'
  OBVIOUS
<1>1. phase = "context" /\ UNCHANGED handlerFrame /\ UNCHANGED <<provider, memory, cache>>
  BY DEF Contextualize
<1>2. CASE ContextStands(context, work.task, now, world)
  <2>1. Proceeds(work.task) /\ context' = context
    BY <1>2 DEF Contextualize
  <2> QED
    BY <1>1, <2>1, RestStays, ProceedsStep
<1>3. CASE ~ContextStands(context, work.task, now, world) /\ ExperienceStands(context, world)
  <2>1. Adopts(context.experience, now) /\ now \in Nat
    BY <1>3 DEF Contextualize, IInv, WorldInv
  <2> QED
    BY <1>1, <2>1, AdoptsStep
<1>4. CASE ~ContextStands(context, work.task, now, world) /\ ~ExperienceStands(context, world)
  <2>1. /\ phase' = "open" /\ seen' = seen /\ context' = context
        /\ work' = [work EXCEPT !.at = now, !.session = Session(world, now)]
    BY <1>4 DEF Contextualize, Goes
  <2>2. /\ DOMAIN work' = DOMAIN work /\ work'.task = work.task /\ work'.at = now
        /\ work'.repeated = work.repeated /\ work'.cached = work.cached
        /\ work'.reuse = work.reuse /\ work'.request = work.request /\ work'.with = work.with
        /\ work'.by = work.by /\ work'.heard = work.heard /\ work'.evidence = work.evidence
    BY <2>1, WorkHas DEF WorkFields
  <2>3. work.evidence = <<>> /\ work.task # NoTask /\ now \in Nat
    BY <1>1 DEF IInv, EvidenceInv, WorkInv, WorldInv, BeforeEvidence
  <2>4. WorkInv'
    BY <2>1, <2>2, <2>3, WorkTyped, WorkMoves DEF Phases, Analysing
  <2>5. EvidenceInv' /\ EvidenceStaysUnderItsAuthorization'
    BY <2>1, <2>2, <2>3, EvidenceStays DEF Acquiring
  <2>6. ReadInv'
    BY <2>1 DEF ReadInv
  <2>7. WorkAnswers'
    <3>1. WorkAnswers /\ Permitted(choice)' = Permitted(choice)
      BY <1>1, AnswersAre, RestStays DEF IInv
    <3> QED
      BY <2>2, <3>1 DEF WorkAnswers
  <2> QED
    BY <1>1, <2>1, <2>4, <2>5, <2>6, <2>7, RestStays, HandlerStep DEF HandlerInv
<1> QED
  BY <1>2, <1>3, <1>4

LEMMA RevalidateKeeps == IInv /\ Revalidate => IInv'
<1> SUFFICES ASSUME IInv, Revalidate PROVE IInv'
  OBVIOUS
<1>1. /\ phase = "open" /\ UNCHANGED handlerFrame /\ UNCHANGED <<provider, memory, context, cache>>
      /\ (Goes("list") /\ work' = work) \/ Resume
  BY DEF Revalidate, evidenceVars
<1>2. CASE Resume
  BY <1>1, <1>2, DoneAlone
<1>3. CASE Goes("list") /\ work' = work
  <2>1. work.evidence = <<>> /\ work.task # NoTask
    BY <1>1 DEF IInv, EvidenceInv, WorkInv, BeforeEvidence
  <2>2. HandlerInv'
    BY <1>1, <1>3, <2>1, GoesOn DEF Phases, Analysing, Acquiring
  <2>3. seen' = seen
    BY <1>3 DEF Goes
  <2> QED
    BY <1>1, <1>3, <2>2, <2>3, RestStays, HandlerStep
<1> QED
  BY <1>1, <1>2, <1>3

LEMMA OpenExperienceKeeps == IInv /\ OpenExperience => IInv'
<1> SUFFICES ASSUME IInv, OpenExperience PROVE IInv'
  OBVIOUS
<1>1. /\ phase = "list" /\ UNCHANGED handlerFrame /\ UNCHANGED <<provider, memory, cache>>
      /\ Adopts(Experience(work.session, Inventory(world)), work.at)
  BY DEF OpenExperience
<1> QED
  BY <1>1, WorkTyped, AdoptsStep

\* A question, or a file that was read, reaches the provider.
LEMMA ReadFileKeeps == IInv /\ ReadFile => IInv'
<1> SUFFICES ASSUME IInv, ReadFile PROVE IInv'
  OBVIOUS
<1> DEFINE request == Request("READ_FILE", work.task.target)
           item == Item(GovernedRead(request, world, now), context.authorization, now)
<1>1. /\ phase = "read" /\ UNCHANGED handlerFrame /\ UNCHANGED <<provider, memory, context, cache>>
  BY DEF ReadFile, evidenceVars
<1>2. CASE Resume
  BY <1>1, <1>2, DoneAlone
<1>3. CASE ~Resume
  <2>1. /\ phase' = "describe" /\ seen' = seen /\ work' = [work EXCEPT !.evidence = <<item>>]
        /\ work.task.kind = "READ_AND_EXPLAIN_FILE"
    BY <1>3 DEF ReadFile, Goes
  <2>2. /\ DOMAIN work' = DOMAIN work /\ work'.task = work.task /\ work'.at = work.at
        /\ work'.repeated = work.repeated /\ work'.cached = work.cached
        /\ work'.reuse = work.reuse /\ work'.request = work.request /\ work'.with = work.with
        /\ work'.by = work.by /\ work'.heard = work.heard /\ work'.evidence = <<item>>
    <3> HIDE DEF item
    <3> QED
      BY <2>1, WorkHas DEF WorkFields
  <2>3. WorkInv'
    BY <2>1, <2>2, WorkTyped, WorkMoves DEF Phases, Analysing
  <2>4. EvidenceInv'
    <3> HIDE DEF item
    <3> QED
      BY <2>1, <2>2, SingleIsSequence, TaskAssumption DEF EvidenceInv, BeforeEvidence, Acquiring
  <2>5. EvidenceStaysUnderItsAuthorization'
    <3>1. /\ item.authorization = context.authorization
          /\ item.used = now /\ item.read.observedAt = now
      BY DEF Item, GovernedRead
    <3>2. item.used < item.read.observedAt + GrantLife
      BY <3>1, EvidenceAssumption DEF IInv, WorldInv
    <3> HIDE DEF item
    <3>3. DOMAIN <<item>> = {1} /\ <<item>>[1] = item
      OBVIOUS
    <3> QED
      BY <1>1, <2>2, <3>1, <3>2, <3>3 DEF EvidenceStaysUnderItsAuthorization
  <2>6. ReadInv'
    BY <2>1 DEF ReadInv
  <2>7. WorkAnswers'
    <3>1. WorkAnswers /\ Permitted(choice)' = Permitted(choice)
      BY <1>1, AnswersAre, RestStays DEF IInv
    <3> QED
      BY <2>2, <3>1 DEF WorkAnswers
  <2> QED
    BY <1>1, <2>1, <2>3, <2>4, <2>5, <2>6, <2>7, RestStays, HandlerStep DEF HandlerInv
<1> QED
  BY <1>2, <1>3

LEMMA DescribeKeeps == IInv /\ Describe => IInv'
<1> SUFFICES ASSUME IInv, Describe PROVE IInv'
  OBVIOUS
<1>1. /\ phase = "describe" /\ UNCHANGED handlerFrame /\ UNCHANGED <<memory, context, cache>>
      /\ choice' = choice
  BY DEF Describe, evidenceVars, handlerFrame
<1>2. CASE provider.closed
  <2>1. Resume /\ provider' = provider
    BY <1>2 DEF Describe
  <2> QED
    BY <1>1, <2>1, DoneAlone
<1>3. CASE ~provider.closed
  <2>1. PICK installed : provider' \in States(provider, installed)
    BY <1>3 DEF Describe
  <2>2. SelectionInv' /\ Permitted(choice)' = Permitted(choice)
    BY <1>1, <2>1, StatesKeepSelection, PermittedKept DEF IInv
  <2>3. MemoryInv' /\ MemoryAnswers' /\ ContextInv' /\ CacheStands(cache)'
    BY <1>1, <2>2, AnswersStay, RestStays
  <2>4. CASE work.task.kind = "PROJECT_ANALYSIS"
    <3>1. /\ phase' = "plan" /\ seen' = seen
          /\ work' = [work EXCEPT !.cached = DOMAIN cache # {}]
      BY <1>3, <2>4 DEF Describe, Goes
    <3>2. /\ DOMAIN work' = DOMAIN work /\ work'.task = work.task /\ work'.at = work.at
          /\ work'.repeated = work.repeated
          /\ work'.reuse = work.reuse /\ work'.request = work.request /\ work'.with = work.with
          /\ work'.by = work.by /\ work'.heard = work.heard /\ work'.evidence = work.evidence
      BY <3>1, WorkHas DEF WorkFields
    <3>3. work'.cached \in BOOLEAN
      BY <3>1, WorkHas DEF WorkFields
    <3>4. WorkInv'
      BY <2>4, <3>1, <3>2, <3>3, WorkTyped, WorkMoves DEF Phases
    <3>5. EvidenceInv' /\ EvidenceStaysUnderItsAuthorization'
      BY <1>1, <3>1, <3>2, EvidenceStays DEF BeforeEvidence, Acquiring
    <3>6. ReadInv'
      BY <3>1 DEF ReadInv
    <3>7. WorkAnswers'
      BY <2>2, <3>2, AnswersAre DEF IInv, WorkAnswers
    <3> QED
      BY <1>1, <2>2, <2>3, <3>1, <3>4, <3>5, <3>6, <3>7, HandlerStep DEF HandlerInv
  <2>5. CASE work.task.kind # "PROJECT_ANALYSIS"
    <3>1. Goes("question") /\ work' = work
      BY <1>3, <2>5 DEF Describe
    <3>2. HandlerInv'
      BY <1>1, <3>1, GoesOn DEF Phases, BeforeEvidence, Analysing, Acquiring
    <3>3. WorkAnswers' /\ seen' = seen
      BY <2>2, <3>1, AnswersStay DEF Goes
    <3> QED
      BY <1>1, <2>2, <2>3, <3>2, <3>3, HandlerStep
  <2> QED
    BY <2>4, <2>5
<1> QED
  BY <1>2, <1>3

LEMMA AskProviderKeeps == IInv /\ AskProvider => IInv'
<1> SUFFICES ASSUME IInv, AskProvider PROVE IInv'
  OBVIOUS
<1>1. /\ phase = "question" /\ UNCHANGED handlerFrame
      /\ UNCHANGED <<provider, memory, context, cache>>
  BY DEF AskProvider, evidenceVars
<1>2. CASE provider.closed \/ provider.composition = NoProvider
  <2>1. Resume
    BY <1>2 DEF AskProvider
  <2> QED
    BY <1>1, <2>1, DoneAlone
<1>3. CASE ~(provider.closed \/ provider.composition = NoProvider)
  <2>1. /\ phase' = "answer" /\ seen' = seen
        /\ work' = [work EXCEPT !.with = provider.composition, !.heard = memory.turns]
    BY <1>3 DEF AskProvider, Goes
  <2>2. /\ DOMAIN work' = DOMAIN work /\ work'.task = work.task /\ work'.at = work.at
        /\ work'.repeated = work.repeated /\ work'.cached = work.cached
        /\ work'.reuse = work.reuse /\ work'.request = work.request
        /\ work'.with = provider.composition
        /\ work'.by = work.by /\ work'.heard = memory.turns /\ work'.evidence = work.evidence
    BY <2>1, WorkHas DEF WorkFields
  <2>3. /\ provider.composition \in Permitted(choice) \union {NoProvider}
        /\ provider.composition \in Providers \union {NoProvider}
    BY DEF IInv, SelectionInv
  <2>4. WorkInv'
    BY <1>3, <2>1, <2>2, <2>3, WorkTyped, WorkMoves DEF Phases, Analysing
  <2>5. EvidenceInv' /\ EvidenceStaysUnderItsAuthorization'
    BY <1>1, <2>1, <2>2, EvidenceStays DEF BeforeEvidence, Acquiring
  <2>6. ReadInv'
    BY <2>1 DEF ReadInv
  <2>7. WorkAnswers'
    <3>1. WorkAnswers /\ MemoryAnswers /\ Permitted(choice)' = Permitted(choice)
      BY <1>1, AnswersAre, RestStays DEF IInv
    <3> QED
      BY <2>2, <2>3, <3>1 DEF WorkAnswers, MemoryAnswers
  <2> QED
    BY <1>1, <2>1, <2>4, <2>5, <2>6, <2>7, RestStays, HandlerStep DEF HandlerInv
<1> QED
  BY <1>2, <1>3

\* What one provider that may answer adds to the memory.
LEMMA ExchangeKeeps ==
  ASSUME IInv, Permitted(choice)' = Permitted(choice),
         NEW by \in Permitted(choice) \union {NoProvider},
         NEW base, DOMAIN base = {"decisions", "turns"}, base.turns = memory.turns,
         \A d \in base.decisions :
           /\ d.decision \in Decisions
           /\ d.by \in Providers
           /\ d.by \in Permitted(choice) \union {NoProvider},
         memory' = base \/ memory' = ExchangeRemembered(base, by)
  PROVE  MemoryInv' /\ MemoryAnswers'
<1>1. /\ DOMAIN memory' = {"decisions", "turns"} /\ memory'.decisions = base.decisions
      /\ memory'.turns \subseteq memory.turns \union {by}
  BY DEF ExchangeRemembered
<1>2. MemoryAnswers
  BY AnswersAre DEF IInv
<1> QED
  BY <1>1, <1>2 DEF MemoryInv, MemoryAnswers

LEMMA MemoryIs ==
  ASSUME IInv
  PROVE  /\ DOMAIN memory = {"decisions", "turns"}
         /\ \A d \in memory.decisions :
              d.decision \in Decisions /\ d.by \in Providers
              /\ d.by \in Permitted(choice) \union {NoProvider}
<1>1. MemoryAnswers
  BY AnswersAre DEF IInv
<1> QED
  BY <1>1 DEF IInv, MemoryInv, MemoryAnswers

LEMMA WorkingWith ==
  ASSUME IInv
  PROVE  /\ work.with \in Permitted(choice) \union {NoProvider}
         /\ work.by \in Permitted(choice) \union {NoProvider}
<1>1. WorkAnswers
  BY AnswersAre DEF IInv
<1> QED
  BY <1>1 DEF WorkAnswers

LEMMA AnswerKeeps == IInv /\ Answer => IInv'
<1> SUFFICES ASSUME IInv, Answer PROVE IInv'
  OBVIOUS
<1>1. /\ UNCHANGED handlerFrame /\ UNCHANGED <<provider, context, cache>> /\ Resume
      /\ memory' = memory \/ memory' = ExchangeRemembered(memory, work.with)
  BY DEF Answer, evidenceVars
<1>2. MemoryInv' /\ MemoryAnswers'
  BY <1>1, ExchangeKeeps, MemoryIs, WorkingWith, RestStays
<1> QED
  BY <1>1, <1>2, RestStays, DoneStep

(***************************************************************************)
(* The evidence loop                                                       *)
(***************************************************************************)

LEMMA AnalysisEnvelope ==
  ASSUME NEW task, task.kind = "PROJECT_ANALYSIS"
  PROVE  /\ Envelope(task).steps = MaxEvidenceSteps
         /\ Envelope(task).kinds = Kinds
BY DEF Envelope, TaskProfile, Kinds

\* The grounding asks for the inventory or for a file of its lists.
LEMMA GroundingRequestIs ==
  ASSUME IInv, work.task.kind = "PROJECT_ANALYSIS"
  PROVE  GroundingRequest \in Requests \union {NoRequest}
<1> DEFINE files == Evidence[Oldest(Acquired("WORKSPACE_FILES"))].content
           lists == Grounding[work.task.objective]
           shown(list) == {i \in DOMAIN list : list[i] \in files}
           first(list) == list[Oldest(shown(list))]
           wanted(list) == shown(list) # {} /\ ~HasRead(first(list))
           unread == {i \in DOMAIN lists : wanted(lists[i])}
           asked == Request("READ_FILE", first(lists[Oldest(unread)]))
<1>1. \/ GroundingRequest \in {InventoryRequest, NoRequest}
      \/ unread # {} /\ GroundingRequest = asked
  BY DEF GroundingRequest
<1>2. lists \in Seq(Seq(Target))
  BY WorkTyped, AnalysisTask, SessionAssumption
<1>3. ASSUME unread # {} PROVE asked \in Requests
  <2>1. unread \in SUBSET Nat /\ unread \subseteq DOMAIN lists
    <3>1. DOMAIN lists \subseteq Nat
      <4> HIDE DEF lists
      <4> QED
        BY <1>2
    <3> QED
      BY <3>1
  <2>2. PICK k : k = Oldest(unread) /\ k \in unread
    <3> HIDE DEF unread
    <3> QED
      BY <1>3, <2>1, OldestIsOne
  <2>3. PICK list : list = lists[k] /\ list \in Seq(Target)
    <3>1. k \in DOMAIN lists
      BY <2>1, <2>2
    <3> HIDE DEF lists
    <3> QED
      BY <1>2, <3>1
  <2>4. shown(list) # {}
    BY <2>2, <2>3
  <2>5. shown(list) \in SUBSET Nat /\ shown(list) \subseteq DOMAIN list
    BY <2>3
  <2>6. Oldest(shown(list)) \in DOMAIN list
    <3> HIDE DEF shown
    <3> QED
      BY <2>4, <2>5, OldestIsOne
  <2>7. first(list) \in Target
    <3> HIDE DEF shown
    <3> QED
      BY <2>3, <2>6
  <2>8. asked = Request("READ_FILE", first(list))
    BY <2>2, <2>3
  <2> HIDE DEF asked, first
  <2> QED
    BY <2>7, <2>8 DEF Request, Requests
<1> HIDE DEF unread, asked
<1> QED
  BY <1>1, <1>3 DEF Requests

\* A request is taken on: the handler holds it, and a new observation of the workspace starts.
LEMMA AsksHandler ==
  ASSUME IInv, UNCHANGED handlerFrame, UNCHANGED <<provider, context>>,
         work.task.kind = "PROJECT_ANALYSIS", Len(work.evidence) < MaxEvidenceSteps,
         NEW request \in Requests, NEW by \in Permitted(choice) \union {NoProvider},
         Asks(request, by)
  PROVE  HandlerInv' /\ WorkAnswers' /\ seen' = [t \in Target |-> {world[t]}]
<1>1. /\ phase' = "qualify" /\ seen' = [t \in Target |-> {world[t]}]
      /\ work' = [work EXCEPT !.request = request, !.by = by, !.with = NoProvider]
  BY DEF Asks
<1>2. /\ DOMAIN work' = DOMAIN work /\ work'.task = work.task /\ work'.at = work.at
      /\ work'.repeated = work.repeated /\ work'.cached = work.cached
      /\ work'.reuse = work.reuse /\ work'.request = request /\ work'.with = NoProvider
      /\ work'.by = by /\ work'.heard = work.heard /\ work'.evidence = work.evidence
  BY <1>1, WorkHas DEF WorkFields
<1>3. by \in Providers \union {NoProvider}
  BY PermittedProviders
<1>4. WorkInv'
  BY <1>1, <1>2, <1>3, WorkTyped, WorkMoves DEF Phases
<1>5. EvidenceInv' /\ EvidenceStaysUnderItsAuthorization'
  BY <1>1, <1>2, EvidenceStays DEF BeforeEvidence
<1>6. ReadInv'
  BY <1>1 DEF ReadInv
<1>7. WorkAnswers'
  <2>1. WorkAnswers /\ Permitted(choice)' = Permitted(choice)
    BY AnswersAre, RestStays DEF IInv
  <2> QED
    BY <1>2, <2>1 DEF WorkAnswers
<1> QED
  BY <1>1, <1>4, <1>5, <1>6, <1>7 DEF HandlerInv

LEMMA PlanKeeps == IInv /\ Plan => IInv'
<1> SUFFICES ASSUME IInv, Plan PROVE IInv'
  OBVIOUS
<1>1. /\ phase = "plan" /\ UNCHANGED handlerFrame /\ UNCHANGED <<provider, context, cache>>
  BY DEF Plan, evidenceVars
<1>2. work.task.kind = "PROJECT_ANALYSIS"
  BY <1>1 DEF IInv, WorkInv, Analysing
<1>3. Len(work.evidence) \in Nat
  BY AppendIsSequence DEF IInv, EvidenceInv
<1>4. CASE Len(work.evidence) >= Envelope(work.task).steps
  <2>1. Resume /\ memory' = memory
    BY <1>4 DEF Plan
  <2> QED
    BY <1>1, <2>1, DoneAlone
<1>5. CASE ~(Len(work.evidence) >= Envelope(work.task).steps)
  <2>1. Len(work.evidence) < MaxEvidenceSteps
    BY <1>2, <1>3, <1>5, AnalysisEnvelope, TaskAssumption
  <2>2. ASSUME NEW request \in Requests, NEW by \in Permitted(choice) \union {NoProvider},
               Asks(request, by), memory' = memory
        PROVE  IInv'
    BY <1>1, <1>2, <2>1, <2>2, AsksHandler, RestStays, HandlerStep
  <2>3. ASSUME NEW by \in Permitted(choice) \union {NoProvider}, Responds(by)
        PROVE  IInv'
    <3>1. Resume /\ memory' \in {memory, ExchangeRemembered(memory, by)}
      BY <2>3 DEF Responds
    <3>2. MemoryInv' /\ MemoryAnswers'
      BY <1>1, <3>1, ExchangeKeeps, MemoryIs, RestStays
    <3> QED
      BY <1>1, <3>1, <3>2, RestStays, DoneStep
  <2>4. CASE GroundingRequest # NoRequest
    <3>1. Asks(GroundingRequest, NoProvider) /\ memory' = memory
      BY <1>5, <2>4 DEF Plan
    <3>2. GroundingRequest \in Requests
      BY <1>2, <2>4, GroundingRequestIs
    <3> QED
      BY <2>2, <3>1, <3>2
  <2>5. CASE GroundingRequest = NoRequest /\ provider.closed
    <3>1. Resume /\ memory' = memory
      BY <1>5, <2>5 DEF Plan
    <3> QED
      BY <1>1, <3>1, DoneAlone
  <2>6. CASE GroundingRequest = NoRequest /\ ~provider.closed /\ provider.composition = NoProvider
    <3>1. Responds(NoProvider)
      BY <1>5, <2>6 DEF Plan
    <3> QED
      BY <2>3, <3>1
  <2>7. CASE GroundingRequest = NoRequest /\ ~provider.closed /\ provider.composition # NoProvider
    <3>1. \/ /\ Goes("await") /\ work' = [work EXCEPT !.with = provider.composition]
             /\ memory' = memory
          \/ \E d \in Recalled(memory, Key) :
               IF d.decision = Respond THEN Responds(d.by)
               ELSE Asks(d.decision.request, d.by) /\ memory' = memory
      BY <1>5, <2>7 DEF Plan
    <3>2. CASE \E d \in Recalled(memory, Key) :
               IF d.decision = Respond THEN Responds(d.by)
               ELSE Asks(d.decision.request, d.by) /\ memory' = memory
      <4>1. PICK d \in memory.decisions :
               IF d.decision = Respond THEN Responds(d.by)
               ELSE Asks(d.decision.request, d.by) /\ memory' = memory
        BY <3>2 DEF Recalled
      <4>2. d.decision \in Decisions /\ d.by \in Permitted(choice) \union {NoProvider}
        BY MemoryIs
      <4>3. CASE d.decision = Respond
        BY <2>3, <4>1, <4>2, <4>3
      <4>4. CASE d.decision # Respond
        BY <2>2, <4>1, <4>2, <4>4, DecisionIs
      <4> QED
        BY <4>3, <4>4
    <3>3. CASE /\ Goes("await") /\ work' = [work EXCEPT !.with = provider.composition]
               /\ memory' = memory
      <4>1. phase' = "await" /\ seen' = seen
        BY <3>3 DEF Goes
      <4>2. /\ DOMAIN work' = DOMAIN work /\ work'.task = work.task /\ work'.at = work.at
            /\ work'.repeated = work.repeated /\ work'.cached = work.cached
            /\ work'.reuse = work.reuse /\ work'.request = work.request
            /\ work'.with = provider.composition
            /\ work'.by = work.by /\ work'.heard = work.heard /\ work'.evidence = work.evidence
        BY <3>3, WorkHas DEF WorkFields
      <4>3. /\ provider.composition \in Permitted(choice) \union {NoProvider}
            /\ provider.composition \in Providers \union {NoProvider}
        BY DEF IInv, SelectionInv
      <4>4. WorkInv'
        BY <1>2, <2>7, <4>1, <4>2, <4>3, WorkTyped, WorkMoves DEF Phases
      <4>5. EvidenceInv' /\ EvidenceStaysUnderItsAuthorization'
        BY <1>1, <2>1, <4>1, <4>2, EvidenceStays DEF BeforeEvidence
      <4>6. ReadInv'
        BY <4>1 DEF ReadInv
      <4>7. WorkAnswers'
        <5>1. WorkAnswers /\ Permitted(choice)' = Permitted(choice)
          BY <1>1, AnswersAre, RestStays DEF IInv
        <5> QED
          BY <4>2, <4>3, <5>1 DEF WorkAnswers
      <4> QED
        BY <1>1, <3>3, <4>1, <4>4, <4>5, <4>6, <4>7, RestStays, HandlerStep DEF HandlerInv
    <3> QED
      BY <3>1, <3>2, <3>3
  <2> QED
    BY <2>4, <2>5, <2>6, <2>7
<1> QED
  BY <1>4, <1>5

LEMMA DecideKeeps == IInv /\ Decide => IInv'
<1> SUFFICES ASSUME IInv, Decide PROVE IInv'
  OBVIOUS
<1>1. /\ phase = "await" /\ UNCHANGED handlerFrame /\ UNCHANGED <<provider, context, cache>>
  BY DEF Decide, evidenceVars
<1>2. /\ work.task.kind = "PROJECT_ANALYSIS" /\ Len(work.evidence) < MaxEvidenceSteps
      /\ work.with # NoProvider
  BY <1>1 DEF IInv, WorkInv, EvidenceInv, Analysing, Acquiring
<1> DEFINE remembering(d) == DecisionRemembered(memory, Key, d, work.with)
<1>3. PICK d \in Decisions \union {NoDecision} :
        CASE d = NoDecision -> Resume /\ memory' = memory
          [] d = Respond ->
               /\ Resume
               /\ memory' = IF Acquired("READ_FILE") = {} THEN remembering(d)
                            ELSE ExchangeRemembered(remembering(d), work.with)
          [] OTHER -> Asks(d.request, work.with) /\ memory' = remembering(d)
  <2>1. PICK d \in ParsedDecisions(work.with, work.task.objective, BoundedHistory(Evidence),
                              Decisions) :
        CASE d = NoDecision -> Resume /\ memory' = memory
          [] d = Respond ->
               /\ Resume
               /\ memory' = IF Acquired("READ_FILE") = {} THEN remembering(d)
                            ELSE ExchangeRemembered(remembering(d), work.with)
          [] OTHER -> Asks(d.request, work.with) /\ memory' = remembering(d)
    BY DEF Decide
  <2>2. d \in Decisions \union {NoDecision}
    BY ParsedDecisionsAre
  <2> HIDE DEF remembering
  <2> QED
    BY <2>1, <2>2
<1>4. NoDecision # Respond
  BY DEF NoDecision, Respond
<1>5. PICK base : base = remembering(d)
  OBVIOUS
<1>6. ASSUME d \in Decisions
      PROVE  /\ DOMAIN base = {"decisions", "turns"} /\ base.turns = memory.turns
             /\ \A e \in base.decisions :
                  e.decision \in Decisions /\ e.by \in Providers
                  /\ e.by \in Permitted(choice) \union {NoProvider}
  <2>1. base = [memory EXCEPT !.decisions = {e \in memory.decisions : e.key # Key}
                   \union {[key |-> Key, decision |-> d, by |-> work.with]}]
    BY <1>5 DEF DecisionRemembered
  <2>2. work.with \in Providers /\ work.with \in Permitted(choice) \union {NoProvider}
    BY <1>2, WorkTyped, WorkingWith
  <2>3. DOMAIN base = {"decisions", "turns"} /\ base.turns = memory.turns
    BY <2>1, MemoryIs
  <2>4. base.decisions = {e \in memory.decisions : e.key # Key}
                   \union {[key |-> Key, decision |-> d, by |-> work.with]}
    BY <2>1, MemoryIs
  <2> QED
    BY <1>6, <2>2, <2>3, <2>4, MemoryIs
<1>7. ASSUME d \in Decisions, memory' = base \/ memory' = ExchangeRemembered(base, work.with)
      PROVE  MemoryInv' /\ MemoryAnswers'
  BY <1>1, <1>6, <1>7, ExchangeKeeps, WorkingWith, RestStays
<1>8. CASE d = NoDecision
  <2>1. Resume /\ memory' = memory
    BY <1>3, <1>4, <1>8
  <2> QED
    BY <1>1, <2>1, DoneAlone
<1>9. CASE d = Respond
  <2>1. Resume /\ (memory' = base \/ memory' = ExchangeRemembered(base, work.with))
    <3> HIDE DEF remembering
    <3> QED
      BY <1>3, <1>4, <1>5, <1>9
  <2>2. d \in Decisions
    BY <1>9 DEF Decisions
  <2> QED
    BY <1>1, <1>7, <2>1, <2>2, RestStays, DoneStep
<1>10. CASE d # NoDecision /\ d # Respond
  <2>1. Asks(d.request, work.with) /\ memory' = base
    <3> HIDE DEF remembering
    <3> QED
      BY <1>3, <1>5, <1>10
  <2>2. d \in Decisions /\ d.request \in Requests
    BY <1>10, DecisionIs
  <2>3. MemoryInv' /\ MemoryAnswers'
    BY <1>7, <2>1, <2>2
  <2>4. HandlerInv' /\ WorkAnswers' /\ seen' = [t \in Target |-> {world[t]}]
    BY <1>1, <1>2, <2>1, <2>2, WorkingWith, AsksHandler
  <2> QED
    BY <1>1, <2>3, <2>4, RestStays, HandlerStep
<1> QED
  BY <1>8, <1>9, <1>10

LEMMA QualifyKeeps == IInv /\ Qualify => IInv'
<1> SUFFICES ASSUME IInv, Qualify PROVE IInv'
  OBVIOUS
<1>1. /\ phase = "qualify" /\ UNCHANGED handlerFrame /\ UNCHANGED <<provider, memory, context>>
  BY DEF Qualify
<1> DEFINE reusable == Reusable(cache, context, CacheCapability(work.request.kind),
                                work.request.target, now, world)
<1>2. \/ /\ phase' = "dispatch" /\ seen' = seen /\ cache' = reusable.cache
         /\ work' = [work EXCEPT !.reuse = reusable.entry # NoEntry]
      \/ Resume /\ cache' = cache
  BY DEF Qualify, Goes
<1>3. CASE Resume /\ cache' = cache
  BY <1>1, <1>3, DoneAlone
<1>4. CASE /\ phase' = "dispatch" /\ seen' = seen /\ cache' = reusable.cache
           /\ work' = [work EXCEPT !.reuse = reusable.entry # NoEntry]
  <2>1. CacheStands(cache')
    <3>1. CacheStands(cache)
      BY DEF IInv
    <3> QED
      BY <1>4, <3>1, ReusableStands
  <2>2. PICK b \in BOOLEAN : work' = [work EXCEPT !.reuse = b]
    BY <1>4
  <2>3. /\ DOMAIN work' = DOMAIN work /\ work'.task = work.task /\ work'.at = work.at
        /\ work'.repeated = work.repeated /\ work'.cached = work.cached
        /\ work'.reuse = b /\ work'.request = work.request /\ work'.with = work.with
        /\ work'.by = work.by /\ work'.heard = work.heard /\ work'.evidence = work.evidence
    BY <2>2, WorkHas DEF WorkFields
  <2>4. work.task.kind = "PROJECT_ANALYSIS" /\ Len(work.evidence) < MaxEvidenceSteps
    BY <1>1 DEF IInv, WorkInv, EvidenceInv, Analysing, Acquiring
  <2>5. WorkInv'
    BY <1>4, <2>3, <2>4, WorkTyped, WorkMoves DEF Phases
  <2>6. EvidenceInv' /\ EvidenceStaysUnderItsAuthorization'
    BY <1>1, <1>4, <2>3, <2>4, EvidenceStays DEF BeforeEvidence
  <2>7. ReadInv'
    BY <1>4 DEF ReadInv
  <2>8. WorkAnswers'
    <3>1. WorkAnswers /\ Permitted(choice)' = Permitted(choice)
      BY <1>1, AnswersAre, RestStays DEF IInv
    <3> QED
      BY <2>3, <3>1 DEF WorkAnswers
  <2>9. CacheStands(cache)'
    BY <2>1 DEF CacheStands, EntryStands
  <2> QED
    BY <1>1, <1>4, <2>5, <2>6, <2>7, <2>8, <2>9, RestStays, HandlerStep DEF HandlerInv
<1> QED
  BY <1>2, <1>3, <1>4

\* Evidence was acquired: the loop plans its next step with it.
LEMMA AcquiresHandler ==
  ASSUME IInv, UNCHANGED handlerFrame, UNCHANGED <<provider, memory, context>>,
         phase \in {"dispatch", "remember"}, NEW item, Acquires(item),
         item.authorization = context.authorization,
         item.used < item.read.observedAt + GrantLife
  PROVE  HandlerInv' /\ WorkAnswers' /\ seen' = seen
<1>1. /\ phase' = "plan" /\ seen' = seen
      /\ work' = [work EXCEPT !.evidence = Append(@, item), !.request = NoRequest,
                              !.reuse = FALSE, !.read = NoRead, !.by = NoProvider]
  BY DEF Acquires, Goes
<1>2. /\ DOMAIN work' = DOMAIN work /\ work'.task = work.task /\ work'.at = work.at
      /\ work'.repeated = work.repeated /\ work'.cached = work.cached
      /\ work'.reuse = FALSE /\ work'.request = NoRequest /\ work'.with = work.with
      /\ work'.by = NoProvider /\ work'.heard = work.heard
      /\ work'.evidence = Append(work.evidence, item)
  BY <1>1, WorkHas DEF WorkFields
<1>3. /\ IsSequence(work.evidence) /\ work.task.kind = "PROJECT_ANALYSIS"
      /\ Len(work.evidence) < MaxEvidenceSteps
  BY DEF IInv, WorkInv, EvidenceInv, Analysing, Acquiring
<1>4. WorkInv'
  BY <1>1, <1>2, <1>3, WorkTyped, WorkMoves DEF Phases
<1>5. PICK longer : longer = Append(work.evidence, item)
  OBVIOUS
<1>6. /\ IsSequence(longer) /\ Len(longer) <= MaxEvidenceSteps
      /\ DOMAIN longer = DOMAIN work.evidence \union {Len(work.evidence) + 1}
      /\ longer[Len(work.evidence) + 1] = item
      /\ \A i \in DOMAIN work.evidence : longer[i] = work.evidence[i]
  BY <1>3, <1>5, AppendIsSequence, TaskAssumption
<1>7. EvidenceInv'
  BY <1>1, <1>2, <1>5, <1>6 DEF EvidenceInv, BeforeEvidence, Acquiring
<1>8. EvidenceStaysUnderItsAuthorization'
  <2>1. \A i \in DOMAIN work.evidence :
          /\ work.evidence[i].authorization = context.authorization
          /\ work.evidence[i].used < work.evidence[i].read.observedAt + GrantLife
    BY DEF IInv, EvidenceStaysUnderItsAuthorization
  <2>2. \A i \in DOMAIN longer :
          /\ longer[i].authorization = context.authorization
          /\ longer[i].used < longer[i].read.observedAt + GrantLife
    BY <1>6, <2>1
  <2> QED
    BY <1>2, <1>5, <2>2 DEF EvidenceStaysUnderItsAuthorization
<1>9. ReadInv'
  BY <1>1 DEF ReadInv
<1>10. WorkAnswers'
  <2>1. WorkAnswers /\ Permitted(choice)' = Permitted(choice)
    BY AnswersAre, RestStays DEF IInv
  <2> QED
    BY <1>2, <2>1 DEF WorkAnswers
<1> QED
  BY <1>1, <1>4, <1>7, <1>8, <1>9, <1>10 DEF HandlerInv

LEMMA DispatchKeeps == IInv /\ Dispatch => IInv'
<1> SUFFICES ASSUME IInv, Dispatch PROVE IInv'
  OBVIOUS
<1>1. /\ phase = "dispatch" /\ UNCHANGED handlerFrame /\ UNCHANGED <<provider, memory, context>>
  BY DEF Dispatch
<1>2. PICK reusable : reusable = Reusable(cache, context, CacheCapability(work.request.kind),
                                          work.request.target, now, world)
  OBVIOUS
<1>3. \/ DispatchFresh /\ cache' \in {cache, reusable.cache}
      \/ /\ reusable.entry # NoEntry /\ cache' = reusable.cache
         /\ Acquires(Item(reusable.entry.read, reusable.entry.authorization, now))
  BY <1>2 DEF Dispatch
<1>4. CacheStands(cache)
  BY DEF IInv
<1>5. CacheStands(cache)'
  <2>1. CacheStands(reusable.cache)
    BY <1>2, <1>4, ReusableStands
  <2>2. CacheStands(cache')
    BY <1>3, <1>4, <2>1
  <2> QED
    BY <2>2 DEF CacheStands, EntryStands
<1>6. CASE DispatchFresh
  <2>1. CASE Resume
    BY <1>1, <1>5, <2>1, RestStays, DoneStep
  <2>2. CASE ~Resume
    <3>1. /\ phase' = "remember" /\ seen' = seen /\ Readable(work.request, world)
          /\ work' = [work EXCEPT !.read = GovernedRead(work.request, world, now)]
      BY <1>6, <2>2 DEF DispatchFresh, Goes
    <3>2. /\ DOMAIN work' = DOMAIN work /\ work'.task = work.task /\ work'.at = work.at
          /\ work'.repeated = work.repeated /\ work'.cached = work.cached
          /\ work'.reuse = work.reuse /\ work'.request = work.request /\ work'.with = work.with
          /\ work'.by = work.by /\ work'.heard = work.heard /\ work'.evidence = work.evidence
          /\ work'.read = GovernedRead(work.request, world, now)
      BY <3>1, WorkHas DEF WorkFields
    <3>3. work.task.kind = "PROJECT_ANALYSIS" /\ Len(work.evidence) < MaxEvidenceSteps
      BY <1>1 DEF IInv, WorkInv, EvidenceInv, Analysing, Acquiring
    <3>4. WorkInv'
      BY <3>1, <3>2, <3>3, WorkTyped, WorkMoves DEF Phases
    <3>5. EvidenceInv' /\ EvidenceStaysUnderItsAuthorization'
      BY <1>1, <3>1, <3>2, <3>3, EvidenceStays DEF BeforeEvidence
    <3>6. ReadInv'
      <4>1. /\ now \in Nat /\ DOMAIN world = Target
            /\ \A t \in Target : world[t] \in seen[t]
        BY DEF IInv, WorldInv
      <4>2. /\ work'.read.observedAt = now /\ work'.read.expires = now + GrantLife
            /\ work'.read.kind = work.request.kind /\ work'.read.target = work.request.target
            /\ work'.read.content = Observed(work.request, world)
        BY <3>2 DEF GovernedRead
      <4>3. work.request.kind # "WORKSPACE_FILES" =>
              /\ work.request.target \in Target
              /\ Observed(work.request, world) \in seen[work.request.target]
        BY <3>1, <4>1 DEF Readable, Observed
      <4> QED
        BY <3>1, <4>1, <4>2, <4>3 DEF ReadInv
    <3>7. WorkAnswers'
      <4>1. WorkAnswers /\ Permitted(choice)' = Permitted(choice)
        BY <1>1, AnswersAre, RestStays DEF IInv
      <4> QED
        BY <3>2, <4>1 DEF WorkAnswers
    <3> QED
      BY <1>1, <1>5, <3>1, <3>4, <3>5, <3>6, <3>7, RestStays, HandlerStep DEF HandlerInv
  <2> QED
    BY <2>1, <2>2
<1>7. CASE /\ reusable.entry # NoEntry
           /\ Acquires(Item(reusable.entry.read, reusable.entry.authorization, now))
  <2>1. PICK item : item = Item(reusable.entry.read, reusable.entry.authorization, now)
    OBVIOUS
  <2>2. /\ item.authorization = reusable.entry.authorization /\ item.used = now
        /\ item.read = reusable.entry.read
    BY <2>1 DEF Item
  <2>3. /\ EntryStands(reusable.entry) /\ now < reusable.entry.expires
        /\ reusable.entry.authorization = context.authorization
    BY <1>2, <1>4, <1>7, ReusableStands
  <2>4. item.used < item.read.observedAt + GrantLife
    BY <2>2, <2>3, EvidenceAssumption DEF EntryStands, IInv, WorldInv
  <2>5. HandlerInv' /\ WorkAnswers' /\ seen' = seen
    BY <1>1, <1>7, <2>1, <2>2, <2>3, <2>4, AcquiresHandler
  <2> QED
    BY <1>1, <1>5, <2>5, RestStays, HandlerStep
<1> QED
  BY <1>3, <1>6, <1>7

LEMMA RememberKeeps == IInv /\ Remember => IInv'
<1> SUFFICES ASSUME IInv, Remember PROVE IInv'
  OBVIOUS
<1>1. /\ phase = "remember" /\ UNCHANGED handlerFrame /\ UNCHANGED <<provider, memory, context>>
      /\ cache' = IF Cacheable(context, work.read, world)
                  THEN Cached(cache, CacheEntry(context, work.read, world)) ELSE cache
      /\ Acquires(Item(work.read, context.authorization, work.read.observedAt))
  BY DEF Remember
<1>2. work.read.observedAt \in Nat /\ work.read.expires = work.read.observedAt + GrantLife
  BY <1>1 DEF IInv, ReadInv
<1>3. CacheStands(cache)'
  <2>1. CacheStands(cache) /\ context.authorization.proposal.expires \in Nat
    BY DEF IInv, ContextInv
  <2>2. CacheStands(cache')
    <3>1. CASE Cacheable(context, work.read, world)
      <4>1. EntryStands(CacheEntry(context, work.read, world))
        BY <1>2, <2>1, <3>1, CacheEntryStands
      <4> QED
        BY <1>1, <2>1, <3>1, <4>1, CachedStands
    <3>2. CASE ~Cacheable(context, work.read, world)
      BY <1>1, <2>1, <3>2
    <3> QED
      BY <3>1, <3>2
  <2> QED
    BY <2>2 DEF CacheStands, EntryStands
<1>4. PICK item : item = Item(work.read, context.authorization, work.read.observedAt)
  OBVIOUS
<1>5. /\ item.authorization = context.authorization /\ item.used = work.read.observedAt
      /\ item.read = work.read
  BY <1>4 DEF Item
<1>6. item.used < item.read.observedAt + GrantLife
  BY <1>2, <1>5, EvidenceAssumption
<1>7. HandlerInv' /\ WorkAnswers' /\ seen' = seen
  BY <1>1, <1>4, <1>5, <1>6, AcquiresHandler
<1> QED
  BY <1>1, <1>3, <1>7, RestStays, HandlerStep

LEMMA NextKeepsIInv == IInv /\ [Next]_vars => IInv'
<1> SUFFICES ASSUME IInv, [Next]_vars PROVE IInv'
  OBVIOUS
<1>1. CASE Type \/ Tick \/ Edit \/ Close
  BY <1>1, TypeKeeps, TickKeeps, EditKeeps, CloseKeeps
<1>2. CASE LineTaken
  BY <1>2, ProposeTaskKeeps, YesKeeps, IdleLineKeeps, QuestionKeeps, StatusKeeps,
     SelectLocalKeeps, ChoiceKeeps, ExitKeeps DEF LineTaken
<1>3. CASE Handler
  BY <1>3, ContextualizeKeeps, RevalidateKeeps, OpenExperienceKeeps, ReadFileKeeps,
     DescribeKeeps, AskProviderKeeps, AnswerKeeps, PlanKeeps, DecideKeeps, QualifyKeeps,
     DispatchKeeps, RememberKeeps DEF Handler
<1>4. CASE UNCHANGED vars
  <2>1. WorldInv' /\ LinesInv'
    BY <1>4, WorldStays, LinesStay DEF vars, IInv
  <2>2. HandlerInv'
    BY <1>4, HandlerStays DEF vars
  <2> QED
    BY <1>4, <2>1, <2>2, EvidenceVarsStay, AnswersStay, ProviderStays, Assembled DEF vars
<1> QED
  BY <1>1, <1>2, <1>3, <1>4 DEF Next

(***************************************************************************)
(* The evidence of an analysis is current                                  *)
(***************************************************************************)

\* The steps that acquire nothing.
LEMMA NothingAcquired ==
  ASSUME IInv, [Next]_vars, ~ReadFile, ~Dispatch, ~Remember
  PROVE  work'.evidence = work.evidence \/ work'.evidence = <<>>
<1> USE DEF WorkFields
<1>1. DOMAIN work = WorkFields
  BY WorkHas
<1>2. CASE Type \/ Tick \/ Edit \/ Close
  BY <1>2 DEF Type, Tick, Edit, Close
<1>3. CASE LineTaken
  <2>1. work' = work \/ work' = NoWork
          \/ \E task, repeated : work' = [NoWork EXCEPT !.task = task, !.repeated = repeated]
    BY <1>3 DEF LineTaken, ProposeTask, Yes, Refuse, Remind, Question, Status, SelectLocal,
                SelectExternal, Disable, Reset, Exit, Stays, Begins
  <2> QED
    BY <2>1, NoWorkIs
<1>4. CASE Handler
  <2> USE <1>1, NoWorkIs
  <2>1. Resume => work'.evidence = <<>>
    BY DEF Resume
  <2>2. CASE Contextualize
    BY <2>1, <2>2 DEF Contextualize, Adopts, Proceeds
  <2>3. CASE Revalidate \/ OpenExperience
    BY <2>1, <2>3 DEF Revalidate, OpenExperience, Adopts, Proceeds
  <2>4. CASE Describe
    BY <2>1, <2>4 DEF Describe
  <2>5. CASE AskProvider \/ Answer
    BY <2>1, <2>5 DEF AskProvider, Answer
  <2>6. CASE Plan
    BY <2>1, <2>6 DEF Plan, Asks, Responds
  <2>7. CASE Decide
    BY <2>1, <2>7 DEF Decide, Asks
  <2>8. CASE Qualify
    BY <2>1, <2>8 DEF Qualify
  <2> QED
    BY <1>4, <2>2, <2>3, <2>4, <2>5, <2>6, <2>7, <2>8 DEF Handler
<1>5. CASE UNCHANGED vars
  BY <1>5 DEF vars
<1> QED
  BY <1>2, <1>3, <1>4, <1>5 DEF Next

\* The item that an analysis acquires is the only new one.
LEMMA OneAcquired ==
  ASSUME IInv, NEW item, Acquires(item),
         item.read.kind # "WORKSPACE_FILES" => item.read.content \in seen[item.read.target]
  PROVE  AcquiresCurrentContent
<1>1. work'.evidence = Append(work.evidence, item)
  BY WorkHas DEF Acquires, WorkFields
<1>2. PICK longer : longer = Append(work.evidence, item)
  OBVIOUS
<1>3. /\ DOMAIN longer \ DOMAIN work.evidence = {Len(work.evidence) + 1}
      /\ longer[Len(work.evidence) + 1] = item
  BY <1>2, AppendIsSequence DEF IInv, EvidenceInv
<1> QED
  BY <1>1, <1>2, <1>3 DEF AcquiresCurrentContent

LEMMA ReadFileIsCurrent == IInv /\ ReadFile => AcquiresCurrentContent
<1> SUFFICES ASSUME IInv, ReadFile PROVE AcquiresCurrentContent
  OBVIOUS
<1> DEFINE request == Request("READ_FILE", work.task.target)
           item == Item(GovernedRead(request, world, now), context.authorization, now)
<1>1. \/ Resume
      \/ work' = [work EXCEPT !.evidence = <<item>>] /\ Readable(request, world)
  BY DEF ReadFile
<1>2. CASE Resume
  BY <1>2, NoWorkIs DEF Resume, AcquiresCurrentContent
<1>3. CASE work' = [work EXCEPT !.evidence = <<item>>] /\ Readable(request, world)
  <2>1. work'.evidence = <<item>>
    <3> HIDE DEF item
    <3> QED
      BY <1>3, WorkHas DEF WorkFields
  <2>2. item.read.content \in seen[item.read.target]
    <3>1. request.kind = "READ_FILE" /\ request.target \in Target
          /\ world[request.target] \in seen[request.target]
      BY <1>3 DEF IInv, WorldInv, Readable, Request
    <3>2. /\ item.read.target = request.target
          /\ item.read.content = world[request.target]
      BY <3>1 DEF Item, GovernedRead, Observed
    <3> QED
      BY <3>1, <3>2
  <2> HIDE DEF item
  <2>3. \A i \in DOMAIN <<item>> : <<item>>[i] = item
    OBVIOUS
  <2> QED
    BY <2>1, <2>2, <2>3 DEF AcquiresCurrentContent
<1> QED
  BY <1>1, <1>2, <1>3

LEMMA DispatchIsCurrent == IInv /\ Dispatch => AcquiresCurrentContent
<1> SUFFICES ASSUME IInv, Dispatch PROVE AcquiresCurrentContent
  OBVIOUS
<1>1. PICK reusable : reusable = Reusable(cache, context, CacheCapability(work.request.kind),
                                          work.request.target, now, world)
  OBVIOUS
<1>2. \/ DispatchFresh
      \/ /\ reusable.entry # NoEntry /\ work.request.kind # "VALIDATE_JS"
         /\ Acquires(Item(reusable.entry.read, reusable.entry.authorization, now))
  BY <1>1 DEF Dispatch
<1>3. CASE DispatchFresh
  <2>1. work'.evidence \in {work.evidence, <<>>}
    BY <1>3, WorkHas, NoWorkIs DEF DispatchFresh, Resume, WorkFields
  <2> QED
    BY <2>1 DEF AcquiresCurrentContent
<1>4. CASE /\ reusable.entry # NoEntry
           /\ Acquires(Item(reusable.entry.read, reusable.entry.authorization, now))
  <2>1. PICK item : item = Item(reusable.entry.read, reusable.entry.authorization, now)
    OBVIOUS
  <2>2. item.read = reusable.entry.read
    BY <2>1 DEF Item
  <2>3. CacheStands(cache)
    BY DEF IInv
  <2>4. /\ EntryStands(reusable.entry)
        /\ reusable.entry.capability = CacheCapability(work.request.kind)
        /\ reusable.entry.identity =
             Identity(CacheCapability(work.request.kind), work.request.target,
                      context.experience.session, world)
        /\ HasIdentity(CacheCapability(work.request.kind), work.request.target, world)
    BY <1>1, <1>4, <2>3, ReusableStands
  <2>5. ASSUME item.read.kind # "WORKSPACE_FILES"
        PROVE  item.read.content \in seen[item.read.target]
    <3>1. /\ reusable.entry.read.kind = "READ_FILE"
          /\ reusable.entry.capability = "FILESYSTEM_READ"
          /\ reusable.entry.identity = <<item.read.target, item.read.content>>
      BY <2>2, <2>4, <2>5 DEF EntryStands, CacheCapability
    <3>2. /\ reusable.entry.identity = <<work.request.target, world[work.request.target]>>
          /\ work.request.target \in Target
      BY <2>4, <3>1 DEF Identity, HasIdentity, IInv, WorldInv
    <3>3. item.read.target = work.request.target /\ item.read.content = world[work.request.target]
      BY <3>1, <3>2
    <3> QED
      BY <3>2, <3>3 DEF IInv, WorldInv
  <2> QED
    BY <1>4, <2>1, <2>5, OneAcquired
<1> QED
  BY <1>2, <1>3, <1>4

LEMMA RememberIsCurrent == IInv /\ Remember => AcquiresCurrentContent
<1> SUFFICES ASSUME IInv, Remember PROVE AcquiresCurrentContent
  OBVIOUS
<1>1. PICK item : item = Item(work.read, context.authorization, work.read.observedAt)
  OBVIOUS
<1>2. phase = "remember" /\ Acquires(item) /\ item.read = work.read
  BY <1>1 DEF Remember, Item
<1>3. item.read.kind # "WORKSPACE_FILES" => item.read.content \in seen[item.read.target]
  BY <1>2 DEF IInv, ReadInv
<1> QED
  BY <1>2, <1>3, OneAcquired

\* The parts of the session agree in every reachable state: the provider with the last
\* selection, the memory and the handler with the provider, the evidence with the context,
\* the cache with what was read (createInteractiveSession).
THEOREM SessionInductive == Spec => []IInv
BY InitIInv, NextKeepsIInv, PTL DEF Spec

\* Every answer the session waits for, acts on, recalls or tells the next provider of came
\* from the provider the human has selected, however selections, resets, closes and analyses
\* follow one another (selectLocalModel, disableCognitiveProvider, resetConversation).
THEOREM AnswersFollowSelection == Spec => []AnswersComeFromTheSelectedProvider
<1>1. IInv => AnswersComeFromTheSelectedProvider
  BY DEF IInv
<1> QED
  BY <1>1, SessionInductive, PTL

\* No evidence counts under another authorization than its own, or after its grant, whatever
\* the cache kept and however the context was renewed (pruneNaturalEvidenceCache).
THEOREM EvidenceIsAuthorized == Spec => []EvidenceStaysUnderItsAuthorization
<1>1. IInv => EvidenceStaysUnderItsAuthorization
  BY DEF IInv
<1> QED
  BY <1>1, SessionInductive, PTL

\* What an analysis acquires of a file is what the file held at some instant since it was
\* asked for, also when it comes from the cache (reusableNaturalEvidenceEntry).
THEOREM AcquiredIsCurrent == Spec => EvidenceIsCurrent
<1>1. ASSUME IInv, [Next]_vars PROVE [AcquiresCurrentContent]_vars
  <2>1. CASE ReadFile \/ Dispatch \/ Remember
    BY <1>1, <2>1, ReadFileIsCurrent, DispatchIsCurrent, RememberIsCurrent
  <2>2. CASE ~ReadFile /\ ~Dispatch /\ ~Remember
    <3>1. work'.evidence = work.evidence \/ work'.evidence = <<>>
      BY <1>1, <2>2, NothingAcquired
    <3> QED
      BY <3>1 DEF AcquiresCurrentContent
  <2> QED
    BY <2>1, <2>2
<1>2. Spec => [][Next]_vars
  BY PTL DEF Spec
<1> QED
  BY <1>1, <1>2, SessionInductive, PTL DEF EvidenceIsCurrent
=============================================================================
