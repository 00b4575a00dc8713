-------------------------- MODULE InteractiveSession --------------------------
(***************************************************************************)
(* The natural session a human types into (cli/surgical.js): governed      *)
(* tasks that wait for a yes, the analyses that acquire evidence step by   *)
(* step and let a provider decide, and the commands that select the        *)
(* provider.                                                               *)
(*                                                                         *)
(* Lines are handled one after the other.  While a handler runs the clock  *)
(* goes on and other programs write into the workspace: every observation  *)
(* of the clock or of the workspace is a step of its own.  The end of the  *)
(* input closes the session; the handler of the line then in work and      *)
(* those of the lines already read still run.  A close reaches a handler   *)
(* where it awaits; what it changes is not used between two awaits, so it  *)
(* may as well come at any step.  At a terminal a line typed while another *)
(* is handled is dropped; other input waits in the queue.                  *)
(***************************************************************************)
EXTENDS WorkspaceEvidence

CONSTANTS
  Grounding,        \* objective -> the lists of files its analysis is grounded on
  Openings,         \* how a session is opened, with Codex or not, and the lines typed in it
  InitialWorld,     \* what the targets hold when the session starts
  MaxContent,       \* contents 1 .. MaxContent of a target
  MaxLines,         \* lines typed
  MaxQueue,         \* lines read and not yet handled
  MaxDisturbances   \* ticks of the clock and writes of other programs

\* The lines the session tells apart.
LineKinds == {"yes", "no", "cancel", "other", "ask", "status", "external", "disable", "reset",
              "exit"}
Line(kind) == [kind |-> kind, task |-> NoTask, model |-> NoModel]
TaskLine(task) == [kind |-> "task", task |-> task, model |-> NoModel]
LocalLine(model) == [kind |-> "local", task |-> NoTask, model |-> model]
Lines == {Line(kind) : kind \in LineKinds} \union {TaskLine(task) : task \in Tasks}
           \union {LocalLine(model) : model \in LocalModel}

ASSUME SessionAssumption ==
  /\ \A opening \in Openings : opening.codex \in BOOLEAN /\ opening.lines \subseteq Lines
  /\ Grounding \in [Objective -> Seq(Seq(Target))]
  /\ InitialWorld \in [Target -> 0 .. MaxContent]
  /\ {MaxContent, MaxLines, MaxQueue, MaxDisturbances} \subseteq Nat

VARIABLES
  now, world, disturbances,  \* the clock and the workspace
  habit, typed, queue, open, \* the lines of the human
  pending,                   \* the task that waits for a decision, or NoTask
  provider, memory,          \* the cognitive session
  context, cache,            \* the workspace context and the evidence cache
  phase, work,               \* where the handler of a line stands, and what it holds
  approved,                  \* tasks the human said yes to
  choice,                    \* the provider the human last selected
  seen                       \* target -> what it held since the line, or the microread, in
                             \* work was taken on

vars == <<now, world, disturbances, habit, typed, queue, open, pending, provider, memory,
          context, cache, phase, work, approved, choice, seen>>
worldVars == <<now, world, disturbances, seen>>
humanVars == <<habit, typed, open>>
providerVars == <<provider, memory, choice>>
evidenceVars == <<context, cache>>

\* What the handler of a governed task or of a question holds.
NoWork ==
  [task |-> NoTask, repeated |-> FALSE, at |-> 0, session |-> Session([t \in Target |-> 0], 0),
   evidence |-> <<>>, cached |-> FALSE, request |-> NoRequest, reuse |-> FALSE,
   read |-> NoRead, with |-> NoProvider, by |-> NoProvider, heard |-> {}]

Phases == {"idle", "context", "open", "list", "read", "describe", "plan", "await", "qualify",
           "dispatch", "remember", "question", "answer"}

Item(read, authorization, used) == [read |-> read, authorization |-> authorization, used |-> used]

Init ==
  /\ now = 0 /\ world = InitialWorld /\ disturbances = 0
  /\ \E opening \in Openings : /\ habit = opening.lines
                               /\ provider = NewProvider(opening.codex)
                               /\ choice = IF opening.codex THEN "codex" ELSE "auto"
  /\ typed = 0 /\ queue = <<>> /\ open = TRUE
  /\ pending = NoTask
  /\ memory = EmptyMemory
  /\ context = NoContext /\ cache = <<>>
  /\ phase = "idle" /\ work = NoWork
  /\ approved = {}
  /\ seen = [t \in Target |-> {InitialWorld[t]}]

(***************************************************************************)
(* The world                                                               *)
(***************************************************************************)

\* One more line of the human, or of a pipe, comes up.  Nothing looks at a line before it is
\* taken, so it may come up when the handler of the last one is done; one that was read before
\* the input ended comes up after the end.
Type ==
  /\ phase = "idle" /\ typed < MaxLines /\ Len(queue) < MaxQueue
  /\ \E line \in habit : queue' = Append(queue, line)
  /\ typed' = typed + 1
  /\ UNCHANGED <<worldVars, habit, open, pending, providerVars, evidenceVars, phase, work,
                 approved>>

\* Time passes, up to the whole validity of an authorization at once.
Tick ==
  /\ disturbances < MaxDisturbances
  /\ \E elapsed \in 1 .. Validity : now' = now + elapsed
  /\ disturbances' = disturbances + 1
  /\ UNCHANGED <<world, seen, humanVars, queue, pending, providerVars, evidenceVars, phase, work,
                 approved>>

\* An editor, a checkout or a build writes or removes a file.
Edit ==
  /\ disturbances < MaxDisturbances
  /\ \E t \in Target : \E c \in 0 .. MaxContent \ {world[t]} :
       /\ world' = [world EXCEPT ![t] = c]
       /\ seen' = [seen EXCEPT ![t] = IF phase = "idle" THEN {c} ELSE @ \union {c}]
  /\ disturbances' = disturbances + 1
  /\ UNCHANGED <<now, humanVars, queue, pending, providerVars, evidenceVars, phase, work, approved>>

\* What the listener of the close of the interface does.
Closes ==
  /\ open' = FALSE
  /\ pending' = NoTask
  /\ provider' = ProviderClosed(provider)
  /\ memory' = EmptyMemory

\* The input ends, whatever is in work.
Close ==
  /\ open
  /\ Closes
  /\ UNCHANGED <<worldVars, habit, typed, queue, choice, evidenceVars, phase, work, approved>>

(***************************************************************************)
(* A line is taken                                                         *)
(***************************************************************************)

Takes(kind) == phase = "idle" /\ queue # <<>> /\ Head(queue).kind = kind /\ queue' = Tail(queue)

\* Mutant: a handler of a closed session never gives the turn back.
ResumeOpen ==
  /\ open
  /\ phase' = "idle"
  /\ work' = NoWork
  /\ seen' = [t \in Target |-> {world[t]}]

\* The handler is done: the next line may be handled.
Resume ==
  /\ phase' = "idle"
  /\ work' = NoWork
  /\ seen' = [t \in Target |-> {world[t]}]
Stays == UNCHANGED <<phase, work, seen>>
Goes(next) == phase' = next /\ UNCHANGED seen

Begins(task, repeated) ==
  /\ Goes("context")
  /\ work' = [NoWork EXCEPT !.task = task, !.repeated = repeated]

\* A governed task is proposed and waits for a yes, unless the same task is authorized now:
\* then it runs again.  While a task waits, another one only reminds of it.
ProposeTask ==
  /\ Takes("task")
  /\ LET task == Head(queue).task
         waiting == IF pending = NoTask THEN task ELSE pending
         provenance == Provenance(task, context.authorization, context.experience.session, now)
     IN  IF MayReuseAuthorization(context, task, now, world) /\ AcceptsReuse(waiting, provenance)
         THEN pending' = NoTask /\ Begins(waiting, TRUE)
         ELSE pending' = waiting /\ Stays
  /\ UNCHANGED <<now, world, disturbances, humanVars, providerVars, evidenceVars, approved>>

\* A yes runs the task that waits; without one there is nothing to authorize.
Yes ==
  /\ Takes("yes")
  /\ pending' = NoTask
  /\ IF pending = NoTask THEN Stays /\ UNCHANGED approved
     ELSE Begins(pending, FALSE) /\ approved' = approved \union {pending}
  /\ UNCHANGED <<now, world, disturbances, humanVars, providerVars, evidenceVars>>

\* A no, and the cancellation of the mission, drop the task that waits.
Refuse ==
  /\ Takes("no") \/ Takes("cancel")
  /\ pending' = NoTask
  /\ Stays
  /\ UNCHANGED <<now, world, disturbances, humanVars, providerVars, evidenceVars, approved>>

\* Help, a mode, a command that reads: nothing of the session changes.  While a task waits
\* that is so for every line but those above and the exit.
Inert == {"other"} \union (IF pending = NoTask THEN {} ELSE
                           {"ask", "status", "local", "external", "disable", "reset"})
Remind ==
  /\ \E kind \in Inert : Takes(kind)
  /\ Stays
  /\ UNCHANGED <<now, world, disturbances, humanVars, pending, providerVars, evidenceVars,
                 approved>>

\* A line that nothing else understands is a question for the provider.
Question ==
  /\ pending = NoTask /\ Takes("ask")
  /\ Goes("describe")
  /\ work' = NoWork
  /\ UNCHANGED <<now, world, disturbances, humanVars, pending, providerVars, evidenceVars,
                 approved>>

\* The status of the provider and the list of the providers initialize the session.
Status ==
  /\ pending = NoTask /\ Takes("status")
  /\ IF provider.closed THEN UNCHANGED provider
     ELSE \E installed \in Inventories({DefaultModel, provider.model}) :
            provider' \in States(provider, installed)
  /\ Stays
  /\ UNCHANGED <<now, world, disturbances, humanVars, pending, memory, choice, evidenceVars,
                 approved>>

\* Mutant: what the last provider answered is kept for the next one.
SelectLocalRemembers ==
  /\ pending = NoTask /\ Takes("local")
  /\ LET model == Head(queue).model
     IN  \E installed \in Inventories({model}) :
           IF CanSelectLocal(model, installed)
           THEN provider' = LocalSelected(provider, model) /\ choice' = model /\ UNCHANGED memory
           ELSE UNCHANGED providerVars
  /\ Stays
  /\ UNCHANGED <<now, world, disturbances, humanVars, pending, evidenceVars, approved>>

\* "use qwen3:8b": the model is looked for, and selected when it is there.
SelectLocal ==
  /\ pending = NoTask /\ Takes("local")
  /\ LET model == Head(queue).model
     IN  \E installed \in Inventories({model}) :
           IF CanSelectLocal(model, installed)
           THEN /\ provider' = LocalSelected(provider, model)
                /\ memory' = EmptyMemory
                /\ choice' = model
           ELSE UNCHANGED providerVars
  /\ Stays
  /\ UNCHANGED <<now, world, disturbances, humanVars, pending, evidenceVars, approved>>

SelectExternal ==
  /\ pending = NoTask /\ Takes("external")
  /\ provider' = ExternalSelected(provider)
  /\ memory' = EmptyMemory
  /\ choice' = "external"
  /\ Stays
  /\ UNCHANGED <<now, world, disturbances, humanVars, pending, evidenceVars, approved>>

Disable ==
  /\ pending = NoTask /\ Takes("disable")
  /\ provider' = ProviderDisabled(provider)
  /\ memory' = EmptyMemory
  /\ choice' = "disabled"
  /\ Stays
  /\ UNCHANGED <<now, world, disturbances, humanVars, pending, evidenceVars, approved>>

Reset ==
  /\ pending = NoTask /\ Takes("reset")
  /\ provider' = ConversationReset(provider)
  /\ memory' = EmptyMemory
  /\ Stays
  /\ UNCHANGED <<now, world, disturbances, humanVars, pending, choice, evidenceVars, approved>>

Exit ==
  /\ Takes("exit")
  /\ IF open THEN Closes ELSE UNCHANGED <<open, pending, provider, memory>>
  /\ Stays
  /\ UNCHANGED <<now, world, disturbances, habit, typed, choice, evidenceVars, approved>>

(***************************************************************************)
(* The context of the workspace                                            *)
(***************************************************************************)

handlerFrame == <<now, world, disturbances, humanVars, queue, pending, approved, choice>>

\* Where the handler of a task goes once its context is there.
Proceeds(task) ==
  CASE task.kind = "PROJECT_ANALYSIS" -> Goes("describe") /\ UNCHANGED work
    [] task.kind = "WORKSPACE_LIST" -> Resume
    [] OTHER -> Goes("read") /\ UNCHANGED work

Adopts(experience, at) ==
  IF HasEnvelope(work.task)
  THEN context' = Context(work.task, experience, at) /\ Proceeds(work.task)
  ELSE Resume /\ UNCHANGED context

\* The context is taken as it is, or with an authorization of its own, or it is opened anew
\* on a session that is bound to the workspace now.
Contextualize ==
  /\ phase = "context"
  /\ IF ContextStands(context, work.task, now, world)
     THEN Proceeds(work.task) /\ UNCHANGED context
     ELSE IF ExperienceStands(context, world) THEN Adopts(context.experience, now)
     ELSE /\ Goes("open")
          /\ work' = [work EXCEPT !.at = now, !.session = Session(world, now)]
          /\ UNCHANGED context
  /\ UNCHANGED <<handlerFrame, provider, memory, cache>>

\* The new session is observed once more before the inventory is read.
Revalidate ==
  /\ phase = "open"
  /\ IF Revalidates(work.session, world) THEN Goes("list") /\ UNCHANGED work ELSE Resume
  /\ UNCHANGED <<handlerFrame, provider, memory, evidenceVars>>

OpenExperience ==
  /\ phase = "list"
  /\ Adopts(Experience(work.session, Inventory(world)), work.at)
  /\ UNCHANGED <<handlerFrame, provider, memory, cache>>

(***************************************************************************)
(* One file                                                                *)
(***************************************************************************)

\* The file is read; only a file of the inventory is given to the provider.
ReadFile ==
  /\ phase = "read"
  /\ LET request == Request("READ_FILE", work.task.target)
     IN  IF /\ Readable(request, world)
            /\ work.task.kind = "READ_AND_EXPLAIN_FILE"
            /\ Admitted(context, request.target)
         THEN /\ Goes("describe")
              /\ work' = [work EXCEPT !.evidence =
                   <<Item(GovernedRead(request, world, now), context.authorization, now)>>]
         ELSE Resume
  /\ UNCHANGED <<handlerFrame, provider, memory, evidenceVars>>

(***************************************************************************)
(* The provider describes itself and answers a question                    *)
(***************************************************************************)

\* describe() awaits the state of the session, which may have to discover the provider.  A
\* closed session throws.
Describe ==
  /\ phase = "describe"
  /\ \/ provider.closed /\ Resume /\ UNCHANGED provider
     \/ /\ ~provider.closed
        /\ \E installed \in Inventories({DefaultModel, provider.model}) :
             provider' \in States(provider, installed)
        /\ IF work.task.kind = "PROJECT_ANALYSIS"
           THEN Goes("plan") /\ work' = [work EXCEPT !.cached = DOMAIN cache # {}]
           ELSE Goes("question") /\ UNCHANGED work
  /\ UNCHANGED <<handlerFrame, memory, evidenceVars>>

\* ask(): the composition of the session is called with the turns it remembers.  A session
\* reset or closed since initializes itself again, or throws.
AskProvider ==
  /\ phase = "question"
  /\ IF provider.closed \/ provider.composition = NoProvider THEN Resume
     ELSE /\ Goes("answer")
          /\ work' = [work EXCEPT !.with = provider.composition, !.heard = memory.turns]
  /\ UNCHANGED <<handlerFrame, provider, memory, evidenceVars>>

Answer ==
  /\ phase = "answer"
  /\ \E result \in Results(work.with, "EXPLAIN", work.task.objective, work.evidence, {"text"}) :
       memory' = IF result.status = "COMPLETED" THEN ExchangeRemembered(memory, work.with)
                 ELSE memory
  /\ Resume
  /\ UNCHANGED <<handlerFrame, provider, evidenceVars>>

(***************************************************************************)
(* The evidence loop of an analysis                                        *)
(***************************************************************************)

\* The evidence as the loop describes it, in the order it came.
Evidence == [i \in DOMAIN work.evidence |-> work.evidence[i].read]
Acquired(kind) == {i \in DOMAIN Evidence : Evidence[i].kind = kind}
HasRead(target) == \E i \in Acquired("READ_FILE") : Evidence[i].target = target

\* deterministicProjectGroundingDecision(): the inventory first, then the first file of every
\* list that the inventory shows and that was not read, in the order of the lists.
GroundingRequest ==
  IF Evidence = <<>> THEN InventoryRequest
  ELSE IF Acquired("WORKSPACE_FILES") = {} THEN NoRequest
  ELSE LET files == Evidence[Oldest(Acquired("WORKSPACE_FILES"))].content
           lists == Grounding[work.task.objective]
           shown(list) == {i \in DOMAIN list : list[i] \in files}
           first(list) == list[Oldest(shown(list))]
           wanted(list) == shown(list) # {} /\ ~HasRead(first(list))
           unread == {i \in DOMAIN lists : wanted(lists[i])}
       IN  IF unread = {} THEN NoRequest
           ELSE Request("READ_FILE", first(lists[Oldest(unread)]))

\* The key of the decision cache for what the loop holds.
Key == DecisionKey(work.task.objective, Evidence)

\* A response ends the analysis: it is remembered when a file was read, the message that
\* there is no provider included.
Responds(by) ==
  /\ Resume
  /\ memory' = IF Acquired("READ_FILE") # {} THEN ExchangeRemembered(memory, by) ELSE memory

Asks(request, by) ==
  /\ phase' = "qualify"
  /\ seen' = [t \in Target |-> {world[t]}]
  /\ work' = [work EXCEPT !.request = request, !.by = by, !.with = NoProvider]

\* A step of the loop: the request of the grounding, or the decision of the session, which
\* recalls the one it took for the same key, or calls its composition.
Plan ==
  /\ phase = "plan"
  /\ IF Len(work.evidence) >= Envelope(work.task).steps THEN Resume /\ UNCHANGED memory
     ELSE IF GroundingRequest # NoRequest
     THEN Asks(GroundingRequest, NoProvider) /\ UNCHANGED memory
     ELSE IF provider.closed THEN Resume /\ UNCHANGED memory
     ELSE IF provider.composition = NoProvider THEN Responds(NoProvider)
     ELSE \/ /\ Recalled(memory, Key) = {}
             /\ Goes("await")
             /\ work' = [work EXCEPT !.with = provider.composition]
             /\ UNCHANGED memory
          \/ \E d \in Recalled(memory, Key) :
               IF d.decision = Respond THEN Responds(d.by)
               ELSE Asks(d.decision.request, d.by) /\ UNCHANGED memory
  /\ UNCHANGED <<handlerFrame, provider, evidenceVars>>

\* The composition answers, or fails.  What it decided is remembered, by the key of what the
\* loop holds; a session that was closed meanwhile remembers it, too.
Decide ==
  /\ phase = "await"
  /\ \E d \in ParsedDecisions(work.with, work.task.objective, BoundedHistory(Evidence),
                              Decisions) :
       LET remembering == DecisionRemembered(memory, Key, d, work.with)
       IN  CASE d = NoDecision -> Resume /\ UNCHANGED memory
             [] d = Respond ->
                  /\ Resume
                  /\ memory' = IF Acquired("READ_FILE") = {} THEN remembering
                               ELSE ExchangeRemembered(remembering, work.with)
             [] OTHER -> Asks(d.request, work.with) /\ memory' = remembering
  /\ UNCHANGED <<handlerFrame, provider, evidenceVars>>

Repeated(request) ==
  \E i \in DOMAIN Evidence : Request(Evidence[i].kind, Evidence[i].target) = request

\* A request is taken on when it is inside the envelope of the task and inside the
\* authorization of the context; then the cache is searched for it.  One that was made before
\* stops the analysis, unless the provider gives it another reason.
Qualify ==
  /\ phase = "qualify"
  /\ LET step == Len(work.evidence)
         request == work.request
         contained == /\ Contained(Envelope(work.task), request, step)
                      /\ MicroreadContained(context, request, step, now)
         reusable == Reusable(cache, context, CacheCapability(request.kind), request.target,
                              now, world)
     IN  \/ /\ contained
            /\ Goes("dispatch")
            /\ cache' = reusable.cache
            /\ work' = [work EXCEPT !.reuse = reusable.entry # NoEntry]
         \/ /\ Repeated(request) \/ ~contained
            /\ Resume
            /\ UNCHANGED cache
  /\ UNCHANGED <<handlerFrame, provider, memory, context>>

Acquires(item) ==
  /\ Goes("plan")
  /\ work' = [work EXCEPT !.evidence = Append(@, item), !.request = NoRequest,
                          !.reuse = FALSE, !.read = NoRead, !.by = NoProvider]

\* A governed read under a grant of its own; what is not there is denied.
DispatchFresh ==
  IF Readable(work.request, world)
  THEN /\ Goes("remember")
       /\ work' = [work EXCEPT !.read = GovernedRead(work.request, world, now)]
  ELSE Resume

\* Evidence that was found reusable is searched for again, when the cache held anything at
\* the start of the analysis.
Dispatch ==
  /\ phase = "dispatch"
  /\ LET request == work.request
         reusable == Reusable(cache, context, CacheCapability(request.kind), request.target,
                              now, world)
     IN  IF work.cached /\ work.reuse /\ request.kind # "VALIDATE_JS"
         THEN /\ cache' = reusable.cache
              /\ IF reusable.entry = NoEntry THEN DispatchFresh
                 ELSE Acquires(Item(reusable.entry.read, reusable.entry.authorization, now))
         ELSE DispatchFresh /\ UNCHANGED cache
  /\ UNCHANGED <<handlerFrame, provider, memory, context>>

\* Fresh evidence is kept for reuse, if the workspace still is what the session is bound to.
Remember ==
  /\ phase = "remember"
  /\ cache' = IF Cacheable(context, work.read, world)
              THEN Cached(cache, CacheEntry(context, work.read, world)) ELSE cache
  /\ Acquires(Item(work.read, context.authorization, work.read.observedAt))
  /\ UNCHANGED <<handlerFrame, provider, memory, context>>

(***************************************************************************)
(* Specification                                                           *)
(***************************************************************************)

LineTaken ==
  \/ ProposeTask \/ Yes \/ Refuse \/ Remind \/ Question \/ Status \/ SelectLocal \/ SelectExternal
  \/ Disable \/ Reset \/ Exit

Handler ==
  \/ Contextualize \/ Revalidate \/ OpenExperience \/ ReadFile \/ Describe \/ AskProvider
  \/ Answer \/ Plan \/ Decide \/ Qualify \/ Dispatch \/ Remember

Next == Type \/ Tick \/ Edit \/ Close \/ LineTaken \/ Handler

\* A handler that can go on does: the only things it waits for are an answer of a provider
\* and a discovery, and both have a timeout.
Spec == Init /\ [][Next]_vars /\ WF_vars(LineTaken \/ Handler)

(***************************************************************************)
(* Properties                                                              *)
(***************************************************************************)

\* A governed task runs only after the human said yes to that very task in this session,
\* whatever tasks were proposed, refused, repeated or left waiting in between
\* (handleNaturalSessionInput and createAuthorizedNaturalTaskReuse).
OnlyApprovedTasksRun == work.task # NoTask => work.task \in approved

\* What an analysis acquires of a file is what the file held at some instant since it was
\* asked for, however old the cache it comes from (reusableNaturalEvidenceEntry observes the
\* file again).
AcquiresCurrentContent ==
  \A i \in DOMAIN work'.evidence \ DOMAIN work.evidence :
    LET read == work'.evidence[i].read
    IN  read.kind # "WORKSPACE_FILES" => read.content \in seen[read.target]
EvidenceIsCurrent == [][AcquiresCurrentContent]_vars

\* Evidence counts under the authorization it was read under only, and as long as the grant
\* of the read was valid when it was used (pruneNaturalEvidenceCache).
EvidenceStaysUnderItsAuthorization ==
  \A i \in DOMAIN work.evidence :
    LET item == work.evidence[i]
    IN  /\ item.authorization = context.authorization
        /\ item.used < item.read.observedAt + GrantLife

\* The providers that may have answered under a selection.  A session opened with Codex knows
\* one external preference, whichever external provider the human names.
Permitted(selection) ==
  CASE selection = "auto" -> {DefaultModel}
    [] selection \in LocalModel \union {"codex"} -> {selection}
    [] selection = "external" /\ provider.codex -> {"codex"}
    [] OTHER -> {}

\* Every answer the session waits for, acts on, recalls or tells the next provider of came
\* from the provider the human has selected (selectLocalModel, disableCognitiveProvider and
\* resetConversation of the cognitive session).
AnswersComeFromTheSelectedProvider ==
  {work.with, work.by} \union work.heard \union memory.turns
    \union {d.by : d \in memory.decisions}
  \subseteq Permitted(choice) \union {NoProvider}

\* A task that runs again runs under the authorization it was given, never a new one
\* (createAuthorizedNaturalTaskReuse).
RepetitionNeverRenews ==
  [][work.repeated => context'.authorization = context.authorization]_vars

\* Every line is handled to its end and the session takes the next one.
SessionReturns == []<>(phase = "idle" /\ queue = <<>>)
=============================================================================
