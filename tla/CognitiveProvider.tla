------------------------- MODULE CognitiveProvider -------------------------
(***************************************************************************)
(* The cognitive provider of one natural session: which one the human      *)
(* selected, which composition answers, and what the session remembers of  *)
(* its answers (cli/natural-cognitive-session.js, with the discovery, the  *)
(* governed AI runtime and the conversational runtime under it).           *)
(*                                                                         *)
(* A provider is one of the qualified local models, "codex" or "openai".   *)
(* An operator that may have to discover a local model is given the models *)
(* the discovery finds installed: the empty set when the service does not  *)
(* answer, answers too late or with an inventory that cannot be verified.  *)
(***************************************************************************)
EXTENDS TaskAuthority

CONSTANTS
  LocalModel,    \* the qualified local models
  DefaultModel,  \* the one an automatic selection looks for
  Beyond         \* files whose names the bounded evidence history cuts off

NoProvider == "no provider"
NoModel == "no model"

\* A model has a name of its own: it is none of the words for the other selections.
ASSUME ProviderAssumption ==
  /\ DefaultModel \in LocalModel
  /\ Beyond \subseteq Target
  /\ LocalModel \cap {"codex", "openai", "auto", "external", "disabled",
                      NoProvider, NoModel} = {}

Providers == LocalModel \union {"codex", "openai"}
Preferences == {"AUTO_LOCAL", "EXPLICIT_LOCAL", "EXPLICIT_EXTERNAL", "DISABLED"}
Capabilities == {"EXPLAIN", "PLAN", "PROPOSE"}

(***************************************************************************)
(* Selection                                                               *)
(***************************************************************************)

\* A session: its preference and model, the composition its state promise holds, if there is
\* a promise, and whether it was closed.  "codex" says that it was started with Codex.
NewProvider(codex) ==
  [preference |-> IF codex THEN "EXPLICIT_EXTERNAL" ELSE "AUTO_LOCAL",
   model |-> NoModel, initialized |-> FALSE, composition |-> NoProvider,
   codex |-> codex, closed |-> FALSE]

\* What the loopback service may be found to list of some models: a body that is too long,
\* cut off or no inventory counts as no answer.
Inventories(models) == SUBSET models

\* discoverNaturalDefaultProvider() for one model: only a qualified model that the loopback
\* service lists is available.
Discovered(model, installed) ==
  IF model \in LocalModel /\ model \in installed THEN model ELSE NoProvider

\* An automatic selection takes the catalogued local model and nothing else.
QualifiesAutomatically(found, preference) ==
  preference = "AUTO_LOCAL" /\ found \in LocalModel

\* createNaturalCodexComposition() and the qualification of its containment: Codex answers, or
\* it is blocked, unavailable or not configured.
CodexCompositions(p) == {NoProvider} \union (IF p.codex THEN {"codex"} ELSE {})

\* initialize(): the compositions a session without a promise may come to.
Compositions(p, installed) ==
  CASE p.preference = "DISABLED" -> {NoProvider}
    [] p.preference = "EXPLICIT_EXTERNAL" -> CodexCompositions(p)
    [] OTHER ->
         LET found == Discovered(IF p.model = NoModel THEN DefaultModel ELSE p.model, installed)
         IN  {IF p.preference = "EXPLICIT_LOCAL" \/ QualifiesAutomatically(found, p.preference)
              THEN found ELSE NoProvider}

Initialized(p, composition) == [p EXCEPT !.initialized = TRUE, !.composition = composition]

\* state(): what the session is after it, once it is not closed.
States(p, installed) ==
  IF p.initialized THEN {p} ELSE {Initialized(p, c) : c \in Compositions(p, installed)}

\* selectLocalModel(): a model that is not available leaves everything as it was.
CanSelectLocal(model, installed) == Discovered(model, installed) # NoProvider
LocalSelected(p, model) ==
  [p EXCEPT !.preference = "EXPLICIT_LOCAL", !.model = model, !.initialized = TRUE,
            !.composition = model]

\* selectExternalProvider(): the preference is recorded, no provider is activated.
ExternalSelected(p) ==
  [p EXCEPT !.preference = "EXPLICIT_EXTERNAL", !.initialized = TRUE, !.composition = NoProvider]

\* disableCognitiveProvider()
ProviderDisabled(p) ==
  [p EXCEPT !.preference = "DISABLED", !.initialized = TRUE, !.composition = NoProvider]

\* resetConversation(): the next use initializes the session again.
ConversationReset(p) == [p EXCEPT !.initialized = FALSE, !.composition = NoProvider]

\* close()
ProviderClosed(p) == [ConversationReset(p) EXCEPT !.closed = TRUE]

(***************************************************************************)
(* One invocation of the governed runtime                                  *)
(***************************************************************************)

CognitiveRequest(provider, capability, objective, evidence) ==
  [provider |-> provider, capability |-> capability, objective |-> objective,
   evidence |-> evidence]

\* The providers a composition has a port and a seam for: its own.
Ports(composition) == {composition}

\* The selector selects, and the port of the provider allows the cognitive capabilities only.
Selects(composition, provider) == provider \in Ports(composition)
PortAllows(composition, request) ==
  request.provider \in Ports(composition) /\ request.capability \in Capabilities

\* What a seam hands back for a request: the answer of its provider, or the failure of the
\* invocation, a timeout included.
FailedResult(request) == [request |-> request, status |-> "FAILED", output |-> "none"]
SeamResults(request, outputs) ==
  {[request |-> request, status |-> "COMPLETED", output |-> o] : o \in outputs}
  \union {FailedResult(request)}

\* validateAICognitiveResult(): the result is bound to exactly this request, and a failure
\* carries no output.
ValidResult(result, request) ==
  /\ result.request = request
  /\ result.status \in {"COMPLETED", "FAILED"}
  /\ result.status = "FAILED" => result.output = "none"

\* invokeNaturalCognitive(): the results a composition may answer a request with.  A denied
\* selection or capability is an exception, like a failed invocation to the caller.
Results(composition, capability, objective, evidence, outputs) ==
  LET request == CognitiveRequest(composition, capability, objective, evidence)
  IN  IF Selects(composition, request.provider) /\ PortAllows(composition, request)
      THEN {result \in SeamResults(request, outputs) : ValidResult(result, request)}
      ELSE {FailedResult(request)}

(***************************************************************************)
(* Decisions about evidence                                                *)
(***************************************************************************)

\* The outputs parseNaturalEvidenceDecision() accepts: a response or one request.
Respond == [decision |-> "RESPOND", request |-> NoRequest]
Ask(request) == [decision |-> "REQUEST_EVIDENCE", request |-> request]
Decisions == {Respond} \union {Ask(request) : request \in Requests}
NoDecision == [decision |-> "NONE", request |-> NoRequest]

\* The decisions parsed from the results of a completed invocation.  NoDecision stands for
\* every exception: a failed invocation or an output that is no decision.
ParsedDecisions(composition, objective, evidence, outputs) ==
  {IF result.status = "COMPLETED" THEN result.output ELSE NoDecision :
     result \in Results(composition, "PLAN", objective, evidence, outputs \union {NoDecision})}

\* formatEvidenceForCognition() and the bound on the history: an inventory is cut, a read
\* shows the digest of what it read, a validation its verdict.
Shown(item) ==
  [kind |-> item.kind, target |-> item.target,
   content |-> IF item.kind = "WORKSPACE_FILES" THEN item.content \ Beyond ELSE item.content]
BoundedHistory(evidence) == [i \in DOMAIN evidence |-> Shown(evidence[i])]

\* decisionKey(): the decision cache knows objectives and bounded histories, no provider.
DecisionKey(objective, evidence) == <<objective, BoundedHistory(evidence)>>

(***************************************************************************)
(* The memory of the conversation                                          *)
(***************************************************************************)

\* Decisions by their key, with the provider that took each; and the providers whose
\* exchanges are among the turns that a later question is asked with.
EmptyMemory == [decisions |-> {}, turns |-> {}]
Recalled(memory, key) == {d \in memory.decisions : d.key = key}

DecisionRemembered(memory, key, decision, provider) ==
  [memory EXCEPT !.decisions =
     {d \in @ : d.key # key} \union {[key |-> key, decision |-> decision, by |-> provider]}]

ExchangeRemembered(memory, provider) ==
  [memory EXCEPT !.turns = @ \union {provider}]
=============================================================================
