-------------------------- MODULE WorkspaceEvidence --------------------------
(***************************************************************************)
(* The governed context of a natural workspace and the evidence that may   *)
(* be reused in it (cli/surgical.js): a session bound to the physical      *)
(* state of the repository, the inventory that admits files, the           *)
(* authorization of the task, and the cache of governed reads.             *)
(*                                                                         *)
(* The world is what every target holds, 0 when it is absent.  The         *)
(* identity of the repository and the fingerprint of its worktree are both *)
(* functions of the world, and so is what a session is bound to.           *)
(***************************************************************************)
EXTENDS CognitiveProvider, FiniteSetsExt

CONSTANTS
  GrantLife,  \* of a governed read: 60 seconds in the code
  MaxCache    \* entries of the evidence cache: 32 in the code

ASSUME EvidenceAssumption ==
  /\ GrantLife \in Nat \ {0}
  /\ MaxCache \in Nat \ {0}

(***************************************************************************)
(* Sessions and contexts                                                   *)
(***************************************************************************)

\* createDeterministicWorkspaceSession() and revalidateDeterministicWorkspaceSession()
Session(world, at) == [binding |-> world, authorizedAt |-> at]
Revalidates(session, world) == session.binding = world

\* The governed inventory: the selector WORKSPACE_FILES of the repository.
Inventory(world) == {t \in DOMAIN world : world[t] # 0}

\* openNaturalGovernedWorkspaceExperience(), with the inventory it was given.
Experience(session, files) == [session |-> session, files |-> files]

Context(task, experience, at) ==
  [task |-> task, experience |-> experience, authorization |-> Authorization(task, at)]
NoContext ==
  [Context(ListTask, Experience(Session([t \in Target |-> 0], 0), {}), 0) EXCEPT !.task = NoTask]

\* createAuthorizedNaturalTaskReuse(): may a repeated task run under the authorization of
\* the context, without a new decision.
MayReuseAuthorization(context, task, now, world) ==
  /\ context # NoContext
  /\ Revalidates(context.experience.session, world)
  /\ context.task.kind = task.kind
  /\ context.task.objective = task.objective
  /\ Fingerprint(context.task) = Fingerprint(task)
  /\ context.authorization.proposal.risk = Risk(task.kind)
  /\ context.authorization.authorizedAt <= now
  /\ CurrentlyValid(context.authorization, now)

\* createAuthorizedNaturalWorkspaceContext(): is the whole context taken again, ...
ContextStands(context, task, now, world) ==
  /\ context # NoContext
  /\ Revalidates(context.experience.session, world)
  /\ now < context.authorization.proposal.expires
  /\ context.task.kind = task.kind
  /\ context.task.objective = task.objective

\* ... or its experience at least, under an authorization of its own.
ExperienceStands(context, world) ==
  context # NoContext /\ Revalidates(context.experience.session, world)

\* planNaturalGovernedWorkspaceMicroread(): inside the authorization now, and on a file the
\* discovery index admitted.
MicroreadContained(context, request, step, now) ==
  /\ OperationContained(context.authorization, request, step, now)
  /\ request.kind # "WORKSPACE_FILES" => request.target \in context.experience.files

\* qualifyNaturalWorkspaceFileEvidenceForCognition(), sensitive content apart.
Admitted(context, target) == target \in context.experience.files

(***************************************************************************)
(* Governed reads                                                          *)
(***************************************************************************)

\* readFileWithGrant(), or the inventory Git lists: what an operation observes.
Observed(request, world) ==
  IF request.kind = "WORKSPACE_FILES" THEN Inventory(world) ELSE world[request.target]

\* createGovernedReadOnlyRequest() and its execution, under a grant of its own.
GovernedRead(request, world, now) ==
  [kind |-> request.kind, target |-> request.target, content |-> Observed(request, world),
   observedAt |-> now, expires |-> now + GrantLife]

\* A read or a validation of a file that is not there is denied.
Readable(request, world) ==
  request.kind = "WORKSPACE_FILES"
  \/ (request.target \in DOMAIN world /\ world[request.target] # 0)

NoRead == [kind |-> "NONE", target |-> NoTarget, content |-> 0, observedAt |-> 0, expires |-> 0]

(***************************************************************************)
(* The evidence cache                                                      *)
(***************************************************************************)

NoEntry == [read |-> NoRead]

\* currentNaturalEvidenceIdentity(): a file is observed again, an inventory has the
\* identity of the worktree its session is bound to.
Identity(capability, target, session, world) ==
  IF capability = "FILESYSTEM_READ" THEN <<target, world[target]>>
  ELSE <<target, session.binding>>
HasIdentity(capability, target, world) ==
  capability = "FILESYSTEM_READ" => target \in DOMAIN world /\ world[target] # 0

CacheCapability(kind) == IF kind = "WORKSPACE_FILES" THEN "GIT_READ" ELSE "FILESYSTEM_READ"

\* The cache holds its entries at positions, in the order they were read; what is removed
\* leaves a gap.  The position of the oldest or newest of some entries:
Oldest(positions) == Min(positions)
Latest(positions) == IF positions = {} THEN 0 ELSE Max(positions)

\* Mutant: entries are kept by their expiry only, whatever authorized them.
PrunedByInstant(cache, context, now) ==
  LET keeps(entry) == entry.read.observedAt <= now /\ now < entry.expires
  IN  Restrict(cache, IF context = NoContext THEN {} ELSE {i \in DOMAIN cache : keeps(cache[i])})

\* pruneNaturalEvidenceCache(): what the current context did not read, or read too long ago.
Pruned(cache, context, now) ==
  LET keeps(entry) ==
        /\ entry.read.observedAt <= now
        /\ now < entry.expires
        /\ entry.authorization = context.authorization
        /\ entry.session = context.experience.session
  IN  Restrict(cache, IF context = NoContext THEN {} ELSE {i \in DOMAIN cache : keeps(cache[i])})

\* Where the newest entry is that reusableNaturalEvidenceEntry() finds for an identity, or 0.
Newest(cache, capability, identity) ==
  Latest({i \in DOMAIN cache : cache[i].capability = capability /\ cache[i].identity = identity})

\* The cache after the search: every entry of the same capability that the search passed
\* on its way to the newest match is gone.
Searched(cache, capability, newest) ==
  Restrict(cache, {i \in DOMAIN cache : i <= newest \/ cache[i].capability # capability})

\* Mutant: nothing is observed again, the newest read of the target counts.
ReusableUnobserved(cache, context, capability, target, now, world) ==
  LET pruned == Pruned(cache, context, now)
      found == {i \in DOMAIN pruned : pruned[i].capability = capability
                                      /\ pruned[i].read.target = target}
  IN  [cache |-> pruned, entry |-> IF found = {} THEN NoEntry ELSE pruned[Latest(found)]]

\* reusableNaturalEvidenceEntry(): the cache it leaves and the entry it found, if any.
Reusable(cache, context, capability, target, now, world) ==
  LET pruned == Pruned(cache, context, now)
      session == context.experience.session
      identity == Identity(capability, target, session, world)
      newest == Newest(pruned, capability, identity)
  IN  IF /\ ExperienceStands(context, world)
         /\ HasIdentity(capability, target, world)
      THEN [cache |-> Searched(pruned, capability, newest),
            entry |-> IF newest = 0 THEN NoEntry ELSE pruned[newest]]
      ELSE [cache |-> pruned, entry |-> NoEntry]

\* cacheNaturalEvidence(): is a governed read kept.  A validation never is.
Cacheable(context, read, world) ==
  LET capability == CacheCapability(read.kind)
      authorization == context.authorization
  IN  /\ context # NoContext
      /\ read.kind \in {"WORKSPACE_FILES", "READ_FILE"}
      /\ Revalidates(context.experience.session, world)
      /\ authorization.proposal.validFrom <= read.observedAt
      /\ authorization.authorizedAt <= read.observedAt
      /\ context.experience.session.authorizedAt <= read.observedAt
      /\ read.observedAt < read.expires
      /\ read.observedAt < authorization.proposal.expires
      /\ HasIdentity(capability, read.target, world)
      /\ read.kind = "READ_FILE" => read.content = world[read.target]

MinOf(a, b) == IF a <= b THEN a ELSE b

CacheEntry(context, read, world) ==
  LET capability == CacheCapability(read.kind)
      session == context.experience.session
  IN  [capability |-> capability,
       identity |-> Identity(capability, read.target, session, world),
       read |-> read,
       expires |-> MinOf(read.expires, context.authorization.proposal.expires),
       authorization |-> context.authorization, session |-> session]

Cached(cache, entry) ==
  LET next == 1 + Latest(DOMAIN cache)
      longer == [i \in DOMAIN cache \union {next} |-> IF i = next THEN entry ELSE cache[i]]
  IN  IF Cardinality(DOMAIN longer) > MaxCache
      THEN Restrict(longer, DOMAIN longer \ {Oldest(DOMAIN longer)}) ELSE longer
=============================================================================
