-------------------------- MODULE GatewayDispatch --------------------------
(***************************************************************************)
(* One call of dispatchGatewayRequest in                                   *)
(* core/integrated-governed-agent-gateway.js: the checks in the order the  *)
(* gateway makes them, what each refusal writes in the mission, and what   *)
(* the operation writes when it is performed.  The call is synchronous; the*)
(* physical workspace it meets is the argument w:                          *)
(*   head     the workspace the revalidation observes                      *)
(*   content  what the authoritative state of each target holds            *)
(*   lapsed   references whose grant has expired                           *)
(*   outcome  "done"    the operation is performed and says so             *)
(*            "refused" it ends without effect                             *)
(*            "late"    it has its effect and then reports a failure       *)
(*            "thrown"  it throws                                          *)
(* The operations are those the sessions of this program send: reads (the  *)
(* status, the diff and the inspection of evidence), the test runs, the    *)
(* conditional mutation, and the request for authority.                    *)
(***************************************************************************)
EXTENDS AgenticMission

Outcomes == {"done", "refused", "late", "thrown"}

Operations ==
  {"workspace.read", "tests.run", "tests.runCanonical", "mutation.propose",
   "mutation.applyConditional", "authority.request"}
Physical == {"workspace.read", "tests.run", "tests.runCanonical", "mutation.applyConditional"}
NeedsAuthority == {"tests.runCanonical", "mutation.applyConditional"}
LocalFastPath == {"authority.request"}

\* The state a mission enters when the operation starts.
StateOf ==
  [op \in Operations \ LocalFastPath |->
    CASE op = "workspace.read" -> "AUDITING"
      [] op = "tests.run" -> "TESTING"
      [] op = "tests.runCanonical" -> "QUALIFYING"
      [] op \in {"mutation.propose", "mutation.applyConditional"} -> "IMPLEMENTING"]

NoTarget == "none"

ASSUME TargetAssumption == NoTarget \notin Target

\* A request names the mission and the state it expects it in; a conditional
\* mutation also names its target and what it must still hold.
Request(m, op, target, before, ref) ==
  [mission |-> m.id, expected |-> <<m.state, Len(m.events)>>, head |-> m.head,
   op |-> op, target |-> target, before |-> before, ref |-> ref]

\* The request belongs to this mission and to the state it is in.
BindingStatus(r, m) ==
  IF r.mission # m.id \/ r.head # m.head THEN "DENIED"
  ELSE IF r.expected # <<m.state, Len(m.events)>> THEN "STALE_STATE"
  ELSE "SUCCESS"

\* Mutant of TargetCas: the target only has to exist.
TargetExists(r, w) == r.target = NoTarget \/ r.target \in DOMAIN w.content

\* The physical target still holds what the request says it was reviewed against.
TargetCas(r, w) == r.target = NoTarget \/ w.content[r.target] = r.before

\* A grant of this operation under this reference: not used, not expired, and not one
\* that only the mission broker may derive from.
Authorized(r, m, w) ==
  \E g \in m.grants :
    /\ g.ref = r.ref
    /\ g.operation = r.op
    /\ ~g.broker
    /\ r.ref \notin m.used \union w.lapsed

Answer(m, class, effect) == [mission |-> m, class |-> class, effect |-> effect]

\* The operation itself, once everything is checked.  The mutation compares and swaps
\* once more where it commits.
Performs(r, w) == r.op # "mutation.applyConditional" \/ TargetCas(r, w)
Perform(r, w) == IF w.outcome = "done" /\ Performs(r, w) THEN "SUCCESS" ELSE "FAILURE"

\* What a performed operation writes in the mission.
Record(m, r, w) ==
  LET class == Perform(r, w) IN
  IF r.op \in {"tests.run", "tests.runCanonical"}
    THEN RecordTest(m, r.op = "tests.runCanonical", class = "SUCCESS")
  ELSE IF r.op = "mutation.applyConditional" /\ class = "SUCCESS"
    THEN RecordChange(m, r.target, r.ref)
  ELSE Append1(m, IF class = "SUCCESS" THEN "OPERATION_COMPLETED" ELSE "OPERATION_DENIED",
               m.state)

\* A mission that is terminal and cannot enter the state of the operation throws.
Execute(m, r, w) ==
  IF ~CanAppend(m, "OPERATION_STARTED", StateOf[r.op]) THEN Answer(m, "THROWN", FALSE)
  ELSE
    LET executing == Append1(m, "OPERATION_STARTED", StateOf[r.op]) IN
    IF r.op \in Physical /\ w.head # m.head
      THEN Answer(Append1(executing, "STATE_INVALIDATED", "BLOCKED"), "STALE_STATE", FALSE)
    ELSE IF w.outcome = "thrown"
      THEN Answer(Append1(executing, "OPERATION_DENIED", executing.state), "FAILURE", FALSE)
    ELSE Answer(Record(executing, r, w), Perform(r, w),
                w.outcome \in {"done", "late"} /\ Performs(r, w))

Dispatch(r, m, w) ==
  IF BindingStatus(r, m) # "SUCCESS" THEN Answer(m, BindingStatus(r, m), FALSE)
  ELSE IF ~TargetCas(r, w)
    THEN IF CanAppend(m, "STATE_INVALIDATED", "BLOCKED")
           THEN Answer(Append1(m, "STATE_INVALIDATED", "BLOCKED"), "CAS_MISMATCH", FALSE)
           ELSE Answer(m, "THROWN", FALSE)
  ELSE IF m.state = "CANCELLED" /\ r.op \notin LocalFastPath
    THEN Answer(m, "STALE_STATE", FALSE)
  ELSE IF r.op \notin m.allowed
    THEN Answer(Append1(m, "OPERATION_DENIED", m.state), "DENIED", FALSE)
  ELSE IF r.op \in NeedsAuthority /\ ~Authorized(r, m, w)
    THEN IF CanAppend(m, "AUTHORITY_REQUIRED", StateOf[r.op])
           THEN Answer(Append1(m, "AUTHORITY_REQUIRED", StateOf[r.op]),
                       "AUTHORITY_REQUIRED", FALSE)
           ELSE Answer(m, "THROWN", FALSE)
  ELSE IF r.op \in LocalFastPath
    THEN Answer(Append1(m, "AUTHORITY_REQUIRED", m.state), "AUTHORITY_REQUIRED", FALSE)
  ELSE Execute(m, r, w)

=============================================================================
