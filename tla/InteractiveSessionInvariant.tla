--------------------- MODULE InteractiveSessionInvariant ---------------------
(***************************************************************************)
(* The inductive invariant of the natural session: what the provider, the  *)
(* memory of its answers, the evidence cache and the handler in work must  *)
(* agree on after every step, for the safety properties of                 *)
(* InteractiveSession to be kept by every step.                            *)
(***************************************************************************)
EXTENDS InteractiveSession

\* A sequence, whatever its elements are.
IsSequence(s) == s \in Seq({s[i] : i \in DOMAIN s})

(***************************************************************************)
(* Types                                                                   *)
(***************************************************************************)

WorldInv ==
  /\ now \in Nat
  /\ world \in [Target -> 0 .. MaxContent]
  /\ seen \in [Target -> SUBSET (0 .. MaxContent)]
  /\ \A t \in Target : world[t] \in seen[t]

LinesInv ==
  /\ habit \subseteq Lines
  /\ queue \in Seq(habit)
  /\ Len(queue) <= MaxQueue
  /\ typed \in 0 .. MaxLines
  /\ open \in BOOLEAN
  /\ pending \in Tasks \union {NoTask}
  /\ approved \subseteq Tasks

MemoryInv ==
  /\ DOMAIN memory = {"decisions", "turns"}
  /\ \A d \in memory.decisions : d.decision \in Decisions /\ d.by \in Providers

ContextInv == context.authorization.proposal.expires \in Nat

(***************************************************************************)
(* The selected provider                                                   *)
(***************************************************************************)

\* The preference of the session is the last selection of the human, and so is the provider
\* it comes to when it initializes itself again.
SelectionInv ==
  /\ choice \in LocalModel \union {"auto", "codex", "external", "disabled"}
  /\ provider \in [preference : Preferences, model : LocalModel \union {NoModel},
                   initialized : BOOLEAN, composition : Providers \union {NoProvider},
                   codex : BOOLEAN, closed : BOOLEAN]
  /\ provider.preference = "AUTO_LOCAL" => choice = "auto" /\ provider.model = NoModel
  /\ provider.preference = "EXPLICIT_LOCAL" => choice \in LocalModel /\ provider.model = choice
  /\ provider.preference = "EXPLICIT_EXTERNAL" =>
       choice = "external" \/ (choice = "codex" /\ provider.codex)
  /\ provider.preference = "DISABLED" => choice = "disabled"
  /\ provider.composition \in Permitted(choice) \union {NoProvider}

(***************************************************************************)
(* The handler in work                                                     *)
(***************************************************************************)

\* A handler holds no evidence before it has read a file or planned a step ...
BeforeEvidence == {"idle", "context", "open", "list", "read"}
\* ... and only the handler of an analysis plans.
Analysing == {"plan", "await", "qualify", "dispatch", "remember"}
Acquiring == {"await", "qualify", "dispatch", "remember"}

WorkInv ==
  /\ phase \in Phases
  /\ DOMAIN work = DOMAIN NoWork
  /\ work.task \in Tasks \union {NoTask}
  /\ work.at \in Nat
  /\ {work.repeated, work.cached, work.reuse} \subseteq BOOLEAN
  /\ work.request \in Requests \union {NoRequest}
  /\ {work.with, work.by} \subseteq Providers \union {NoProvider}
  /\ phase = "idle" => work = NoWork
  /\ phase \in {"context", "open", "list", "read"} => work.task # NoTask
  /\ phase \in Analysing => work.task.kind = "PROJECT_ANALYSIS"
  /\ phase \in {"await", "answer"} => work.with # NoProvider

EvidenceInv ==
  /\ IsSequence(work.evidence)
  /\ phase \in BeforeEvidence => work.evidence = <<>>
  /\ Len(work.evidence) <= MaxEvidenceSteps
  /\ phase \in Acquiring => Len(work.evidence) < MaxEvidenceSteps

\* A governed read that was made and not yet kept is of an instant since it was asked for.
ReadInv ==
  phase = "remember" =>
    /\ work.read.observedAt \in Nat
    /\ work.read.expires = work.read.observedAt + GrantLife
    /\ work.read.kind # "WORKSPACE_FILES" =>
         work.read.target \in Target /\ work.read.content \in seen[work.read.target]

(***************************************************************************)
(* The evidence cache                                                      *)
(***************************************************************************)

\* An entry lives no longer than the grant of its read, and the identity it is found by is
\* that of the content it was read with.
EntryStands(entry) ==
  /\ entry.read.kind \in {"WORKSPACE_FILES", "READ_FILE"}
  /\ entry.capability = CacheCapability(entry.read.kind)
  /\ entry.read.observedAt \in Nat
  /\ entry.expires \in Nat
  /\ entry.expires <= entry.read.observedAt + GrantLife
  /\ entry.read.kind = "READ_FILE" => entry.identity = <<entry.read.target, entry.read.content>>

CacheStands(entries) ==
  /\ DOMAIN entries \subseteq Nat \ {0}
  /\ IsFiniteSet(DOMAIN entries)
  /\ Cardinality(DOMAIN entries) <= MaxCache
  /\ \A i \in DOMAIN entries : EntryStands(entries[i])

\* The inductive invariant: in every reachable state the parts of the session agree.
IInv ==
  /\ WorldInv /\ LinesInv /\ MemoryInv /\ ContextInv
  /\ SelectionInv /\ WorkInv /\ EvidenceInv /\ ReadInv
  /\ CacheStands(cache)
  /\ EvidenceStaysUnderItsAuthorization
  /\ AnswersComeFromTheSelectedProvider
=============================================================================
