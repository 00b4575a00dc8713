---------------------------- MODULE AtomicPatch ----------------------------
(***************************************************************************)
(* What a governed mutation promises, without locks, journals, crashes or  *)
(* recovery: transactions on one target are taken one at a time (if they   *)
(* are Exclusive), each replaces the content it was authorized for at most *)
(* once, may be taken back, and ends with an answer that says what         *)
(* happened to the target.  ADR-007 (docs/adr), sections 8 to 10, is the   *)
(* prose of this module.                                                   *)
(***************************************************************************)
CONSTANTS
  Txn, InitialContent, Before, Replacement, EditorContent,
  Exclusive,  \* FALSE: another transaction may begin while one is unfinished
  Honest      \* FALSE: an answer may be wrong about the effect

VARIABLES
  outcome,   \* transaction -> where it stands, as a reader of the journal knows it
  effect,    \* transaction -> what it did to the target
  content    \* the authoritative content of the target

avars == <<outcome, effect, content>>

Outcomes == {"OPEN", "STARTED", "SUCCESS", "FAILED", "UNRESOLVED"}

AInit ==
  /\ outcome = [t \in Txn |-> "OPEN"]
  /\ effect = [t \in Txn |-> "NONE"]
  /\ content = InitialContent

\* An unresolved transaction blocks its target as one in progress does.
Begin(t) ==
  /\ outcome[t] = "OPEN"
  /\ Exclusive => \A u \in Txn : outcome[u] \notin {"STARTED", "UNRESOLVED"}
  /\ outcome' = [outcome EXCEPT ![t] = "STARTED"]
  /\ UNCHANGED <<effect, content>>

Apply(t) ==
  /\ outcome[t] = "STARTED"
  /\ effect[t] = "NONE"
  /\ content = Before[t]
  /\ content' = Replacement[t]
  /\ effect' = [effect EXCEPT ![t] = "APPLIED"]
  /\ UNCHANGED outcome

TakeBack(t) ==
  /\ outcome[t] = "STARTED"
  /\ effect[t] = "APPLIED"
  /\ content = Replacement[t]
  /\ content' = Before[t]
  /\ effect' = [effect EXCEPT ![t] = "UNDONE"]
  /\ UNCHANGED outcome

\* An honest success is answered only for an effect that stands, an honest failure only for
\* one that does not; when neither is known the answer is that it is unresolved.
Answer(t) ==
  /\ outcome[t] = "STARTED"
  /\ \E answer \in {"SUCCESS", "FAILED", "UNRESOLVED"} :
       /\ Honest => answer # (IF effect[t] = "APPLIED" THEN "FAILED" ELSE "SUCCESS")
       /\ outcome' = [outcome EXCEPT ![t] = answer]
  /\ UNCHANGED <<effect, content>>

\* Someone outside the system writes the target.
Edit ==
  /\ content' \in EditorContent
  /\ UNCHANGED <<outcome, effect>>

ANext == Edit \/ \E t \in Txn : Begin(t) \/ Apply(t) \/ TakeBack(t) \/ Answer(t)

ASpec == AInit /\ [][ANext]_avars
=============================================================================
