-------------------------- MODULE AuthorizedPatch --------------------------
(***************************************************************************)
(* What a natural development promises from end to end, without processes, *)
(* files, projections, crashes or recoveries: one exact authorization is   *)
(* spent (AuthorizationLedger) on one patch of the target (AtomicPatch).   *)
(* The target changes only under an authorization that has been dispatched *)
(* and not yet consumed, for the content it was given for, and only an     *)
(* authorization whose patch took effect is recorded as consumed.          *)
(* composeAndDispatchNaturalDevelopmentPatch                               *)
(* (cli/natural-development-r3-composition.js) is the code that promises.  *)
(***************************************************************************)
CONSTANTS Authorization, InitialContent, Before, Replacement

VARIABLES
  standing,  \* authorization -> FREE, CLAIMED, DISPATCHED or CONSUMED
  outcome,   \* authorization -> where its patch stands
  effect,    \* authorization -> what its patch did to the target
  content    \* the authoritative content of the target

pvars == <<standing, outcome, effect, content>>

Ledger == INSTANCE AuthorizationLedger
Patch == INSTANCE AtomicPatch
  WITH Txn <- Authorization, EditorContent <- {}, Exclusive <- TRUE,
       Honest <- TRUE

PInit == Ledger!LInit /\ Patch!AInit

\* Claimed, then dispatched, before anything happens to the target.
Spend(a) ==
  /\ Ledger!Moves(a, "FREE", "CLAIMED") \/ Ledger!Moves(a, "CLAIMED", "DISPATCHED")
  /\ UNCHANGED Patch!avars

\* The patch of a dispatched authorization; nothing is taken back by itself.
Mutate(a) ==
  /\ standing[a] = "DISPATCHED"
  /\ Patch!Begin(a) \/ Patch!Apply(a) \/ Patch!Answer(a)
  /\ UNCHANGED standing

Consume(a) ==
  /\ outcome[a] = "SUCCESS"
  /\ Ledger!Moves(a, "DISPATCHED", "CONSUMED")
  /\ UNCHANGED Patch!avars

PNext == \E a \in Authorization : Spend(a) \/ Mutate(a) \/ Consume(a)

PSpec == PInit /\ [][PNext]_pvars
=============================================================================
