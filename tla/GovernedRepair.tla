--------------------------- MODULE GovernedRepair ---------------------------
(***************************************************************************)
(* What a session of repairs promises about the targets, without plans,    *)
(* providers, tests, checkpoints or restarts: a target is repaired only    *)
(* under a permit, which names the mission, the target and what the target *)
(* held when the repair was proposed.  There is one permit at a time, it   *)
(* is used at most once, and none is given for a mission that a human has  *)
(* cancelled, for a target that was repaired for the mission before, or    *)
(* beyond the attempts a mission may make.                                 *)
(***************************************************************************)
EXTENDS Naturals, Sequences, FiniteSets

CONSTANTS
  Target,
  Content,          \* what a target may hold
  Original,         \* what it holds at first
  Repaired,         \* what a repair leaves in it
  AttemptCeiling

NoPermit == [mission |-> 0]

VARIABLES
  asked,      \* missions asked for so far
  cancelled,  \* missions a human has cancelled
  permit,     \* the repair that may be made now, or NoPermit
  content,    \* target -> what it holds
  repairs     \* the repairs made: mission, target

rvars == <<asked, cancelled, permit, content, repairs>>

RInit ==
  /\ asked = 0
  /\ cancelled = {}
  /\ permit = NoPermit
  /\ content = [t \in Target |-> Original]
  /\ repairs = <<>>

Ask ==
  /\ asked' = asked + 1
  /\ UNCHANGED <<cancelled, permit, content, repairs>>

\* A human approves this repair, or has authorized every repair of the mission.
Allow(id, t, before) ==
  /\ permit = NoPermit
  /\ id \notin cancelled
  /\ \A i \in DOMAIN repairs : repairs[i] # <<id, t>>
  /\ Cardinality({i \in DOMAIN repairs : repairs[i][1] = id}) < AttemptCeiling
  /\ permit' = [mission |-> id, target |-> t, before |-> before]
  /\ UNCHANGED <<asked, cancelled, content, repairs>>

\* What somebody else wrote since the proposal is never overwritten.
Repair ==
  /\ permit # NoPermit
  /\ content[permit.target] = permit.before
  /\ content' = [content EXCEPT ![permit.target] = Repaired]
  /\ repairs' = Append(repairs, <<permit.mission, permit.target>>)
  /\ permit' = NoPermit
  /\ UNCHANGED <<asked, cancelled>>

\* The repair is refused, or the process that was to make it ends.
Withdraw ==
  /\ permit # NoPermit
  /\ permit' = NoPermit
  /\ UNCHANGED <<asked, cancelled, content, repairs>>

Cancel(id) ==
  /\ permit = NoPermit
  /\ cancelled' = cancelled \union {id}
  /\ UNCHANGED <<asked, permit, content, repairs>>

\* Somebody else writes a target.
Edit(t, c) ==
  /\ content' = [content EXCEPT ![t] = c]
  /\ UNCHANGED <<asked, cancelled, permit, repairs>>

RNext ==
  \/ Ask
  \/ \E id \in 1 .. asked :
       \/ \E t \in Target, before \in Content : Allow(id, t, before)
       \/ Cancel(id)
  \/ Repair
  \/ Withdraw
  \/ \E t \in Target, c \in Content : Edit(t, c)

RSpec == RInit /\ [][RNext]_rvars
=============================================================================
