------------------------- MODULE AuthoritativeClock -------------------------
(***************************************************************************)
(* What core/authoritative-clock.js decides about readings of a wall clock *)
(* and a monotonic clock.  Times are milliseconds, monotonic times are     *)
(* units of which a millisecond holds Resolution.  Sources, canonical      *)
(* timestamps and fingerprints are abstracted: a reading is its value.     *)
(***************************************************************************)
EXTENDS Integers, FiniteSets

CONSTANTS
  Resolution,           \* monotonic units in a millisecond
  MaximumForwardDrift   \* milliseconds the wall clock may run ahead between two readings

ASSUME ClockAssumption ==
  /\ Resolution \in Nat \ {0}
  /\ MaximumForwardDrift \in Nat

\* The answer of a clock that is unavailable, and the previous reading of a first one.
NoReading == [wall |-> -1, mono |-> -1]

\* Mutant: the wall clock may fall behind as long as it does not go back.
ClassificationWithoutDrift(previous, current) ==
  LET elapsed == current.mono - previous.mono
      advance == current.wall - previous.wall
  IN  IF elapsed <= 0 THEN "NON_MONOTONIC" ELSE
      IF advance < 0 THEN "WALL_CLOCK_ROLLBACK" ELSE
      IF advance - elapsed \div Resolution > MaximumForwardDrift
      THEN "SUSPICIOUS_FORWARD_JUMP" ELSE "NORMAL_FORWARD"

\* classifyClockProgression: one reading after another.
Classification(previous, current) ==
  LET elapsed == current.mono - previous.mono
      advance == current.wall - previous.wall
      drift == advance - elapsed \div Resolution
  IN  CASE elapsed <= 0 -> "NON_MONOTONIC"
        [] elapsed > 0 /\ (advance < 0 \/ drift < 0) -> "WALL_CLOCK_ROLLBACK"
        [] elapsed > 0 /\ advance >= 0 /\ drift > MaximumForwardDrift -> "SUSPICIOUS_FORWARD_JUMP"
        [] OTHER -> "NORMAL_FORWARD"

\* observe(previous): a first observation has nothing to be compared with.
Progresses(previous, current) ==
  /\ current # NoReading
  /\ previous = NoReading \/ Classification(previous, current) = "NORMAL_FORWARD"

\* classifyExpiry: the interval is closed at issuance and open at expiry.
Valid(reading, interval) ==
  /\ interval.issuedAt < interval.expiresAt
  /\ interval.issuedAt <= reading.wall
  /\ reading.wall < interval.expiresAt

\* classifyMutationAuthority and evaluateMutationAuthority: the reading progresses from the
\* previous one and lies in the validity of the identity, of the approval and of the grant.
MutationAuthority(previous, reading, bounds) ==
  /\ Progresses(previous, reading)
  /\ \A interval \in bounds : Valid(reading, interval)
=============================================================================
