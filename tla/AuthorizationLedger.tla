------------------------ MODULE AuthorizationLedger ------------------------
(***************************************************************************)
(* What the authorization store promises, without files, witness, crashes  *)
(* or rollbacks: a human authorization is claimed durably, then dispatched *)
(* at most once, then recorded as consumed, and never goes back.           *)
(***************************************************************************)
CONSTANT Authorization

VARIABLE standing  \* authorization -> FREE, CLAIMED, DISPATCHED or CONSUMED

LInit == standing = [a \in Authorization |-> "FREE"]

Moves(a, from, to) ==
  /\ standing[a] = from
  /\ standing' = [standing EXCEPT ![a] = to]

LNext ==
  \E a \in Authorization :
    \/ Moves(a, "FREE", "CLAIMED")
    \/ Moves(a, "CLAIMED", "DISPATCHED")
    \/ Moves(a, "DISPATCHED", "CONSUMED")

LSpec == LInit /\ [][LNext]_standing
=============================================================================
