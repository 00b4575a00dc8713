----------------------- MODULE MCNaturalDevelopment -----------------------
(* Instances of NaturalDevelopment for TLC. *)
EXTENDS NaturalDevelopmentInvariant, TLC

CONSTANTS p1, p2, a1, a2

Processes == {p1, p2}
Authorizations == {a1, a2}

\* The second authorization writes back what the first replaced.
ThereAndBackBefore == (a1 :> "x") @@ (a2 :> "y")
ThereAndBackReplacement == (a1 :> "y") @@ (a2 :> "x")

Symmetric == Permutations(Processes)
=============================================================================
