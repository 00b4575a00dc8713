----------------------- MODULE MCPhysicalControlPlane -----------------------
(***************************************************************************)
(* Small instances of PhysicalControlPlane for TLC.                        *)
(***************************************************************************)
EXTENDS PhysicalControlPlaneInvariant, TLC

CONSTANTS s1, s2, q1, q2, o1, o2, k1, k2

TwoServers == {s1, s2}
OneServer == {s1}
TwoRequests == {q1, q2}
TwoOperations == {o1, o2}
OneOperation == {o1}
TwoRecoverers == {k1, k2}
OneRecoverer == {k1}
NoRecoverer == {}

Interchangeable ==
  Permutations(Server) \union Permutations(Request) \union Permutations(Operation)
    \union Permutations(Recoverer)
=============================================================================
