-------------------------- MODULE MCNaturalSession --------------------------
(***************************************************************************)
(* Small instances of NaturalSession for TLC.                              *)
(***************************************************************************)
EXTENDS NaturalSessionInvariant, TLC

CONSTANTS t1, t2

TwoTargets == {t1, t2}

Interchangeable == Permutations(Target)
=============================================================================
