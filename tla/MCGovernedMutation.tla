------------------------- MODULE MCGovernedMutation -------------------------
(***************************************************************************)
(* Small instances of GovernedMutation for TLC.  Two transactions share    *)
(* one target: the second is the rival of the first on the same BEFORE     *)
(* content, or wants to take the first one's replacement back.  It takes   *)
(* three runners to see a lock taken away by a failed open: one that holds *)
(* it, one whose open fails, and one that then begins.                     *)
(***************************************************************************)
EXTENDS AtomicPatchRefinement, GovernedMutationInvariant, TLC

CONSTANTS r1, r2, r3, v1, t1, t2

Runners == {r1, r2}
ThreeRunners == {r1, r2, r3}
OneRecoverer == {v1}
RunnersAndRecoverer == {r1, r2, v1}
Txns == {t1, t2}

Contents == {"a", "b", "c", "x"}
FromA == [t \in Txn |-> "a"]
Rivals == [t \in Txn |-> IF t = t1 THEN "b" ELSE "c"]
ThereAndBack == [t \in Txn |-> IF t = t1 THEN "a" ELSE "b"]
BackAndThere == [t \in Txn |-> IF t = t1 THEN "b" ELSE "a"]
Foreign == {"x"}
Nobody == {}

Symmetric == Permutations(Runner) \union Permutations(Recoverer)
=============================================================================
