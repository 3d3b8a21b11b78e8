-------------------------- MODULE MCWorkAdmission --------------------------
(* WorkAdmission for TLC: two nested pools, acquired in the order p1, p2.  *)
EXTENDS WorkAdmission, TLC

CONSTANTS p1, p2

PoolOrder == (p1 :> 0) @@ (p2 :> 1)

CallerSymmetry == Permutations(Callers) \cup Permutations(Targets)
=============================================================================
