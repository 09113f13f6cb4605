---------------------------- MODULE MCCommonSubset -----------------------------
(* Instances of CommonSubset for TLC: four nodes, one of which may be down. *)
EXTENDS CommonSubset, TLC

CONSTANTS n1, n2, n3, n4, v1, v2, v3

FourNodes == {n1, n2, n3, n4}
ThreeNodes == {n1, n2, n3}
TwoValues == {v1, v2}
ThreeValues == {v1, v2, v3}

Symmetry == Permutations(Up) \cup Permutations(Value)
================================================================================
