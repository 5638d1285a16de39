-------------------------- MODULE MCWhiteInternet --------------------------
(* Small instances of WhiteInternet for TLC: two origin nodes, so that a    *)
(* subscription can leave a node and come back to it.                       *)
EXTENDS WhiteInternet, TLC

CONSTANTS a, b
Interchangeable == Permutations(Nodes)
=============================================================================
