----------------------------- MODULE MCManager ------------------------------
(* A writable and a read-only datapoint, one thread, one callback for all  *)
(* names, and a value that no write may carry.                             *)
EXTENDS Manager, TLC

CONSTANTS p, q, v1, v2, bad, t1, s1

AllTopics == [s \in Subscribers |-> AllNames]
ValueSymmetry == Permutations({v1, v2})
=============================================================================
