------------------------------ MODULE MCEvents ------------------------------
(* Three Subscription variables for three handlers, three events.          *)
EXTENDS Events, TLC

CONSTANTS a, b, c

ObjectSymmetry == Permutations(Objects)
=============================================================================
