--------------------------- MODULE MCRestoreGuard ---------------------------
(* Two guard objects, two baselines of up to two datapoints.               *)
EXTENDS RestoreGuard

CONSTANTS p, q, v1, v2, g1, g2
=============================================================================
