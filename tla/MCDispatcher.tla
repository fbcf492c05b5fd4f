---- MODULE MCDispatcher ----
(***************************************************************************)
(* A small instance of Dispatcher: three requests, two of them in flight,  *)
(* and one of them less patient than the others, or not patient at all.    *)
(***************************************************************************)
EXTENDS Dispatcher

CONSTANTS r1, r2, r3, k1

MCTimeouts == [r \in {r1, r2, r3} |-> IF r = r3 THEN {0, 1} ELSE {2}]
====
