---- MODULE MCDispatcherReentry ----
(***************************************************************************)
(* A small instance of DispatcherReentry.                                  *)
(***************************************************************************)
EXTENDS DispatcherReentry, TLC

CONSTANTS r1, r2, r3
====
