------------------------------- MODULE MCLogs -------------------------------
(* Pages of two records, a ring of two, three records a boot.              *)
EXTENDS Logs
=============================================================================
