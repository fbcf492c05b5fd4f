---- MODULE MCClient ----
(***************************************************************************)
(* Small instances of Client.                                              *)
(***************************************************************************)
EXTENDS Client

CONSTANTS c1, c2, r1, r2, tls1, tls2, dev1, dev2
====
