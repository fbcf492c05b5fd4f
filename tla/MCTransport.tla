---------------------------- MODULE MCTransport -----------------------------
(* Transport with three frames that fit and one that does not.             *)
EXTENDS Transport

CONSTANTS f1, f2, f3, big
=============================================================================
