------------------------------ MODULE MCSession ------------------------------
(***************************************************************************)
(* Two devices that share a key under one key id, as with credentials      *)
(* without device binding; d1 also has a key of its own, and d2 offers a   *)
(* key id under which it and the provider have different keys.             *)
(***************************************************************************)
EXTENDS Session

CONSTANTS d1, d2, c1, kid1, kid2, shared, own, other

MCOffers == {<<kid2, kid1>>, <<kid2>>, <<>>}

MCResolve ==
    [p \in Devices \X Kids |->
        CASE p[2] = kid1 -> shared
          [] p = <<d1, kid2>> -> own
          [] OTHER -> None]

MCDeviceKey ==
    [p \in Devices \X Kids |->
        CASE p[2] = kid1 -> shared
          [] p = <<d1, kid2>> -> own
          [] OTHER -> other]
=============================================================================
