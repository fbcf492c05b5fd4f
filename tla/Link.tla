-------------------------------- MODULE Link --------------------------------
(***************************************************************************)
(* What the client and the session promise each other about one connection *)
(* (client.hpp, session.hpp, text_transport.hpp): a connection that opens  *)
(* is waiting for the handshake; it becomes running, or the session gives  *)
(* up and closes it; whatever the session does, a connection that has      *)
(* ended leaves a closed session, and only such a session is opened again. *)
(*                                                                         *)
(* Session shows that the handshake keeps this promise, Client that the    *)
(* life cycle relies on nothing else.                                      *)
(***************************************************************************)

VARIABLES
    session,    \* "closed", "await" or "running"
    transport   \* "none", "open" or "closing"

vars == <<session, transport>>

Init ==
    /\ session = "closed"
    /\ transport = "none"

Open ==
    /\ session = "closed" /\ transport = "none"
    /\ session' = "await" /\ transport' = "open"

\* The handshake succeeds, perhaps after close() was called.
Ready ==
    /\ session = "await" /\ transport # "none"
    /\ session' = "running"
    /\ UNCHANGED transport

\* The session gives up in the handshake and closes the connection.
Fail ==
    /\ session = "await" /\ transport # "none"
    /\ session' = "closed" /\ transport' = "closing"

\* The client closes the connection.
Close ==
    /\ transport = "open" /\ transport' = "closing"
    /\ UNCHANGED session

\* The connection has ended.
Closed ==
    /\ transport # "none" /\ transport' = "none"
    /\ session' = "closed"

Next == Open \/ Ready \/ Fail \/ Close \/ Closed

Spec == Init /\ [][Next]_vars
=============================================================================
