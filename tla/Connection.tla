----------------------------- MODULE Connection -----------------------------
(***************************************************************************)
(* What a transport promises its owner about one connection                *)
(* (text_transport.hpp): async_open() is answered once, with the           *)
(* connection or with an error, and a connection that was handed over ends *)
(* with one call of the close handler.  Whoever has the answer "failed"    *)
(* never hears of the attempt again.                                       *)
(***************************************************************************)

VARIABLE promise    \* "idle", "dialing", "open", "failed" or "ended"

Init == promise = "idle"

Dial == promise = "idle" /\ promise' = "dialing"

Opened == promise = "dialing" /\ promise' = "open"

Failed == promise = "dialing" /\ promise' = "failed"

Ended == promise = "open" /\ promise' = "ended"

Next == Dial \/ Opened \/ Failed \/ Ended

Spec == Init /\ [][Next]_promise
=============================================================================
