------------------------------ MODULE MCPoller ------------------------------
(* Two names: one periodic by default, one read once per connection.       *)
EXTENDS Poller

MCPollClass == [p \in {1, 2} |-> IF p = 1 THEN "Periodic" ELSE "OnConnect"]
=============================================================================
