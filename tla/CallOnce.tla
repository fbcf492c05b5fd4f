------------------------------ MODULE CallOnce ------------------------------
(***************************************************************************)
(* What the request path promises its callers, whatever happens to the     *)
(* connection: the completion handler of a submitted request is called     *)
(* exactly once (dispatcher.hpp, RequestDispatcher::submit: "The handler   *)
(* is ALWAYS called exactly once", session.hpp, ControllerSession::request *)
(* repeats it).  The specification knows nothing of queues, deadlines or   *)
(* messages: a handler is idle until its request is submitted, then        *)
(* waiting, then called, and it never moves backwards.                     *)
(***************************************************************************)
CONSTANT Requests          \* one element per submit(), and its handler

VARIABLE status            \* status[r]: where the handler of r stands

Waiting == {r \in Requests : status[r] = "waiting"}

Idle == {r \in Requests : status[r] = "idle"}

TypeOK == status \in [Requests -> {"idle", "waiting", "called"}]

Init == status = [r \in Requests |-> "idle"]

\* One call into the request path.  It accepts at most one new request and
\* calls any set of handlers, the new one included (a request may fail
\* while it is being submitted).
Step(new, done) ==
    status' = [r \in Requests |-> IF r \in done THEN "called"
                                  ELSE IF r \in new THEN "waiting"
                                  ELSE status[r]]

Next ==
    \E new \in {{}} \cup {{r} : r \in Idle} :
        \E done \in SUBSET (Waiting \cup new) : Step(new, done)

Spec == Init /\ [][Next]_status

-----------------------------------------------------------------------------
\* The other half of the promise: no accepted handler is forgotten.
Called == \A r \in Requests : (status[r] = "waiting") ~> (status[r] = "called")
=============================================================================
