-------------------------- MODULE DispatcherReentry --------------------------
(***************************************************************************)
(* The first loop of RequestDispatcher::tick() (src/protocol/              *)
(* dispatcher.cpp) when a handler submits a request from within its call,  *)
(* which complete() and drain() say it may.  submit() appends to the       *)
(* vector the loop is iterating over and calls tick() again, so loops are  *)
(* nested: `loops` is the stack of their iterators, innermost last, each   *)
(* with the handlers it has taken and called and the erase it still owes.  *)
(*                                                                         *)
(* Sending is disabled throughout (the session is in its handshake), so    *)
(* the second loop and drain() do nothing.  Appending to a full vector     *)
(* would move it and leave the outer iterators dangling; here the vector   *)
(* has Capacity slots from earlier use and never moves, which is the       *)
(* mildest of the outcomes.                                                *)
(***************************************************************************)
EXTENDS Integers, Sequences, SequencesExt

CONSTANTS
    Requests,   \* one element per call of submit(), and its handler
    Timeouts,   \* RequestSpec::timeout
    Capacity,   \* slots of queue_ that exist
    MaxTime     \* bound of the model: the clock stops here

VARIABLES
    queue,      \* queue_: entries in order of submission
    loops,      \* iterators of the running tick() loops
    submitted,  \* requests passed to submit()
    called,     \* requests whose handler was called
    now

vars == <<queue, loops, submitted, called, now>>

Top == Len(loops)
Start == [it |-> 1, erase |-> FALSE, taken |-> {}]
InHandler == Top > 0 /\ loops[Top].erase /\ loops[Top].taken # {}

Init ==
    /\ queue = <<>>
    /\ loops = <<>>
    /\ submitted = {}
    /\ called = {}
    /\ now = 0

\* submit(): append, then tick().  The caller is the owner, or a handler
\* that the innermost loop has called.
Submit(r, timeout) ==
    /\ Top = 0 \/ InHandler
    /\ r \notin submitted
    /\ Len(queue) < Capacity
    /\ submitted' = submitted \cup {r}
    /\ queue' = Append(queue, [handlers |-> {r}, deadline |-> now + timeout])
    /\ loops' = Append(loops, Start)
    /\ UNCHANGED <<called, now>>

\* tick(), called by the owner.
Tick ==
    /\ Top = 0
    /\ loops' = <<Start>>
    /\ UNCHANGED <<queue, submitted, called, now>>

\* One iteration: end of the loop, an entry that is not due, or an entry
\* whose handlers complete() moves out and calls.
Iterate ==
    /\ Top > 0
    /\ ~loops[Top].erase
    /\ LET it == loops[Top].it IN
       \/ /\ it > Len(queue)
          /\ loops' = Front(loops)
          /\ UNCHANGED <<queue, called>>
       \/ /\ it <= Len(queue)
          /\ queue[it].deadline > now
          /\ loops' = [loops EXCEPT ![Top].it = @ + 1]
          /\ UNCHANGED <<queue, called>>
       \/ /\ it <= Len(queue)
          /\ queue[it].deadline <= now
          /\ called' = called \cup queue[it].handlers
          /\ queue' = [queue EXCEPT ![it].handlers = {}]
          /\ loops' = [loops EXCEPT ![Top].erase = TRUE,
                                 ![Top].taken = queue[it].handlers]
    /\ UNCHANGED <<submitted, now>>

\* The handlers have returned: queue_.erase(it), whatever `it` now is.
Erase ==
    /\ Top > 0
    /\ loops[Top].erase
    /\ loops[Top].it <= Len(queue)
    /\ queue' = RemoveAt(queue, loops[Top].it)
    /\ loops' = [loops EXCEPT ![Top].erase = FALSE]
    /\ UNCHANGED <<submitted, called, now>>

\* The clock; one call of tick() sees one time.
Advance ==
    /\ Top = 0
    /\ now < MaxTime
    /\ now' = now + 1
    /\ UNCHANGED <<queue, loops, submitted, called>>

Next ==
    \/ \E r \in Requests, timeout \in Timeouts : Submit(r, timeout)
    \/ Tick
    \/ Iterate
    \/ Erase
    \/ Advance

Spec == Init /\ [][Next]_vars

-----------------------------------------------------------------------------
\* submit(): "The handler is ALWAYS called exactly once".  A submitted
\* request that was not called is still held by an entry.
HeldOrCalled ==
    \A r \in submitted \ called :
        \E i \in DOMAIN queue : r \in queue[i].handlers
=============================================================================
