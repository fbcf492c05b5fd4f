----------------------------- MODULE Dispatcher -----------------------------
(***************************************************************************)
(* RequestDispatcher (src/protocol/dispatcher.cpp): the queue of requests  *)
(* waiting for the rate budget, the map of requests open at the device,    *)
(* one deadline per request, coalescing, strict priorities and a token     *)
(* bucket below the firmware's frame limit.                                *)
(*                                                                         *)
(* Every action is one call of a public operation, run to its end on the   *)
(* client's strand.  A handler that is called returns without calling the  *)
(* dispatcher again: the Client's handlers post their follow-up requests   *)
(* (client.cpp).  Handlers that submit from within are the subject of      *)
(* DispatcherReentry.                                                      *)
(*                                                                         *)
(* Time is a natural number that the caller passes in as `now`.  Tokens    *)
(* are counted in fractions of a request: Cost of them pay for one frame,  *)
(* Rate of them come back per unit of time.  A request is identified with  *)
(* its handler.  queue_ is a vector in order of `sequence`, so it is a set *)
(* of entries here.                                                        *)
(***************************************************************************)
EXTENDS Integers, FiniteSets

CONSTANTS
    Requests,       \* one element per call of submit(), and its handler
    Priorities,     \* OperationPriority: the smaller, the more urgent
    Keys,           \* non-empty coalesce keys
    NoKey,          \* the empty coalesce key
    Timeouts,       \* Timeouts[r]: RequestSpec::timeout of r, or the default
    Burst,          \* RateBudget::burst, in token fractions
    Rate,           \* token fractions that come back per unit of time
    Cost,           \* token fractions of one frame (the code's 1.0)
    MaxInFlight,    \* RateBudget::max_in_flight
    MaxTime         \* bound of the model: the clock stops here

ASSUME DispatcherAssumption ==
    /\ IsFiniteSet(Requests)
    /\ Priorities \subseteq Nat
    /\ \A r \in Requests : Timeouts[r] \subseteq Nat
    /\ Burst \in Nat
    /\ Rate \in Nat
    /\ Cost \in Nat \ {0}
    /\ MaxInFlight \in Nat
    /\ MaxTime \in Nat

VARIABLES
    queue,              \* queue_: set of entries not yet sent
    pending,            \* pending_: msg_id -> entry waiting for its response
    sequence,           \* sequence_: entries created so far
    tokens,             \* tokens_, in fractions
    last_refill,        \* last_refill_
    refill_initialised, \* refill_initialised_
    sending_enabled,    \* sending_enabled_: the session is Running
    metrics,            \* metrics_, without the count of deferrals
    msg_seq,            \* ControllerSession::msg_seq_, the source of msg_ids
    wire,               \* frames the device has received and not answered
    now,                \* the clock
    due,                \* due[r]: the deadline promised to r, Unset before
    calls,              \* calls[r]: how often the handler of r was called
    outcome             \* outcome[r]: what its last call was told

bucket == <<tokens, last_refill, refill_initialised>>
vars == <<queue, pending, sequence, bucket, sending_enabled, metrics,
          msg_seq, wire, now, due, calls, outcome>>

Unset == -1
Submitted(r) == due[r] # Unset

Outcomes == {"none", "response", "unexpected_type", "timeout", "send_failed",
             "disconnected"}

\* RequestDispatcher::Waiting.  An open request (Pending) keeps the whole
\* entry; the code keeps its type, handlers and deadline.
Entry == [handlers : SUBSET Requests, key : Keys \cup {NoKey},
          priority : Priorities, deadline : Nat, sequence : Nat]

Metrics == [submitted : Nat, coalesced : Nat, sent : Nat, completed : Nat,
            timeouts : Nat, send_failures : Nat, unexpected_responses : Nat,
            disconnect_failures : Nat]

Open == DOMAIN pending
OpenEntries == {pending[id] : id \in Open}
HandlersOf(entries) == UNION {e.handlers : e \in entries}

Init ==
    /\ queue = {}
    /\ pending = [id \in {} |-> 0]
    /\ sequence = 0
    /\ tokens = Burst
    /\ last_refill = 0
    /\ refill_initialised = FALSE
    /\ sending_enabled = FALSE
    /\ metrics = [submitted |-> 0, coalesced |-> 0, sent |-> 0,
                  completed |-> 0, timeouts |-> 0, send_failures |-> 0,
                  unexpected_responses |-> 0, disconnect_failures |-> 0]
    /\ msg_seq = 0
    /\ wire = {}
    /\ now = 0
    /\ due = [r \in Requests |-> Unset]
    /\ calls = [r \in Requests |-> 0]
    /\ outcome = [r \in Requests |-> "none"]

-----------------------------------------------------------------------------
(* Helpers of the operations.                                              *)

\* complete(): every handler of a finished entry is called with the result.
Complete(byTimeout, byError, error) ==
    /\ calls' = [r \in Requests |->
                    calls[r] + (IF r \in byTimeout THEN 1 ELSE 0)
                             + (IF r \in byError THEN 1 ELSE 0)]
    /\ outcome' = [r \in Requests |-> IF r \in byError THEN error
                                      ELSE IF r \in byTimeout THEN "timeout"
                                      ELSE outcome[r]]

RefilledUncapped == tokens + Rate * (now - last_refill)

\* refill(): the first call only starts the clock of the bucket.
Refilled ==
    IF ~refill_initialised THEN tokens
    ELSE IF RefilledUncapped > Burst THEN Burst ELSE RefilledUncapped

\* Fault: a request due now waits for the next tick.
ExpiredStrictly(deadline) == deadline < now

\* The deadline test of both loops of tick().
Expired(deadline) == deadline <= now

\* Fault: last in, first out within a priority.
NewestFirst(a, b) == \/ a.priority < b.priority
                     \/ a.priority = b.priority /\ a.sequence > b.sequence

\* The comparison in drain(): strict priority, FIFO within one priority.
Before(a, b) == \/ a.priority < b.priority
                \/ a.priority = b.priority /\ a.sequence < b.sequence

\* The loop condition of drain() and its token test, after n frames.
MaySend(open, credit, n) == open + n < MaxInFlight /\ credit - Cost * n >= Cost

\* What is left of the bucket after n frames; a failed send costs nothing.
Spend(credit, n) == credit - Cost * n

\* The loop of drain(): it takes the entries of q in the order of Before,
\* sends some and sees the send of others fail, and stops when q is empty,
\* no slot is free or no token is left.
Drain(q, open, credit, sent, failed) ==
    IF ~sending_enabled
    THEN sent = {} /\ failed = {}
    ELSE LET n == Cardinality(sent) IN
         /\ \A e \in sent \cup failed, f \in q :
                Before(f, e) => f \in sent \cup failed
         /\ sent # {} => MaySend(open, credit, n - 1)
         /\ MaySend(open, credit, n) => q = sent \cup failed
         /\ ~MaySend(open, credit, n) =>
                \A f \in failed : \E e \in sent : Before(f, e)

\* Fault: ids from the number of open requests.
MsgIdByLoad(taken, e) ==
    Cardinality(Open) + Cardinality({f \in taken : f = e \/ Before(f, e)})

\* next_msg_id() of the session, called once per entry that drain() takes.
\* (A request of an unknown type fails before it gets an id; ids are only
\* compared, so the gap it leaves here makes no difference.)
MsgId(taken, e) ==
    msg_seq + Cardinality({f \in taken : f = e \/ Before(f, e)})

\* pending_.emplace(): an id that is already in the map keeps its entry.
Emplace(open, taken, sent) ==
    [id \in DOMAIN open \cup {MsgId(taken, e) : e \in sent} |->
        IF id \in DOMAIN open THEN open[id]
        ELSE CHOOSE e \in sent : MsgId(taken, e) = id]

\* Fault: open requests have no deadline.
NoLateOpen == {}

\* Open requests that the second loop of tick() gives up.
LateOpen == {id \in Open : Expired(pending[id].deadline)}

\* Fault: an entry stays in the queue after it was sent.
Unsent(q, taken, sent) == q \ (taken \ sent)

\* What drain() leaves in the queue.
Rest(q, taken, sent) == q \ taken

\* Fault: the second loop does not count.
QueueTimeoutsOnly(late, lateOpen) == Cardinality(late)

\* metrics_.timeouts is raised by both loops of tick().
TimeoutCount(late, lateOpen) == Cardinality(late) + Cardinality(lateOpen)

\* tick(): refill, give up what is overdue in the queue and at the device,
\* then drain.  `q` and `m` are the queue and the metrics it starts from.
TickFrom(q, m) ==
    LET late  == {e \in q : Expired(e.deadline)}
        ready == q \ late
        open  == [id \in Open \ LateOpen |-> pending[id]]
    IN  \E sent \in SUBSET ready : \E failed \in SUBSET (ready \ sent) :
        LET taken == sent \cup failed IN
        /\ Drain(ready, Cardinality(DOMAIN open), Refilled, sent, failed)
        /\ queue' = Rest(ready, taken, sent)
        /\ pending' = Emplace(open, taken, sent)
        /\ wire' = wire \cup {[id |-> MsgId(taken, e), sequence |-> e.sequence] :
                              e \in sent}
        /\ msg_seq' = msg_seq + Cardinality(taken)
        /\ tokens' = Spend(Refilled, Cardinality(sent))
        /\ last_refill' = now
        /\ refill_initialised' = TRUE
        /\ metrics' = [m EXCEPT
              !.timeouts = @ + TimeoutCount(late, LateOpen),
              !.sent = @ + Cardinality(sent),
              !.send_failures = @ + Cardinality(failed)]
        /\ Complete(HandlersOf(late \cup {pending[id] : id \in LateOpen}),
                    HandlersOf(failed), "send_failed")

-----------------------------------------------------------------------------
(* The operations.                                                         *)

\* The waiting entry that submit() finds for a coalesce key: the first one.
CoalesceTarget(key) ==
    {e \in queue : /\ e.key = key /\ key # NoKey
                   /\ \A f \in queue : f.key = key => e.sequence <= f.sequence}

\* The deadline of an entry that a second request attaches to.
LaterDeadline(deadline, new) == IF new > deadline THEN new ELSE deadline

\* submit() of a request whose key is already waiting: it is attached to
\* that entry.  The function returns without a tick.
Attach(r, priority, key, timeout) ==
    \E e \in CoalesceTarget(key) :
        /\ queue' = (queue \ {e}) \cup
              {[e EXCEPT !.handlers = @ \cup {r},
                         !.priority = IF priority < @ THEN priority ELSE @,
                         !.deadline = LaterDeadline(@, now + timeout)]}
        /\ metrics' = [metrics EXCEPT !.submitted = @ + 1, !.coalesced = @ + 1]
        /\ UNCHANGED <<pending, sequence, bucket, msg_seq, wire, calls, outcome>>

\* submit() of any other request: a new entry, then tick().
Enqueue(r, priority, key, timeout) ==
    /\ CoalesceTarget(key) = {}
    /\ sequence' = sequence + 1
    /\ TickFrom(queue \cup {[handlers |-> {r}, key |-> key,
                             priority |-> priority, deadline |-> now + timeout,
                             sequence |-> sequence + 1]},
                [metrics EXCEPT !.submitted = @ + 1])

Submit(r, priority, key, timeout) ==
    /\ ~Submitted(r)
    /\ now + timeout <= MaxTime
    /\ due' = [due EXCEPT ![r] = now + timeout]
    /\ \/ Attach(r, priority, key, timeout)
       \/ Enqueue(r, priority, key, timeout)
    /\ UNCHANGED <<sending_enabled, now>>

\* tick(), called every 100 ms while the connection is up.
Tick ==
    /\ TickFrom(queue, metrics)
    /\ UNCHANGED <<sequence, sending_enabled, now, due>>

\* on_message() for a response whose request is open.
Answer(id, accepted) ==
    LET e == pending[id] IN
    /\ pending' = [i \in Open \ {id} |-> pending[i]]
    /\ Complete({}, e.handlers, IF accepted THEN "response" ELSE "unexpected_type")
    /\ metrics' = IF accepted
                  THEN [metrics EXCEPT !.completed = @ + 1]
                  ELSE [metrics EXCEPT !.unexpected_responses = @ + 1]

\* on_message(): a response the device sends to a frame it has received.
\* `accepted` says whether its type is one the request admits
\* (MessageMeta::accepts_response).  A straggler is consumed without effect,
\* and a response does not start another drain.
OnMessage(m, accepted) ==
    /\ m \in wire
    /\ wire' = wire \ {m}
    /\ \/ m.id \in Open /\ Answer(m.id, accepted)
       \/ m.id \notin Open /\ UNCHANGED <<pending, metrics, calls, outcome>>
    /\ UNCHANGED <<queue, sequence, bucket, sending_enabled, msg_seq, now, due>>

\* Fault: waiting requests are forgotten.
FailOpenOnly == OpenEntries

\* The entries that fail_all() takes out of both containers.
FailedEntries == OpenEntries \cup queue

\* ControllerSession::on_transport_closed() and abort(): no more sending,
\* then fail_all().  Frames on the lost connection are never answered.
FailAll ==
    /\ sending_enabled' = FALSE
    /\ queue' = {}
    /\ pending' = [id \in {} |-> 0]
    /\ wire' = {}
    /\ metrics' = [metrics EXCEPT !.disconnect_failures =
                       @ + Cardinality(Open) + Cardinality(queue)]
    /\ Complete({}, HandlersOf(FailedEntries), "disconnected")
    /\ UNCHANGED <<sequence, bucket, msg_seq, now, due>>

\* The session of a new connection reaches Running.  on_transport_open()
\* has restarted the msg_ids; nothing was sent since.
EnterRunning ==
    /\ ~sending_enabled
    /\ sending_enabled' = TRUE
    /\ msg_seq' = 0
    /\ UNCHANGED <<queue, pending, sequence, bucket, metrics, wire, now, due,
                   calls, outcome>>

\* The clock.
Advance ==
    /\ now < MaxTime
    /\ now' = now + 1
    /\ UNCHANGED <<queue, pending, sequence, bucket, sending_enabled, metrics,
                   msg_seq, wire, due, calls, outcome>>

Next ==
    \/ \E r \in Requests, priority \in Priorities, key \in Keys \cup {NoKey} :
          \E timeout \in Timeouts[r] : Submit(r, priority, key, timeout)
    \/ Tick
    \/ \E m \in wire, accepted \in BOOLEAN : OnMessage(m, accepted)
    \/ FailAll
    \/ EnterRunning
    \/ Advance

Spec == Init /\ [][Next]_vars

\* The clock runs and the owner keeps calling tick(); the device owes no
\* answer and the connection no stability.
FairSpec == Spec /\ WF_vars(Advance) /\ WF_vars(Tick)

-----------------------------------------------------------------------------
(* Properties.                                                             *)

\* The types of the dispatcher's state; the bucket never holds more than
\* the burst (refill()) and never goes below zero (drain()), and it is never
\* ahead of the clock.
TypeOK ==
    /\ queue \in SUBSET Entry
    /\ IsFiniteSet(queue)
    /\ Open \in SUBSET Nat
    /\ IsFiniteSet(Open)
    /\ \A id \in Open : pending[id] \in Entry
    /\ sequence \in Nat
    /\ tokens \in 0..Burst
    /\ last_refill \in 0..now
    /\ refill_initialised \in BOOLEAN
    /\ sending_enabled \in BOOLEAN
    /\ metrics \in Metrics
    /\ msg_seq \in Nat
    /\ wire \in SUBSET [id : Nat, sequence : Nat]
    /\ now \in 0..MaxTime
    /\ due \in [Requests -> Nat \cup {Unset}]
    /\ calls \in [Requests -> Nat]
    /\ outcome \in [Requests -> Outcomes]

\* How many entries, waiting and open, hold the handler of r.
Holders(r) == {e \in queue : r \in e.handlers}
OpenHolders(r) == {id \in Open : r \in pending[id].handlers}

\* submit(): "The handler is ALWAYS called exactly once".  At any moment the
\* handler of a submitted request has been called once and is held nowhere,
\* or has not been called and is held by exactly one entry, waiting or open.
\* So it is neither lost nor owed a second call.
HeldOrCalled ==
    \A r \in Requests :
        calls[r] + Cardinality(Holders(r)) + Cardinality(OpenHolders(r))
            = IF Submitted(r) THEN 1 ELSE 0

\* The same without counting, and what makes it inductive: a msg_id in the
\* map was issued on this connection, the map is empty when the ids start
\* over, and waiting entries have distinct sequence numbers.
HeldNowhere(r) ==
    /\ \A e \in queue : r \notin e.handlers
    /\ \A id \in Open : r \notin pending[id].handlers

HeldInQueue(r) ==
    /\ \E e \in queue : \A f \in queue : r \in f.handlers <=> f = e
    /\ \A id \in Open : r \notin pending[id].handlers

HeldOpen(r) ==
    /\ \A e \in queue : r \notin e.handlers
    /\ \E id \in Open : \A i \in Open : r \in pending[i].handlers <=> i = id

OnceEach ==
    \A r \in Requests :
        \/ ~Submitted(r) /\ calls[r] = 0 /\ HeldNowhere(r)
        \/ Submitted(r) /\ calls[r] = 1 /\ HeldNowhere(r)
        \/ Submitted(r) /\ calls[r] = 0 /\ HeldInQueue(r)
        \/ Submitted(r) /\ calls[r] = 0 /\ HeldOpen(r)

IdsIssued == \A id \in Open : id <= msg_seq

NothingOpenWhileClosed == sending_enabled \/ Open = {}

SequencesIssued ==
    /\ \A e \in queue : e.sequence <= sequence
    /\ \A e, f \in queue : e.sequence = f.sequence => e = f

IInv ==
    /\ TypeOK
    /\ OnceEach
    /\ IdsIssued
    /\ NothingOpenWhileClosed
    /\ SequencesIssued

\* drain() never exceeds RateBudget::max_in_flight.
InFlightBound == Cardinality(Open) <= MaxInFlight

\* The token bucket: what was sent since the session was created fits in
\* one burst plus the refill of the time that has passed.
RateBound == Cost * metrics.sent + tokens <= Burst + Rate * now

\* Every entry that submit() created is accounted for once: it waits, is
\* open, or was counted by exactly one of the five ways to end.
MetricsBalance ==
    metrics.submitted - metrics.coalesced =
        Cardinality(queue) + Cardinality(Open) + metrics.completed
        + metrics.timeouts + metrics.send_failures
        + metrics.unexpected_responses + metrics.disconnect_failures

\* After a tick nothing is left in either container that none of its callers
\* would still wait for: whoever is held although its own time is up shares
\* its entry with a caller whose time is not.
NoneOverdue ==
    refill_initialised =>
        \A e \in queue \cup OpenEntries : \E r \in e.handlers : due[r] > last_refill

\* Coalescing: no two waiting entries have the same non-empty key.
OneEntryPerKey ==
    \A e, f \in queue : e.key = f.key /\ e.key # NoKey => e = f

\* The dispatcher keeps its books: through every mixture of submissions,
\* responses, timeouts, send failures and disconnects the window, the token
\* bucket, the counters of metrics() and the keys of the queue agree
\* with what was really sent, is open, waits or has ended.
BooksBalance ==
    /\ TypeOK
    /\ InFlightBound
    /\ RateBound
    /\ MetricsBalance
    /\ OneEntryPerKey

\* A response can only reach the request it answers, although msg_ids start
\* over with every connection and stragglers arrive after a timeout.
ResponseMeetsItsRequest ==
    \A m \in wire : m.id \in Open => pending[m.id].sequence = m.sequence

\* What makes the books, the answers and the deadlines inductive: the bucket
\* is paid up to its last refill, a frame on the wire has an id issued on
\* this connection, the deadline of an entry is the latest of those promised
\* to its requests, and after a tick it is ahead.
BucketPaid == Cost * metrics.sent + tokens <= Burst + Rate * last_refill

WireIssued ==
    /\ \A m \in wire : m.id <= msg_seq
    /\ sending_enabled \/ wire = {}

DueCovered ==
    /\ \A e \in queue : \A r \in e.handlers : due[r] <= e.deadline
    /\ \A id \in Open : \A r \in pending[id].handlers :
          due[r] <= pending[id].deadline

DeadlineOwed ==
    /\ \A e \in queue : \E r \in e.handlers : due[r] = e.deadline
    /\ \A id \in Open : \E r \in pending[id].handlers :
          due[r] = pending[id].deadline

DeadlinesAhead ==
    refill_initialised =>
        \A e \in queue \cup OpenEntries : e.deadline > last_refill

LInv ==
    /\ InFlightBound
    /\ BucketPaid
    /\ MetricsBalance
    /\ OneEntryPerKey
    /\ WireIssued
    /\ ResponseMeetsItsRequest
    /\ DeadlinesAhead
    /\ DueCovered
    /\ DeadlineOwed

\* A request is never given up before the time its caller granted, also when
\* it shares an entry with more patient or less patient ones.
NoEarlyTimeout ==
    \A r \in Requests :
        outcome'[r] = "timeout" /\ outcome[r] # "timeout" => due'[r] <= now

\* Timeouts are exact, as far as coalescing lets them be: no request is given
\* up before its own time is up, and no tick leaves an entry behind when the
\* time of all its callers is up.  A request that waits alone thus ends with
\* the first tick after its time; one that shares its entry may wait for as
\* long as the most patient of the callers asked, and so beyond the "total
\* budget from submit()" of RequestSpec (dispatcher.cpp:68, tick()).
TimeoutsExact == [][NoneOverdue' /\ NoEarlyTimeout]_vars

\* An entry is not sent while one that comes before it stays in the queue.
UrgentOrder ==
    \A id \in DOMAIN pending' \ Open : \A e \in queue' :
        \/ pending'[id].priority < e.priority
        \/ /\ pending'[id].priority = e.priority
           /\ pending'[id].sequence < e.sequence

\* drain() sends in strict priority order and FIFO within a priority, in
\* whatever order the requests were submitted and however few it may send.
UrgentFirst == [][UrgentOrder]_vars

\* The handlers as CallOnce sees them.
status == [r \in Requests |-> IF ~Submitted(r) THEN "idle"
                              ELSE IF calls[r] = 0 THEN "waiting"
                              ELSE IF calls[r] = 1 THEN "called"
                              ELSE "called again"]

Promise == INSTANCE CallOnce

\* The dispatcher implements CallOnce: each of its steps accepts at most one
\* request and calls handlers of accepted requests that were not called yet.
CallsOnce == Promise!Spec

\* The handler of every submitted request is called eventually: its deadline
\* passes even when the device never answers and the rate budget is spent.
EveryHandlerCalled == Promise!Called
=============================================================================
