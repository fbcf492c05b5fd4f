----------------------------- MODULE Transport ------------------------------
(***************************************************************************)
(* WssTransport (src/transport/wss_transport.cpp): one attempt to connect, *)
(* the phases it goes through, the connection it may become, and the send  *)
(* queue.                                                                  *)
(*                                                                         *)
(* All of it runs on one IO thread; an action is one handler or one call   *)
(* of the owner, run to its end.  What makes it hard is that an operation  *)
(* of Asio that has succeeded has queued its handler: closing the socket   *)
(* does not recall it.  So async[op] is "started" while op can still fail, *)
(* and "succeeded" once its handler is queued with a success.  Queued      *)
(* handlers run in any order, which includes the order of the queue.       *)
(*                                                                         *)
(* A definition marked "Fault" is what the one below it would be with a    *)
(* plausible mistake in the code; it is not part of the model.             *)
(***************************************************************************)
EXTENDS Integers, Sequences, SequencesExt

CONSTANTS
    Frames,         \* frames the owner sends, each with a completion
    Oversized,      \* those longer than kMaxTxFrameSize
    MaxTxQueue      \* kMaxTxQueue

ASSUME TransportAssumption ==
    /\ Oversized \subseteq Frames
    /\ MaxTxQueue \in Nat \ {0}

VARIABLES
    phase,              \* phase_
    user_close,         \* user_close_
    socket,             \* is the socket of the lowest layer open?
    async,              \* async[op]: the operations in progress, see above
    open_completion,    \* is open_completion_ set?
    close_handler,      \* is close_handler_ set?
    tx_queue,           \* tx_queue_
    write_active,       \* write_active_
    sent,               \* sent[f]: what the completion of f was told
    answer,             \* what open_completion_ was told
    closes,             \* how often close_handler_ was called
    crashed             \* has undefined behaviour ended the process?

vars == <<phase, user_close, socket, async, open_completion, close_handler,
          tx_queue, write_active, sent, answer, closes, crashed>>
dial == <<answer, open_completion, close_handler, closes>>
sending == <<tx_queue, write_active, sent>>

Phases == {"Idle", "Resolving", "Connecting", "TlsHandshake", "WsHandshake",
           "Open", "Closing", "Closed"}
Operations == {"resolve", "connect", "tls", "ws", "read", "write", "close"}

Init ==
    /\ phase = "Idle"
    /\ user_close = FALSE
    /\ socket = FALSE
    /\ async = [op \in Operations |-> "none"]
    /\ open_completion = FALSE
    /\ close_handler = FALSE
    /\ tx_queue = <<>>
    /\ write_active = FALSE
    /\ sent = [f \in Frames |-> "idle"]
    /\ answer = "none"
    /\ closes = 0
    /\ crashed = FALSE

-----------------------------------------------------------------------------
(* Helpers of the handlers.                                                *)

\* op ends and the operations in `new` start.  A stream has room for one
\* operation of each kind.
Then(op, new) ==
    async' = [o \in Operations |->
                 IF o \notin new THEN IF o = op THEN "none" ELSE async[o]
                 ELSE IF o = op \/ async[o] = "none" THEN "started" ELSE "overlap"]

None == "none"

\* A handler runs with the error of op, or with its success.
Fails(op) == ~crashed /\ async[op] = "started"
Succeeds(op) == ~crashed /\ async[op] = "succeeded"

\* The early return of finish().
Finished == phase = "Closed"

\* Fault: finish() looks at the phase after it has set it.
WasIdle == phase = "Closed"

\* finish(): had the connection been handed over?
WasOpen == phase \in {"Open", "Closing"}

\* Fault: the queue is emptied without a word.
LeftWaiting(frames) == sent

\* "Everything still in the send queue gets the same error."
Told(frames) ==
    [f \in Frames |-> IF f \in ToSet(frames) THEN "error" ELSE sent[f]]

\* Fault: the completion that was called is kept.
KeepsCompletion == open_completion

\* std::exchange(open_completion_, nullptr)
TakenCompletion == FALSE

\* finish(): the socket is closed, the frames fail, then the attempt fails
\* or the connection ends, never both.
Finish ==
    \/ /\ Finished
       /\ UNCHANGED <<phase, socket, dial, tx_queue, sent>>
    \/ /\ ~Finished
       /\ phase' = "Closed"
       /\ socket' = FALSE
       /\ tx_queue' = <<>>
       /\ sent' = Told(tx_queue)
       /\ open_completion' = TakenCompletion
       /\ answer' = IF open_completion THEN "error" ELSE answer
       /\ LET ends == ~open_completion /\ WasOpen /\ close_handler IN
              /\ closes' = IF ends THEN closes + 1 ELSE closes
              /\ close_handler' = (close_handler /\ ~ends)

\* A handler that only calls finish().
FinishAfter(op) ==
    /\ Finish
    /\ Then(op, {})
    /\ UNCHANGED <<user_close, write_active, crashed>>

-----------------------------------------------------------------------------
(* The calls of the owner.                                                 *)

\* async_open() on a fresh transport.
AsyncOpen ==
    /\ ~crashed
    /\ phase = "Idle"
    /\ phase' = "Resolving"
    /\ open_completion' = TRUE
    /\ answer' = "waiting"
    /\ Then(None, {"resolve"})
    /\ UNCHANGED <<user_close, socket, close_handler, closes, sending, crashed>>

\* The early return of cancel() and close().
AlreadyClosing == phase \in {"Closed", "Closing"}

\* cancel().  The resolver and its timer are cancelled, which fails what
\* has not succeeded yet.
Cancel ==
    /\ ~crashed
    /\ ~AlreadyClosing
    /\ user_close' = TRUE
    /\ Finish
    /\ UNCHANGED <<async, write_active, crashed>>

\* close().
Close ==
    /\ ~crashed
    /\ ~AlreadyClosing
    /\ user_close' = TRUE
    /\ \/ /\ phase # "Open"
          /\ Finish
          /\ UNCHANGED async
       \/ /\ phase = "Open"
          /\ phase' = "Closing"
          /\ Then(None, {"close"})
          /\ UNCHANGED <<socket, dial, tx_queue, sent>>
    /\ UNCHANGED <<write_active, crashed>>

\* "transport send queue is full"
QueueFull == Len(tx_queue) >= MaxTxQueue

\* Fault: every frame starts a write.
NeverActive == FALSE

\* if (!write_active_) begin_write();
WriteActive == write_active

\* async_send().  Only an owner that was given the connection has it.
AsyncSend(f) ==
    /\ ~crashed
    /\ answer = "ok"
    /\ sent[f] = "idle"
    /\ \/ /\ phase # "Open" \/ f \in Oversized \/ QueueFull
          /\ sent' = [sent EXCEPT ![f] = "error"]
          /\ UNCHANGED <<tx_queue, write_active, async>>
       \/ /\ phase = "Open" /\ f \notin Oversized /\ ~QueueFull
          /\ sent' = [sent EXCEPT ![f] = "waiting"]
          /\ tx_queue' = Append(tx_queue, f)
          /\ write_active' = TRUE
          /\ IF WriteActive THEN UNCHANGED async ELSE Then(None, {"write"})
    /\ UNCHANGED <<phase, user_close, socket, dial, crashed>>

-----------------------------------------------------------------------------
(* The handlers of the operations.                                         *)

\* The network: an operation succeeds while it is not aborted.  A resolver
\* needs no socket, the others do.
Succeed(op) ==
    /\ ~crashed
    /\ async[op] = "started"
    /\ IF op = "resolve" THEN phase = "Resolving" ELSE socket
    /\ async' = [async EXCEPT ![op] = "succeeded"]
    /\ UNCHANGED <<phase, user_close, socket, dial, sending, crashed>>

\* on_resolve(), on_connect(), on_tls_handshake(), on_ws_handshake() and
\* on_close() with an error; on_close() also without one.
SetupFails ==
    \E op \in {"resolve", "connect", "tls", "ws"} : Fails(op) /\ FinishAfter(op)

OnClose ==
    /\ Fails("close") \/ Succeeds("close")
    /\ FinishAfter("close")

\* One step of the setup succeeded: the next phase begins, whatever the
\* phase was.
Proceed(op, next, started) ==
    /\ Succeeds(op)
    /\ phase' = next
    /\ Then(op, {started})
    /\ UNCHANGED <<user_close, dial, sending, crashed>>

\* async_connect() opens the socket again.
OnResolve == Proceed("resolve", "Connecting", "connect") /\ socket' = TRUE

OnConnect == Proceed("connect", "TlsHandshake", "tls") /\ UNCHANGED socket

OnTlsHandshake == Proceed("tls", "WsHandshake", "ws") /\ UNCHANGED socket

\* The completion, if it is still there, gets the connection and sets the
\* handlers of the owner.
OnWsHandshake ==
    /\ Succeeds("ws")
    /\ phase' = "Open"
    /\ open_completion' = TakenCompletion
    /\ answer' = IF open_completion THEN "ok" ELSE answer
    /\ close_handler' = (close_handler \/ open_completion)
    /\ Then("ws", {"read"})
    /\ UNCHANGED <<user_close, socket, closes, sending, crashed>>

\* A frame was read; in the end the next read starts if still open.
OnRead ==
    /\ Succeeds("read")
    /\ Then("read", IF phase = "Open" THEN {"read"} ELSE {})
    /\ UNCHANGED <<phase, user_close, socket, dial, sending, crashed>>

\* The peer has closed the connection.
OnPeerClosed ==
    /\ Fails("read")
    /\ socket
    /\ FinishAfter("read")

\* "our own close() is in progress"
OwnClose == user_close

OnReadError ==
    /\ Fails("read")
    /\ \/ /\ OwnClose
          /\ Then("read", {})
          /\ UNCHANGED <<phase, user_close, socket, dial, sending, crashed>>
       \/ /\ ~OwnClose
          /\ FinishAfter("read")

\* tx_queue_.pop_front()
PopFront(queue) == IF queue = <<>> THEN queue ELSE Tail(queue)

\* on_write() with an error: the frame in front fails, and the rest of the
\* queue with the connection, unless our own close() is in progress.
OnWriteError ==
    /\ Fails("write")
    /\ write_active' = FALSE
    /\ Then("write", {})
    /\ \/ /\ OwnClose \/ Finished
          /\ sent' = Told(IF tx_queue = <<>> THEN <<>> ELSE <<Head(tx_queue)>>)
          /\ tx_queue' = PopFront(tx_queue)
          /\ UNCHANGED <<phase, socket, dial>>
       \/ /\ ~OwnClose /\ ~Finished
          /\ Finish
    /\ UNCHANGED <<user_close, crashed>>

\* Is there a next frame to write?
Another(queue) == queue # <<>> /\ phase = "Open"

\* on_write(): the frame in front was sent, the next one is written.
OnWrite ==
    /\ Succeeds("write")
    /\ tx_queue # <<>>
    /\ sent' = [sent EXCEPT ![Head(tx_queue)] = "ok"]
    /\ tx_queue' = PopFront(tx_queue)
    /\ write_active' = Another(Tail(tx_queue))
    /\ Then("write", IF Another(Tail(tx_queue)) THEN {"write"} ELSE {})
    /\ UNCHANGED <<phase, user_close, socket, dial, crashed>>

\* on_write() after finish() has emptied the queue: front() of an empty
\* deque is undefined.  What it reads is fresh memory of the heap: a process
\* that survives it has called nothing.
OnWriteUndefined ==
    /\ Succeeds("write")
    /\ tx_queue = <<>>
    /\ write_active' = FALSE
    /\ Then("write", {})
    /\ crashed' \in BOOLEAN
    /\ UNCHANGED <<phase, user_close, socket, dial, tx_queue, sent>>

Next ==
    \/ AsyncOpen
    \/ Cancel
    \/ Close
    \/ \E f \in Frames : AsyncSend(f)
    \/ \E op \in Operations : Succeed(op)
    \/ SetupFails
    \/ OnResolve
    \/ OnConnect
    \/ OnTlsHandshake
    \/ OnWsHandshake
    \/ OnRead
    \/ OnPeerClosed
    \/ OnReadError
    \/ OnWrite
    \/ OnWriteError
    \/ OnWriteUndefined
    \/ OnClose

Spec == Init /\ [][Next]_vars

\* A step of the setup, and a close(), end: the resolver has a timer of its
\* own, the socket one for connecting and for TLS, and Beast one for the
\* WebSocket handshake and for closing.  Nothing is assumed of reading and
\* writing on an open connection, where a peer may be silent for ever.
FairSpec ==
    /\ Spec
    /\ WF_vars(SetupFails)
    /\ WF_vars(OnResolve)
    /\ WF_vars(OnConnect)
    /\ WF_vars(OnTlsHandshake)
    /\ WF_vars(OnWsHandshake)
    /\ WF_vars(OnClose)

-----------------------------------------------------------------------------
(* Properties.                                                             *)

\* The types of the transport's state; the send queue keeps its limit.
TypeOK ==
    /\ phase \in Phases
    /\ user_close \in BOOLEAN
    /\ socket \in BOOLEAN
    /\ async \in [Operations -> {"none", "started", "succeeded", "overlap"}]
    /\ open_completion \in BOOLEAN
    /\ close_handler \in BOOLEAN
    /\ tx_queue \in Seq(Frames)
    /\ Len(tx_queue) <= MaxTxQueue
    /\ write_active \in BOOLEAN
    /\ sent \in [Frames -> {"idle", "waiting", "ok", "error"}]
    /\ answer \in {"none", "waiting", "ok", "error"}
    /\ closes \in Nat
    /\ crashed \in BOOLEAN

\* A frame whose completion was not called is in the send queue, and one in
\* the queue is there once and was not completed: whatever ends the
\* connection, at whatever point of a write, no frame is forgotten and none
\* is completed twice (async_send(), on_write(), finish()).
HeldIffWaiting ==
    /\ \A f \in Frames : (sent[f] = "waiting") <=> (f \in ToSet(tx_queue))
    /\ IsInjective(tx_queue)

\* Beast and Asio allow one operation of each kind at a time: neither two
\* reads nor two writes are ever in progress, also not on a transport that
\* was cancelled and whose setup goes on.
NoOverlap == \A op \in Operations : async[op] # "overlap"

\* Until finish() has emptied the queue, on_write() finds a frame at its front.
WritesWhatIsQueued ==
    (async["write"] # "none" /\ phase # "Closed") => tx_queue # <<>>

\* The send queue is what the transport owes: whatever ends the connection,
\* at whatever point of a write, each frame is completed once, the queue is
\* not empty while one is written, and it keeps its limit.
QueueSound ==
    /\ TypeOK
    /\ HeldIffWaiting
    /\ WritesWhatIsQueued

\* text_transport.hpp: the answer to async_open() comes once, the close
\* handler is called "Exactly ONCE per opened transport", never both
\* (finish()).
Promise ==
    IF closes = 0 THEN
        CASE answer = "none" -> "idle"
          [] answer = "waiting" -> "dialing"
          [] answer = "ok" -> "open"
          [] OTHER -> "failed"
    ELSE IF closes = 1 /\ answer = "ok" THEN "ended" ELSE "broken"
C == INSTANCE Connection WITH promise <- Promise
KeepsPromise == C!Spec

\* An attempt is always answered, although the peer owes nothing, whether
\* or not it is cancelled on its way (async_open(), finish()).
AttemptAnswered == (answer = "waiting") ~> (answer # "waiting")

\* A connection that is told to close ends with a call of the close handler,
\* also when the peer or a write ends it first (close(), on_close()).
CloseEnds == (answer = "ok" /\ phase = "Closing") ~> (closes = 1)

\* The owner of the transport hears of the end of what it has asked for.
OwnerAnswered == AttemptAnswered /\ CloseEnds
=============================================================================
