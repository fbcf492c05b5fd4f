------------------------------- MODULE Client -------------------------------
(***************************************************************************)
(* Client::Impl (src/client.cpp): the connection life cycle behind         *)
(* connect(), disconnect() and the automatic reconnect, the fate of the    *)
(* requests that callers hand to the session meanwhile, and the lock on    *)
(* SecurityConfiguration (src/security.cpp).                               *)
(*                                                                         *)
(* Everything runs on one IO thread; an action is one handler run to its   *)
(* end.  The calls of other threads are posted to that thread.  A call has *)
(* no effect before its handler runs, so posting and running it is one     *)
(* action here.  The session and its dispatcher are reduced to what the    *)
(* client sees of them: the phase of the handshake, and for each request   *)
(* whether its handler was called.                                         *)
(*                                                                         *)
(* The transport (src/transport/wss_transport.cpp) is used as              *)
(* text_transport.hpp promises: an attempt ends with one completion, a     *)
(* cancelled one with its completion called within cancel(), and an open   *)
(* connection with one call of the close handler.                          *)
(*                                                                         *)
(* A definition marked "Fault" is what the one below it would be with a    *)
(* plausible mistake in the code; it is not part of the model.             *)
(***************************************************************************)
EXTENDS Integers, FiniteSets

CONSTANTS
    Callers,            \* threads and callbacks that call connect(), disconnect()
    Requests,           \* requests submitted through the services
    Credentials,        \* TLS and HMAC parameters the application may set
    DeviceIds,          \* expected device ids the application may set
    ReconnectEnabled,   \* ReconnectPolicy::enabled
    InitialDelay,       \* ReconnectPolicy::initial_delay
    MaxDelay,           \* ReconnectPolicy::max_delay
    AuthDelay           \* ReconnectPolicy::authentication_delay

\* config.cpp refuses other delays.
ASSUME ClientAssumption ==
    /\ ReconnectEnabled \in BOOLEAN
    /\ InitialDelay \in Nat \ {0}
    /\ MaxDelay \in Nat
    /\ InitialDelay <= MaxDelay
    /\ AuthDelay \in Nat

VARIABLES
    state,                  \* state, as Client::state() shows it
    dialer,                 \* is an attempt in progress?
    transport,              \* the connection: none, open, or close() was called
    session,                \* no session, closed, in the handshake, running
    request,                \* request[r]: what became of r
    connect_completions,    \* callers whose connect() waits
    disconnect_waiters,     \* callers whose disconnect() waits
    result,                 \* result[c]: the answer to the last call of c
    reconnect_timer,        \* its delay while it is armed, Off otherwise
    reconnect_fired,        \* its handler is queued; cancel() is too late
    current_backoff,        \* current_backoff, 0 after Ready
    user_disconnect,        \* user_disconnect
    was_ready,              \* was_ready
    session_failure,        \* domain of the error the session gave up with
    locked,                 \* SecurityConfiguration::locked_
    configured,             \* what SecurityConfiguration holds
    session_config          \* what the current session was created with

reconnect == <<reconnect_timer, reconnect_fired, current_backoff>>
security == <<locked, configured>>
flags == <<user_disconnect, was_ready, session_failure>>
callers == <<connect_completions, disconnect_waiters, result>>
vars == <<state, dialer, transport, session, request, callers, reconnect,
          flags, security, session_config>>

Off == -1
States == {"Disconnected", "Resolving", "FountainHandshaking", "Ready",
           "Reconnecting"}
Configs == [credentials : Credentials, device_id : DeviceIds]

Init ==
    /\ state = "Disconnected"
    /\ dialer = FALSE
    /\ transport = "none"
    /\ session = "none"
    /\ request = [r \in Requests |-> "idle"]
    /\ connect_completions = {}
    /\ disconnect_waiters = {}
    /\ result = [c \in Callers |-> "none"]
    /\ reconnect_timer = Off
    /\ reconnect_fired = FALSE
    /\ current_backoff = 0
    /\ user_disconnect = FALSE
    /\ was_ready = FALSE
    /\ session_failure = "none"
    /\ locked = FALSE
    /\ configured \in Configs
    /\ session_config = configured

-----------------------------------------------------------------------------
(* Helpers of the handlers.                                                *)

\* The calls of the completions in a set, all with the same answer.
Answered(completions, answer) ==
    [c \in Callers |-> IF c \in completions THEN answer ELSE result[c]]

\* Fault: the session closes without fail_all().
KeptRequests == request

\* RequestDispatcher::fail_all(): no handler stays uncalled.
FailedRequests ==
    [r \in Requests |-> IF request[r] = "held" THEN "called" ELSE request[r]]

\* session.reset(): a destroyed dispatcher calls nobody.
DroppedRequests ==
    [r \in Requests |-> IF request[r] = "held" THEN "dropped" ELSE request[r]]

\* The backoff of handle_connection_lost(): doubled up to max_delay.
NextBackoff ==
    IF current_backoff = 0 THEN InitialDelay
    ELSE IF current_backoff * 2 > MaxDelay THEN MaxDelay ELSE current_backoff * 2

\* The tail of handle_connection_lost(): when to try again.  The jitter is at
\* most a quarter of the delay.
Schedule(cause) ==
    \/ /\ cause = "auth"
       /\ reconnect_timer' = AuthDelay
       /\ UNCHANGED current_backoff
    \/ /\ cause # "auth"
       /\ current_backoff' = NextBackoff
       /\ \E jitter \in 0..(NextBackoff \div 4) :
              reconnect_timer' = NextBackoff + jitter

\* handle_connection_lost() after request_disconnect(), which has cancelled
\* the timer.
LostByUser(waiters) ==
    /\ locked' = FALSE
    /\ state' = "Disconnected"
    /\ connect_completions' = {}
    /\ disconnect_waiters' = {}
    /\ result' = [c \in Callers |->
                     IF c \in connect_completions THEN "cancelled"
                     ELSE IF c \in waiters THEN "disconnected" ELSE result[c]]
    /\ reconnect_timer' = Off
    /\ UNCHANGED current_backoff

\* handle_connection_lost() otherwise: waiting connect() calls fail, and the
\* client tries again only if it was Ready once.
LostByAccident(cause) ==
    /\ connect_completions' = {}
    /\ result' = Answered(connect_completions, "error")
    /\ \/ /\ ~(was_ready /\ ReconnectEnabled)
          /\ locked' = FALSE
          /\ state' = "Disconnected"
          /\ UNCHANGED <<reconnect_timer, current_backoff>>
       \/ /\ was_ready /\ ReconnectEnabled
          /\ state' = "Reconnecting"
          /\ Schedule(cause)
          /\ UNCHANGED locked
    /\ UNCHANGED disconnect_waiters

ConnectionLost(cause) ==
    /\ \/ user_disconnect /\ LostByUser(disconnect_waiters)
       \/ ~user_disconnect /\ LostByAccident(cause)
    /\ UNCHANGED <<reconnect_fired, flags, configured, session_config>>

-----------------------------------------------------------------------------
(* begin_connect(), called by connect() and by the reconnect timer; `cs`   *)
(* holds the caller whose completion came with the call, if any.           *)

\* "already connected => answer immediately"
AlreadyConnected == state = "Ready"

\* Fault: a connect() during the handshake dials again.
RidesOnDial == state = "Resolving"
\* Fault: a connect() during the backoff waits for the timer.
RidesOnReconnect == state # "Disconnected"

\* "attempt in progress; completion rides on the same round"
AttemptInProgress == state \notin {"Disconnected", "Reconnecting"}

\* reconnect_timer.cancel()
Cancelled == Off

\* An attempt that fails before it starts dialing.
FailToStart(cs) ==
    /\ connect_completions' = {}
    /\ result' = Answered(connect_completions \cup cs, "error")
    /\ UNCHANGED <<state, dialer>>

\* security.validate() fails: a file is not readable.
Invalid(cs) ==
    /\ FailToStart(cs)
    /\ UNCHANGED <<session, request, flags, locked, session_config>>

\* The configuration is locked and the old session replaced; then
\* make_ssl_context() may fail (it reads the files again and compares key
\* and certificate), or the dialer starts.
Start(cs) ==
    /\ locked' = TRUE
    /\ user_disconnect' = FALSE
    /\ session_failure' = "none"
    /\ request' = DroppedRequests
    /\ \/ /\ FailToStart(cs)
          /\ session' = "none"
          /\ UNCHANGED session_config
       \/ /\ session' = "closed"
          /\ session_config' = configured
          /\ state' = "Resolving"
          /\ dialer' = TRUE
          /\ connect_completions' = connect_completions \cup cs
          /\ UNCHANGED result
    /\ UNCHANGED was_ready

BeginConnect(cs) ==
    \/ /\ AlreadyConnected
       /\ result' = Answered(cs, "ready")
       /\ UNCHANGED <<state, dialer, session, request, connect_completions,
                      reconnect_timer, flags, locked, session_config>>
    \/ /\ ~AlreadyConnected
       /\ AttemptInProgress
       /\ connect_completions' = connect_completions \cup cs
       /\ UNCHANGED <<state, dialer, session, request, result,
                      reconnect_timer, flags, locked, session_config>>
    \/ /\ ~AlreadyConnected
       /\ ~AttemptInProgress
       /\ reconnect_timer' = Cancelled
       /\ Invalid(cs) \/ Start(cs)

-----------------------------------------------------------------------------
(* The handlers.                                                           *)

Blocked == connect_completions \cup disconnect_waiters

\* async_connect(), and connect() which waits for its completion.
Connect(c) ==
    /\ c \notin Blocked
    /\ BeginConnect({c})
    /\ UNCHANGED <<transport, disconnect_waiters, reconnect_fired,
                   current_backoff, configured>>

\* The timer expires: from now on its handler cannot be cancelled.
TimerExpires ==
    /\ reconnect_timer # Off
    /\ reconnect_timer' = Off
    /\ reconnect_fired' = TRUE
    /\ UNCHANGED <<state, dialer, transport, session, request, callers,
                   current_backoff, flags, security, session_config>>

\* Fault: the handler does not look at user_disconnect.
ReconnectAnyway == FALSE

\* The test in the handler of the timer.
NotWanted == user_disconnect

\* The handler of the reconnect timer.
ReconnectNow ==
    /\ reconnect_fired
    /\ reconnect_fired' = FALSE
    /\ \/ /\ NotWanted
          /\ UNCHANGED <<state, dialer, session, request, connect_completions,
                         result, reconnect_timer, flags, locked, session_config>>
       \/ /\ ~NotWanted
          /\ BeginConnect({})
    /\ UNCHANGED <<transport, disconnect_waiters, current_backoff, configured>>

\* async_open() succeeds.  Like every handler that was queued after it, this
\* one runs after an expired reconnect timer's.
DialOpened ==
    /\ dialer
    /\ ~reconnect_fired
    /\ dialer' = FALSE
    /\ transport' = "open"
    /\ state' = "FountainHandshaking"
    /\ session' = "await"
    /\ UNCHANGED <<request, callers, reconnect, flags, security, session_config>>

\* async_open() fails: DNS, TCP, TLS, WebSocket or a timeout of these.
DialFailed ==
    /\ dialer
    /\ ~reconnect_fired
    /\ dialer' = FALSE
    /\ ConnectionLost("other")
    /\ UNCHANGED <<transport, session, request>>

\* callbacks.on_ready.  A frame that was being read when close() was called
\* is still delivered, so this can happen on a closing transport.
SessionReady ==
    /\ session = "await"
    /\ session' = "running"
    /\ was_ready' = TRUE
    /\ current_backoff' = 0
    /\ state' = "Ready"
    /\ connect_completions' = {}
    /\ result' = Answered(connect_completions, "ready")
    /\ UNCHANGED <<dialer, transport, request, disconnect_waiters,
                   reconnect_timer, reconnect_fired, user_disconnect,
                   session_failure, security, session_config>>

\* ControllerSession::abort() in the handshake: fail_all(), close(), and
\* then callbacks.on_failed.
SessionFails(cause) ==
    /\ session = "await"
    /\ session' = "closed"
    /\ request' = FailedRequests
    /\ transport' = "closing"
    /\ session_failure' = cause
    /\ UNCHANGED <<state, dialer, callers, reconnect, user_disconnect,
                   was_ready, security, session_config>>

\* Fault: the error of the transport hides that of the session.
AnyCause == "other"

\* "The session knows the more precise cause"
LossCause == IF session_failure # "none" THEN session_failure ELSE "other"

\* handle_transport_closed(): the peer or the network closed an open
\* connection, or close() has finished.
TransportClosed ==
    /\ transport # "none"
    /\ transport' = "none"
    /\ session' = "closed"
    /\ request' = FailedRequests
    /\ ConnectionLost(LossCause)
    /\ UNCHANGED dialer

\* request_disconnect(), called by disconnect(), async_disconnect() and the
\* destructor.  A cancelled attempt completes before this returns.
Disconnect(c) ==
    /\ c \notin Blocked
    /\ user_disconnect' = TRUE
    /\ \/ /\ transport # "none"
          /\ transport' = "closing"
          /\ disconnect_waiters' = disconnect_waiters \cup {c}
          /\ reconnect_timer' = Off
          /\ UNCHANGED <<state, dialer, connect_completions, result, locked,
                         current_backoff>>
       \/ /\ transport = "none" /\ dialer
          /\ dialer' = FALSE
          /\ LostByUser(disconnect_waiters \cup {c})
          /\ UNCHANGED transport
       \/ /\ transport = "none" /\ ~dialer
          /\ locked' = FALSE
          /\ state' = "Disconnected"
          /\ result' = Answered({c}, "disconnected")
          /\ reconnect_timer' = Off
          /\ UNCHANGED <<dialer, transport, connect_completions,
                         disconnect_waiters, current_backoff>>
    /\ UNCHANGED <<session, request, reconnect_fired, was_ready,
                   session_failure, configured, session_config>>

\* The submit function of the services: without a session the handler is
\* called at once, otherwise the session's dispatcher holds it.
Submit(r) ==
    /\ request[r] = "idle"
    /\ request' = [request EXCEPT ![r] = IF session = "none" THEN "called" ELSE "held"]
    /\ UNCHANGED <<state, dialer, transport, session, callers, reconnect, flags,
                   security, session_config>>

\* The dispatcher calls a handler: the response arrives, or tick(), which
\* runs while the transport is open, finds that the deadline has passed.
Complete(r) ==
    /\ request[r] = "held"
    /\ transport = "open" \/ session = "running"
    /\ request' = [request EXCEPT ![r] = "called"]
    /\ UNCHANGED <<state, dialer, transport, session, callers, reconnect, flags,
                   security, session_config>>

\* Fault: the setters ignore the lock.
AlwaysOpen == TRUE

\* The test at the head of set_tls(), set_hmac(), set_credential_provider().
MayChange == ~locked

\* set_tls(), set_hmac(), set_credential_provider().
SetCredentials(new) ==
    /\ MayChange
    /\ configured' = [configured EXCEPT !.credentials = new]
    /\ UNCHANGED <<state, dialer, transport, session, request, callers,
                   reconnect, flags, locked, session_config>>

\* set_expected_device_id()
SetExpectedDeviceId(new) ==
    /\ configured' = [configured EXCEPT !.device_id = new]
    /\ UNCHANGED <<state, dialer, transport, session, request, callers,
                   reconnect, flags, locked, session_config>>

Next ==
    \/ \E c \in Callers : Connect(c) \/ Disconnect(c)
    \/ TimerExpires
    \/ ReconnectNow
    \/ DialOpened
    \/ DialFailed
    \/ SessionReady
    \/ \E cause \in {"auth", "other"} : SessionFails(cause)
    \/ TransportClosed
    \/ \E r \in Requests : Submit(r) \/ Complete(r)
    \/ \E new \in Credentials : SetCredentials(new)
    \/ \E new \in DeviceIds : SetExpectedDeviceId(new)

Spec == Init /\ [][Next]_vars

\* Every wait of the client is bounded by a timer of its own: the resolver,
\* connect and handshake timeouts end an attempt, handshake_timeout the
\* Fountain handshake, Beast's handshake timeout a close(), the request's
\* deadline a request while tick() runs.  Nothing is assumed of the device,
\* the network or the callers.
FairSpec ==
    /\ Spec
    /\ WF_vars(DialOpened \/ DialFailed)
    /\ WF_vars(SessionFails("other"))
    /\ WF_vars(transport = "closing" /\ TransportClosed)
    /\ WF_vars(TimerExpires)
    /\ WF_vars(ReconnectNow)
    /\ \A r \in Requests : WF_vars(transport = "open" /\ Complete(r))

-----------------------------------------------------------------------------
(* Properties.                                                             *)

\* The types of the client's state; the backoff stays within max_delay.
TypeOK ==
    /\ state \in States
    /\ dialer \in BOOLEAN
    /\ transport \in {"none", "open", "closing"}
    /\ session \in {"none", "closed", "await", "running"}
    /\ request \in [Requests -> {"idle", "held", "called", "dropped"}]
    /\ connect_completions \subseteq Callers
    /\ disconnect_waiters \subseteq Callers
    /\ result \in [Callers -> {"none", "ready", "error", "cancelled", "disconnected"}]
    /\ reconnect_timer \in Nat \cup {Off}
    /\ reconnect_fired \in BOOLEAN
    /\ current_backoff \in 0..MaxDelay
    /\ user_disconnect \in BOOLEAN
    /\ was_ready \in BOOLEAN
    /\ session_failure \in {"none", "auth", "other"}
    /\ locked \in BOOLEAN
    /\ configured \in Configs
    /\ session_config \in Configs

\* What Client::state() shows is what the client has: an attempt exactly in
\* Resolving, a connection exactly in FountainHandshaking and Ready, and
\* Ready only over a session that runs.  So there is never a second attempt
\* or a second connection beside the first.
StateTellsTheTruth ==
    /\ (state = "Resolving") <=> dialer
    /\ (state \in {"FountainHandshaking", "Ready"}) <=> (transport # "none")
    /\ (state = "Ready") <=> (session = "running")
    /\ session = "await" => state = "FountainHandshaking"

\* The deadlock of review item R1 (begin_connect()): a blocked connect() or
\* disconnect() waits for an attempt or a connection that exists and will
\* report its end, and a disconnect() for one that was told to end.
CallersServed ==
    /\ Blocked # {} => dialer \/ transport # "none"
    /\ disconnect_waiters # {} => user_disconnect /\ transport = "closing"

\* An armed reconnect timer belongs to a client that is waiting to
\* reconnect: it was connected before, nothing else is going on and nobody
\* disconnected it (begin_connect(), R12; request_disconnect()).
TimerOnlyWhileReconnecting ==
    reconnect_timer # Off =>
        state = "Reconnecting" /\ was_ready /\ ~user_disconnect

\* The fields of the client agree with each other after every handler, in
\* whatever order calls, closes, timers and verdicts of the session come.
Consistent ==
    /\ TypeOK
    /\ StateTellsTheTruth
    /\ CallersServed
    /\ TimerOnlyWhileReconnecting

\* client_options.hpp: after an authentication failure the client waits for
\* authentication_delay, so that it does not fill up the device's strikes.
AuthFailureWaits ==
    reconnect_timer # Off /\ session_failure = "auth" => reconnect_timer = AuthDelay

\* security.hpp: "After connect() security parameters must no longer change
\* silently".  The credentials of a running attempt or connection, and those
\* its reconnects will use, are the configured ones.
CredentialsStable ==
    state # "Disconnected" => session_config.credentials = configured.credentials

\* What makes these inductive: an attempt starts without a failure on
\* record, and the lock is held until the client is Disconnected.
DialsClean == dialer => session_failure = "none"

LockedWhileActive == state # "Disconnected" => locked

IInv ==
    /\ TypeOK
    /\ StateTellsTheTruth
    /\ CallersServed
    /\ TimerOnlyWhileReconnecting
    /\ AuthFailureWaits
    /\ CredentialsStable
    /\ DialsClean
    /\ LockedWhileActive

\* After a disconnect only a connect() starts an attempt, also when the
\* reconnect timer had already expired.
NoUnwantedDial ==
    [][user_disconnect /\ ~dialer /\ dialer' => connect_completions' # {}]_vars

\* All that the client does with a connection and its session are steps of
\* Link, the promise that Session keeps.
SessionOfLink == IF session = "none" THEN "closed" ELSE session
L == INSTANCE Link WITH session <- SessionOfLink
UsesLink == L!Spec

\* Every call of connect() and disconnect() returns.
CallsReturn ==
    \A c \in Callers : (c \in Blocked) ~> (c \notin Blocked)

\* A request the session holds while there is a connection is answered,
\* whatever happens to the connection.
OpenRequestsAnswered ==
    \A r \in Requests :
        (request[r] = "held" /\ transport # "none") ~> (request[r] = "called")

\* Nobody waits for ever: calls of connect() and disconnect() return, and
\* requests that a connection holds are answered.
EveryoneAnswered == CallsReturn /\ OpenRequestsAnswered

\* session.hpp: "The handler is guaranteed to be called exactly once."
NoRequestLost == \A r \in Requests : request[r] # "dropped"
=============================================================================
