---------------------------- MODULE ClientProofs ----------------------------
(***************************************************************************)
(* Proofs about Client: the invariants that its runs check hold for any    *)
(* number of callers and requests and any delays.  And about Events, the   *)
(* bus that the client owns, for any number of Subscription objects,       *)
(* tokens and events: every handler belongs to one Subscription and gets   *)
(* exactly the events of its time.                                         *)
(***************************************************************************)
EXTENDS Client, Events, SequenceTheorems, TLAPS

\* Init establishes the inductive invariant.
LEMMA InitInv == Init => IInv
  <1> SUFFICES ASSUME Init PROVE IInv
    OBVIOUS
  <1> USE DEF Init
  <1>1. TypeOK
    <2>1. current_backoff \in 0..MaxDelay
      BY ClientAssumption
    <2>2. request \in [Requests -> {"idle", "held", "called", "dropped"}]
      OBVIOUS
    <2>3. result \in [Callers -> {"none", "ready", "error", "cancelled", "disconnected"}]
      OBVIOUS
    <2>4. configured \in Configs /\ session_config \in Configs
      OBVIOUS
    <2> QED BY <2>1, <2>2, <2>3, <2>4 DEF TypeOK, States
  <1>2. StateTellsTheTruth
    BY DEF StateTellsTheTruth
  <1>3. CallersServed
    BY DEF CallersServed, Blocked
  <1>4. TimerOnlyWhileReconnecting /\ AuthFailureWaits
    BY DEF TimerOnlyWhileReconnecting, AuthFailureWaits
  <1>5. CredentialsStable /\ DialsClean /\ LockedWhileActive
    BY DEF CredentialsStable, DialsClean, LockedWhileActive
  <1> QED BY <1>1, <1>2, <1>3, <1>4, <1>5 DEF IInv

\* The backoff of a reconnect stays between 1 and max_delay.
LEMMA BackoffBounded ==
  ASSUME current_backoff \in 0..MaxDelay
  PROVE  NextBackoff \in 1..MaxDelay
  BY ClientAssumption DEF NextBackoff

\* The delay that is armed is a time, and authentication_delay after an
\* authentication failure.
LEMMA ScheduleArms ==
  ASSUME NEW cause, current_backoff \in 0..MaxDelay, Schedule(cause)
  PROVE  /\ reconnect_timer' \in Nat
         /\ current_backoff' \in 0..MaxDelay
         /\ cause = "auth" => reconnect_timer' = AuthDelay
  <1>1. CASE cause = "auth"
    BY <1>1, ClientAssumption DEF Schedule
  <1>2. CASE cause # "auth"
    <2>1. NextBackoff \in 1..MaxDelay
      BY BackoffBounded
    <2>2. PICK jitter \in 0..(NextBackoff \div 4) :
              reconnect_timer' = NextBackoff + jitter
      BY <1>2 DEF Schedule
    <2>3. NextBackoff \div 4 \in Nat
      BY <2>1, ClientAssumption
    <2>4. NextBackoff \in Nat /\ jitter \in Nat
      BY <2>1, <2>2, <2>3, ClientAssumption
    <2>5. current_backoff' = NextBackoff
      BY <1>2 DEF Schedule
    <2> QED BY <1>2, <2>1, <2>2, <2>4, <2>5, ClientAssumption
  <1> QED BY <1>1, <1>2

\* Answers keep the type of result.
LEMMA AnsweredType ==
  ASSUME result \in [Callers -> {"none", "ready", "error", "cancelled", "disconnected"}],
         NEW S, NEW a \in {"none", "ready", "error", "cancelled", "disconnected"}
  PROVE  Answered(S, a) \in
            [Callers -> {"none", "ready", "error", "cancelled", "disconnected"}]
  BY DEF Answered

\* The two ways in which a session lets go of its requests.
LEMMA RequestTypes ==
  ASSUME request \in [Requests -> {"idle", "held", "called", "dropped"}]
  PROVE  /\ FailedRequests \in [Requests -> {"idle", "held", "called", "dropped"}]
         /\ DroppedRequests \in [Requests -> {"idle", "held", "called", "dropped"}]
  BY DEF FailedRequests, DroppedRequests

\* begin_connect() keeps the invariant, whoever calls it.
LEMMA BeginConnectKeepsInv ==
  ASSUME IInv, NEW cs \in SUBSET Callers, BeginConnect(cs),
         UNCHANGED <<transport, disconnect_waiters, current_backoff, configured>>,
         reconnect_fired' \in BOOLEAN
  PROVE  IInv'
  <1> USE ClientAssumption DEF IInv, TypeOK, StateTellsTheTruth, CallersServed,
         Blocked, TimerOnlyWhileReconnecting, AuthFailureWaits,
         CredentialsStable, DialsClean, LockedWhileActive, Off
  <1>1. CASE AlreadyConnected
    <2>1. result' = Answered(cs, "ready")
      BY <1>1 DEF BeginConnect, AlreadyConnected, AttemptInProgress
    <2> QED BY <1>1, <2>1, AnsweredType DEF BeginConnect, AlreadyConnected, flags
  <1>2. CASE ~AlreadyConnected /\ AttemptInProgress
    <2>1. state \in {"Resolving", "FountainHandshaking"}
      BY <1>2 DEF AlreadyConnected, AttemptInProgress, States
    <2> QED BY <1>2, <2>1 DEF BeginConnect, flags
  <1>3. CASE ~AlreadyConnected /\ ~AttemptInProgress
    <2>1. /\ state \in {"Disconnected", "Reconnecting"}
          /\ reconnect_timer' = Off
          /\ Invalid(cs) \/ Start(cs)
      BY <1>3 DEF BeginConnect, AttemptInProgress, Cancelled
    <2>2. /\ ~dialer /\ transport = "none" /\ session \in {"none", "closed"}
          /\ connect_completions = {} /\ disconnect_waiters = {}
      BY <2>1
    <2>3. CASE Invalid(cs)
      BY <2>1, <2>2, <2>3, AnsweredType DEF Invalid, FailToStart, flags
    <2>4. CASE Start(cs) /\ FailToStart(cs) /\ session' = "none" /\ UNCHANGED session_config
      BY <2>1, <2>2, <2>4, AnsweredType, RequestTypes DEF Start, FailToStart
    <2>5. CASE Start(cs) /\ dialer' = TRUE
      BY <2>1, <2>2, <2>5, RequestTypes DEF Start, FailToStart, States
    <2> QED BY <2>1, <2>3, <2>4, <2>5 DEF Start
  <1> QED BY <1>1, <1>2, <1>3

\* handle_connection_lost() keeps the invariant when the attempt or the
\* connection is gone and an authentication failure is passed on.
LEMMA ConnectionLostKeepsInv ==
  ASSUME IInv, NEW cause, ConnectionLost(cause),
         dialer \/ transport # "none",
         session_failure = "auth" => cause = "auth",
         dialer' = FALSE, transport' = "none", session' \in {"none", "closed"},
         request' \in [Requests -> {"idle", "held", "called", "dropped"}]
  PROVE  IInv'
  <1> USE ClientAssumption DEF IInv, TypeOK, StateTellsTheTruth, CallersServed,
         Blocked, TimerOnlyWhileReconnecting, AuthFailureWaits,
         CredentialsStable, DialsClean, LockedWhileActive, Off
  <1>1. reconnect_timer = Off /\ state # "Disconnected"
    OBVIOUS
  <1>2. UNCHANGED <<reconnect_fired, flags, configured, session_config>>
    BY DEF ConnectionLost
  <1>3. CASE user_disconnect /\ LostByUser(disconnect_waiters)
    <2>1. result' \in [Callers -> {"none", "ready", "error", "cancelled", "disconnected"}]
      BY <1>3 DEF LostByUser
    <2> QED BY <1>2, <1>3, <2>1 DEF LostByUser, flags, States
  <1>4. CASE ~user_disconnect /\ LostByAccident(cause)
    <2>1. result' \in [Callers -> {"none", "ready", "error", "cancelled", "disconnected"}]
      BY <1>4, AnsweredType DEF LostByAccident
    <2>2. disconnect_waiters' = {} /\ connect_completions' = {}
      BY <1>4 DEF LostByAccident
    <2>3. CASE ~(was_ready /\ ReconnectEnabled)
      BY <1>1, <1>2, <1>4, <2>1, <2>2, <2>3 DEF LostByAccident, flags, States
    <2>4. CASE was_ready /\ ReconnectEnabled
      <3>1. state' = "Reconnecting" /\ UNCHANGED locked /\ Schedule(cause)
        BY <1>4, <2>4 DEF LostByAccident
      <3>2. /\ reconnect_timer' \in Nat
            /\ current_backoff' \in 0..MaxDelay
            /\ cause = "auth" => reconnect_timer' = AuthDelay
        BY <3>1, ScheduleArms
      <3> QED BY <1>1, <1>2, <1>4, <2>1, <2>2, <2>4, <3>1, <3>2 DEF flags, States
    <2> QED BY <2>3, <2>4
  <1> QED BY <1>3, <1>4 DEF ConnectionLost

\* request_disconnect() keeps the invariant in each of its three cases.
LEMMA DisconnectKeepsInv ==
  ASSUME IInv, NEW c \in Callers, Disconnect(c)
  PROVE  IInv'
  <1> USE ClientAssumption DEF IInv, TypeOK, StateTellsTheTruth, CallersServed,
         Blocked, TimerOnlyWhileReconnecting, AuthFailureWaits,
         CredentialsStable, DialsClean, LockedWhileActive, Off
  <1>1. CASE transport # "none"
    BY <1>1 DEF Disconnect
  <1>2. CASE transport = "none" /\ dialer
    <2>1. LostByUser(disconnect_waiters \cup {c})
      BY <1>2 DEF Disconnect
    <2>2. result' \in [Callers -> {"none", "ready", "error", "cancelled", "disconnected"}]
      BY <2>1 DEF LostByUser
    <2> QED BY <1>2, <2>1, <2>2 DEF Disconnect, LostByUser, States
  <1>3. CASE transport = "none" /\ ~dialer
    <2>1. connect_completions = {} /\ disconnect_waiters = {}
      BY <1>3
    <2>2. session \in {"none", "closed"}
      BY <1>3
    <2>3. /\ locked' = FALSE /\ state' = "Disconnected" /\ reconnect_timer' = Off
          /\ user_disconnect' = TRUE
          /\ result' = Answered({c}, "disconnected")
          /\ UNCHANGED <<dialer, transport, connect_completions,
                         disconnect_waiters, current_backoff, session, request,
                         reconnect_fired, was_ready, session_failure,
                         configured, session_config>>
      BY <1>3 DEF Disconnect
    <2>4. result' \in [Callers -> {"none", "ready", "error", "cancelled", "disconnected"}]
      BY <2>3, AnsweredType
    <2> QED BY <1>3, <2>1, <2>2, <2>3, <2>4 DEF States
  <1> QED BY <1>1, <1>2, <1>3

\* Every step of the client preserves the inductive invariant.
LEMMA NextInv == IInv /\ [Next]_vars => IInv'
  <1> SUFFICES ASSUME IInv, [Next]_vars PROVE IInv'
    OBVIOUS
  <1> USE ClientAssumption DEF IInv, TypeOK, StateTellsTheTruth, CallersServed, Blocked,
         TimerOnlyWhileReconnecting, AuthFailureWaits, CredentialsStable,
         DialsClean, LockedWhileActive, Off
  <1>1. ASSUME NEW c \in Callers, Connect(c) PROVE IInv'
    <2>1. BeginConnect({c}) /\ {c} \in SUBSET Callers
      BY <1>1 DEF Connect
    <2> QED BY <1>1, <2>1, BeginConnectKeepsInv DEF Connect
  <1>2. ASSUME NEW c \in Callers, Disconnect(c) PROVE IInv'
    BY <1>2, DisconnectKeepsInv
  <1>3. CASE TimerExpires
    BY <1>3 DEF TimerExpires, callers, flags, security
  <1>4. CASE ReconnectNow
    <2>1. CASE NotWanted
      <3>1. /\ reconnect_fired' = FALSE
            /\ UNCHANGED <<state, dialer, session, request, connect_completions,
                           result, reconnect_timer, flags, locked, session_config>>
            /\ UNCHANGED <<transport, disconnect_waiters, current_backoff, configured>>
        BY <1>4, <2>1 DEF ReconnectNow
      <3> QED BY <3>1 DEF flags
    <2>2. CASE ~NotWanted
      <3>1. BeginConnect({})
        BY <1>4, <2>2 DEF ReconnectNow
      <3> QED BY <1>4, <3>1, BeginConnectKeepsInv DEF ReconnectNow
    <2> QED BY <2>1, <2>2
  <1>5. CASE DialOpened
    BY <1>5 DEF DialOpened, States, callers, reconnect, flags, security
  <1>6. CASE DialFailed
    <2>1. session_failure = "none" /\ transport = "none" /\ session \in {"none", "closed"}
      BY <1>6 DEF DialFailed
    <2> QED BY <1>6, <2>1, ConnectionLostKeepsInv DEF DialFailed
  <1>7. CASE SessionReady
    BY <1>7, AnsweredType DEF SessionReady, States, security
  <1>8. ASSUME NEW cause \in {"auth", "other"}, SessionFails(cause) PROVE IInv'
    BY <1>8, RequestTypes DEF SessionFails, callers, reconnect, security
  <1>9. CASE TransportClosed
    <2>1. session_failure = "auth" => LossCause = "auth"
      BY DEF LossCause
    <2>2. dialer' = FALSE
      BY <1>9 DEF TransportClosed
    <2> QED BY <1>9, <2>1, <2>2, RequestTypes, ConnectionLostKeepsInv DEF TransportClosed
  <1>10. ASSUME NEW r \in Requests, Submit(r) PROVE IInv'
    BY <1>10 DEF Submit, callers, reconnect, flags, security
  <1>11. ASSUME NEW r \in Requests, Complete(r) PROVE IInv'
    BY <1>11 DEF Complete, callers, reconnect, flags, security
  <1>12. ASSUME NEW new \in Credentials, SetCredentials(new) PROVE IInv'
    BY <1>12 DEF SetCredentials, MayChange, Configs, callers, reconnect, flags
  <1>13. ASSUME NEW new \in DeviceIds, SetExpectedDeviceId(new) PROVE IInv'
    BY <1>13 DEF SetExpectedDeviceId, Configs, callers, reconnect, flags
  <1>14. CASE UNCHANGED vars
    BY <1>14 DEF vars, callers, reconnect, flags, security
  <1> QED BY <1>1, <1>2, <1>3, <1>4, <1>5, <1>6, <1>7, <1>8, <1>9, <1>10,
             <1>11, <1>12, <1>13, <1>14 DEF Next

\* The inductive invariant holds in every reachable state.
THEOREM Invariance == Spec => []IInv
  <1>1. Init => IInv
    BY InitInv
  <1>2. IInv /\ [Next]_vars => IInv'
    BY NextInv
  <1> QED BY <1>1, <1>2, PTL DEF Spec

\* The fields of the client agree with each other, for any number of callers
\* and requests: there is never a second attempt or connection beside the
\* first and Ready means that the session runs; no call of connect() or
\* disconnect() waits for something that does not exist; an armed reconnect
\* timer belongs to a client that waits to reconnect.
THEOREM Consistency == Spec => []Consistent
  <1>1. IInv => Consistent
    BY DEF IInv, Consistent
  <1> QED BY <1>1, Invariance, PTL

\* After an authentication failure the client waits for
\* authentication_delay, whatever the other delays are.
THEOREM StrikesSpared == Spec => []AuthFailureWaits
  <1>1. IInv => AuthFailureWaits
    BY DEF IInv
  <1> QED BY <1>1, Invariance, PTL

\* The credentials in use cannot change before the client is Disconnected.
THEOREM CredentialsFixed == Spec => []CredentialsStable
  <1>1. IInv => CredentialsStable
    BY DEF IInv
  <1> QED BY <1>1, Invariance, PTL

\* Only connect() starts an attempt after a disconnect.
LEMMA StepDialsWanted ==
  ASSUME [Next]_vars
  PROVE  user_disconnect /\ ~dialer /\ dialer' => connect_completions' # {}
  <1> SUFFICES ASSUME user_disconnect, ~dialer, dialer'
               PROVE  connect_completions' # {}
    OBVIOUS
  <1>1. ASSUME NEW c \in Callers, Connect(c) PROVE connect_completions' # {}
    <2>1. BeginConnect({c})
      BY <1>1 DEF Connect
    <2> QED BY <2>1 DEF BeginConnect, Invalid, Start, FailToStart
  <1>2. ASSUME NEW c \in Callers, Disconnect(c) PROVE FALSE
    BY <1>2 DEF Disconnect, LostByUser
  <1>3. CASE TimerExpires
    BY <1>3 DEF TimerExpires
  <1>4. CASE ReconnectNow
    BY <1>4 DEF ReconnectNow, NotWanted
  <1>5. CASE DialOpened \/ DialFailed
    BY <1>5 DEF DialOpened, DialFailed
  <1>6. CASE SessionReady
    BY <1>6 DEF SessionReady
  <1>7. ASSUME NEW cause, SessionFails(cause) PROVE FALSE
    BY <1>7 DEF SessionFails
  <1>8. CASE TransportClosed
    BY <1>8 DEF TransportClosed
  <1>9. ASSUME NEW r \in Requests, Submit(r) \/ Complete(r) PROVE FALSE
    BY <1>9 DEF Submit, Complete
  <1>10. ASSUME NEW new, SetCredentials(new) \/ SetExpectedDeviceId(new) PROVE FALSE
    BY <1>10 DEF SetCredentials, SetExpectedDeviceId
  <1>11. CASE UNCHANGED vars
    BY <1>11 DEF vars
  <1> QED BY <1>1, <1>2, <1>3, <1>4, <1>5, <1>6, <1>7, <1>8, <1>9, <1>10,
             <1>11 DEF Next

\* After a disconnect only a connect() starts an attempt, also when the
\* reconnect timer had already expired.
THEOREM DisconnectIsFinal == Spec => NoUnwantedDial
  <1>1. [Next]_vars =>
          [user_disconnect /\ ~dialer /\ dialer' => connect_completions' # {}]_vars
    BY StepDialsWanted
  <1> QED BY <1>1, PTL DEF Spec, NoUnwantedDial

\* The client treats its connections and sessions as Link allows.
LEMMA StepOfLink ==
  ASSUME IInv, [Next]_vars
  PROVE  [L!Next]_(L!vars)
  <1> USE DEF L!Next, L!Open, L!Ready, L!Fail, L!Close, L!Closed, L!vars,
              SessionOfLink
  <1>0. StateTellsTheTruth /\ TypeOK
    BY DEF IInv
  <1>1. ASSUME NEW cs, BeginConnect(cs), UNCHANGED transport
        PROVE  [L!Next]_(L!vars)
    BY <1>0, <1>1 DEF BeginConnect, AlreadyConnected, AttemptInProgress,
       Invalid, Start, FailToStart, StateTellsTheTruth, TypeOK, States
  <1>2. ASSUME NEW c \in Callers, Connect(c) PROVE [L!Next]_(L!vars)
    BY <1>1, <1>2 DEF Connect
  <1>3. ASSUME NEW c \in Callers, Disconnect(c) PROVE [L!Next]_(L!vars)
    BY <1>0, <1>3 DEF Disconnect, StateTellsTheTruth, TypeOK
  <1>4. CASE ReconnectNow
    BY <1>1, <1>4 DEF ReconnectNow
  <1>5. CASE DialOpened
    BY <1>0, <1>5 DEF DialOpened, StateTellsTheTruth, TypeOK
  <1>6. CASE SessionReady
    BY <1>0, <1>6 DEF SessionReady, StateTellsTheTruth
  <1>7. ASSUME NEW cause, SessionFails(cause) PROVE [L!Next]_(L!vars)
    BY <1>0, <1>7 DEF SessionFails, StateTellsTheTruth
  <1>8. CASE TransportClosed
    BY <1>0, <1>8 DEF TransportClosed, TypeOK
  <1>9. CASE UNCHANGED <<session, transport>>
    BY <1>9
  <1>10. TimerExpires \/ DialFailed \/ UNCHANGED vars => UNCHANGED <<session, transport>>
    BY DEF TimerExpires, DialFailed, vars
  <1>11. \A r : Submit(r) \/ Complete(r) => UNCHANGED <<session, transport>>
    BY DEF Submit, Complete
  <1>12. \A new : SetCredentials(new) \/ SetExpectedDeviceId(new)
                    => UNCHANGED <<session, transport>>
    BY DEF SetCredentials, SetExpectedDeviceId
  <1> QED BY <1>2, <1>3, <1>4, <1>5, <1>6, <1>7, <1>8, <1>9, <1>10, <1>11,
             <1>12 DEF Next

\* Client relies on nothing but the promise that Session keeps.
THEOREM ReliesOnLink == Spec => UsesLink
  <1>1. Init => L!Init
    BY DEF Init, L!Init, SessionOfLink
  <1>2. IInv /\ [Next]_vars => [L!Next]_(L!vars)
    BY StepOfLink
  <1> QED BY <1>1, <1>2, Invariance, PTL DEF Spec, UsesLink, L!Spec

-----------------------------------------------------------------------------
(* The event bus.                                                          *)

\* One more event at the end of those between two numbers.
LEMMA OneMore ==
    ASSUME NEW a \in Nat, NEW b \in Nat, a < b
    PROVE  Append(EventsBetween(a, b - 1), b) = EventsBetween(a, b)
<1>. DEFINE s == EventsBetween(a, b - 1)
<1>1. s \in Seq(Nat) /\ Len(s) = b - 1 - a
    <2>1. b - 1 - a \in Nat /\ \A i \in 1..(b - 1 - a) : a + i \in Nat
        OBVIOUS
    <2>. QED
        BY <2>1, IsASeq, LenProperties DEF EventsBetween
<1>2. /\ Append(s, b) \in Seq(Nat)
      /\ Len(Append(s, b)) = b - a
      /\ \A i \in 1..(b - 1 - a) : Append(s, b)[i] = a + i
      /\ Append(s, b)[b - a] = b
    <2>. HIDE DEF s
    <2>1. Len(s) + 1 = b - a
        BY <1>1
    <2>2. \A i \in 1..Len(s) : s[i] = a + i
        BY <1>1 DEF s, EventsBetween
    <2>. QED
        BY <1>1, <2>1, <2>2, AppendProperties
<1>3. DOMAIN Append(s, b) = 1..(b - a)
    BY <1>2, LenProperties
<1>4. \A i \in 1..(b - a) : Append(s, b)[i] = a + i
    BY <1>2
<1>5. Append(s, b) = [i \in DOMAIN Append(s, b) |-> Append(s, b)[i]]
    BY <1>2
<1>. HIDE DEF s
<1>6. [i \in DOMAIN Append(s, b) |-> Append(s, b)[i]] = [i \in 1..(b - a) |-> a + i]
    BY <1>3, <1>4
<1>. QED
    BY <1>5, <1>6 DEF s, EventsBetween

LEMMA NoneBetween == ASSUME NEW a \in Nat PROVE EventsBetween(a, a) = <<>>
    BY DEF EventsBetween

\* A token leaves the list, or none does: Reset, Move.
LEMMA UnsubscribeKeeps ==
    ASSUME BusInv, NEW token \in 0..MaxTokens, Unsubscribe(token),
           alive => token \notin slots' /\ (token = 0 \/ token \in slots),
           UNCHANGED <<alive, next_token, snapshot, published, got, attached>>
    PROVE  /\ slots' = slots \ {token}
           /\ removed' \in [Tokens -> 0..Still]
           /\ InStep' /\ CallsLeft' /\ PublishedOnly' /\ NoneAfterRemoval'
           /\ \A t \in Tokens : t # token => removed'[t] = removed[t]
<1>1. /\ slots' = slots \ {token}
      /\ removed' = [t \in Tokens |-> IF t = token /\ removed[t] = Still
                                      THEN published ELSE removed[t]]
    BY DEF Unsubscribe, Removed
<1>2. published \in Nat /\ published <= MaxEvents /\ Still = MaxEvents + 1 /\ MaxEvents \in Nat
    BY EventsAssumption DEF BusInv, BusTypeOK, Still
<1>3. removed \in [Tokens -> 0..Still] /\ removed' \in [Tokens -> 0..Still]
    BY <1>1, <1>2 DEF BusInv, BusTypeOK
<1>4. \A t \in Tokens : t # token => removed'[t] = removed[t]
    BY <1>1
<1>5. InStep'
    <2>1. \A t \in slots' : t \in slots /\ t # token /\ t \in Tokens
        BY <1>1 DEF BusInv, BusTypeOK
    <2>. QED
        BY <1>4, <2>1 DEF BusInv, InStep, EventsBetween
<1>6. \A t \in Tokens : removed'[t] \in {removed[t], published}
    BY <1>1
<1>7. CallsLeft'
    <2>1. \A t \in snapshot : t \in Tokens
        BY DEF BusInv, BusTypeOK
    <2>2. \A t \in snapshot : published <= removed'[t]
        BY <1>2, <1>6, <2>1 DEF BusInv, CallsLeft
    <2>. QED
        BY <2>2 DEF BusInv, CallsLeft
<1>8. PublishedOnly'
    BY DEF BusInv, PublishedOnly
<1>9. NoneAfterRemoval'
    BY <1>6 DEF BusInv, PublishedOnly, NoneAfterRemoval
<1>. QED
    BY <1>1, <1>3, <1>4, <1>5, <1>7, <1>8, <1>9

LEMMA ResetKeepsInv == ASSUME BusInv, NEW o \in Objects, Reset(o) PROVE BusInv'
<1>1. /\ holds[o] # 0 /\ Unsubscribe(holds[o])
      /\ holds' = [holds EXCEPT ![o] = 0]
      /\ UNCHANGED <<alive, next_token, snapshot, published, got, attached>>
    BY DEF Reset, delivery
<1>2. holds \in [Objects -> 0..MaxTokens] /\ holds' \in [Objects -> 0..MaxTokens]
    BY <1>1, EventsAssumption DEF BusInv, BusTypeOK
<1>3. alive => holds[o] \notin slots' /\ (holds[o] = 0 \/ holds[o] \in slots)
    BY <1>1, <1>2 DEF BusInv, OneOwner, Unsubscribe, Removed
<1>4. /\ slots' = slots \ {holds[o]}
      /\ removed' \in [Tokens -> 0..Still]
      /\ InStep' /\ CallsLeft' /\ PublishedOnly' /\ NoneAfterRemoval'
      /\ \A t \in Tokens : t # holds[o] => removed'[t] = removed[t]
    BY <1>1, <1>2, <1>3, UnsubscribeKeeps
<1>5. BusTypeOK'
    BY <1>1, <1>2, <1>4 DEF BusInv, BusTypeOK
<1>6. OneOwner'
    <2>1. \A a \in Objects : holds'[a] = IF a = o THEN 0 ELSE holds[a]
        BY <1>1, <1>2
    <2>2. \A a, b \in Objects : holds'[a] = holds'[b] /\ holds'[a] # 0 => a = b
        BY <2>1 DEF BusInv, OneOwner
    <2>3. alive => {holds'[a] : a \in Objects} \ {0}
                       = ({holds[a] : a \in Objects} \ {0}) \ {holds[o]}
        BY <1>1, <2>1 DEF BusInv, OneOwner
    <2>. QED
        BY <1>1, <1>4, <2>2, <2>3 DEF BusInv, OneOwner
<1>7. FreshTokens'
    <2>1. \A a \in Objects : holds'[a] <= next_token
        BY <1>1, <1>2 DEF BusInv, BusTypeOK, FreshTokens
    <2>2. \A t \in Tokens : t > next_token => t # holds[o]
        BY <1>2 DEF BusInv, BusTypeOK, FreshTokens, Tokens
    <2>3. slots' \subseteq 1..next_token
        BY <1>4 DEF BusInv, FreshTokens
    <2>. QED
        BY <1>1, <1>4, <2>1, <2>2, <2>3 DEF BusInv, FreshTokens, Still
<1>. QED
    BY <1>4, <1>5, <1>6, <1>7 DEF BusInv

LEMMA MoveKeepsInv ==
    ASSUME BusInv, NEW from \in Objects, NEW to \in Objects, Move(from, to) PROVE BusInv'
<1>1. /\ from # to /\ holds[from] # 0 /\ Unsubscribe(holds[to])
      /\ holds' = [holds EXCEPT ![to] = holds[from], ![from] = 0]
      /\ UNCHANGED <<alive, next_token, snapshot, published, got, attached>>
    BY DEF Move, Moved, delivery
<1>2. holds \in [Objects -> 0..MaxTokens] /\ holds' \in [Objects -> 0..MaxTokens]
    BY <1>1, EventsAssumption DEF BusInv, BusTypeOK
<1>3. alive => holds[to] \notin slots' /\ (holds[to] = 0 \/ holds[to] \in slots)
    BY <1>1, <1>2 DEF BusInv, OneOwner, Unsubscribe, Removed
<1>4. /\ slots' = slots \ {holds[to]}
      /\ removed' \in [Tokens -> 0..Still]
      /\ InStep' /\ CallsLeft' /\ PublishedOnly' /\ NoneAfterRemoval'
      /\ \A t \in Tokens : t # holds[to] => removed'[t] = removed[t]
    BY <1>1, <1>2, <1>3, UnsubscribeKeeps
<1>5. BusTypeOK'
    BY <1>1, <1>2, <1>4 DEF BusInv, BusTypeOK
<1>6. OneOwner'
    <2>1. \A a \in Objects : holds'[a] = IF a = from THEN 0
                                         ELSE IF a = to THEN holds[from] ELSE holds[a]
        BY <1>1, <1>2
    <2>2. \A a, b \in Objects : holds'[a] = holds'[b] /\ holds'[a] # 0 => a = b
        BY <1>1, <2>1 DEF BusInv, OneOwner
    <2>3. \A x : (\E a \in Objects : holds'[a] = x) /\ x # 0 <=>
                 (\E a \in Objects : holds[a] = x) /\ x # 0 /\ x # holds[to]
        BY <1>1, <2>1 DEF BusInv, OneOwner
    <2>4. alive => slots' = {holds'[a] : a \in Objects} \ {0}
        <3>. SUFFICES ASSUME alive, NEW x
                      PROVE  x \in slots' <=> x \in {holds'[a] : a \in Objects} \ {0}
            OBVIOUS
        <3>1. x \in slots' <=> (\E a \in Objects : holds[a] = x) /\ x # 0 /\ x # holds[to]
            BY <1>4 DEF BusInv, OneOwner
        <3>. QED
            BY <2>3, <3>1
    <2>. QED
        BY <1>1, <2>2, <2>4 DEF OneOwner
<1>7. FreshTokens'
    <2>1. \A a \in Objects : holds'[a] <= next_token
        BY <1>1, <1>2 DEF BusInv, BusTypeOK, FreshTokens
    <2>2. \A t \in Tokens : t > next_token => t # holds[to]
        BY <1>2 DEF BusInv, BusTypeOK, FreshTokens, Tokens
    <2>3. slots' \subseteq 1..next_token
        BY <1>4 DEF BusInv, FreshTokens
    <2>. QED
        BY <1>1, <1>4, <2>1, <2>2, <2>3 DEF BusInv, FreshTokens, Still
<1>. QED
    BY <1>4, <1>5, <1>6, <1>7 DEF BusInv

LEMMA AttachKeepsInv == ASSUME BusInv, NEW o \in Objects, Attach(o) PROVE BusInv'
<1>. DEFINE new == next_token + 1
<1>1. /\ alive /\ next_token < MaxTokens /\ holds[o] = 0
      /\ next_token' = new /\ slots' = slots \cup {new}
      /\ holds' = [holds EXCEPT ![o] = new]
      /\ attached' = [attached EXCEPT ![new] = published]
      /\ UNCHANGED <<alive, snapshot, published, got, removed>>
    BY DEF Attach, NextToken, delivery
<1>2. /\ next_token \in Nat /\ MaxTokens \in Nat /\ new \in Tokens /\ new # 0
      /\ published \in Nat /\ published <= MaxEvents /\ MaxEvents \in Nat
    BY <1>1, EventsAssumption DEF BusInv, BusTypeOK, Tokens
<1>3. new \notin slots /\ got[new] = <<>> /\ removed[new] = Still /\ new \notin snapshot
    BY <1>2 DEF BusInv, FreshTokens, CallsLeft
<1>4. BusTypeOK'
    <2>1. slots' \subseteq Tokens /\ next_token' \in 0..MaxTokens
        BY <1>1, <1>2 DEF BusInv, BusTypeOK
    <2>2. holds' \in [Objects -> 0..MaxTokens]
        BY <1>1, <1>2 DEF BusInv, BusTypeOK, Tokens
    <2>3. attached' \in [Tokens -> 0..MaxEvents]
        BY <1>1, <1>2 DEF BusInv, BusTypeOK
    <2>. QED
        BY <1>1, <2>1, <2>2, <2>3 DEF BusInv, BusTypeOK, Tokens, Still
<1>5. \A a \in Objects : holds[a] # new
    BY <1>2 DEF BusInv, BusTypeOK, FreshTokens
<1>6. OneOwner'
    <2>1. \A a \in Objects : holds'[a] = IF a = o THEN new ELSE holds[a]
        BY <1>1 DEF BusInv, BusTypeOK
    <2>2. \A a, b \in Objects : holds'[a] = holds'[b] /\ holds'[a] # 0 => a = b
        BY <1>5, <2>1 DEF BusInv, OneOwner
    <2>3. {holds'[a] : a \in Objects} \ {0} = ({holds[a] : a \in Objects} \ {0}) \cup {new}
        BY <1>1, <1>2, <2>1
    <2>. QED
        BY <1>1, <2>2, <2>3 DEF BusInv, OneOwner
<1>7. FreshTokens'
    BY <1>1, <1>2 DEF BusInv, BusTypeOK, FreshTokens
<1>8. \A t \in Tokens : t # new => attached'[t] = attached[t]
    BY <1>1 DEF BusInv, BusTypeOK
<1>9. attached'[new] = published
    BY <1>1, <1>2 DEF BusInv, BusTypeOK
<1>. HIDE DEF new
<1>10. InStep'
    <2>. SUFFICES ASSUME NEW t \in slots'
                  PROVE  /\ removed[t] = Still /\ attached'[t] <= published
                         /\ got[t] = EventsBetween(attached'[t],
                                IF t \in snapshot THEN published - 1 ELSE published)
        BY <1>1 DEF InStep, EventsBetween, Still
    <2>1. CASE t = new
        BY <1>2, <1>3, <1>9, <2>1, NoneBetween
    <2>2. CASE t # new
        BY <1>1, <1>8, <2>2 DEF BusInv, BusTypeOK, InStep
    <2>. QED
        BY <2>1, <2>2
<1>11. CallsLeft'
    <2>1. \A t \in snapshot : t \in Tokens /\ t # new
        BY <1>3 DEF BusInv, BusTypeOK
    <2>2. \A t \in snapshot : t <= next_token'
        BY <1>1, <1>2, <2>1 DEF BusInv, CallsLeft, Tokens, new
    <2>. QED
        BY <1>1, <1>8, <2>1, <2>2 DEF BusInv, CallsLeft
<1>12. PublishedOnly' /\ NoneAfterRemoval'
    BY <1>1 DEF BusInv, PublishedOnly, NoneAfterRemoval
<1>. QED
    BY <1>4, <1>6, <1>7, <1>10, <1>11, <1>12 DEF BusInv

LEMMA PublishKeepsInv == ASSUME BusInv, Publish PROVE BusInv'
<1>1. /\ alive /\ snapshot = {} /\ published < MaxEvents
      /\ published' = published + 1 /\ snapshot' = slots
      /\ UNCHANGED <<alive, slots, next_token, holds, got, attached, removed>>
    BY DEF Publish
<1>2. published \in Nat /\ MaxEvents \in Nat /\ published' - 1 = published
      /\ Still = MaxEvents + 1
    BY <1>1, EventsAssumption DEF BusInv, BusTypeOK, Still
<1>3. BusTypeOK'
    BY <1>1, <1>2 DEF BusInv, BusTypeOK
<1>4. OneOwner' /\ FreshTokens'
    BY <1>1 DEF BusInv, OneOwner, FreshTokens
<1>5. \A t \in slots : attached[t] \in Nat
    BY DEF BusInv, BusTypeOK
<1>6. InStep'
    BY <1>1, <1>2, <1>5 DEF BusInv, InStep, EventsBetween
<1>7. CallsLeft'
    BY <1>1, <1>2, <1>5 DEF BusInv, InStep, CallsLeft, FreshTokens, BusTypeOK, Tokens
<1>8. \A t \in Tokens : \A i \in DOMAIN got[t] : got[t][i] \in Nat
    <2>. SUFFICES ASSUME NEW t \in Tokens, NEW i \in DOMAIN got[t]
                  PROVE  got[t][i] \in Nat
        OBVIOUS
    <2>1. got[t] \in Seq(1..MaxEvents)
        BY DEF BusInv, BusTypeOK
    <2>2. got[t][i] \in 1..MaxEvents
        BY <2>1, ElementOfSeq, LenProperties
    <2>. QED
        BY <2>2
<1>9. PublishedOnly' /\ NoneAfterRemoval'
    BY <1>1, <1>2, <1>8 DEF BusInv, PublishedOnly, NoneAfterRemoval
<1>. QED
    BY <1>3, <1>4, <1>6, <1>7, <1>9 DEF BusInv

LEMMA CallHandlerKeepsInv == ASSUME BusInv, CallHandler PROVE BusInv'
<1>1. PICK t \in snapshot :
        /\ got' = [got EXCEPT ![t] = Append(@, published)]
        /\ snapshot' = snapshot \ {t}
        /\ UNCHANGED <<alive, slots, next_token, holds, published, attached, removed>>
    BY DEF CallHandler, Remaining
<1>2. /\ t \in Tokens /\ attached[t] \in Nat /\ attached[t] < published
      /\ published \in 1..MaxEvents /\ published <= removed[t] /\ t <= next_token
    BY EventsAssumption DEF BusInv, BusTypeOK, CallsLeft
<1>3. got[t] \in Seq(1..MaxEvents)
    BY <1>2 DEF BusInv, BusTypeOK
<1>4. /\ got'[t] = Append(got[t], published)
      /\ \A u \in Tokens : u # t => got'[u] = got[u]
    BY <1>1, <1>2 DEF BusInv, BusTypeOK
<1>5. got'[t] \in Seq(1..MaxEvents) /\ got' \in [Tokens -> Seq(1..MaxEvents)]
    BY <1>1, <1>2, <1>3, <1>4, AppendProperties DEF BusInv, BusTypeOK
<1>6. BusTypeOK'
    BY <1>1, <1>5 DEF BusInv, BusTypeOK
<1>7. OneOwner' /\ FreshTokens'
    BY <1>1, <1>2, <1>4 DEF BusInv, OneOwner, FreshTokens, BusTypeOK, Tokens
<1>8. InStep'
    <2>1. ASSUME NEW u \in slots, u = t
          PROVE  got'[u] = EventsBetween(attached[u], published)
        <3>1. got[t] = EventsBetween(attached[t], published - 1)
            BY <2>1 DEF BusInv, InStep
        <3>2. Append(EventsBetween(attached[t], published - 1), published)
                  = EventsBetween(attached[t], published)
            <4>1. published \in Nat
                BY <1>2, EventsAssumption
            <4>. QED
                BY <1>2, <4>1, OneMore
        <3>. QED
            BY <1>4, <2>1, <3>1, <3>2
    <2>2. ASSUME NEW u \in slots, u # t
          PROVE  got'[u] = EventsBetween(attached[u],
                               IF u \in snapshot THEN published - 1 ELSE published)
        BY <1>4, <2>2 DEF BusInv, BusTypeOK, InStep
    <2>3. \A u \in slots : u \in snapshot' <=> u # t /\ u \in snapshot
        BY <1>1
    <2>4. \A u \in slots : got'[u] = EventsBetween(attached[u],
                               IF u \in snapshot' THEN published - 1 ELSE published)
        BY <2>1, <2>2, <2>3
    <2>5. \A u \in slots : removed[u] = Still /\ attached[u] <= published
        BY DEF BusInv, InStep
    <2>. QED
        BY <1>1, <2>4, <2>5 DEF InStep
<1>9. CallsLeft'
    BY <1>1 DEF BusInv, CallsLeft
<1>10. \A i \in DOMAIN got'[t] : got'[t][i] = published \/
            (i \in DOMAIN got[t] /\ got'[t][i] = got[t][i])
    BY <1>2, <1>3, <1>4, AppendProperties, LenProperties
<1>11. PublishedOnly'
    BY <1>1, <1>2, <1>4, <1>10 DEF BusInv, PublishedOnly
<1>12. NoneAfterRemoval'
    BY <1>1, <1>2, <1>4, <1>10 DEF BusInv, NoneAfterRemoval
<1>. QED
    BY <1>6, <1>7, <1>8, <1>9, <1>11, <1>12 DEF BusInv

LEMMA DestroyBusKeepsInv == ASSUME BusInv, DestroyBus PROVE BusInv'
<1>1. /\ snapshot = {} /\ alive' = FALSE /\ slots' = {}
      /\ UNCHANGED <<next_token, holds, snapshot, published, got, attached, removed>>
    BY DEF DestroyBus, delivery
<1>2. BusTypeOK' /\ OneOwner'
    BY <1>1 DEF BusInv, BusTypeOK, OneOwner
<1>3. FreshTokens' /\ InStep'
    BY <1>1 DEF BusInv, FreshTokens, InStep
<1>4. CallsLeft' /\ PublishedOnly' /\ NoneAfterRemoval'
    BY <1>1 DEF BusInv, CallsLeft, PublishedOnly, NoneAfterRemoval
<1>. QED
    BY <1>2, <1>3, <1>4 DEF BusInv

-----------------------------------------------------------------------------

\* Handlers come and go, events are published and delivered, the bus is
\* destroyed: none of it breaks the invariant the other results rest on.
THEOREM BusInvariance == BusSpec => []BusInv
<1>1. BusInit => BusInv
    <2>. SUFFICES ASSUME BusInit PROVE BusInv
        OBVIOUS
    <2>1. BusTypeOK
        BY EventsAssumption, EmptySeq DEF BusInit, BusTypeOK, Tokens, Still
    <2>2. OneOwner
        BY DEF BusInit, OneOwner
    <2>3. FreshTokens
        BY DEF BusInit, FreshTokens
    <2>4. InStep /\ CallsLeft
        BY DEF BusInit, InStep, CallsLeft
    <2>5. \A t \in Tokens : DOMAIN got[t] = {}
        BY DEF BusInit
    <2>6. PublishedOnly /\ NoneAfterRemoval
        BY <2>5 DEF PublishedOnly, NoneAfterRemoval
    <2>. QED
        BY <2>1, <2>2, <2>3, <2>4, <2>6 DEF BusInv
<1>2. BusInv /\ BusNext => BusInv'
    BY AttachKeepsInv, ResetKeepsInv, MoveKeepsInv, PublishKeepsInv, CallHandlerKeepsInv,
       DestroyBusKeepsInv DEF BusNext
<1>3. BusInv /\ UNCHANGED bus => BusInv'
    BY DEF bus, BusInv, BusTypeOK, OneOwner, FreshTokens, InStep, EventsBetween, CallsLeft,
           PublishedOnly, NoneAfterRemoval
<1>. QED
    BY <1>1, <1>2, <1>3, PTL DEF BusSpec

\* Every handler in the list belongs to exactly one Subscription, however the
\* objects were moved and in whatever order they and the bus were destroyed
\* (Subscription of events.hpp, attach()).
THEOREM SlotsAlwaysSound == BusSpec => []SlotsSound
<1>1. BusInv => SlotsSound
    BY DEF BusInv, SlotsSound
<1>. QED
    BY <1>1, BusInvariance, PTL

\* A handler gets every event of the time it was subscribed, in order and
\* once, whoever comes and goes during a delivery, and none that was
\* published after it unsubscribed (emit()).
THEOREM AlwaysDelivered == BusSpec => []Delivered
<1>1. BusInv => Delivered
    BY DEF BusInv, InStep, Delivered, NoEventMissed
<1>. QED
    BY <1>1, BusInvariance, PTL
=============================================================================
