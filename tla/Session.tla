------------------------------- MODULE Session -------------------------------
(***************************************************************************)
(* ControllerSession (src/protocol/session.cpp) with sign(), verify() and  *)
(* AntiReplay (src/protocol/auth.cpp, auth.hpp): hello, hello_ack, signed  *)
(* proof, running, abort and deadline, over connections that come and go.  *)
(* The requests in its dispatcher are the subject of Dispatcher.           *)
(*                                                                         *)
(* A MAC is the pair of its key and its input: two MACs are equal exactly  *)
(* if key and input are.  Server nonces, drawn at random by the code, are  *)
(* the numbers of the connections.  Devices keep their keys and never use  *)
(* a sequence number twice; apart from that nothing is assumed of the      *)
(* peer: hello may claim anything, a device may sign under any server      *)
(* nonce that was ever sent out, and a frame signed once may arrive late,  *)
(* repeatedly, out of order, over another connection or never.             *)
(*                                                                         *)
(* A definition marked "Fault" is what the one below it would be with a    *)
(* plausible mistake in the code; it is not part of the model.             *)
(***************************************************************************)
EXTENDS Integers, FiniteSets, Sequences

CONSTANTS
    Devices,            \* device ids
    Kids,               \* key ids
    Keys,               \* HMAC keys
    ClientNonces,       \* nonces the devices choose
    SignedTypes,        \* types of the frames a device signs
    Offers,             \* lists of key ids that a hello may offer
    Resolve,            \* Resolve[<<d, k>>]: CredentialProvider::resolve()
    DeviceKey,          \* DeviceKey[<<d, k>>]: the key d really has as k
    ConfigKid,          \* ControllerSessionConfig::kid
    Expected,           \* values of expected_device_id, None for ""
    HandshakeTimeout,   \* handshake_timeout
    None,               \* no key, no device, no nonce, no frame
    MaxConnections,     \* bound on the connections
    MaxSigned,          \* bound on the frames the devices sign
    MaxSent             \* bound on s2c_seq_ in a connection

ASSUME SessionAssumption ==
    /\ None \notin Devices \cup Kids \cup Keys \cup ClientNonces
    /\ "hello" \notin SignedTypes
    /\ Offers \subseteq Seq(Kids)
    /\ Resolve \in [Devices \X Kids -> Keys \cup {None}]
    /\ DeviceKey \in [Devices \X Kids -> Keys]
    /\ ConfigKid \in Kids
    /\ Expected \subseteq Devices \cup {None}
    /\ HandshakeTimeout \in Nat
    /\ MaxConnections \in Nat /\ MaxSigned \in Nat /\ MaxSent \in Nat

VARIABLES
    state,          \* state_
    auth,           \* auth_
    last,           \* replay_.last_
    s2c_seq,        \* s2c_seq_
    failed,         \* failed_
    time_left,      \* handshake_deadline_ minus the current time
    expected,       \* config_.expected_device_id
    transport,      \* the connection: none, open, or close() was called
    reading,        \* a read is pending, or completed with its handler queued
    conn,           \* number of the current or latest connection
    acked,          \* server nonces sent in an accepting hello_ack
    signed,         \* frames the devices have signed so far
    proof,          \* the frame that made this session running
    sent,           \* signed frames sent on this connection
    handed,         \* signed frames that passed all checks, on all connections
    verdicts        \* calls of on_ready and on_failed on this connection

connection == <<transport, reading, conn, expected>>
history == <<proof, sent, handed, verdicts>>
vars == <<state, auth, last, s2c_seq, failed, time_left, connection, acked,
          signed, history>>

SessionStates == {"Closed", "AwaitHello", "AwaitProof", "Running"}
Handshaking == state \in {"AwaitHello", "AwaitProof"}

Init ==
    /\ state = "Closed"
    /\ auth = [key |-> None, kid |-> None, device_id |-> None,
               server_nonce |-> 0, client_nonce |-> None]
    /\ last = 0
    /\ s2c_seq = 0
    /\ failed = FALSE
    /\ time_left = 0
    /\ expected \in Expected
    /\ transport = "none"
    /\ reading = FALSE
    /\ conn = 0
    /\ acked = {}
    /\ signed = {}
    /\ proof = None
    /\ sent = <<>>
    /\ handed = <<>>
    /\ verdicts = <<>>

-----------------------------------------------------------------------------
(* Signatures and sequence numbers.                                        *)

\* Fault: the MAC does not cover the device id.
MacInputAnyDevice(ctx, dir, type, kid, seq) ==
    <<dir, type, kid, seq, ctx.server_nonce, ctx.client_nonce>>
\* Fault: the MAC does not cover the server's nonce.
MacInputAnySession(ctx, dir, type, kid, seq) ==
    <<dir, type, ctx.device_id, kid, seq, ctx.client_nonce>>

\* mac_input().  Body, time stamp and ids of a frame follow from its context
\* and its sequence number, because a device uses each of these once.
MacInput(ctx, dir, type, kid, seq) ==
    <<dir, type, ctx.device_id, kid, seq, ctx.server_nonce, ctx.client_nonce>>

\* compute_mac()
Mac(key, input) == <<key, input>>

\* sign(): the field "auth" of a signed frame.
Sign(ctx, dir, type, seq) ==
    [kid |-> ctx.kid, seq |-> seq,
     mac |-> Mac(ctx.key, MacInput(ctx, dir, type, ctx.kid, seq))]

\* verify() under the session's context.
Verify(m) ==
    /\ m.auth # None
    /\ m.auth.kid = auth.kid
    /\ m.auth.mac = Mac(auth.key, MacInput(auth, "c2s", m.type, m.auth.kid, m.auth.seq))

\* AntiReplay::check(); the caller stores seq when it holds.
Check(last_, seq) == seq > last_

\* The two checks of a signed frame, entered with replay_.last_ = last_.
Passes(m, last_) == Verify(m) /\ Check(last_, m.auth.seq)

-----------------------------------------------------------------------------
(* What peers send.  A frame is a record with a type and the field auth;   *)
(* ctx is not on the wire and says under which context a device signed it. *)

Contexts ==
    [key : Keys, kid : Kids, device_id : Devices,
     server_nonce : Nat \ {0}, client_nonce : ClientNonces]

Hellos ==
    [type : {"hello"}, auth : {None}, device_id : Devices,
     client_nonce : ClientNonces, kids : Offers, scheme_ok : BOOLEAN]

\* A frame without auth that is not hello, one that says that the peer knows
\* no common protocol, and one whose auth nobody computed.
Unsigned == [type |-> "dp_report", auth |-> None]
Mismatch == [type |-> "protocol_mismatch", auth |-> None]
Damaged == [type |-> "dp_report",
            auth |-> [kid |-> ConfigKid, seq |-> 1, mac |-> <<>>]]

Messages == Hellos \cup {Unsigned, Mismatch, Damaged} \cup signed

\* A device signs its next frame under a server nonce that it was told.
DeviceSigns(ctx, type) ==
    /\ Cardinality(signed) < MaxSigned
    /\ ctx.server_nonce \in acked
    /\ ctx.key = DeviceKey[<<ctx.device_id, ctx.kid>>]
    /\ LET seq == 1 + Cardinality({f \in signed : f.ctx = ctx})
       IN  signed' = signed \cup {[type |-> type, ctx |-> ctx,
                                   auth |-> Sign(ctx, "c2s", type, seq)]}
    /\ UNCHANGED <<state, auth, last, s2c_seq, failed, time_left, connection,
                   acked, history>>

-----------------------------------------------------------------------------
(* Helpers of the handlers.                                                *)

\* Fault: abort() may run twice.
NeverGaveUp == FALSE

\* "if (failed_) return;"
GaveUp == failed

\* Fault: the connection stays open.
LeftOpen == transport

\* close_(): WssTransport::close() on an open connection.
CloseCalled == IF transport = "open" THEN "closing" ELSE transport

\* abort(): the first call closes the connection and reports the failure.
Abort(domain) ==
    \/ /\ GaveUp
       /\ UNCHANGED <<state, failed, transport, verdicts>>
    \/ /\ ~GaveUp
       /\ failed' = TRUE
       /\ state' = "Closed"
       /\ transport' = CloseCalled
       /\ verdicts' = Append(verdicts, domain)

\* Fault: the counter is raised after it was used.
SeqBeforeIncrement == s2c_seq

\* "s2c_seq_++; sign(message, auth_, s2c_seq_, ...)"
NextSeq == s2c_seq + 1

\* A control message is signed and given to the transport, which takes it
\* only while it is open; the sequence number is used up in any case.
Transmit(type) ==
    /\ s2c_seq' = s2c_seq + 1
    /\ sent' = IF transport = "open"
               THEN Append(sent, [at |-> state, type |-> type,
                                  auth |-> Sign(auth, "s2c", type, NextSeq)])
               ELSE sent

\* dispatch_running() after the checks: the dispatcher takes what carries
\* in_reply_to, the client has callbacks for reports and for types that
\* find_meta() does not know, and anything else ends as a warning.
Reports == {"heartbeat", "dp_report", "device_alert", "ota_status", "error_report"}
Known == Reports \cup {"hello", "protocol_mismatch", "ota_check"}
Destination(type, is_reply) ==
    CASE is_reply -> "dispatcher"
      [] ~is_reply /\ type \in Reports -> "callback"
      [] ~is_reply /\ type \in Known \ Reports -> "warning"
      [] ~is_reply /\ type \notin Known -> "on_unknown"

HandOn(m, to) == handed' = Append(handed, [conn |-> conn, frame |-> m, to |-> to])

\* dispatch_running().  A signed frame that fails a check is dropped with a
\* warning; frames without auth go on unchecked and are not recorded.
Dispatch(m, last_) ==
    \/ /\ Passes(m, last_)
       /\ last' = m.auth.seq
       /\ \E is_reply \in BOOLEAN : HandOn(m, Destination(m.type, is_reply))
    \/ /\ ~Passes(m, last_)
       /\ last' = last_
       /\ UNCHANGED handed

-----------------------------------------------------------------------------
(* handle_hello()                                                          *)

\* There is a provider: SecurityConfiguration::validate() refuses to connect
\* without one, and none of the setters takes it away.  So the branch for a
\* session without a provider, whose failure is one of the configuration and
\* not of the authentication, is not taken.
Resolved(m, i) == Resolve[<<m.device_id, m.kids[i]>>] # None

\* Where the loop over the offer stops: at the first key id that the provider
\* can resolve, if there is one.
StopsAt(m) == {i \in DOMAIN m.kids : Resolved(m, i) /\ \A j \in 1..(i - 1) : ~Resolved(m, j)}

ChosenKid(m) == IF StopsAt(m) = {} THEN None ELSE m.kids[CHOOSE i \in StopsAt(m) : TRUE]

\* Its key; none while no key id was resolved.
ChosenKey(m) ==
    IF ChosenKid(m) = None THEN None ELSE Resolve[<<m.device_id, ChosenKid(m)>>]

WrongDevice(m) == expected # None /\ m.device_id # expected

\* "!scheme_ok || chosen_kid.empty()"
Refuses(m) == ~m.scheme_ok \/ ChosenKid(m) = None

Rejected(m) == WrongDevice(m) \/ Refuses(m)

HandleHello(m) ==
    \/ /\ m.type # "hello"
       /\ Abort("protocol")
       /\ UNCHANGED <<auth, acked>>
    \/ /\ m.type = "hello"
       /\ Rejected(m)
       /\ auth' = [auth EXCEPT !.client_nonce = m.client_nonce]
       /\ Abort("auth")
       /\ UNCHANGED acked
    \/ /\ m.type = "hello"
       /\ ~Rejected(m)
       /\ auth' = [auth EXCEPT !.client_nonce = m.client_nonce,
                               !.key = ChosenKey(m),
                               !.kid = ChosenKid(m),
                               !.device_id = m.device_id]
       /\ acked' = IF transport = "open" THEN acked \cup {auth.server_nonce} ELSE acked
       /\ state' = "AwaitProof"
       /\ UNCHANGED <<failed, transport, verdicts>>

-----------------------------------------------------------------------------
(* handle_proof()                                                          *)

Ready(m) ==
    /\ state' = "Running"
    /\ verdicts' = Append(verdicts, "ready")
    /\ proof' = m
    /\ UNCHANGED <<failed, transport>>

\* answer_ota_check(): ota_none is not signed, ota_available is.
AnswerOtaCheck(m) ==
    /\ HandOn(m, "ota_reply")
    /\ Transmit("ota_available") \/ UNCHANGED <<s2c_seq, sent>>

HandleProof(m) ==
    \/ /\ ~Passes(m, last)
       /\ Abort("auth")
       /\ UNCHANGED <<last, s2c_seq, sent, handed, proof>>
    \/ /\ Passes(m, last)
       /\ Ready(m)
       /\ \/ /\ m.type = "ota_check"
             /\ last' = m.auth.seq
             /\ AnswerOtaCheck(m)
          \/ /\ m.type # "ota_check"
             /\ Dispatch(m, m.auth.seq)
             /\ UNCHANGED <<s2c_seq, sent>>

-----------------------------------------------------------------------------
(* The events.                                                             *)

\* on_transport_open().  A frame of the previous connection was handled before
\* the new one is open.
TransportOpen ==
    /\ transport = "none" /\ ~reading
    /\ conn < MaxConnections
    /\ transport' = "open"
    /\ reading' = TRUE
    /\ conn' = conn + 1
    /\ expected' \in Expected
    /\ auth' = [key |-> None, kid |-> ConfigKid, device_id |-> None,
                server_nonce |-> conn + 1, client_nonce |-> None]
    /\ last' = 0
    /\ s2c_seq' = 0
    /\ failed' = FALSE
    /\ time_left' = HandshakeTimeout
    /\ state' = "AwaitHello"
    /\ proof' = None
    /\ sent' = <<>>
    /\ verdicts' = <<>>
    /\ UNCHANGED <<acked, signed, handed>>

\* close() by the client: the session is not told.
UserClose ==
    /\ transport = "open"
    /\ transport' = "closing"
    /\ UNCHANGED <<state, auth, last, s2c_seq, failed, time_left, reading, conn,
                   expected, acked, signed, history>>

\* on_transport_closed().  A read that had completed before is still handled:
\* WssTransport::on_read() does not look at the phase first.
TransportClosed ==
    /\ transport # "none"
    /\ transport' = "none"
    /\ reading' \in {FALSE, reading}
    /\ state' = "Closed"
    /\ UNCHANGED <<auth, last, s2c_seq, failed, time_left, conn, expected, acked,
                   signed, history>>

\* on_text().  The next read starts only if the connection is still open.
OnText ==
    /\ reading
    /\ reading' = (transport' = "open")
    /\ UNCHANGED <<time_left, conn, expected, signed>>

\* Something that is not a JSON object.
OnGarbage ==
    /\ \/ /\ state = "Running"
          /\ UNCHANGED <<state, failed, transport, verdicts>>
       \/ /\ state # "Running"
          /\ Abort("protocol")
    /\ OnText
    /\ UNCHANGED <<auth, last, s2c_seq, acked, proof, sent, handed>>

OnHello(m) ==
    /\ state = "AwaitHello"
    /\ HandleHello(m)
    /\ OnText
    /\ UNCHANGED <<last, s2c_seq, proof, sent, handed>>

OnProof(m) ==
    /\ state = "AwaitProof"
    /\ HandleProof(m)
    /\ OnText
    /\ UNCHANGED <<auth, acked>>

OnRunning(m) ==
    /\ state = "Running"
    /\ Dispatch(m, last)
    /\ UNCHANGED <<state, auth, s2c_seq, failed, transport, acked, proof, sent,
                   verdicts>>
    /\ OnText

\* "ignore after close"
OnClosed ==
    /\ state = "Closed"
    /\ UNCHANGED <<state, auth, last, s2c_seq, failed, transport, acked, history>>
    /\ OnText

\* Time passes.
Elapse ==
    /\ Handshaking
    /\ time_left > 0
    /\ time_left' = time_left - 1
    /\ UNCHANGED <<state, auth, last, s2c_seq, failed, connection, acked, signed,
                   history>>

\* Fault: the deadline is for hello only.
HelloPending == state = "AwaitHello"

\* The states for which tick() looks at the deadline.
DeadlineApplies == Handshaking

\* tick() after the deadline; before it only the dispatcher works.  The client
\* ticks while the connection is open.
Tick ==
    /\ transport = "open"
    /\ DeadlineApplies
    /\ time_left = 0
    /\ Abort("protocol")
    /\ UNCHANGED <<auth, last, s2c_seq, time_left, reading, conn, expected, acked,
                   signed, proof, sent, handed>>

\* encode_and_send() of a control request, called by the dispatcher.  A frame
\* that is too large is not sent.
SendRequest ==
    /\ state = "Running"
    /\ s2c_seq < MaxSent
    /\ \/ Transmit("command")
       \/ s2c_seq' = s2c_seq + 1 /\ UNCHANGED sent
    /\ UNCHANGED <<state, auth, last, failed, time_left, connection, acked,
                   signed, proof, handed, verdicts>>

\* send_message() of a control type through RawProtocol: in any state.
SendMessage ==
    /\ conn > 0
    /\ s2c_seq < MaxSent
    /\ Transmit("raw")
    /\ UNCHANGED <<state, auth, last, failed, time_left, connection, acked,
                   signed, proof, handed, verdicts>>

Next ==
    \/ TransportOpen \/ UserClose \/ TransportClosed
    \/ OnGarbage \/ OnClosed
    \/ \E m \in Messages : OnHello(m) \/ OnProof(m) \/ OnRunning(m)
    \/ Elapse \/ Tick
    \/ SendRequest \/ SendMessage
    \/ \E d \in Devices, k \in Kids, n \in acked, c \in ClientNonces,
          type \in SignedTypes :
           DeviceSigns([key |-> DeviceKey[<<d, k>>], kid |-> k, device_id |-> d,
                        server_nonce |-> n, client_nonce |-> c], type)

Spec == Init /\ [][Next]_vars

\* Time passes, an open connection is ticked, and a close() ends: the WebSocket
\* stream has a timeout of its own.  Nothing is assumed of the peer.
Fairness ==
    /\ WF_vars(Elapse)
    /\ WF_vars(Tick)
    /\ WF_vars(transport = "closing" /\ TransportClosed)

FairSpec == Spec /\ Fairness

-----------------------------------------------------------------------------
(* Properties.                                                             *)

\* The fields of the session have their types, and a session that waits for a
\* proof has a key to check it with (handle_hello(), session.cpp:316).
TypeOK ==
    /\ state \in SessionStates
    /\ auth \in [key : Keys \cup {None}, kid : Kids \cup {None},
                 device_id : Devices \cup {None}, server_nonce : Nat,
                 client_nonce : ClientNonces \cup {None}]
    /\ last \in Nat /\ s2c_seq \in Nat /\ conn \in Nat
    /\ failed \in BOOLEAN /\ reading \in BOOLEAN
    /\ time_left \in 0..HandshakeTimeout
    /\ expected \in Devices \cup {None}
    /\ transport \in {"none", "open", "closing"}
    /\ acked \subseteq 1..conn
    /\ proof \in signed \cup {None}
    /\ state \in {"AwaitProof", "Running"} => auth.key \in Keys

\* A running session talks to the device it says it talks to: that device
\* itself has signed a frame under this connection's nonces and the key that
\* the session uses, and it is the expected device if one is expected.  Frames
\* of other devices, of other connections and repeated ones do not suffice.
Authentic ==
    state = "Running" =>
        /\ proof \in signed
        /\ proof.ctx = auth
        /\ auth.server_nonce = conn
        /\ expected # None => proof.ctx.device_id = expected

\* AntiReplay and the nonces: no signed frame is handed on twice, neither on
\* one connection nor on a later one, however often it arrives.
HandedOnce ==
    \A i, j \in DOMAIN handed : handed[i].frame = handed[j].frame => i = j

\* The signed frames of one connection are handed on in the order in which the
\* device signed them, although they may arrive in any order.
HandedInOrder ==
    \A i, j \in DOMAIN handed :
        i < j /\ handed[i].conn = handed[j].conn =>
            handed[i].frame.auth.seq < handed[j].frame.auth.seq

\* Nothing is replayed: over all connections the signed frames are handed on
\* once each and, within a connection, in the order of their signing.
NotReplayed ==
    /\ TypeOK
    /\ HandedOnce
    /\ HandedInOrder

\* The device accepts our signed frames: it checks them as we check its own,
\* under the context it has signed its proof with and with a counter that
\* starts at 0.  A number used for a frame that was too large leaves a gap and
\* no repetition; only frames sent before hello was answered are not meant.
OursAccepted ==
    state = "Running" =>
        \A i \in DOMAIN sent :
            sent[i].at # "AwaitHello" =>
                /\ sent[i].auth = Sign(proof.ctx, "s2c", sent[i].type, sent[i].auth.seq)
                /\ sent[i].auth.seq > (IF i = 1 THEN 0 ELSE sent[i - 1].auth.seq)

\* abort() and on_ready: on one connection the client hears at most once that
\* it is ready and at most once that the session gave up, and never that it is
\* ready after the session gave up.
OneVerdict ==
    \A i, j \in DOMAIN verdicts :
        i < j => verdicts[i] = "ready" /\ verdicts[j] # "ready"

\* The session keeps the promise of Link, which is all that Client uses.
SessionOfLink ==
    CASE state = "Closed" -> "closed"
      [] Handshaking -> "await"
      [] state = "Running" -> "running"
L == INSTANCE Link WITH session <- SessionOfLink
KeepsLink == L!Spec

\* tick() and handshake_deadline_: no connection stays in the handshake,
\* whatever the peer sends or does not send.
HandshakeEnds == Handshaking ~> ~Handshaking

-----------------------------------------------------------------------------
(* The inductive invariant.                                                *)

\* Every frame of a device was signed by it as it says.
FramesSigned ==
    /\ IsFiniteSet(signed)
    /\ \A f \in signed :
           /\ f.type \in SignedTypes
           /\ f.ctx \in Contexts
           /\ f.auth.seq \in Nat \ {0}
           /\ f.auth = Sign(f.ctx, "c2s", f.type, f.auth.seq)

\* A context belongs to one connection and, once hello was accepted, to a
\* device that may be connected.
ContextCurrent ==
    /\ auth.server_nonce = conn
    /\ state # "Closed" => conn > 0
    /\ state \in {"AwaitProof", "Running"} =>
           /\ auth \in Contexts
           /\ expected # None => auth.device_id = expected

IsSequence(s) == s \in Seq({s[i] : i \in DOMAIN s})

\* What was handed on was signed for the connection it came over, and the last
\* sequence number is not smaller than those handed on since that opened.
HandedForConnection ==
    /\ IsSequence(handed)
    /\ \A i \in DOMAIN handed :
           /\ handed[i].frame \in signed
           /\ handed[i].conn \in 0..conn
           /\ handed[i].frame.ctx.server_nonce = handed[i].conn
           /\ handed[i].conn = conn => handed[i].frame.auth.seq <= last

\* Our frames are numbered in order, and all that the device is to accept were
\* signed under the present context.
SentInOrder ==
    /\ IsSequence(sent)
    /\ \A i \in DOMAIN sent :
           /\ sent[i].auth.seq \in 1..s2c_seq
           /\ i > 1 => sent[i].auth.seq > sent[i - 1].auth.seq
           /\ sent[i].at # "AwaitHello" =>
                  sent[i].auth = Sign(auth, "s2c", sent[i].type, sent[i].auth.seq)
           /\ state = "AwaitHello" => sent[i].at = "AwaitHello"

\* Which verdicts go with which state.
VerdictsFit ==
    \/ Handshaking /\ ~failed /\ verdicts = <<>>
    \/ state = "Running" /\ ~failed /\ verdicts = <<"ready">>
    \/ state = "Closed" /\ ~failed /\ verdicts \in {<<>>, <<"ready">>}
    \/ /\ state = "Closed" /\ failed
       /\ \E d \in {"auth", "protocol"} : verdicts \in {<<d>>, Append(<<"ready">>, d)}

\* A session is closed exactly when its connection has ended or is being closed
\* by it.
ClosedTogether ==
    /\ state # "Closed" => transport # "none"
    /\ state = "Closed" => transport # "open"

IInv ==
    /\ TypeOK
    /\ FramesSigned
    /\ ContextCurrent
    /\ Authentic
    /\ HandedForConnection
    /\ HandedInOrder
    /\ SentInOrder
    /\ VerdictsFit
    /\ ClosedTogether
=============================================================================
