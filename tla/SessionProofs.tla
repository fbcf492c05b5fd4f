---------------------------- MODULE SessionProofs ----------------------------
(***************************************************************************)
(* Proofs about Session: a running session is authentic, no signed frame   *)
(* is handed on twice or out of order, the device accepts what we sign,    *)
(* a connection gets one verdict, and the session implements Link.         *)
(***************************************************************************)
EXTENDS Session, FiniteSetTheorems, SequenceTheorems, TLAPS

-----------------------------------------------------------------------------
(* Sequences and signatures.                                               *)

\* Append() adds one element at the end and changes none.
LEMMA Appended ==
    ASSUME NEW s, IsSequence(s), NEW e
    PROVE  /\ IsSequence(Append(s, e))
           /\ Len(s) \in Nat
           /\ DOMAIN s = 1..Len(s)
           /\ DOMAIN Append(s, e) = 1..(Len(s) + 1)
           /\ \A i \in DOMAIN s : Append(s, e)[i] = s[i]
           /\ Append(s, e)[Len(s) + 1] = e
<1> DEFINE R == {s[i] : i \in DOMAIN s}
           T == R \cup {e}
           t == Append(s, e)
<1>1. s \in Seq(R)
  BY DEF IsSequence
<1>2. s \in Seq(T)
  BY <1>1
<1>3. /\ t \in Seq(T)
      /\ Len(t) = Len(s) + 1
      /\ \A i \in 1..Len(s) : t[i] = s[i]
      /\ t[Len(s) + 1] = e
  BY <1>2, AppendProperties, e \in T
<1>4. Len(s) \in Nat /\ DOMAIN s = 1..Len(s) /\ DOMAIN t = 1..(Len(s) + 1)
  BY <1>2, <1>3
<1>5. t \in Seq({t[i] : i \in DOMAIN t})
  BY <1>3, <1>4
<1> QED
  BY <1>3, <1>4, <1>5 DEF IsSequence

\* A frame that verify() accepts was signed by a device, under exactly the
\* context of the session.
LEMMA Verified ==
    ASSUME TypeOK, FramesSigned, NEW m \in Messages, Verify(m)
    PROVE  /\ m \in signed
           /\ m.ctx = auth
           /\ m.auth.seq \in Nat \ {0}
<1>1. m \notin Hellos /\ m # Unsigned /\ m # Mismatch
  BY DEF Verify, Hellos, Unsigned, Mismatch
<1>2. m # Damaged
  <2> SUFFICES ASSUME m = Damaged PROVE FALSE
    OBVIOUS
  <2>1. m.auth.mac = <<>>
    BY DEF Damaged
  <2>2. m.auth.mac = <<auth.key, MacInput(auth, "c2s", m.type, m.auth.kid, m.auth.seq)>>
    BY DEF Verify, Mac
  <2> QED
    BY <2>1, <2>2
<1>3. m \in signed
  BY <1>1, <1>2 DEF Messages
<1>4. /\ m.ctx \in Contexts
      /\ m.auth.seq \in Nat \ {0}
      /\ m.auth = Sign(m.ctx, "c2s", m.type, m.auth.seq)
  BY <1>3 DEF FramesSigned
<1>5. /\ m.auth.kid = m.ctx.kid
      /\ m.auth.mac = <<m.ctx.key, MacInput(m.ctx, "c2s", m.type, m.ctx.kid, m.auth.seq)>>
  BY <1>4 DEF Sign, Mac
<1>6. /\ m.auth.kid = auth.kid
      /\ m.auth.mac = <<auth.key, MacInput(auth, "c2s", m.type, m.auth.kid, m.auth.seq)>>
  BY DEF Verify, Mac
<1>7. /\ m.ctx.key = auth.key
      /\ MacInput(m.ctx, "c2s", m.type, m.ctx.kid, m.auth.seq)
           = MacInput(auth, "c2s", m.type, m.auth.kid, m.auth.seq)
  BY <1>5, <1>6
<1>8. /\ m.ctx.device_id = auth.device_id
      /\ m.ctx.server_nonce = auth.server_nonce
      /\ m.ctx.client_nonce = auth.client_nonce
  BY <1>7 DEF MacInput
<1>9. m.ctx = auth
  <2> DEFINE R == [key : Keys \cup {None}, kid : Kids \cup {None},
                   device_id : Devices \cup {None}, server_nonce : Nat,
                   client_nonce : ClientNonces \cup {None}]
  <2>1. auth \in R
    BY DEF TypeOK
  <2>2. m.ctx \in R
    BY <1>4 DEF Contexts
  <2>3. \A a, b \in R :
           /\ a.key = b.key /\ a.kid = b.kid /\ a.device_id = b.device_id
           /\ a.server_nonce = b.server_nonce /\ a.client_nonce = b.client_nonce
           => a = b
    OBVIOUS
  <2> HIDE DEF R
  <2> QED
    BY <2>1, <2>2, <2>3, <1>5, <1>6, <1>7, <1>8
<1> QED
  BY <1>3, <1>4, <1>9

-----------------------------------------------------------------------------
(* Init and the steps: each keeps the invariant.                           *)

\* An accepted hello brings a key id of the offer and its key.
LEMMA Chosen ==
    ASSUME NEW m \in Messages, FramesSigned, m.type = "hello", ~Rejected(m)
    PROVE  /\ m \in Hellos
           /\ ChosenKid(m) \in Kids
           /\ ChosenKey(m) \in Keys
<1>1. m \in Hellos
  BY SessionAssumption DEF Messages, FramesSigned, Unsigned, Mismatch, Damaged
<1>2. m.device_id \in Devices /\ m.kids \in Seq(Kids)
  BY <1>1, SessionAssumption DEF Hellos
<1>3. ChosenKid(m) # None /\ StopsAt(m) # {}
  BY DEF Rejected, Refuses, ChosenKid
<1> DEFINE i == CHOOSE i \in StopsAt(m) : TRUE
<1>6. i \in StopsAt(m)
  BY <1>3
<1>7. ChosenKid(m) = m.kids[i]
  BY <1>3 DEF ChosenKid
<1>8. m.kids[i] \in Kids /\ Resolve[<<m.device_id, m.kids[i]>>] \in Keys
  <2>1. i \in DOMAIN m.kids /\ Resolve[<<m.device_id, m.kids[i]>>] # None
    BY <1>6 DEF StopsAt, Resolved
  <2> HIDE DEF i
  <2>2. m.kids[i] \in Kids
    BY <1>2, <2>1
  <2>3. Resolve[<<m.device_id, m.kids[i]>>] \in Keys \cup {None}
    BY <1>2, <2>2, SessionAssumption
  <2> QED
    BY <2>1, <2>2, <2>3
<1> QED
  BY <1>1, <1>3, <1>7, <1>8 DEF ChosenKey

\* A failure is reported once, and not before a session that is running.
LEMMA AbortVerdict ==
    ASSUME VerdictsFit, state # "Running", NEW d \in {"auth", "protocol"}, Abort(d)
    PROVE  VerdictsFit'
<1>1. CASE failed
  BY <1>1 DEF Abort, GaveUp, VerdictsFit, Handshaking
<1>2. CASE ~failed
  <2>1. verdicts \in {<<>>, <<"ready">>}
    BY <1>2 DEF VerdictsFit
  <2>2. Append(<<>>, d) = <<d>>
    OBVIOUS
  <2> QED
    BY <1>2, <2>1, <2>2 DEF Abort, GaveUp, VerdictsFit
<1> QED
  BY <1>1, <1>2

\* Handing on a frame of this connection with a larger sequence number.
LEMMA HandedOneMore ==
    ASSUME TypeOK, HandedForConnection, HandedInOrder, NEW m \in signed, NEW to,
           m.ctx.server_nonce = conn, m.auth.seq \in Nat, m.auth.seq > last,
           FramesSigned, HandOn(m, to), last' = m.auth.seq, UNCHANGED <<conn, signed>>
    PROVE  HandedForConnection' /\ HandedInOrder'
<1> DEFINE e == [conn |-> conn, frame |-> m, to |-> to]
           n == Len(handed)
<1>1. /\ IsSequence(handed')
      /\ n \in Nat
      /\ DOMAIN handed = 1..n
      /\ DOMAIN handed' = 1..(n + 1)
      /\ \A i \in 1..n : handed'[i] = handed[i]
      /\ handed'[n + 1] = e
  BY Appended DEF HandedForConnection, HandOn
<1>2. \A i \in 1..n :
         /\ handed[i].frame \in signed
         /\ handed[i].conn \in 0..conn
         /\ handed[i].frame.ctx.server_nonce = handed[i].conn
         /\ handed[i].frame.auth.seq \in Nat
         /\ handed[i].conn = conn => handed[i].frame.auth.seq <= last
  BY <1>1 DEF HandedForConnection, FramesSigned
<1>3. conn \in Nat /\ last \in Nat
  BY DEF TypeOK
<1>4. ASSUME NEW i \in 1..(n + 1)
      PROVE  /\ handed'[i].frame \in signed
             /\ handed'[i].conn \in 0..conn
             /\ handed'[i].frame.ctx.server_nonce = handed'[i].conn
             /\ handed'[i].conn = conn => handed'[i].frame.auth.seq <= m.auth.seq
  <2>1. CASE i \in 1..n
    BY <2>1, <1>1, <1>2, <1>3
  <2>2. CASE i = n + 1
    BY <2>2, <1>1, <1>3
  <2> QED
    BY <2>1, <2>2, <1>1
<1>5. ASSUME NEW i \in 1..(n + 1), NEW j \in 1..(n + 1), i < j,
             handed'[i].conn = handed'[j].conn
      PROVE  handed'[i].frame.auth.seq < handed'[j].frame.auth.seq
  <2>1. i \in 1..n
    BY <1>5, <1>1
  <2>2. CASE j \in 1..n
    BY <2>1, <2>2, <1>5, <1>1 DEF HandedInOrder
  <2>3. CASE j = n + 1
    BY <2>1, <2>3, <1>5, <1>1, <1>2, <1>3
  <2> QED
    BY <2>2, <2>3, <1>1
<1>6. HandedForConnection'
  BY <1>1, <1>4 DEF HandedForConnection
<1>7. HandedInOrder'
  BY <1>1, <1>5 DEF HandedInOrder
<1> QED
  BY <1>6, <1>7

\* Signing one frame under the present context with the next number.
LEMMA SentOneMore ==
    ASSUME TypeOK, SentInOrder, NEW type, Transmit(type), state # "Closed",
           UNCHANGED auth, state' = "AwaitHello" => state = "AwaitHello"
    PROVE  SentInOrder'
<1> DEFINE e == [at |-> state, type |-> type, auth |-> Sign(auth, "s2c", type, NextSeq)]
           n == Len(sent)
<1>1. s2c_seq \in Nat /\ s2c_seq' = s2c_seq + 1
  BY DEF TypeOK, Transmit
<1>2. CASE sent' = sent
  BY <1>1, <1>2 DEF SentInOrder
<1>3. CASE sent' = Append(sent, e)
  <2>1. /\ IsSequence(sent')
        /\ n \in Nat
        /\ DOMAIN sent = 1..n
        /\ DOMAIN sent' = 1..(n + 1)
        /\ \A i \in 1..n : sent'[i] = sent[i]
        /\ sent'[n + 1] = e
    BY <1>3, Appended DEF SentInOrder
  <2>2. /\ e.auth.seq = s2c_seq + 1
        /\ e.auth = Sign(auth, "s2c", e.type, e.auth.seq)
        /\ e.at = state
    BY DEF Sign, NextSeq
  <2>3. ASSUME NEW i \in 1..(n + 1)
        PROVE  /\ sent'[i].auth.seq \in 1..s2c_seq'
               /\ i > 1 => sent'[i].auth.seq > sent'[i - 1].auth.seq
               /\ sent'[i].at # "AwaitHello" =>
                      sent'[i].auth = Sign(auth, "s2c", sent'[i].type, sent'[i].auth.seq)
               /\ state' = "AwaitHello" => sent'[i].at = "AwaitHello"
    <3>1. CASE i \in 1..n
      <4>1. i > 1 => i - 1 \in 1..n
        BY <3>1, <2>1
      <4> QED
        BY <3>1, <4>1, <2>1, <1>1 DEF SentInOrder
    <3>2. CASE i = n + 1
      <4>1. i > 1 => /\ i - 1 \in 1..n
                     /\ sent'[i - 1] = sent[i - 1]
                     /\ sent[i - 1].auth.seq \in 1..s2c_seq
        BY <3>2, <2>1 DEF SentInOrder
      <4> HIDE DEF e
      <4> QED
        BY <3>2, <4>1, <2>1, <2>2, <1>1
    <3> QED
      BY <3>1, <3>2, <2>1
  <2> QED
    BY <2>1, <2>3 DEF SentInOrder
<1> QED
  BY <1>2, <1>3 DEF Transmit

\* The constructor's state satisfies the invariant.
LEMMA InitKeeps == Init => IInv
<1> SUFFICES ASSUME Init PROVE IInv
  OBVIOUS
<1> USE DEF Init
<1>1. TypeOK
  <2>1. auth \in [key : Keys \cup {None}, kid : Kids \cup {None},
                 device_id : Devices \cup {None}, server_nonce : Nat,
                 client_nonce : ClientNonces \cup {None}]
    OBVIOUS
  <2>2. expected \in Devices \cup {None} /\ time_left \in 0..HandshakeTimeout
    BY SessionAssumption
  <2> QED
    BY <2>1, <2>2 DEF TypeOK, SessionStates
<1>2. FramesSigned
  BY FS_EmptySet DEF FramesSigned
<1>3. IsSequence(<<>>)
  BY DEF IsSequence
<1>4. HandedForConnection /\ HandedInOrder /\ SentInOrder
  BY <1>3 DEF HandedForConnection, HandedInOrder, SentInOrder
<1>5. ContextCurrent /\ Authentic /\ VerdictsFit /\ ClosedTogether
  BY DEF ContextCurrent, Authentic, VerdictsFit, ClosedTogether
<1> QED
  BY <1>1, <1>2, <1>4, <1>5 DEF IInv

\* A new connection starts with fresh nonces and counters.
LEMMA TransportOpenKeeps ==
    ASSUME IInv, TransportOpen
    PROVE  IInv'
<1> USE DEF IInv
<1>11. TypeOK'
  <2>1. auth' \in [key : Keys \cup {None}, kid : Kids \cup {None},
                  device_id : Devices \cup {None}, server_nonce : Nat,
                  client_nonce : ClientNonces \cup {None}]
    BY SessionAssumption DEF TransportOpen, TypeOK
  <2>2. expected' \in Devices \cup {None} /\ time_left' \in 0..HandshakeTimeout
    BY SessionAssumption DEF TransportOpen
  <2>3. conn' \in Nat /\ acked' \subseteq 1..conn'
    BY DEF TransportOpen, TypeOK
  <2> QED
    BY <2>1, <2>2, <2>3 DEF TransportOpen, TypeOK, SessionStates
<1>12. FramesSigned'
  BY DEF TransportOpen, FramesSigned
<1>13. ContextCurrent'
  BY DEF TransportOpen, ContextCurrent, TypeOK, Contexts
<1>14. Authentic'
  BY DEF TransportOpen, Authentic, TypeOK, ContextCurrent
<1>15. HandedForConnection'
  BY DEF TransportOpen, HandedForConnection, TypeOK
<1>16. HandedInOrder'
  BY DEF TransportOpen, HandedInOrder
<1>17. SentInOrder'
  <2>1. IsSequence(<<>>)
    BY DEF IsSequence
  <2> QED
    BY <2>1 DEF TransportOpen, SentInOrder
<1>18. VerdictsFit'
  BY DEF TransportOpen, VerdictsFit, Handshaking
<1>19. ClosedTogether'
  BY DEF TransportOpen, ClosedTogether, TypeOK
<1> QED
  BY <1>11, <1>12, <1>13, <1>14, <1>15, <1>16, <1>17, <1>18, <1>19 DEF IInv

\* The client closes the connection.
LEMMA UserCloseKeeps ==
    ASSUME IInv, UserClose
    PROVE  IInv'
<1> USE DEF IInv
<1>11. TypeOK'
  BY DEF UserClose, history, TypeOK, SessionStates
<1>12. FramesSigned'
  BY DEF UserClose, history, FramesSigned
<1>13. ContextCurrent'
  BY DEF UserClose, history, ContextCurrent, TypeOK, Contexts
<1>14. Authentic'
  BY DEF UserClose, history, Authentic, TypeOK, ContextCurrent
<1>15. HandedForConnection'
  BY DEF UserClose, history, HandedForConnection, TypeOK
<1>16. HandedInOrder'
  BY DEF UserClose, history, HandedInOrder
<1>17. SentInOrder'
  BY DEF UserClose, history, SentInOrder, TypeOK
<1>18. VerdictsFit'
  BY DEF UserClose, history, VerdictsFit, Handshaking
<1>19. ClosedTogether'
  BY DEF UserClose, history, ClosedTogether, TypeOK
<1> QED
  BY <1>11, <1>12, <1>13, <1>14, <1>15, <1>16, <1>17, <1>18, <1>19 DEF IInv

\* The connection ends.
LEMMA TransportClosedKeeps ==
    ASSUME IInv, TransportClosed
    PROVE  IInv'
<1> USE DEF IInv
<1>11. TypeOK'
  BY DEF TransportClosed, history, TypeOK, SessionStates
<1>12. FramesSigned'
  BY DEF TransportClosed, history, FramesSigned
<1>13. ContextCurrent'
  BY DEF TransportClosed, history, ContextCurrent, TypeOK, Contexts
<1>14. Authentic'
  BY DEF TransportClosed, history, Authentic, TypeOK, ContextCurrent
<1>15. HandedForConnection'
  BY DEF TransportClosed, history, HandedForConnection, TypeOK
<1>16. HandedInOrder'
  BY DEF TransportClosed, history, HandedInOrder
<1>17. SentInOrder'
  BY DEF TransportClosed, history, SentInOrder, TypeOK
<1>18. VerdictsFit'
  BY DEF TransportClosed, history, VerdictsFit, Handshaking
<1>19. ClosedTogether'
  BY DEF TransportClosed, history, ClosedTogether, TypeOK
<1> QED
  BY <1>11, <1>12, <1>13, <1>14, <1>15, <1>16, <1>17, <1>18, <1>19 DEF IInv

\* Something that is not JSON: dropped, or the session gives up.
LEMMA OnGarbageKeeps ==
    ASSUME IInv, OnGarbage
    PROVE  IInv'
<1> USE DEF IInv
<1>11. TypeOK'
  BY DEF OnGarbage, OnText, Abort, GaveUp, CloseCalled, TypeOK, SessionStates
<1>12. FramesSigned'
  BY DEF OnGarbage, OnText, Abort, GaveUp, CloseCalled, FramesSigned
<1>13. ContextCurrent'
  BY DEF OnGarbage, OnText, Abort, GaveUp, CloseCalled, ContextCurrent, TypeOK, Contexts
<1>14. Authentic'
  BY DEF OnGarbage, OnText, Abort, GaveUp, CloseCalled, Authentic, TypeOK, ContextCurrent
<1>15. HandedForConnection'
  BY DEF OnGarbage, OnText, Abort, GaveUp, CloseCalled, HandedForConnection, TypeOK
<1>16. HandedInOrder'
  BY DEF OnGarbage, OnText, Abort, GaveUp, CloseCalled, HandedInOrder
<1>17. SentInOrder'
  BY DEF OnGarbage, OnText, Abort, GaveUp, CloseCalled, SentInOrder, TypeOK
<1>18. VerdictsFit'
  BY AbortVerdict DEF OnGarbage, VerdictsFit, Handshaking
<1>19. ClosedTogether'
  BY DEF OnGarbage, OnText, Abort, GaveUp, CloseCalled, ClosedTogether, TypeOK
<1> QED
  BY <1>11, <1>12, <1>13, <1>14, <1>15, <1>16, <1>17, <1>18, <1>19 DEF IInv

\* hello: accepted or refused.
LEMMA OnHelloKeeps ==
    ASSUME IInv, NEW m \in Messages, OnHello(m)
    PROVE  IInv'
<1> USE DEF IInv
<1>11. TypeOK'
  <2>1. CASE m.type # "hello"
    BY <2>1 DEF OnHello, OnText, HandleHello, Abort, GaveUp, CloseCalled, TypeOK, SessionStates
  <2>2. CASE m.type = "hello" /\ Rejected(m)
    <3>1. m.client_nonce \in ClientNonces
      BY <2>2, SessionAssumption DEF Messages, Hellos, FramesSigned, Unsigned, Mismatch, Damaged
    <3> QED
      BY <2>2, <3>1 DEF OnHello, OnText, HandleHello, Abort, GaveUp, CloseCalled, TypeOK, SessionStates
  <2>3. CASE m.type = "hello" /\ ~Rejected(m)
    <3>1. /\ m.client_nonce \in ClientNonces /\ m.device_id \in Devices
          /\ ChosenKid(m) \in Kids /\ ChosenKey(m) \in Keys
      BY <2>3, Chosen DEF Hellos
    <3>2. acked' \subseteq 1..conn
      BY <2>3 DEF OnHello, HandleHello, TypeOK, ContextCurrent, ClosedTogether
    <3> QED
      BY <2>3, <3>1, <3>2 DEF OnHello, OnText, HandleHello, TypeOK, SessionStates
  <2> QED
    BY <2>1, <2>2, <2>3
<1>12. FramesSigned'
  BY DEF OnHello, OnText, HandleHello, Abort, GaveUp, CloseCalled, FramesSigned
<1>13. ContextCurrent'
  <2>1. CASE m.type # "hello" \/ Rejected(m)
    BY <2>1 DEF OnHello, OnText, HandleHello, Abort, GaveUp, CloseCalled, TypeOK, ContextCurrent
  <2>2. CASE m.type = "hello" /\ ~Rejected(m)
    <3>1. /\ m.client_nonce \in ClientNonces /\ m.device_id \in Devices
          /\ ChosenKid(m) \in Kids /\ ChosenKey(m) \in Keys
      BY <2>2, Chosen DEF Hellos
    <3>2. auth.server_nonce \in Nat \ {0}
      BY DEF TypeOK, ContextCurrent, OnHello
    <3>3. auth' \in Contexts /\ auth'.server_nonce = conn
      BY <2>2, <3>1, <3>2 DEF OnHello, HandleHello, TypeOK, ContextCurrent, Contexts
    <3>4. expected # None => auth'.device_id = expected
      BY <2>2 DEF OnHello, HandleHello, TypeOK, Rejected, WrongDevice
    <3> QED
      BY <3>3, <3>4 DEF ContextCurrent, OnHello, OnText
  <2> QED
    BY <2>1, <2>2
<1>14. Authentic'
  BY DEF OnHello, OnText, HandleHello, Abort, GaveUp, CloseCalled, Authentic, TypeOK, ContextCurrent
<1>15. HandedForConnection'
  BY DEF OnHello, OnText, HandleHello, Abort, GaveUp, CloseCalled, HandedForConnection, TypeOK
<1>16. HandedInOrder'
  BY DEF OnHello, OnText, HandleHello, Abort, GaveUp, CloseCalled, HandedInOrder
<1>17. SentInOrder'
  BY DEF OnHello, OnText, HandleHello, Abort, GaveUp, CloseCalled, SentInOrder, TypeOK
<1>18. VerdictsFit'
  BY DEF OnHello, OnText, HandleHello, Abort, GaveUp, CloseCalled, VerdictsFit, Handshaking
<1>19. ClosedTogether'
  BY DEF OnHello, OnText, HandleHello, Abort, GaveUp, CloseCalled, ClosedTogether, TypeOK
<1> QED
  BY <1>11, <1>12, <1>13, <1>14, <1>15, <1>16, <1>17, <1>18, <1>19 DEF IInv

\* A frame for a closed session.
LEMMA OnClosedKeeps ==
    ASSUME IInv, OnClosed
    PROVE  IInv'
<1> USE DEF IInv
<1>11. TypeOK'
  BY DEF OnClosed, OnText, history, TypeOK, SessionStates
<1>12. FramesSigned'
  BY DEF OnClosed, OnText, history, FramesSigned
<1>13. ContextCurrent'
  BY DEF OnClosed, OnText, history, ContextCurrent, TypeOK, Contexts
<1>14. Authentic'
  BY DEF OnClosed, OnText, history, Authentic, TypeOK, ContextCurrent
<1>15. HandedForConnection'
  BY DEF OnClosed, OnText, history, HandedForConnection, TypeOK
<1>16. HandedInOrder'
  BY DEF OnClosed, OnText, history, HandedInOrder
<1>17. SentInOrder'
  BY DEF OnClosed, OnText, history, SentInOrder, TypeOK
<1>18. VerdictsFit'
  BY DEF OnClosed, OnText, history, VerdictsFit, Handshaking
<1>19. ClosedTogether'
  BY DEF OnClosed, OnText, history, ClosedTogether, TypeOK
<1> QED
  BY <1>11, <1>12, <1>13, <1>14, <1>15, <1>16, <1>17, <1>18, <1>19 DEF IInv

\* Time passes.
LEMMA ElapseKeeps ==
    ASSUME IInv, Elapse
    PROVE  IInv'
<1> USE DEF IInv
<1>11. TypeOK'
  BY SessionAssumption DEF Elapse, connection, history, TypeOK, SessionStates
<1>12. FramesSigned'
  BY DEF Elapse, connection, history, FramesSigned
<1>13. ContextCurrent'
  BY DEF Elapse, connection, history, ContextCurrent, TypeOK, Contexts
<1>14. Authentic'
  BY DEF Elapse, connection, history, Authentic, TypeOK, ContextCurrent
<1>15. HandedForConnection'
  BY DEF Elapse, connection, history, HandedForConnection, TypeOK
<1>16. HandedInOrder'
  BY DEF Elapse, connection, history, HandedInOrder
<1>17. SentInOrder'
  BY DEF Elapse, connection, history, SentInOrder, TypeOK
<1>18. VerdictsFit'
  BY DEF Elapse, connection, history, VerdictsFit, Handshaking
<1>19. ClosedTogether'
  BY DEF Elapse, connection, history, ClosedTogether, TypeOK
<1> QED
  BY <1>11, <1>12, <1>13, <1>14, <1>15, <1>16, <1>17, <1>18, <1>19 DEF IInv

\* The deadline.
LEMMA TickKeeps ==
    ASSUME IInv, Tick
    PROVE  IInv'
<1> USE DEF IInv
<1>11. TypeOK'
  BY DEF Tick, Abort, GaveUp, CloseCalled, DeadlineApplies, TypeOK, SessionStates
<1>12. FramesSigned'
  BY DEF Tick, Abort, GaveUp, CloseCalled, DeadlineApplies, FramesSigned
<1>13. ContextCurrent'
  BY DEF Tick, Abort, GaveUp, CloseCalled, DeadlineApplies, ContextCurrent, TypeOK, Contexts
<1>14. Authentic'
  BY DEF Tick, Abort, GaveUp, CloseCalled, DeadlineApplies, Authentic, TypeOK, ContextCurrent
<1>15. HandedForConnection'
  BY DEF Tick, Abort, GaveUp, CloseCalled, DeadlineApplies, HandedForConnection, TypeOK
<1>16. HandedInOrder'
  BY DEF Tick, Abort, GaveUp, CloseCalled, DeadlineApplies, HandedInOrder
<1>17. SentInOrder'
  BY DEF Tick, Abort, GaveUp, CloseCalled, DeadlineApplies, SentInOrder, TypeOK
<1>18. VerdictsFit'
  BY AbortVerdict DEF Tick, DeadlineApplies, Handshaking
<1>19. ClosedTogether'
  BY DEF Tick, Abort, GaveUp, CloseCalled, DeadlineApplies, ClosedTogether, TypeOK
<1> QED
  BY <1>11, <1>12, <1>13, <1>14, <1>15, <1>16, <1>17, <1>18, <1>19 DEF IInv

\* A frame for a running session.
LEMMA OnRunningKeeps ==
    ASSUME IInv, NEW m \in Messages, OnRunning(m)
    PROVE  IInv'
<1> USE DEF IInv
<1>1. Passes(m, last) => m \in signed /\ m.ctx = auth /\ m.auth.seq \in Nat \ {0} /\ m.auth.seq > last
  BY Verified DEF Passes, Check
<1>11. TypeOK'
  BY <1>1 DEF OnRunning, OnText, Dispatch, TypeOK, SessionStates
<1>12. FramesSigned'
  BY DEF OnRunning, OnText, Dispatch, HandOn, FramesSigned
<1>13. ContextCurrent'
  BY DEF OnRunning, OnText, Dispatch, HandOn, ContextCurrent, TypeOK, Contexts
<1>14. Authentic'
  BY DEF OnRunning, OnText, Dispatch, HandOn, Authentic, TypeOK, ContextCurrent
<1>15. HandedForConnection'
  <2>1. CASE Passes(m, last)
    BY <2>1, <1>1, HandedOneMore DEF OnRunning, OnText, Dispatch, HandOn, TypeOK, ContextCurrent
  <2>2. CASE ~Passes(m, last)
    BY <2>2 DEF OnRunning, OnText, Dispatch, HandedForConnection
  <2> QED
    BY <2>1, <2>2
<1>16. HandedInOrder'
  <2>1. CASE Passes(m, last)
    BY <2>1, <1>1, HandedOneMore DEF OnRunning, OnText, Dispatch, HandOn, TypeOK, ContextCurrent
  <2>2. CASE ~Passes(m, last)
    BY <2>2 DEF OnRunning, OnText, Dispatch, HandedInOrder
  <2> QED
    BY <2>1, <2>2
<1>17. SentInOrder'
  BY DEF OnRunning, OnText, Dispatch, HandOn, SentInOrder, TypeOK
<1>18. VerdictsFit'
  BY DEF OnRunning, OnText, Dispatch, HandOn, VerdictsFit, Handshaking
<1>19. ClosedTogether'
  BY DEF OnRunning, OnText, Dispatch, HandOn, ClosedTogether, TypeOK
<1> QED
  BY <1>11, <1>12, <1>13, <1>14, <1>15, <1>16, <1>17, <1>18, <1>19 DEF IInv

\* The proof.
LEMMA OnProofKeeps ==
    ASSUME IInv, NEW m \in Messages, OnProof(m)
    PROVE  IInv'
<1> USE DEF IInv
<1> DEFINE Good == Passes(m, last)
<1>1. Good => m \in signed /\ m.ctx = auth /\ m.auth.seq \in Nat \ {0} /\ m.auth.seq > last
  BY Verified DEF Passes, Check
<1>2. ~Good => Abort("auth") /\ UNCHANGED <<last, s2c_seq, sent, handed, proof>>
  BY DEF OnProof, HandleProof
<1>3. Good => /\ Ready(m)
              /\ \/ last' = m.auth.seq /\ HandOn(m, "ota_reply")
                 \/ last' = m.auth.seq /\ UNCHANGED handed
              /\ Transmit("ota_available") \/ UNCHANGED <<s2c_seq, sent>>
  <2> SUFFICES ASSUME Good
               PROVE  /\ Ready(m)
                      /\ \/ last' = m.auth.seq /\ HandOn(m, "ota_reply")
                         \/ last' = m.auth.seq /\ UNCHANGED handed
                      /\ Transmit("ota_available") \/ UNCHANGED <<s2c_seq, sent>>
    OBVIOUS
  <2>1. ~Passes(m, m.auth.seq)
    BY <1>1 DEF Passes, Check
  <2> QED
    BY <2>1 DEF OnProof, HandleProof, Dispatch, AnswerOtaCheck
<1>4. state = "AwaitProof" /\ UNCHANGED <<auth, acked, time_left, conn, expected, signed>>
      /\ reading' \in BOOLEAN
  BY DEF OnProof, OnText
<1>5. CASE ~Good
  <2> USE <1>2, <1>4, <1>5
  <2>1. TypeOK' /\ FramesSigned' /\ ContextCurrent' /\ Authentic' /\ ClosedTogether'
    BY DEF Abort, GaveUp, CloseCalled, TypeOK, SessionStates, FramesSigned, ContextCurrent, Authentic, ClosedTogether
  <2>2. HandedForConnection' /\ HandedInOrder' /\ SentInOrder'
    BY DEF Abort, GaveUp, HandedForConnection, HandedInOrder, SentInOrder
  <2>3. VerdictsFit'
    BY AbortVerdict
  <2> QED
    BY <2>1, <2>2, <2>3
<1>6. CASE Good
  <2> HIDE DEF Good
  <2> USE <1>1, <1>3, <1>4, <1>6
  <2>1. TypeOK'
    BY DEF Ready, Transmit, TypeOK, SessionStates
  <2>2. FramesSigned' /\ ClosedTogether' /\ ContextCurrent'
    BY DEF Ready, FramesSigned, ClosedTogether, ContextCurrent
  <2>3. Authentic'
    BY DEF Ready, Authentic, ContextCurrent
  <2>4. HandedForConnection' /\ HandedInOrder'
    <3>1. CASE HandOn(m, "ota_reply")
      BY <3>1, HandedOneMore DEF ContextCurrent
    <3>2. CASE UNCHANGED handed
      <4>1. last \in Nat /\ \A i \in DOMAIN handed : handed[i].frame.auth.seq \in Nat
        BY DEF TypeOK, HandedForConnection, FramesSigned
      <4> QED
        BY <3>2, <4>1 DEF HandedForConnection, HandedInOrder
    <3> QED
      BY <3>1, <3>2
  <2>5. SentInOrder'
    <3>1. CASE Transmit("ota_available")
      BY <3>1, SentOneMore DEF Ready
    <3>2. CASE UNCHANGED <<s2c_seq, sent>>
      BY <3>2 DEF SentInOrder, Ready
    <3> QED
      BY <3>1, <3>2
  <2>6. VerdictsFit'
    <3>1. verdicts = <<>> /\ ~failed
      BY DEF VerdictsFit
    <3>2. Append(<<>>, "ready") = <<"ready">>
      OBVIOUS
    <3> QED
      BY <3>1, <3>2 DEF Ready, VerdictsFit
  <2> QED
    BY <2>1, <2>2, <2>3, <2>4, <2>5, <2>6
<1> QED
  BY <1>5, <1>6

\* Our control messages.
LEMMA SendKeeps ==
    ASSUME IInv, SendRequest \/ SendMessage
    PROVE  IInv'
<1> USE DEF IInv
<1>11. TypeOK'
  <2>1. s2c_seq' \in Nat
    BY DEF SendRequest, SendMessage, Transmit, TypeOK
  <2> QED
    BY <2>1 DEF SendRequest, SendMessage, connection, TypeOK
<1>12. FramesSigned'
  BY DEF SendRequest, SendMessage, Transmit, connection, FramesSigned
<1>13. ContextCurrent'
  BY DEF SendRequest, SendMessage, Transmit, connection, ContextCurrent, TypeOK, Contexts
<1>14. Authentic'
  BY DEF SendRequest, SendMessage, Transmit, connection, Authentic, TypeOK, ContextCurrent
<1>15. HandedForConnection'
  BY DEF SendRequest, SendMessage, Transmit, connection, HandedForConnection, TypeOK
<1>16. HandedInOrder'
  BY DEF SendRequest, SendMessage, Transmit, connection, HandedInOrder
<1>17. SentInOrder'
  <2>1. CASE \E type : Transmit(type) /\ state # "Closed"
    BY <2>1, SentOneMore DEF SendRequest, SendMessage, connection
  <2>2. CASE UNCHANGED sent
    BY <2>2 DEF SendRequest, SendMessage, Transmit, connection, SentInOrder, TypeOK
  <2> QED
    BY <2>1, <2>2 DEF SendRequest, SendMessage, Transmit, ClosedTogether
<1>18. VerdictsFit'
  BY DEF SendRequest, SendMessage, Transmit, connection, VerdictsFit, Handshaking
<1>19. ClosedTogether'
  BY DEF SendRequest, SendMessage, Transmit, connection, ClosedTogether, TypeOK
<1> QED
  BY <1>11, <1>12, <1>13, <1>14, <1>15, <1>16, <1>17, <1>18, <1>19 DEF IInv

\* A device signs a frame.
LEMMA DeviceSignsKeeps ==
    ASSUME IInv, NEW ctx \in Contexts, NEW type \in SignedTypes,
           DeviceSigns(ctx, type)
    PROVE  IInv'
<1> USE DEF IInv
<1>11. TypeOK'
  BY DEF DeviceSigns, connection, history, TypeOK, SessionStates
<1>12. FramesSigned'
  <2> DEFINE own == {f \in signed : f.ctx = ctx}
             seq == 1 + Cardinality(own)
             g == [type |-> type, ctx |-> ctx, auth |-> Sign(ctx, "c2s", type, seq)]
  <2>1. seq \in Nat \ {0}
    <3>1. IsFiniteSet(own)
      BY FS_Subset DEF FramesSigned
    <3> QED
      BY <3>1, FS_CardinalityType
  <2>2. signed' = signed \cup {g}
    BY DEF DeviceSigns
  <2>3. IsFiniteSet(signed')
    BY <2>2, FS_AddElement DEF FramesSigned
  <2>4. /\ g.type \in SignedTypes /\ g.ctx \in Contexts /\ g.auth.seq \in Nat \ {0}
        /\ g.auth = Sign(g.ctx, "c2s", g.type, g.auth.seq)
    BY <2>1 DEF Sign
  <2> HIDE DEF g
  <2> QED
    BY <2>2, <2>3, <2>4 DEF FramesSigned
<1>13. ContextCurrent'
  BY DEF DeviceSigns, connection, history, ContextCurrent, TypeOK, Contexts
<1>14. Authentic'
  BY DEF DeviceSigns, connection, history, Authentic, TypeOK, ContextCurrent
<1>15. HandedForConnection'
  BY DEF DeviceSigns, connection, history, HandedForConnection, TypeOK
<1>16. HandedInOrder'
  BY DEF DeviceSigns, connection, history, HandedInOrder
<1>17. SentInOrder'
  BY DEF DeviceSigns, connection, history, SentInOrder, TypeOK
<1>18. VerdictsFit'
  BY DEF DeviceSigns, connection, history, VerdictsFit, Handshaking
<1>19. ClosedTogether'
  BY DEF DeviceSigns, connection, history, ClosedTogether, TypeOK
<1> QED
  BY <1>11, <1>12, <1>13, <1>14, <1>15, <1>16, <1>17, <1>18, <1>19 DEF IInv

-----------------------------------------------------------------------------
(* The theorems.                                                           *)

\* The invariant holds in every reachable state, for every number of devices,
\* keys, connections and frames.
THEOREM Invariance == Spec => []IInv
<1>1. Init => IInv
  BY InitKeeps
<1>2. IInv /\ [Next]_vars => IInv'
  <2> SUFFICES ASSUME IInv, [Next]_vars PROVE IInv'
    OBVIOUS
  <2>1. CASE TransportOpen
    BY <2>1, TransportOpenKeeps
  <2>2. CASE UserClose
    BY <2>2, UserCloseKeeps
  <2>3. CASE TransportClosed
    BY <2>3, TransportClosedKeeps
  <2>4. CASE OnGarbage
    BY <2>4, OnGarbageKeeps
  <2>5. CASE OnClosed
    BY <2>5, OnClosedKeeps
  <2>6. CASE \E m \in Messages : OnHello(m) \/ OnProof(m) \/ OnRunning(m)
    BY <2>6, OnHelloKeeps, OnProofKeeps, OnRunningKeeps
  <2>7. CASE Elapse
    BY <2>7, ElapseKeeps
  <2>8. CASE Tick
    BY <2>8, TickKeeps
  <2>9. CASE SendRequest \/ SendMessage
    BY <2>9, SendKeeps
  <2>10. ASSUME NEW d \in Devices, NEW k \in Kids, NEW n \in acked, NEW c \in ClientNonces,
                NEW type \in SignedTypes,
                DeviceSigns([key |-> DeviceKey[<<d, k>>], kid |-> k, device_id |-> d,
                             server_nonce |-> n, client_nonce |-> c], type)
         PROVE  IInv'
    <3> DEFINE ctx == [key |-> DeviceKey[<<d, k>>], kid |-> k, device_id |-> d,
                       server_nonce |-> n, client_nonce |-> c]
    <3>1. n \in Nat \ {0}
      BY DEF IInv, TypeOK
    <3>2. DeviceKey[<<d, k>>] \in Keys
      BY SessionAssumption
    <3>3. ctx \in Contexts
      BY <3>1, <3>2 DEF Contexts
    <3> HIDE DEF ctx
    <3>4. DeviceSigns(ctx, type)
      BY <2>10 DEF ctx
    <3> QED
      BY <3>3, <3>4, DeviceSignsKeeps
  <2>11. CASE UNCHANGED vars
    <3> USE <2>11 DEF vars, connection, history, IInv
    <3>1. TypeOK' /\ FramesSigned' /\ ContextCurrent' /\ Authentic'
      BY DEF TypeOK, FramesSigned, ContextCurrent, Authentic
    <3>2. HandedForConnection' /\ HandedInOrder'
      BY DEF HandedForConnection, HandedInOrder
    <3>3. SentInOrder'
      BY DEF SentInOrder
    <3>4. VerdictsFit' /\ ClosedTogether'
      BY DEF VerdictsFit, Handshaking, ClosedTogether
    <3> QED
      BY <3>1, <3>2, <3>3, <3>4
  <2> QED
    BY <2>1, <2>2, <2>3, <2>4, <2>5, <2>6, <2>7, <2>8, <2>9, <2>10, <2>11 DEF Next
<1> QED
  BY <1>1, <1>2, PTL DEF Spec

\* A running session is authentic: its device has proved that it holds the
\* key, on this connection.
THEOREM AuthenticSession == Spec => []Authentic
<1>1. IInv => Authentic
  BY DEF IInv
<1> QED
  BY <1>1, Invariance, PTL

\* No signed frame is handed on twice, on one connection or on two, and those
\* of one connection are handed on in the order in which the device signed
\* them, however many arrive and however often.
THEOREM NoReplay == Spec => []NotReplayed
<1>1. IInv => HandedOnce
  <2> SUFFICES ASSUME IInv,
                      NEW i \in DOMAIN handed, NEW j \in DOMAIN handed,
                      handed[i].frame = handed[j].frame
               PROVE  i = j
    BY DEF IInv, HandedOnce
  <2>1. handed[i].conn = handed[j].conn
    BY DEF IInv, HandedForConnection
  <2>2. handed[i].frame.auth.seq \in Nat
    BY DEF IInv, HandedForConnection, FramesSigned
  <2>3. i \in Nat /\ j \in Nat
    BY Appended DEF IInv, HandedForConnection
  <2>4. ~(i < j) /\ ~(j < i)
    BY <2>1, <2>2 DEF IInv, HandedInOrder
  <2> QED
    BY <2>3, <2>4
<1>2. IInv => NotReplayed
  BY <1>1 DEF IInv, NotReplayed
<1> QED
  BY <1>2, Invariance, PTL

\* The device accepts every control message that we sign once hello was
\* answered.
THEOREM DeviceAccepts == Spec => []OursAccepted
<1>1. IInv => OursAccepted
  <2> SUFFICES ASSUME IInv, state = "Running",
                      NEW i \in DOMAIN sent, sent[i].at # "AwaitHello"
               PROVE  /\ sent[i].auth = Sign(proof.ctx, "s2c", sent[i].type, sent[i].auth.seq)
                      /\ sent[i].auth.seq > (IF i = 1 THEN 0 ELSE sent[i - 1].auth.seq)
    BY DEF OursAccepted
  <2>1. proof.ctx = auth
    BY DEF IInv, Authentic
  <2>2. /\ sent[i].auth.seq \in 1..s2c_seq
        /\ i > 1 => sent[i].auth.seq > sent[i - 1].auth.seq
        /\ sent[i].auth = Sign(auth, "s2c", sent[i].type, sent[i].auth.seq)
    BY DEF IInv, SentInOrder
  <2>3. i \in Nat \ {0}
    BY Appended DEF IInv, SentInOrder
  <2>4. CASE i = 1
    BY <2>1, <2>2, <2>4
  <2>5. CASE i > 1
    BY <2>1, <2>2, <2>5
  <2> QED
    BY <2>3, <2>4, <2>5
<1> QED
  BY <1>1, Invariance, PTL

\* One verdict per connection.
THEOREM VerdictOnce == Spec => []OneVerdict
<1>1. IInv => OneVerdict
  <2> SUFFICES ASSUME IInv PROVE OneVerdict
    OBVIOUS
  <2>1. CASE verdicts = <<>>
    BY <2>1 DEF OneVerdict
  <2>2. CASE \E v : verdicts = <<v>>
    BY <2>2 DEF OneVerdict
  <2>3. ASSUME NEW d \in {"auth", "protocol"}, verdicts = Append(<<"ready">>, d)
        PROVE  OneVerdict
    <3>1. IsSequence(<<"ready">>)
      BY DEF IsSequence
    <3>2. Len(<<"ready">>) = 1 /\ DOMAIN <<"ready">> = 1..1
      OBVIOUS
    <3>3. DOMAIN verdicts = 1..2 /\ verdicts[1] = "ready" /\ verdicts[2] = d
      BY <3>1, <3>2, <2>3, Appended
    <3> QED
      BY <3>3 DEF OneVerdict
  <2> QED
    BY <2>1, <2>2, <2>3 DEF IInv, VerdictsFit
<1> QED
  BY <1>1, Invariance, PTL

\* The session keeps the promise that Client relies on.
THEOREM ImplementsLink == Spec => KeepsLink
<1>1. Init => L!Init
  BY DEF Init, L!Init, SessionOfLink, Handshaking
<1>2. IInv /\ [Next]_vars => [L!Next]_(L!vars)
  <2> SUFFICES ASSUME IInv, [Next]_vars PROVE [L!Next]_(L!vars)
    OBVIOUS
  <2> USE DEF L!Next, L!Open, L!Ready, L!Fail, L!Close, L!Closed, L!vars, SessionOfLink, Handshaking
  <2>0. /\ state \in SessionStates /\ transport \in {"none", "open", "closing"}
        /\ ClosedTogether /\ (state # "Closed" => ~failed)
    BY DEF IInv, TypeOK, VerdictsFit
  <2> USE <2>0 DEF SessionStates, ClosedTogether
  <2>1. CASE TransportOpen
    BY <2>1 DEF TransportOpen
  <2>2. CASE UserClose
    BY <2>2 DEF UserClose
  <2>3. CASE TransportClosed
    BY <2>3 DEF TransportClosed
  <2>4. CASE OnGarbage
    BY <2>4 DEF OnGarbage, Abort, GaveUp, CloseCalled
  <2>5. CASE OnClosed
    BY <2>5 DEF OnClosed
  <2>6. ASSUME NEW m \in Messages, OnHello(m) PROVE [L!Next]_(L!vars)
    BY <2>6 DEF OnHello, HandleHello, Abort, GaveUp, CloseCalled
  <2>7. ASSUME NEW m \in Messages, OnProof(m) PROVE [L!Next]_(L!vars)
    BY <2>7 DEF OnProof, HandleProof, Ready, Abort, GaveUp, CloseCalled
  <2>8. ASSUME NEW m \in Messages, OnRunning(m) PROVE [L!Next]_(L!vars)
    BY <2>8 DEF OnRunning
  <2>9. CASE Tick
    BY <2>9 DEF Tick, DeadlineApplies, Abort, GaveUp, CloseCalled
  <2>10. CASE UNCHANGED <<state, transport>>
    BY <2>10
  <2>11. Elapse \/ SendRequest \/ SendMessage \/ UNCHANGED vars => UNCHANGED <<state, transport>>
    BY DEF Elapse, SendRequest, SendMessage, vars, connection
  <2>12. \A ctx, type : DeviceSigns(ctx, type) => UNCHANGED <<state, transport>>
    BY DEF DeviceSigns, connection
  <2> QED
    BY <2>1, <2>2, <2>3, <2>4, <2>5, <2>6, <2>7, <2>8, <2>9, <2>10, <2>11, <2>12 DEF Next
<1> QED
  BY <1>1, <1>2, Invariance, PTL DEF Spec, KeepsLink, L!Spec
=============================================================================
