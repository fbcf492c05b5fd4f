-------------------------- MODULE TransportProofs ---------------------------
(***************************************************************************)
(* Proofs about Transport: what MCTransport checks with a queue of two     *)
(* frames holds for every limit of the queue and any number of frames.     *)
(***************************************************************************)
EXTENDS Transport, TLAPS

Setup == {"resolve", "connect", "tls", "ws"}

\* Setting up comes before everything else, one step at a time, also when
\* the transport was cancelled on the way; a close is the last operation to
\* start.
InStages ==
    /\ \A op \in Setup : async[op] # "none" =>
           /\ phase \notin {"Idle", "Open", "Closing"}
           /\ \A o \in Operations \ {op} : async[o] = "none"
    /\ phase = "Idle" => \A o \in Operations : async[o] = "none"
    /\ async["close"] # "none" => phase \in {"Closing", "Closed"}
    /\ write_active <=> async["write"] # "none"

\* The completion and the close handler are there as long as they are owed.
AnswersOwed ==
    /\ phase = "Idle" => answer = "none"
    /\ open_completion <=> answer = "waiting"
    /\ close_handler => answer = "ok" /\ closes = 0
    /\ closes \in {0, 1}
    /\ closes = 1 => answer = "ok"

IInv ==
    /\ TypeOK
    /\ NoOverlap
    /\ InStages
    /\ AnswersOwed
    /\ WritesWhatIsQueued
    /\ HeldIffWaiting

-----------------------------------------------------------------------------
(* The queue as a set of distinct frames.                                  *)

\* What push_back() of a frame that is not in the queue makes of it.
LEMMA Appended ==
  ASSUME NEW S, NEW q \in Seq(S), NEW e \in S, IsInjective(q), e \notin ToSet(q)
  PROVE  /\ Append(q, e) \in Seq(S)
         /\ Len(Append(q, e)) = Len(q) + 1
         /\ IsInjective(Append(q, e))
         /\ ToSet(Append(q, e)) = ToSet(q) \cup {e}
  <1> DEFINE r == Append(q, e)
  <1>1. /\ r \in Seq(S) /\ Len(r) = Len(q) + 1 /\ Len(q) \in Nat
        /\ DOMAIN q = 1..Len(q) /\ DOMAIN r = 1..(Len(q) + 1)
        /\ \A i \in 1..Len(q) : r[i] = q[i]
        /\ r[Len(q) + 1] = e
    OBVIOUS
  <1> HIDE DEF r
  <1>2. IsInjective(r)
    BY <1>1 DEF IsInjective, ToSet
  <1>3. ToSet(r) = ToSet(q) \cup {e}
    BY <1>1 DEF ToSet
  <1> QED BY <1>1, <1>2, <1>3 DEF r

\* What pop_front() makes of it.
LEMMA Popped ==
  ASSUME NEW S, NEW q \in Seq(S), IsInjective(q), q # <<>>
  PROVE  /\ Head(q) \in S /\ Head(q) \in ToSet(q)
         /\ Tail(q) \in Seq(S)
         /\ Len(Tail(q)) = Len(q) - 1
         /\ IsInjective(Tail(q))
         /\ ToSet(Tail(q)) = ToSet(q) \ {Head(q)}
  <1> DEFINE r == Tail(q)
  <1>1. /\ r \in Seq(S) /\ Len(r) = Len(q) - 1 /\ Len(q) \in Nat \ {0}
        /\ DOMAIN q = 1..Len(q) /\ DOMAIN r = 1..(Len(q) - 1)
        /\ \A i \in 1..(Len(q) - 1) : r[i] = q[i + 1]
        /\ Head(q) = q[1] /\ Head(q) \in S
    OBVIOUS
  <1> HIDE DEF r
  <1>2. IsInjective(r)
    <2> SUFFICES ASSUME NEW i \in DOMAIN r, NEW j \in DOMAIN r, r[i] = r[j] PROVE i = j
      BY DEF IsInjective
    <2>1. q[i + 1] = q[j + 1] /\ i + 1 \in DOMAIN q /\ j + 1 \in DOMAIN q
      BY <1>1
    <2>2. i + 1 = j + 1
      BY <2>1 DEF IsInjective
    <2> QED BY <1>1, <2>2
  <1>3. ToSet(r) = ToSet(q) \ {Head(q)}
    <2>1. ASSUME NEW x \in ToSet(r) PROVE x \in ToSet(q) \ {Head(q)}
      <3>1. PICK i \in DOMAIN r : x = r[i]
        BY DEF ToSet
      <3>2. x = q[i + 1] /\ i + 1 \in DOMAIN q /\ 1 \in DOMAIN q /\ i + 1 # 1
        BY <1>1, <3>1
      <3>3. q[i + 1] # q[1]
        BY <3>2 DEF IsInjective
      <3> QED BY <1>1, <3>2, <3>3 DEF ToSet
    <2>2. ASSUME NEW x \in ToSet(q), x # Head(q) PROVE x \in ToSet(r)
      <3>1. PICK i \in DOMAIN q : x = q[i]
        BY DEF ToSet
      <3>2. i # 1 /\ i \in 1..Len(q)
        BY <1>1, <2>2, <3>1
      <3>3. i - 1 \in DOMAIN r /\ r[i - 1] = q[i]
        BY <1>1, <3>2
      <3> QED BY <3>1, <3>3 DEF ToSet
    <2> QED BY <2>1, <2>2
  <1>4. Head(q) \in ToSet(q)
    BY <1>1 DEF ToSet
  <1> QED BY <1>1, <1>2, <1>3, <1>4 DEF r

\* The empty queue.
LEMMA Empty ==
  /\ <<>> \in Seq(Frames) /\ Len(<<>>) = 0
  /\ IsInjective(<<>>) /\ ToSet(<<>>) = {}
  BY DEF IsInjective, ToSet

-----------------------------------------------------------------------------
(* The invariant.                                                          *)

\* finish() answers what is owed and completes what is queued; what it does
\* not touch, the operations, is left to its callers.
LEMMA FinishKeeps ==
  ASSUME IInv, Finish
  PROVE  /\ phase' = "Closed" /\ socket' \in BOOLEAN
         /\ tx_queue' \in Seq(Frames) /\ Len(tx_queue') <= MaxTxQueue
         /\ sent' \in [Frames -> {"idle", "waiting", "ok", "error"}]
         /\ open_completion' \in BOOLEAN /\ close_handler' \in BOOLEAN
         /\ answer' \in {"none", "waiting", "ok", "error"}
         /\ closes' \in Nat
         /\ HeldIffWaiting'
         /\ AnswersOwed'
  <1> USE DEF IInv
  <1>1. CASE Finished
    <2>1. UNCHANGED <<phase, socket, answer, open_completion, close_handler, closes,
                      tx_queue, sent>>
      BY <1>1 DEF Finish, dial
    <2> QED BY <1>1, <2>1 DEF Finished, TypeOK, HeldIffWaiting, AnswersOwed
  <1>2. CASE ~Finished
    <2>1. /\ phase' = "Closed" /\ socket' = FALSE /\ tx_queue' = <<>>
          /\ sent' = Told(tx_queue)
          /\ open_completion' = FALSE
          /\ answer' = IF open_completion THEN "error" ELSE answer
          /\ \/ closes' = closes /\ close_handler' = close_handler
             \/ /\ ~open_completion /\ close_handler
                /\ closes' = closes + 1 /\ close_handler' = FALSE
      <3>1. DEFINE ends == ~open_completion /\ WasOpen /\ close_handler
      <3>2. /\ closes' = IF ends THEN closes + 1 ELSE closes
            /\ close_handler' = (close_handler /\ ~ends)
        BY <1>2 DEF Finish
      <3>3. close_handler \in BOOLEAN
        BY DEF TypeOK
      <3>4. CASE ends
        BY <1>2, <3>2, <3>4 DEF Finish, TakenCompletion
      <3>5. CASE ~ends
        BY <1>2, <3>2, <3>3, <3>5 DEF Finish, TakenCompletion
      <3> QED BY <3>4, <3>5
    <2>2. /\ sent' \in [Frames -> {"idle", "waiting", "ok", "error"}]
          /\ \A f \in Frames : sent'[f] # "waiting"
      BY <2>1 DEF Told, TypeOK, HeldIffWaiting
    <2>3. HeldIffWaiting'
      BY <2>1, <2>2, Empty DEF HeldIffWaiting
    <2>4. AnswersOwed'
      BY <2>1 DEF AnswersOwed, TypeOK
    <2>5. tx_queue' \in Seq(Frames) /\ Len(tx_queue') <= MaxTxQueue
      BY <2>1, Empty, TransportAssumption
    <2>6. /\ socket' \in BOOLEAN /\ open_completion' \in BOOLEAN
          /\ close_handler' \in BOOLEAN
      <3>1. close_handler \in BOOLEAN
        BY DEF TypeOK
      <3> QED BY <2>1, <3>1
    <2>7. answer' \in {"none", "waiting", "ok", "error"} /\ closes' \in Nat
      <3>1. answer \in {"none", "waiting", "ok", "error"} /\ closes \in Nat
        BY DEF TypeOK
      <3>2. closes' = closes \/ closes' = closes + 1
        BY <2>1
      <3>3. answer' = "error" \/ answer' = answer
        BY <2>1
      <3> QED BY <3>1, <3>2, <3>3
    <2> QED BY <2>1, <2>2, <2>3, <2>4, <2>5, <2>6, <2>7
  <1> QED BY <1>1, <1>2

\* A handler that only calls finish() keeps the invariant.
LEMMA FinishAfterKeeps ==
  ASSUME IInv, NEW op \in Operations \ {"write"}, FinishAfter(op)
  PROVE  IInv'
  <1>1. /\ Finish
        /\ async' = [o \in Operations |-> IF o = op THEN "none" ELSE async[o]]
        /\ UNCHANGED <<user_close, write_active, crashed>>
    BY DEF FinishAfter, Then
  <1>2. TypeOK' /\ HeldIffWaiting' /\ AnswersOwed' /\ phase' = "Closed"
    <2>1. async' \in [Operations -> {"none", "started", "succeeded", "overlap"}]
      BY <1>1 DEF IInv, TypeOK
    <2>2. user_close' \in BOOLEAN /\ write_active' \in BOOLEAN /\ crashed' \in BOOLEAN
      BY <1>1 DEF IInv, TypeOK
    <2>3. phase' = "Closed" /\ phase' \in Phases
      BY <1>1, FinishKeeps DEF Phases
    <2> QED BY <1>1, <2>1, <2>2, <2>3, FinishKeeps DEF TypeOK
  <1>3. NoOverlap'
    BY <1>1 DEF NoOverlap, IInv
  <1>4. InStages'
    BY <1>1, <1>2 DEF InStages, Setup, Operations, IInv
  <1>5. WritesWhatIsQueued'
    BY <1>2 DEF WritesWhatIsQueued
  <1> QED BY <1>2, <1>3, <1>4, <1>5 DEF IInv

\* The initial state satisfies it.
LEMMA InitInv == Init => IInv
  <1> SUFFICES ASSUME Init PROVE IInv
    OBVIOUS
  <1> USE Empty, TransportAssumption DEF Init
  <1>1. TypeOK
    <2>1. async \in [Operations -> {"none", "started", "succeeded", "overlap"}]
      OBVIOUS
    <2>2. sent \in [Frames -> {"idle", "waiting", "ok", "error"}]
      OBVIOUS
    <2>3. tx_queue \in Seq(Frames) /\ Len(tx_queue) <= MaxTxQueue
      OBVIOUS
    <2> QED BY <2>1, <2>2, <2>3 DEF TypeOK, Phases
  <1>2. NoOverlap /\ InStages
    BY DEF NoOverlap, InStages, Setup, Operations
  <1>3. AnswersOwed /\ WritesWhatIsQueued /\ HeldIffWaiting
    BY DEF AnswersOwed, WritesWhatIsQueued, HeldIffWaiting, Operations
  <1> QED BY <1>1, <1>2, <1>3 DEF IInv

\* A step of the setup starts the next one.
LEMMA SetupKeeps ==
  ASSUME IInv, OnResolve \/ OnConnect \/ OnTlsHandshake
  PROVE  IInv'
  <1>1. PICK op \in {"resolve", "connect", "tls"} :
            \E next \in {"Connecting", "TlsHandshake", "WsHandshake"} :
                \E started \in {"connect", "tls", "ws"} \ {op} :
                    Proceed(op, next, started) /\ (socket' = socket \/ socket' = TRUE)
    BY DEF OnResolve, OnConnect, OnTlsHandshake
  <1>2. PICK next \in {"Connecting", "TlsHandshake", "WsHandshake"},
             started \in {"connect", "tls", "ws"} \ {op} :
                Proceed(op, next, started) /\ (socket' = socket \/ socket' = TRUE)
    BY <1>1
  <1>3. /\ async[op] = "succeeded" /\ phase' = next
        /\ UNCHANGED <<user_close, answer, open_completion, close_handler, closes,
                       tx_queue, write_active, sent, crashed>>
    BY <1>2 DEF Proceed, Succeeds, dial, sending
  <1>4. \A o \in Operations \ {op} : async[o] = "none"
    BY <1>3 DEF IInv, InStages, Setup
  <1>5. async' = [o \in Operations |-> IF o = started THEN "started" ELSE "none"]
    BY <1>2, <1>4 DEF Proceed, Then, Operations
  <1>6. TypeOK' /\ NoOverlap'
    BY <1>2, <1>3, <1>5 DEF TypeOK, NoOverlap, Phases, IInv
  <1>7. ~write_active
    BY <1>4 DEF IInv, InStages, Operations
  <1>8. InStages'
    BY <1>3, <1>5, <1>7 DEF InStages, Setup, Operations
  <1>9. AnswersOwed' /\ WritesWhatIsQueued' /\ HeldIffWaiting'
    BY <1>3, <1>5 DEF AnswersOwed, WritesWhatIsQueued, HeldIffWaiting, Operations, IInv
  <1> QED BY <1>6, <1>8, <1>9 DEF IInv

\* The calls of the owner.
LEMMA OwnerKeeps ==
  ASSUME IInv, AsyncOpen \/ Cancel \/ Close \/ \E f \in Frames : AsyncSend(f)
  PROVE  IInv'
  <1>1. CASE AsyncOpen
    <2>1. /\ phase = "Idle" /\ phase' = "Resolving" /\ open_completion' = TRUE
          /\ answer' = "waiting"
          /\ UNCHANGED <<user_close, socket, close_handler, closes, tx_queue,
                         write_active, sent, crashed>>
      BY <1>1 DEF AsyncOpen, sending
    <2>2. async' = [o \in Operations |-> IF o = "resolve" THEN "started" ELSE "none"]
      BY <1>1, <2>1 DEF AsyncOpen, Then, None, IInv, InStages, Operations
    <2>3. TypeOK' /\ NoOverlap'
      BY <2>1, <2>2 DEF TypeOK, NoOverlap, Phases, IInv
    <2>4. ~write_active
      BY <2>1 DEF IInv, InStages, Operations
    <2>5. InStages'
      BY <2>1, <2>2, <2>4 DEF InStages, Setup, Operations
    <2>6. AnswersOwed'
      BY <2>1 DEF AnswersOwed, IInv
    <2>7. WritesWhatIsQueued' /\ HeldIffWaiting'
      BY <2>1, <2>2 DEF WritesWhatIsQueued, HeldIffWaiting, Operations, IInv
    <2> QED BY <2>3, <2>5, <2>6, <2>7 DEF IInv
  <1>2. ASSUME Finish, user_close' = TRUE, UNCHANGED <<async, write_active, crashed>>
        PROVE  IInv'
    <2>1. user_close' \in BOOLEAN /\ write_active' \in BOOLEAN /\ crashed' \in BOOLEAN
      BY <1>2 DEF IInv, TypeOK
    <2>2. async' \in [Operations -> {"none", "started", "succeeded", "overlap"}]
      BY <1>2 DEF IInv, TypeOK
    <2>3. phase' = "Closed" /\ phase' \in Phases
      BY <1>2, FinishKeeps DEF Phases
    <2>4. TypeOK'
      BY <1>2, <2>1, <2>2, <2>3, FinishKeeps DEF TypeOK
    <2>5. NoOverlap' /\ InStages'
      BY <1>2, <2>3 DEF NoOverlap, InStages, Setup, IInv
    <2>6. WritesWhatIsQueued'
      BY <2>3 DEF WritesWhatIsQueued
    <2> QED BY <1>2, <2>4, <2>5, <2>6, FinishKeeps DEF IInv
  <1>3. CASE Cancel
    BY <1>2, <1>3 DEF Cancel
  <1>4. CASE Close /\ phase # "Open"
    BY <1>2, <1>4 DEF Close
  <1>5. CASE Close /\ phase = "Open"
    <2>1. /\ phase = "Open" /\ phase' = "Closing" /\ user_close' = TRUE
          /\ UNCHANGED <<socket, answer, open_completion, close_handler, closes,
                         tx_queue, write_active, sent, crashed>>
      BY <1>5 DEF Close, dial
    <2>2. async["close"] = "none" /\ \A op \in Setup : async[op] = "none"
      BY <2>1 DEF IInv, InStages
    <2>3. async' = [o \in Operations |-> IF o = "close" THEN "started" ELSE async[o]]
      BY <1>5, <2>2 DEF Close, Then, None, Operations
    <2>4. TypeOK' /\ NoOverlap'
      BY <2>1, <2>3 DEF TypeOK, NoOverlap, Phases, IInv
    <2>5. InStages'
      BY <2>1, <2>2, <2>3 DEF InStages, Setup, Operations, IInv
    <2>6. AnswersOwed'
      BY <2>1 DEF AnswersOwed, IInv
    <2>7. WritesWhatIsQueued' /\ HeldIffWaiting'
      BY <2>1, <2>3 DEF WritesWhatIsQueued, HeldIffWaiting, Operations, IInv
    <2> QED BY <2>4, <2>5, <2>6, <2>7 DEF IInv
  <1>6. ASSUME NEW f \in Frames, AsyncSend(f) PROVE IInv'
    <2>0. /\ sent[f] = "idle"
          /\ UNCHANGED <<phase, user_close, socket, answer, open_completion,
                         close_handler, closes, crashed>>
      BY <1>6 DEF AsyncSend, dial
    <2>1. f \notin ToSet(tx_queue)
      BY <2>0 DEF IInv, HeldIffWaiting
    <2>2. CASE /\ sent' = [sent EXCEPT ![f] = "error"]
               /\ UNCHANGED <<tx_queue, write_active, async>>
      <3>1. TypeOK'
        BY <2>0, <2>2 DEF TypeOK, IInv
      <3>2. HeldIffWaiting'
        BY <2>1, <2>2 DEF HeldIffWaiting, TypeOK, IInv
      <3>3. NoOverlap' /\ InStages' /\ AnswersOwed' /\ WritesWhatIsQueued'
        BY <2>0, <2>2 DEF NoOverlap, InStages, Setup, AnswersOwed, WritesWhatIsQueued, IInv
      <3> QED BY <3>1, <3>2, <3>3 DEF IInv
    <2>3. CASE /\ phase = "Open" /\ ~QueueFull
               /\ sent' = [sent EXCEPT ![f] = "waiting"]
               /\ tx_queue' = Append(tx_queue, f)
               /\ write_active' = TRUE
               /\ IF WriteActive THEN UNCHANGED async ELSE Then(None, {"write"})
      <3>1. /\ tx_queue' \in Seq(Frames) /\ Len(tx_queue') = Len(tx_queue) + 1
            /\ IsInjective(tx_queue') /\ ToSet(tx_queue') = ToSet(tx_queue) \cup {f}
        BY <2>1, <2>3, Appended DEF IInv, HeldIffWaiting, TypeOK
      <3>2. Len(tx_queue) \in Nat /\ Len(tx_queue) < MaxTxQueue
        BY <2>3, TransportAssumption DEF QueueFull, IInv, TypeOK
      <3>3. Len(tx_queue') <= MaxTxQueue /\ tx_queue' # <<>>
        BY <3>1, <3>2, TransportAssumption
      <3>4. /\ async' \in [Operations -> {"none", "started", "succeeded", "overlap"}]
            /\ async'["write"] # "none" /\ async'["write"] # "overlap"
            /\ \A o \in Operations \ {"write"} : async'[o] = async[o]
        <4>1. CASE write_active
          BY <2>3, <4>1 DEF WriteActive, IInv, InStages, TypeOK, NoOverlap, Operations
        <4>2. CASE ~write_active
          BY <2>3, <4>2 DEF WriteActive, Then, None, IInv, InStages, TypeOK, Operations
        <4> QED BY <4>1, <4>2
      <3>5. \A op \in Setup : async[op] = "none"
        BY <2>3 DEF IInv, InStages
      <3>6. sent' \in [Frames -> {"idle", "waiting", "ok", "error"}]
        BY <2>3 DEF IInv, TypeOK
      <3>7. TypeOK'
        BY <2>0, <2>3, <3>1, <3>3, <3>4, <3>6 DEF TypeOK, IInv
      <3>8. NoOverlap'
        BY <3>4 DEF NoOverlap, IInv
      <3>9. InStages'
        BY <2>0, <2>3, <3>4, <3>5 DEF InStages, Setup, Operations, IInv
      <3>10. HeldIffWaiting'
        BY <2>3, <3>1 DEF HeldIffWaiting, TypeOK, IInv
      <3>11. AnswersOwed' /\ WritesWhatIsQueued'
        BY <2>0, <3>3 DEF AnswersOwed, WritesWhatIsQueued, IInv
      <3> QED BY <3>7, <3>8, <3>9, <3>10, <3>11 DEF IInv
    <2> QED BY <1>6, <2>2, <2>3 DEF AsyncSend
  <1> QED BY <1>1, <1>3, <1>4, <1>5, <1>6

\* The handlers of an open connection.
LEMMA OpenKeeps ==
  ASSUME IInv, OnWsHandshake \/ OnRead \/ (\E op \in Operations : Succeed(op))
  PROVE  IInv'
  <1>1. CASE OnWsHandshake
    <2>1. /\ async["ws"] = "succeeded" /\ phase' = "Open" /\ open_completion' = FALSE
          /\ answer' = IF open_completion THEN "ok" ELSE answer
          /\ close_handler' = (close_handler \/ open_completion)
          /\ UNCHANGED <<user_close, socket, closes, tx_queue, write_active, sent, crashed>>
      BY <1>1 DEF OnWsHandshake, Succeeds, TakenCompletion, sending
    <2>2. \A o \in Operations \ {"ws"} : async[o] = "none"
      BY <2>1 DEF IInv, InStages, Setup
    <2>3. async' = [o \in Operations |-> IF o = "read" THEN "started" ELSE "none"]
      BY <1>1, <2>2 DEF OnWsHandshake, Then, Operations
    <2>4. ~write_active
      BY <2>2 DEF IInv, InStages, Operations
    <2>5. open_completion \in BOOLEAN /\ close_handler \in BOOLEAN
      BY DEF IInv, TypeOK
    <2>6. answer' \in {"none", "waiting", "ok", "error"}
      BY <2>1 DEF IInv, TypeOK
    <2>7. TypeOK'
      BY <2>1, <2>3, <2>5, <2>6 DEF TypeOK, Phases, IInv
    <2>8. NoOverlap' /\ InStages'
      BY <2>1, <2>3, <2>4 DEF NoOverlap, InStages, Setup, Operations
    <2>9. AnswersOwed'
      <3>1. CASE open_completion
        BY <2>1, <2>5, <3>1 DEF AnswersOwed, IInv
      <3>2. CASE ~open_completion
        BY <2>1, <2>5, <3>2 DEF AnswersOwed, IInv
      <3> QED BY <3>1, <3>2
    <2>10. WritesWhatIsQueued' /\ HeldIffWaiting'
      BY <2>1, <2>3 DEF WritesWhatIsQueued, HeldIffWaiting, Operations, IInv
    <2> QED BY <2>7, <2>8, <2>9, <2>10 DEF IInv
  <1>2. ASSUME NEW op \in Operations, async[op] # "none",
               async' = [o \in Operations |-> IF o = op THEN async'[op] ELSE async[o]],
               async'[op] \in {"started", "succeeded"} \cup
                              (IF op = "write" THEN {} ELSE {"none"}),
               UNCHANGED <<phase, user_close, socket, answer, open_completion,
                           close_handler, closes, tx_queue, write_active, sent, crashed>>
        PROVE  IInv'
    <2>1. TypeOK' /\ NoOverlap'
      BY <1>2 DEF TypeOK, NoOverlap, IInv
    <2>2. InStages'
      BY <1>2 DEF InStages, Setup, Operations, IInv
    <2>3. AnswersOwed' /\ HeldIffWaiting' /\ WritesWhatIsQueued'
      BY <1>2 DEF AnswersOwed, HeldIffWaiting, WritesWhatIsQueued, Operations, IInv
    <2> QED BY <2>1, <2>2, <2>3 DEF IInv
  <1>3. CASE OnRead
    <2>1. /\ async["read"] = "succeeded"
          /\ UNCHANGED <<phase, user_close, socket, answer, open_completion,
                         close_handler, closes, tx_queue, write_active, sent, crashed>>
      BY <1>3 DEF OnRead, Succeeds, dial, sending
    <2>2. /\ async' = [o \in Operations |-> IF o = "read" THEN async'["read"] ELSE async[o]]
          /\ async'["read"] \in {"started", "none"}
      BY <1>3 DEF OnRead, Then, Operations
    <2> QED BY <1>2, <2>1, <2>2 DEF Operations
  <1>4. ASSUME NEW op \in Operations, Succeed(op) PROVE IInv'
    <2>1. /\ async[op] = "started"
          /\ async' = [async EXCEPT ![op] = "succeeded"]
          /\ UNCHANGED <<phase, user_close, socket, answer, open_completion,
                         close_handler, closes, tx_queue, write_active, sent, crashed>>
      BY <1>4 DEF Succeed, dial, sending
    <2>2. /\ async' = [o \in Operations |-> IF o = op THEN async'[op] ELSE async[o]]
          /\ async'[op] = "succeeded"
      BY <2>1 DEF IInv, TypeOK
    <2> QED BY <1>2, <2>1, <2>2
  <1> QED BY <1>1, <1>3, <1>4

\* The handlers of a write.
LEMMA WriteKeeps ==
  ASSUME IInv, OnWrite \/ OnWriteError \/ OnWriteUndefined
  PROVE  IInv'
  <1> DEFINE popped == Tail(tx_queue)
  <1>0. ASSUME tx_queue # <<>>
        PROVE  /\ Head(tx_queue) \in Frames /\ Head(tx_queue) \in ToSet(tx_queue)
               /\ popped \in Seq(Frames) /\ Len(popped) <= MaxTxQueue
               /\ IsInjective(popped)
               /\ ToSet(popped) = ToSet(tx_queue) \ {Head(tx_queue)}
    <2>1. tx_queue \in Seq(Frames) /\ IsInjective(tx_queue) /\ Len(tx_queue) <= MaxTxQueue
      BY DEF IInv, TypeOK, HeldIffWaiting
    <2>2. Len(tx_queue) \in Nat /\ MaxTxQueue \in Nat
      BY <2>1, TransportAssumption
    <2> QED BY <1>0, <2>1, <2>2, Popped
  <1> HIDE DEF popped
  <1>1. ASSUME UNCHANGED <<phase, user_close, socket, answer, open_completion,
                           close_handler, closes>>,
               crashed' \in BOOLEAN,
               async' = [o \in Operations |-> IF o = "write" THEN async'["write"] ELSE async[o]],
               async'["write"] \in {"none", "started"},
               async["write"] # "none",
               async'["write"] = "started" => tx_queue' # <<>>,
               write_active' = (async'["write"] = "started"),
               \/ tx_queue = <<>> /\ UNCHANGED <<tx_queue, sent>>
               \/ /\ tx_queue # <<>> /\ tx_queue' = popped
                  /\ \E told \in {"ok", "error"} :
                         sent' = [sent EXCEPT ![Head(tx_queue)] = told]
        PROVE  IInv'
    <2>1. async' \in [Operations -> {"none", "started", "succeeded", "overlap"}]
      BY <1>1 DEF IInv, TypeOK
    <2>2. /\ tx_queue' \in Seq(Frames) /\ Len(tx_queue') <= MaxTxQueue
          /\ sent' \in [Frames -> {"idle", "waiting", "ok", "error"}]
      BY <1>0, <1>1 DEF IInv, TypeOK
    <2>3. HeldIffWaiting'
      <3>1. CASE UNCHANGED <<tx_queue, sent>>
        BY <3>1 DEF IInv, HeldIffWaiting
      <3>2. CASE tx_queue # <<>> /\ tx_queue' = popped
        <4>1. PICK told \in {"ok", "error"} : sent' = [sent EXCEPT ![Head(tx_queue)] = told]
          BY <1>1, <3>2
        <4>2. IsInjective(tx_queue') /\ ToSet(tx_queue') = ToSet(tx_queue) \ {Head(tx_queue)}
          BY <1>0, <3>2
        <4>3. \A f \in Frames : sent'[f] = IF f = Head(tx_queue) THEN told ELSE sent[f]
          BY <4>1 DEF IInv, TypeOK
        <4>4. \A f \in Frames : (sent'[f] = "waiting") <=> (f \in ToSet(tx_queue'))
          BY <4>1, <4>2, <4>3 DEF IInv, HeldIffWaiting
        <4> QED BY <4>2, <4>4 DEF HeldIffWaiting
      <3> QED BY <1>1, <3>1, <3>2
    <2>4. write_active' \in BOOLEAN
      BY <1>1
    <2>5. TypeOK'
      BY <1>1, <2>1, <2>2, <2>4 DEF TypeOK, IInv
    <2>6. NoOverlap'
      BY <1>1 DEF NoOverlap, IInv
    <2>7. \A op \in Setup : async[op] = "none"
      BY <1>1 DEF IInv, InStages, Setup, Operations
    <2>8. InStages'
      <3>1. \A op \in Setup : async'[op] = "none"
        BY <1>1, <2>7 DEF Setup, Operations
      <3>2. phase' # "Idle" /\ (async'["close"] # "none" => phase' \in {"Closing", "Closed"})
        BY <1>1 DEF IInv, InStages, Operations
      <3>3. write_active' <=> async'["write"] # "none"
        BY <1>1
      <3> QED BY <3>1, <3>2, <3>3 DEF InStages
    <2>9. AnswersOwed' /\ WritesWhatIsQueued'
      BY <1>1 DEF AnswersOwed, WritesWhatIsQueued, IInv
    <2> QED BY <2>3, <2>5, <2>6, <2>8, <2>9 DEF IInv
  <1>2. CASE OnWrite
    <2>1. /\ async["write"] = "succeeded" /\ tx_queue # <<>> /\ tx_queue' = popped
          /\ sent' = [sent EXCEPT ![Head(tx_queue)] = "ok"]
          /\ write_active' = Another(popped)
          /\ UNCHANGED <<phase, user_close, socket, answer, open_completion,
                         close_handler, closes, crashed>>
      BY <1>2 DEF OnWrite, Succeeds, PopFront, dial, popped
    <2>2. CASE Another(popped)
      <3>1. async' = [o \in Operations |-> IF o = "write" THEN "started" ELSE async[o]]
        BY <1>2, <2>2 DEF OnWrite, Then, Operations, popped
      <3> QED BY <1>1, <2>1, <2>2, <3>1 DEF IInv, TypeOK, Operations, Another
    <2>3. CASE ~Another(popped)
      <3>1. async' = [o \in Operations |-> IF o = "write" THEN "none" ELSE async[o]]
        BY <1>2, <2>3 DEF OnWrite, Then, Operations, popped
      <3>2. write_active' = FALSE
        BY <2>1, <2>3 DEF Another
      <3> QED BY <1>1, <2>1, <3>1, <3>2 DEF IInv, TypeOK, Operations
    <2> QED BY <2>2, <2>3
  <1>3. CASE OnWriteUndefined
    <2>1. /\ async["write"] = "succeeded" /\ write_active' = FALSE /\ crashed' \in BOOLEAN
          /\ tx_queue = <<>>
          /\ UNCHANGED <<phase, user_close, socket, answer, open_completion,
                         close_handler, closes, tx_queue, sent>>
      BY <1>3 DEF OnWriteUndefined, Succeeds, dial
    <2>2. async' = [o \in Operations |-> IF o = "write" THEN "none" ELSE async[o]]
      BY <1>3 DEF OnWriteUndefined, Then, Operations
    <2> QED BY <1>1, <2>1, <2>2 DEF Operations
  <1>4. CASE OnWriteError
    <2>1. /\ async["write"] = "started" /\ write_active' = FALSE
          /\ UNCHANGED <<user_close, crashed>>
      BY <1>4 DEF OnWriteError, Fails
    <2>2. async' = [o \in Operations |-> IF o = "write" THEN "none" ELSE async[o]]
      BY <1>4 DEF OnWriteError, Then, Operations
    <2>3. CASE OwnClose \/ Finished
      <3>1. /\ sent' = Told(IF tx_queue = <<>> THEN <<>> ELSE <<Head(tx_queue)>>)
            /\ tx_queue' = PopFront(tx_queue)
            /\ UNCHANGED <<phase, socket, answer, open_completion, close_handler, closes>>
        BY <1>4, <2>3 DEF OnWriteError, dial
      <3>2. crashed' \in BOOLEAN
        BY <2>1 DEF IInv, TypeOK
      <3>3. CASE tx_queue = <<>>
        <4>1. UNCHANGED <<tx_queue, sent>>
          BY <3>1, <3>3, Empty DEF PopFront, Told, IInv, TypeOK
        <4> QED BY <1>1, <2>1, <2>2, <3>1, <3>2, <3>3, <4>1 DEF Operations
      <3>4. CASE tx_queue # <<>>
        <4>1. ToSet(<<Head(tx_queue)>>) = {Head(tx_queue)}
          BY DEF ToSet
        <4>2. /\ tx_queue' = popped
              /\ sent' = [sent EXCEPT ![Head(tx_queue)] = "error"]
          BY <3>1, <3>4, <4>1 DEF PopFront, Told, popped, IInv, TypeOK
        <4> QED BY <1>1, <2>1, <2>2, <3>1, <3>2, <3>4, <4>2 DEF Operations
      <3> QED BY <3>3, <3>4
    <2>4. CASE ~OwnClose /\ ~Finished
      <3>1. Finish
        BY <1>4, <2>4 DEF OnWriteError
      <3>2. phase' = "Closed" /\ phase' \in Phases
        BY <3>1, FinishKeeps DEF Phases
      <3>3. async' \in [Operations -> {"none", "started", "succeeded", "overlap"}]
        BY <2>2 DEF IInv, TypeOK
      <3>4. user_close' \in BOOLEAN /\ write_active' \in BOOLEAN /\ crashed' \in BOOLEAN
        BY <2>1 DEF IInv, TypeOK
      <3>5. TypeOK'
        BY <3>1, <3>2, <3>3, <3>4, FinishKeeps DEF TypeOK
      <3>6. NoOverlap' /\ InStages'
        BY <2>1, <2>2, <3>2 DEF NoOverlap, InStages, Setup, Operations, IInv
      <3>7. WritesWhatIsQueued'
        BY <3>2 DEF WritesWhatIsQueued
      <3> QED BY <3>1, <3>5, <3>6, <3>7, FinishKeeps DEF IInv
    <2> QED BY <2>3, <2>4
  <1> QED BY <1>2, <1>3, <1>4

\* Every step of the transport preserves the invariant.
LEMMA NextInv == IInv /\ [Next]_vars => IInv'
  <1> SUFFICES ASSUME IInv, [Next]_vars PROVE IInv'
    OBVIOUS
  <1>1. CASE AsyncOpen \/ Cancel \/ Close \/ \E f \in Frames : AsyncSend(f)
    BY <1>1, OwnerKeeps
  <1>2. CASE OnResolve \/ OnConnect \/ OnTlsHandshake
    BY <1>2, SetupKeeps
  <1>3. CASE OnWsHandshake \/ OnRead \/ \E op \in Operations : Succeed(op)
    BY <1>3, OpenKeeps
  <1>4. CASE OnWrite \/ OnWriteError \/ OnWriteUndefined
    BY <1>4, WriteKeeps
  <1>5. CASE SetupFails
    <2>1. PICK op \in {"resolve", "connect", "tls", "ws"} : FinishAfter(op)
      BY <1>5 DEF SetupFails
    <2> QED BY <2>1, FinishAfterKeeps DEF Operations
  <1>6. CASE OnPeerClosed
    BY <1>6, FinishAfterKeeps DEF OnPeerClosed, Operations
  <1>7. CASE OnClose
    BY <1>7, FinishAfterKeeps DEF OnClose, Operations
  <1>8. CASE OnReadError
    <2>1. CASE OwnClose
      <3>1. /\ async["read"] = "started"
            /\ async' = [o \in Operations |-> IF o = "read" THEN "none" ELSE async[o]]
            /\ UNCHANGED <<phase, user_close, socket, answer, open_completion,
                           close_handler, closes, tx_queue, write_active, sent, crashed>>
        BY <1>8, <2>1 DEF OnReadError, Fails, Then, dial, sending, Operations
      <3>2. TypeOK' /\ NoOverlap'
        BY <3>1 DEF TypeOK, NoOverlap, IInv
      <3>3. InStages'
        BY <3>1 DEF InStages, Setup, Operations, IInv
      <3>4. AnswersOwed' /\ HeldIffWaiting' /\ WritesWhatIsQueued'
        BY <3>1 DEF AnswersOwed, HeldIffWaiting, WritesWhatIsQueued, Operations, IInv
      <3> QED BY <3>2, <3>3, <3>4 DEF IInv
    <2>2. CASE ~OwnClose
      BY <1>8, <2>2, FinishAfterKeeps DEF OnReadError, Operations
    <2> QED BY <2>1, <2>2
  <1>9. CASE UNCHANGED vars
    <2>1. UNCHANGED <<phase, user_close, socket, async, open_completion, close_handler,
                      tx_queue, write_active, sent, answer, closes, crashed>>
      BY <1>9 DEF vars
    <2> QED BY <2>1 DEF IInv, TypeOK, NoOverlap, InStages, Setup, AnswersOwed,
                        WritesWhatIsQueued, HeldIffWaiting
  <1> QED BY <1>1, <1>2, <1>3, <1>4, <1>5, <1>6, <1>7, <1>8, <1>9 DEF Next

\* The invariant holds in every reachable state.
THEOREM Invariance == Spec => []IInv
  <1>1. Init => IInv
    BY InitInv
  <1>2. IInv /\ [Next]_vars => IInv'
    BY NextInv
  <1> QED BY <1>1, <1>2, PTL DEF Spec

\* Whatever the limit of the send queue is, the queue keeps it, no frame
\* handed to async_send() is forgotten or completed twice, and before finish()
\* on_write() finds its frame in front of the queue.
THEOREM QueueIsSound == Spec => []QueueSound
  <1>1. IInv => QueueSound
    BY DEF IInv, QueueSound
  <1> QED BY <1>1, Invariance, PTL

\* There is never a second operation of a kind on a stream, also not on a
\* transport that was cancelled while it was being set up.
THEOREM OneOfAKind == Spec => []NoOverlap
  <1>1. IInv => NoOverlap
    BY DEF IInv
  <1> QED BY <1>1, Invariance, PTL

-----------------------------------------------------------------------------
(* The promise of text_transport.hpp.                                      *)

\* What a step may tell the owner.
Tells ==
    \/ UNCHANGED <<answer, closes>>
    \/ answer = "none" /\ answer' = "waiting" /\ closes' = closes
    \/ answer = "waiting" /\ answer' \in {"ok", "error"} /\ closes' = closes
    \/ answer = "ok" /\ answer' = "ok" /\ closes = 0 /\ closes' = 1

\* finish() tells one thing at most.
LEMMA FinishTells ==
  ASSUME IInv, Finish
  PROVE  Tells
  <1>1. CASE Finished
    BY <1>1 DEF Finish, dial, Tells
  <1>2. CASE ~Finished /\ open_completion
    BY <1>2 DEF Finish, Tells, IInv, AnswersOwed
  <1>3. CASE ~Finished /\ ~open_completion
    <2>1. answer' = answer
      BY <1>3 DEF Finish
    <2>2. closes' = closes \/ (close_handler /\ closes' = closes + 1)
      BY <1>3 DEF Finish
    <2>3. close_handler => answer = "ok" /\ closes = 0
      BY DEF IInv, AnswersOwed
    <2> QED BY <2>1, <2>2, <2>3 DEF Tells
  <1> QED BY <1>1, <1>2, <1>3

\* Every step tells one thing at most.
LEMMA StepTells ==
  ASSUME IInv, [Next]_vars
  PROVE  Tells
  <1> USE DEF dial, sending
  <1>1. ASSUME NEW op, FinishAfter(op) PROVE Tells
    BY <1>1, FinishTells DEF FinishAfter
  <1>2. ASSUME UNCHANGED dial PROVE Tells
    BY <1>2 DEF Tells
  <1>3. CASE AsyncOpen
    BY <1>3 DEF AsyncOpen, Tells, IInv, AnswersOwed
  <1>4. CASE Cancel
    BY <1>4, FinishTells DEF Cancel
  <1>5. CASE Close
    BY <1>2, <1>5, FinishTells DEF Close
  <1>6. CASE \/ \E f \in Frames : AsyncSend(f)
             \/ \E op \in Operations : Succeed(op)
    BY <1>2, <1>6 DEF AsyncSend, Succeed
  <1>7. CASE SetupFails \/ OnPeerClosed \/ OnClose
    BY <1>1, <1>7 DEF SetupFails, OnPeerClosed, OnClose
  <1>8. CASE OnResolve \/ OnConnect \/ OnTlsHandshake
    BY <1>2, <1>8 DEF OnResolve, OnConnect, OnTlsHandshake, Proceed
  <1>9. CASE OnWsHandshake
    <2>1. CASE open_completion
      BY <1>9, <2>1 DEF OnWsHandshake, Tells, IInv, AnswersOwed
    <2>2. CASE ~open_completion
      BY <1>9, <2>2 DEF OnWsHandshake, Tells
    <2> QED BY <2>1, <2>2
  <1>10. CASE OnRead \/ OnWrite \/ OnWriteUndefined
    BY <1>2, <1>10 DEF OnRead, OnWrite, OnWriteUndefined
  <1>11. CASE OnReadError
    BY <1>1, <1>2, <1>11 DEF OnReadError
  <1>12. CASE OnWriteError
    BY <1>2, <1>12, FinishTells DEF OnWriteError
  <1>13. CASE UNCHANGED vars
    BY <1>13 DEF vars, Tells
  <1> QED BY <1>3, <1>4, <1>5, <1>6, <1>7, <1>8, <1>9, <1>10, <1>11, <1>12, <1>13
          DEF Next

\* WssTransport keeps the promise of text_transport.hpp: one answer to
\* async_open(), one call of the close handler for a connection that was
\* handed over, and nothing after an error, however cancel(), close(), the
\* peer and queued handlers meet.
THEOREM ImplementsConnection == Spec => KeepsPromise
  <1>1. Init => C!Init
    BY DEF Init, C!Init, Promise
  <1>2. IInv /\ [Next]_vars => [C!Next]_Promise
    <2> SUFFICES ASSUME IInv, [Next]_vars PROVE [C!Next]_Promise
      OBVIOUS
    <2>1. Tells
      BY StepTells
    <2>2. /\ answer \in {"none", "waiting", "ok", "error"}
          /\ closes \in {0, 1} /\ (closes = 1 => answer = "ok")
      BY DEF IInv, TypeOK, AnswersOwed
    <2>3. CASE UNCHANGED <<answer, closes>>
      BY <2>3 DEF Promise
    <2>4. CASE answer = "none" /\ answer' = "waiting" /\ closes' = closes
      <3>1. Promise = "idle" /\ Promise' = "dialing"
        BY <2>2, <2>4 DEF Promise
      <3> QED BY <3>1 DEF C!Next, C!Dial
    <2>5. CASE answer = "waiting" /\ answer' \in {"ok", "error"} /\ closes' = closes
      <3>1. Promise = "dialing" /\ Promise' \in {"open", "failed"}
        BY <2>2, <2>5 DEF Promise
      <3> QED BY <3>1 DEF C!Next, C!Opened, C!Failed
    <2>6. CASE answer = "ok" /\ answer' = "ok" /\ closes = 0 /\ closes' = 1
      <3>1. Promise = "open" /\ Promise' = "ended"
        BY <2>6 DEF Promise
      <3> QED BY <3>1 DEF C!Next, C!Ended
    <2> QED BY <2>1, <2>3, <2>4, <2>5, <2>6 DEF Tells
  <1> QED BY <1>1, <1>2, Invariance, PTL DEF Spec, KeepsPromise, C!Spec
=============================================================================
