-------------------------- MODULE DispatcherProofs --------------------------
(***************************************************************************)
(* Proofs about Dispatcher, for every set of requests, every budget and    *)
(* every clock.                                                            *)
(***************************************************************************)
EXTENDS Dispatcher, FiniteSetTheorems, TLAPS

-----------------------------------------------------------------------------
(* The msg_ids of one drain().                                             *)

\* A set of entries whose sequence numbers tell them apart.
Distinct(S) == \A e, f \in S : e.sequence = f.sequence => e = f

\* The entries that drain() takes up to e, e included.
UpTo(taken, e) == {f \in taken : f = e \/ Before(f, e)}

\* drain() never hesitates between two entries: Before orders any set of
\* entries with distinct sequence numbers.
LEMMA BeforeIsTotal ==
    ASSUME NEW S \in SUBSET Entry, Distinct(S), NEW e \in S, NEW f \in S, e # f
    PROVE  /\ Before(e, f) \/ Before(f, e)
           /\ ~(Before(e, f) /\ Before(f, e))
<1>1. e \in Entry /\ f \in Entry /\ e.sequence # f.sequence
    BY DEF Distinct
<1>2. /\ e.priority \in Nat /\ f.priority \in Nat
      /\ e.sequence \in Nat /\ f.sequence \in Nat
    BY <1>1, DispatcherAssumption DEF Entry
<1>. QED
    BY <1>1, <1>2 DEF Before

\* What drain() takes earlier has the smaller rank.
LEMMA RankGrows ==
    ASSUME NEW S \in SUBSET Entry, Distinct(S), IsFiniteSet(S),
           NEW e \in S, NEW f \in S, Before(e, f)
    PROVE  Cardinality(UpTo(S, e)) < Cardinality(UpTo(S, f))
<1>1. IsFiniteSet(UpTo(S, e)) /\ IsFiniteSet(UpTo(S, f))
    BY FS_Subset DEF UpTo
<1>2. \A g \in S : g.priority \in Nat /\ g.sequence \in Nat
    BY DispatcherAssumption DEF Entry
<1>3. UpTo(S, e) \subseteq UpTo(S, f)
    BY <1>2 DEF UpTo, Before
<1>4. f \in UpTo(S, f) /\ f \notin UpTo(S, e)
    BY <1>2 DEF UpTo, Before
<1>5. /\ Cardinality(UpTo(S, e)) <= Cardinality(UpTo(S, f))
      /\ Cardinality(UpTo(S, e)) # Cardinality(UpTo(S, f))
    BY <1>1, <1>3, <1>4, FS_Subset
<1>. QED
    BY <1>1, <1>5, FS_CardinalityType

\* The msg_ids of one drain() are new on this connection and tell the
\* entries apart.
LEMMA MsgIdsFresh ==
    ASSUME msg_seq \in Nat,
           NEW S \in SUBSET Entry, Distinct(S), IsFiniteSet(S)
    PROVE  /\ \A e \in S : /\ MsgId(S, e) \in Nat
                           /\ MsgId(S, e) > msg_seq
                           /\ MsgId(S, e) <= msg_seq + Cardinality(S)
           /\ \A e, f \in S : MsgId(S, e) = MsgId(S, f) => e = f
<1>1. \A e \in S : MsgId(S, e) = msg_seq + Cardinality(UpTo(S, e))
    BY DEF MsgId, UpTo
<1>2. ASSUME NEW e \in S
      PROVE  /\ Cardinality(UpTo(S, e)) \in Nat
             /\ Cardinality(UpTo(S, e)) > 0
             /\ Cardinality(UpTo(S, e)) <= Cardinality(S)
    <2>1. e \in UpTo(S, e) /\ UpTo(S, e) \in SUBSET S
        BY DEF UpTo
    <2>2. IsFiniteSet(UpTo(S, e)) /\ Cardinality(UpTo(S, e)) <= Cardinality(S)
        BY <2>1, FS_Subset
    <2>3. Cardinality(UpTo(S, e)) \in Nat /\ Cardinality(UpTo(S, e)) # 0
        BY <2>1, <2>2, FS_CardinalityType, FS_EmptySet
    <2>. QED
        BY <2>2, <2>3
<1>3. Cardinality(S) \in Nat
    BY FS_CardinalityType
<1>4. ASSUME NEW e \in S, NEW f \in S, MsgId(S, e) = MsgId(S, f), e # f
      PROVE  FALSE
    <2>1. Cardinality(UpTo(S, e)) = Cardinality(UpTo(S, f))
        BY <1>1, <1>2, <1>4
    <2>2. Before(e, f) \/ Before(f, e)
        BY <1>4, BeforeIsTotal
    <2>. QED
        BY <1>2, <2>1, <2>2, RankGrows
<1>. QED
    BY <1>1, <1>2, <1>3, <1>4

-----------------------------------------------------------------------------
(* tick(), for the queue and the metrics it starts from: Tick and Enqueue  *)
(* differ in nothing else.                                                 *)

\* What a tick does to the two containers and the handlers: `late`, `sent`
\* and `failed` leave the queue; `sent` reappears in the map under fresh ids,
\* beside the open requests that are not overdue; the handlers of the others
\* are called.
TickEffect(q, late, sent, failed) ==
    /\ late \in SUBSET q /\ sent \in SUBSET q /\ failed \in SUBSET q
    /\ late \cap sent = {} /\ late \cap failed = {} /\ sent \cap failed = {}
    /\ queue' = q \ (late \cup sent \cup failed)
    /\ ~sending_enabled => sent = {}
    /\ DOMAIN pending' \in SUBSET Nat
    /\ IsFiniteSet(DOMAIN pending')
    /\ msg_seq' \in Nat /\ msg_seq <= msg_seq'
    /\ \A id \in Open \ LateOpen : id \in DOMAIN pending' /\ pending'[id] = pending[id]
    /\ \A id \in DOMAIN pending' :
          \/ id \in Open \ LateOpen
          \/ id > msg_seq /\ id <= msg_seq' /\ pending'[id] \in sent
    /\ \A e \in sent : \E id \in DOMAIN pending' : id > msg_seq /\ pending'[id] = e
    /\ \A i, j \in DOMAIN pending' :
          i > msg_seq /\ j > msg_seq /\ pending'[i] = pending'[j] => i = j
    /\ \A r \in Requests :
          calls'[r] = calls[r]
              + (IF \/ \E e \in late : r \in e.handlers
                    \/ \E id \in LateOpen : r \in pending[id].handlers
                 THEN 1 ELSE 0)
              + (IF \E e \in failed : r \in e.handlers THEN 1 ELSE 0)

\* What the same tick does to the wire, the bucket, the counters and the
\* outcomes, and the order in which drain() took the entries.
TickLedger(q, m, late, sent, failed) ==
    /\ late = {e \in q : Expired(e.deadline)}
    /\ Drain(q \ late, Cardinality(Open \ LateOpen), Refilled, sent, failed)
    /\ Cardinality(DOMAIN pending') =
          Cardinality(Open \ LateOpen) + Cardinality(sent)
    /\ sent = {} => wire' = wire
    /\ \A w \in wire' :
          \/ w \in wire
          \/ /\ w.id > msg_seq /\ w.id <= msg_seq'
             /\ w.id \in DOMAIN pending' /\ pending'[w.id].sequence = w.sequence
    /\ tokens' = Spend(Refilled, Cardinality(sent))
    /\ metrics' = [m EXCEPT
          !.timeouts = @ + TimeoutCount(late, LateOpen),
          !.sent = @ + Cardinality(sent),
          !.send_failures = @ + Cardinality(failed)]
    /\ \A r \in Requests :
          outcome'[r] = "timeout" /\ outcome[r] # "timeout" =>
              \/ \E e \in late : r \in e.handlers
              \/ \E id \in LateOpen : r \in pending[id].handlers

LEMMA TickFromEffect ==
    ASSUME TypeOK, IdsIssued,
           NEW q \in SUBSET Entry, IsFiniteSet(q), Distinct(q),
           NEW m, TickFrom(q, m)
    PROVE  \E late, sent, failed \in SUBSET q :
              /\ TickEffect(q, late, sent, failed)
              /\ TickLedger(q, m, late, sent, failed)
<1>. DEFINE late  == {e \in q : Expired(e.deadline)}
            ready == q \ late
            open  == [id \in Open \ LateOpen |-> pending[id]]
<1>1. PICK sent \in SUBSET ready, failed \in SUBSET ready :
        /\ failed \in SUBSET (ready \ sent)
        /\ Drain(ready, Cardinality(DOMAIN open), Refilled, sent, failed)
        /\ queue' = Rest(ready, sent \cup failed, sent)
        /\ pending' = Emplace(open, sent \cup failed, sent)
        /\ wire' = wire \cup {[id |-> MsgId(sent \cup failed, e),
                               sequence |-> e.sequence] : e \in sent}
        /\ msg_seq' = msg_seq + Cardinality(sent \cup failed)
        /\ tokens' = Spend(Refilled, Cardinality(sent))
        /\ metrics' = [m EXCEPT
              !.timeouts = @ + TimeoutCount(late, LateOpen),
              !.sent = @ + Cardinality(sent),
              !.send_failures = @ + Cardinality(failed)]
        /\ Complete(HandlersOf(late \cup {pending[id] : id \in LateOpen}),
                    HandlersOf(failed), "send_failed")
    BY DEF TickFrom
<1>. DEFINE taken == sent \cup failed
<1>. HIDE DEF late
<1>2. /\ taken \in SUBSET Entry /\ IsFiniteSet(taken) /\ Distinct(taken)
      /\ Cardinality(taken) \in Nat
      /\ IsFiniteSet(sent)
      /\ late \in SUBSET q
    <2>1. late \in SUBSET q
        BY DEF late
    <2>2. taken \in SUBSET q /\ sent \in SUBSET q
        OBVIOUS
    <2>. QED
        BY <2>1, <2>2, FS_Subset, FS_CardinalityType DEF Distinct
<1>3. /\ \A e \in taken : /\ MsgId(taken, e) \in Nat
                          /\ MsgId(taken, e) > msg_seq
                          /\ MsgId(taken, e) <= msg_seq'
      /\ \A e, f \in taken : MsgId(taken, e) = MsgId(taken, f) => e = f
    BY <1>1, <1>2, MsgIdsFresh DEF TypeOK
<1>. DEFINE ids == {MsgId(taken, e) : e \in sent}
<1>4. IsFiniteSet(ids) /\ Cardinality(ids) = Cardinality(sent)
    <2>. DEFINE number == [e \in sent |-> MsgId(taken, e)]
    <2>1. number \in Surjection(sent, ids)
        BY DEF Surjection
    <2>2. number \in Injection(sent, ids)
        BY <1>3 DEF Injection, IsInjective
    <2>. HIDE DEF number, ids
    <2>. QED
        BY <2>1, <2>2, <1>2, FS_Surjection
<1>5. /\ DOMAIN pending' = (Open \ LateOpen) \cup ids
      /\ \A id \in Open \ LateOpen : pending'[id] = pending[id]
      /\ \A id \in ids : id \notin Open
      /\ \A id \in ids : pending'[id] \in sent /\ MsgId(taken, pending'[id]) = id
    <2>1. \A id \in Open : id \in Nat /\ id <= msg_seq
        BY DEF TypeOK, IdsIssued
    <2>2. \A id \in ids : id \in Nat /\ id > msg_seq
        BY <1>3
    <2>3. \A id \in ids : id \notin Open
        <3>. HIDE DEF ids
        <3>1. msg_seq \in Nat
            BY DEF TypeOK
        <3>. QED
            BY <2>1, <2>2, <3>1
    <2>4. pending' = [id \in (Open \ LateOpen) \cup ids |->
                        IF id \in Open \ LateOpen THEN pending[id]
                        ELSE CHOOSE e \in sent : MsgId(taken, e) = id]
        <3>1. DOMAIN open = Open \ LateOpen
            OBVIOUS
        <3>2. \A id \in DOMAIN open : open[id] = pending[id]
            OBVIOUS
        <3>. HIDE DEF open
        <3>. QED
            BY <1>1, <3>1, <3>2 DEF Emplace
    <2>5. \A id \in ids : \E e \in sent : MsgId(taken, e) = id
        OBVIOUS
    <2>. QED
        BY <2>3, <2>4, <2>5
<1>6. IsFiniteSet(DOMAIN pending') /\ DOMAIN pending' \in SUBSET Nat
    <2>1. IsFiniteSet(Open \ LateOpen) /\ Open \in SUBSET Nat
        BY FS_Difference DEF TypeOK
    <2>2. \A id \in ids : id \in Nat
        BY <1>3
    <2>. HIDE DEF ids
    <2>3. IsFiniteSet((Open \ LateOpen) \cup ids)
        BY <2>1, <1>4, FS_Union
    <2>. QED
        BY <1>5, <2>1, <2>2, <2>3
<1>7. /\ \A id \in DOMAIN pending' :
            \/ id \in Open \ LateOpen
            \/ id > msg_seq /\ id <= msg_seq' /\ pending'[id] \in sent
      /\ \A e \in sent : \E id \in DOMAIN pending' : id > msg_seq /\ pending'[id] = e
      /\ \A i, j \in DOMAIN pending' :
            i > msg_seq /\ j > msg_seq /\ pending'[i] = pending'[j] => i = j
    <2>1. \A id \in DOMAIN pending' : id > msg_seq => id \in ids
        <3>. HIDE DEF ids
        <3>1. msg_seq \in Nat /\ \A id \in Open : id \in Nat /\ id <= msg_seq
            BY DEF TypeOK, IdsIssued
        <3>. QED
            BY <1>5, <3>1
    <2>2. \A id \in ids : id > msg_seq /\ id <= msg_seq'
        BY <1>3
    <2>3. \A e \in sent : pending'[MsgId(taken, e)] = e
        BY <1>3, <1>5
    <2>. HIDE DEF taken
    <2>. QED
        BY <1>5, <2>1, <2>2, <2>3
<1>8. \A r \in Requests :
          calls'[r] = calls[r]
              + (IF \/ \E e \in late : r \in e.handlers
                    \/ \E id \in LateOpen : r \in pending[id].handlers
                 THEN 1 ELSE 0)
              + (IF \E e \in failed : r \in e.handlers THEN 1 ELSE 0)
    <2>1. \A r : r \in HandlersOf(late \cup {pending[id] : id \in LateOpen}) <=>
                    \/ \E e \in late : r \in e.handlers
                    \/ \E id \in LateOpen : r \in pending[id].handlers
        BY DEF HandlersOf
    <2>2. \A r : r \in HandlersOf(failed) <=> \E e \in failed : r \in e.handlers
        BY DEF HandlersOf
    <2>. QED
        BY <1>1, <2>1, <2>2 DEF Complete
<1>9. ~sending_enabled => sent = {}
    BY <1>1 DEF Drain
<1>10. queue' = q \ (late \cup sent \cup failed)
    BY <1>1 DEF Rest
<1>11. /\ late \in SUBSET q /\ sent \in SUBSET q /\ failed \in SUBSET q
       /\ late \cap sent = {} /\ late \cap failed = {} /\ sent \cap failed = {}
    BY <1>1, <1>2
<1>12. msg_seq' \in Nat /\ msg_seq <= msg_seq'
    BY <1>1, <1>2 DEF TypeOK
<1>13. TickEffect(q, late, sent, failed)
    BY <1>5, <1>6, <1>7, <1>8, <1>9, <1>10, <1>11, <1>12 DEF TickEffect
<1>14. Cardinality(DOMAIN pending') =
          Cardinality(Open \ LateOpen) + Cardinality(sent)
    <2>1. IsFiniteSet(Open \ LateOpen)
        BY FS_Difference DEF TypeOK
    <2>2. (Open \ LateOpen) \cap ids = {}
        BY <1>5
    <2>. HIDE DEF ids
    <2>3. Cardinality((Open \ LateOpen) \cup ids) =
             Cardinality(Open \ LateOpen) + Cardinality(ids) - 0
        BY <2>1, <2>2, <1>4, FS_Union, FS_EmptySet
    <2>4. Cardinality(Open \ LateOpen) \in Nat /\ Cardinality(sent) \in Nat
        BY <1>2, <2>1, FS_CardinalityType
    <2>. QED
        BY <1>4, <1>5, <2>3, <2>4
<1>15. /\ sent = {} => wire' = wire
       /\ \A w \in wire' :
            \/ w \in wire
            \/ /\ w.id > msg_seq /\ w.id <= msg_seq'
               /\ w.id \in DOMAIN pending' /\ pending'[w.id].sequence = w.sequence
    <2>1. \A e \in sent : MsgId(taken, e) \in DOMAIN pending'
                            /\ pending'[MsgId(taken, e)] = e
        BY <1>3, <1>5
    <2>2. \A e \in sent : MsgId(taken, e) > msg_seq /\ MsgId(taken, e) <= msg_seq'
        BY <1>3
    <2>3. wire' = wire \cup {[id |-> MsgId(taken, e), sequence |-> e.sequence] :
                             e \in sent}
        BY <1>1
    <2>. HIDE DEF taken
    <2>4. ASSUME NEW w \in wire', w \notin wire
          PROVE  /\ w.id > msg_seq /\ w.id <= msg_seq'
                 /\ w.id \in DOMAIN pending' /\ pending'[w.id].sequence = w.sequence
        <3>1. PICK e \in sent : w = [id |-> MsgId(taken, e), sequence |-> e.sequence]
            BY <2>3, <2>4
        <3>2. w.id = MsgId(taken, e) /\ w.sequence = e.sequence
            BY <3>1
        <3>. QED
            BY <2>1, <2>2, <3>2
    <2>5. sent = {} => wire' = wire
        BY <2>3
    <2>. QED
        BY <2>4, <2>5
<1>16. \A r \in Requests :
          outcome'[r] = "timeout" /\ outcome[r] # "timeout" =>
              \/ \E e \in late : r \in e.handlers
              \/ \E id \in LateOpen : r \in pending[id].handlers
    <2>1. \A r : r \in HandlersOf(late \cup {pending[id] : id \in LateOpen}) =>
                    \/ \E e \in late : r \in e.handlers
                    \/ \E id \in LateOpen : r \in pending[id].handlers
        BY DEF HandlersOf
    <2>2. \A r \in Requests :
            outcome'[r] = "timeout" /\ outcome[r] # "timeout" =>
                r \in HandlersOf(late \cup {pending[id] : id \in LateOpen})
        BY <1>1 DEF Complete
    <2>. QED
        BY <2>1, <2>2
<1>17. TickLedger(q, m, late, sent, failed)
    <2>1. DOMAIN open = Open \ LateOpen
        OBVIOUS
    <2>2. Drain(q \ late, Cardinality(Open \ LateOpen), Refilled, sent, failed)
        BY <1>1, <2>1
    <2>3. late = {e \in q : Expired(e.deadline)}
        BY DEF late
    <2>. QED
        BY <1>1, <1>14, <1>15, <1>16, <2>2, <2>3 DEF TickLedger
<1>. QED
    BY <1>11, <1>13, <1>17

\* refill() keeps the bucket between empty and one burst.
LEMMA RefilledType ==
    ASSUME TypeOK
    PROVE  Refilled \in 0..Burst
<1>1. /\ tokens \in Nat /\ tokens <= Burst
      /\ now - last_refill \in Nat
      /\ Rate \in Nat /\ Burst \in Nat
    BY DispatcherAssumption DEF TypeOK
<1>2. Rate * (now - last_refill) \in Nat
    BY <1>1
<1>. QED
    BY <1>1, <1>2 DEF Refilled, RefilledUncapped

\* drain() stops before it would overdraw the bucket.
LEMMA SpendType ==
    ASSUME NEW open, NEW credit \in 0..Burst, NEW sent, NEW failed, NEW q,
           IsFiniteSet(sent), Drain(q, open, credit, sent, failed)
    PROVE  Spend(credit, Cardinality(sent)) \in 0..Burst
<1>1. Cardinality(sent) \in Nat /\ Cost \in Nat /\ Burst \in Nat
    BY FS_CardinalityType, DispatcherAssumption
<1>2. CASE sent = {}
    BY <1>1, <1>2, FS_EmptySet DEF Spend
<1>3. CASE sent # {}
    <2>. DEFINE n == Cardinality(sent)
    <2>1. n \in Nat /\ n # 0
        BY <1>1, <1>3, FS_EmptySet
    <2>2. credit - Cost * (n - 1) >= Cost
        BY <1>3 DEF Drain, MaySend
    <2>. HIDE DEF n
    <2>3. Cost * (n - 1) = Cost * n - Cost /\ Cost * n \in Nat
        BY <1>1, <2>1
    <2>4. credit - Cost * n \in 0..Burst
        BY <1>1, <2>1, <2>2, <2>3
    <2>. QED
        BY <2>4 DEF Spend, n
<1>. QED
    BY <1>2, <1>3

\* The counters of a tick only grow.
LEMMA MetricsGrow ==
    ASSUME NEW m \in Metrics, NEW a \in Nat, NEW b \in Nat, NEW c \in Nat
    PROVE  [m EXCEPT !.timeouts = @ + a, !.sent = @ + b, !.send_failures = @ + c]
                \in Metrics
<1>1. /\ m.timeouts + a \in Nat /\ m.sent + b \in Nat
      /\ m.send_failures + c \in Nat
    BY DEF Metrics
<1>. QED
    BY <1>1 DEF Metrics

\* A tick keeps the types of what TickEffect does not mention.
LEMMA TickFromTypes ==
    ASSUME TypeOK,
           NEW q \in SUBSET Entry, IsFiniteSet(q), Distinct(q),
           NEW m \in Metrics, TickFrom(q, m)
    PROVE  /\ tokens' \in 0..Burst
           /\ last_refill' = now
           /\ refill_initialised' = TRUE
           /\ metrics' \in Metrics
           /\ wire' \in SUBSET [id : Nat, sequence : Nat]
           /\ calls' \in [Requests -> Nat]
           /\ outcome' \in [Requests -> Outcomes]
<1>. DEFINE late  == {e \in q : Expired(e.deadline)}
            ready == q \ late
            open  == [id \in Open \ LateOpen |-> pending[id]]
<1>1. PICK sent \in SUBSET ready, failed \in SUBSET ready :
        /\ Drain(ready, Cardinality(DOMAIN open), Refilled, sent, failed)
        /\ wire' = wire \cup {[id |-> MsgId(sent \cup failed, e),
                               sequence |-> e.sequence] : e \in sent}
        /\ tokens' = Spend(Refilled, Cardinality(sent))
        /\ last_refill' = now
        /\ refill_initialised' = TRUE
        /\ metrics' = [m EXCEPT
              !.timeouts = @ + TimeoutCount(late, LateOpen),
              !.sent = @ + Cardinality(sent),
              !.send_failures = @ + Cardinality(failed)]
        /\ Complete(HandlersOf(late \cup {pending[id] : id \in LateOpen}),
                    HandlersOf(failed), "send_failed")
    BY DEF TickFrom
<1>2. /\ IsFiniteSet(late) /\ IsFiniteSet(sent) /\ IsFiniteSet(failed)
      /\ IsFiniteSet(LateOpen) /\ IsFiniteSet(sent \cup failed)
    <2>1. LateOpen \in SUBSET Open /\ IsFiniteSet(Open)
        BY DEF LateOpen, TypeOK
    <2>2. late \in SUBSET q /\ sent \in SUBSET q /\ failed \in SUBSET q
          /\ sent \cup failed \in SUBSET q
        OBVIOUS
    <2>. QED
        BY <2>1, <2>2, FS_Subset
<1>3. tokens' \in 0..Burst
    BY <1>1, <1>2, RefilledType, SpendType
<1>4. metrics' \in Metrics
    <2>1. /\ Cardinality(sent) \in Nat /\ Cardinality(failed) \in Nat
          /\ TimeoutCount(late, LateOpen) \in Nat
        BY <1>2, FS_CardinalityType DEF TimeoutCount
    <2>. HIDE DEF late
    <2>. QED
        BY <1>1, <2>1, MetricsGrow
<1>5. wire' \in SUBSET [id : Nat, sequence : Nat]
    <2>1. sent \cup failed \in SUBSET Entry /\ Distinct(sent \cup failed)
        BY DEF Distinct
    <2>2. \A e \in sent : MsgId(sent \cup failed, e) \in Nat /\ e.sequence \in Nat
        BY <1>2, <2>1, MsgIdsFresh DEF TypeOK, Entry
    <2>3. \A e \in sent : [id |-> MsgId(sent \cup failed, e), sequence |-> e.sequence]
                            \in [id : Nat, sequence : Nat]
        BY <2>2
    <2>. QED
        BY <1>1, <2>3, Zenon DEF TypeOK
<1>6. calls' \in [Requests -> Nat] /\ outcome' \in [Requests -> Outcomes]
    BY <1>1 DEF Complete, TypeOK, Outcomes
<1>. QED
    BY <1>1, <1>3, <1>4, <1>5, <1>6

-----------------------------------------------------------------------------
(* Where a tick takes one handler.                                         *)

NowhereIn(q, r) ==
    /\ \A e \in q : r \notin e.handlers
    /\ \A id \in Open : r \notin pending[id].handlers

WaitingIn(q, r) ==
    /\ \E e \in q : \A f \in q : r \in f.handlers <=> f = e
    /\ \A id \in Open : r \notin pending[id].handlers

OpenBeside(q, r) ==
    /\ \A e \in q : r \notin e.handlers
    /\ \E id \in Open : \A i \in Open : r \in pending[i].handlers <=> i = id

\* A handler that nobody holds is not called and stays unheld.
LEMMA TickUnheld ==
    ASSUME TypeOK, NEW q, NEW late, NEW sent, NEW failed,
           TickEffect(q, late, sent, failed),
           NEW r \in Requests, NowhereIn(q, r)
    PROVE  calls'[r] = calls[r] /\ HeldNowhere(r)'
<1>1. calls'[r] = calls[r]
    BY DEF TickEffect, NowhereIn, LateOpen, TypeOK
<1>2. \A e \in queue' : r \notin e.handlers
    BY DEF TickEffect, NowhereIn
<1>3. \A id \in DOMAIN pending' : r \notin pending'[id].handlers
    BY DEF TickEffect, NowhereIn
<1>. QED
    BY <1>1, <1>2, <1>3 DEF HeldNowhere, Open

\* A handler that waits in the queue keeps waiting, becomes open, or is
\* called once and released.
LEMMA TickWaiting ==
    ASSUME TypeOK, NEW q, NEW late, NEW sent, NEW failed,
           TickEffect(q, late, sent, failed),
           NEW r \in Requests, WaitingIn(q, r)
    PROVE  \/ calls'[r] = calls[r] /\ (HeldInQueue(r)' \/ HeldOpen(r)')
           \/ calls'[r] = calls[r] + 1 /\ HeldNowhere(r)'
<1>1. PICK e \in q : \A f \in q : r \in f.handlers <=> f = e
    BY DEF WaitingIn
<1>2. \A id \in LateOpen : r \notin pending[id].handlers
    BY DEF WaitingIn, LateOpen
<1>3. \A id \in DOMAIN pending' : r \in pending'[id].handlers
                                      => id > msg_seq /\ pending'[id] = e /\ e \in sent
    BY <1>1 DEF WaitingIn, TickEffect
<1>4. CASE e \in late
    <2>1. calls'[r] = calls[r] + 1
        BY <1>1, <1>4 DEF TickEffect, TypeOK
    <2>2. HeldNowhere(r)'
        BY <1>1, <1>3, <1>4 DEF TickEffect, HeldNowhere, Open
    <2>. QED
        BY <2>1, <2>2
<1>5. CASE e \in failed
    <2>1. calls'[r] = calls[r] + 1
        BY <1>1, <1>2, <1>5 DEF TickEffect, TypeOK
    <2>2. HeldNowhere(r)'
        BY <1>1, <1>3, <1>5 DEF TickEffect, HeldNowhere, Open
    <2>. QED
        BY <2>1, <2>2
<1>6. CASE e \in sent
    <2>1. calls'[r] = calls[r]
        BY <1>1, <1>2, <1>6 DEF TickEffect, TypeOK
    <2>2. PICK id \in DOMAIN pending' : id > msg_seq /\ pending'[id] = e
        BY <1>6 DEF TickEffect
    <2>3. \A i \in DOMAIN pending' : r \in pending'[i].handlers <=> i = id
        BY <1>1, <1>3, <2>2 DEF TickEffect
    <2>4. \A f \in queue' : r \notin f.handlers
        BY <1>1, <1>6 DEF TickEffect
    <2>. QED
        BY <2>1, <2>2, <2>3, <2>4 DEF HeldOpen, Open
<1>7. CASE e \notin late \cup failed \cup sent
    <2>1. calls'[r] = calls[r]
        BY <1>1, <1>2, <1>7 DEF TickEffect, TypeOK
    <2>2. HeldInQueue(r)'
        BY <1>1, <1>3, <1>7 DEF TickEffect, HeldInQueue, Open
    <2>. QED
        BY <2>1, <2>2
<1>. QED
    BY <1>4, <1>5, <1>6, <1>7

\* A handler of an open request stays with it, or is called once when the
\* request is overdue.
LEMMA TickOpen ==
    ASSUME TypeOK, IdsIssued, NEW q, NEW late, NEW sent, NEW failed,
           TickEffect(q, late, sent, failed),
           NEW r \in Requests, OpenBeside(q, r)
    PROVE  \/ calls'[r] = calls[r] /\ HeldOpen(r)'
           \/ calls'[r] = calls[r] + 1 /\ HeldNowhere(r)'
<1>1. PICK id \in Open : \A i \in Open : r \in pending[i].handlers <=> i = id
    BY DEF OpenBeside
<1>2. \A e \in queue' : r \notin e.handlers
    BY DEF TickEffect, OpenBeside
<1>3. \A i \in DOMAIN pending' : r \in pending'[i].handlers => i = id /\ id \notin LateOpen
    BY <1>1 DEF TickEffect, OpenBeside
<1>4. CASE id \in LateOpen
    <2>1. calls'[r] = calls[r] + 1
        BY <1>1, <1>4 DEF TickEffect, OpenBeside, TypeOK
    <2>. QED
        BY <1>2, <1>3, <1>4, <2>1 DEF HeldNowhere, Open
<1>5. CASE id \notin LateOpen
    <2>1. calls'[r] = calls[r]
        BY <1>1, <1>5 DEF TickEffect, OpenBeside, TypeOK, LateOpen
    <2>2. id \in DOMAIN pending' /\ pending'[id] = pending[id]
        BY <1>5 DEF TickEffect
    <2>. QED
        BY <1>1, <1>2, <1>3, <2>1, <2>2 DEF HeldOpen, Open
<1>. QED
    BY <1>4, <1>5

-----------------------------------------------------------------------------
(* The inductive step, one lemma per operation.                            *)

\* Everything but OnceEach, for a tick that starts from queue q.
LEMMA TickKeepsTypes ==
    ASSUME TypeOK, IdsIssued, NothingOpenWhileClosed,
           NEW q \in SUBSET Entry, IsFiniteSet(q), Distinct(q),
           NEW m \in Metrics, TickFrom(q, m),
           sequence' \in Nat, \A e \in q : e.sequence <= sequence',
           UNCHANGED <<sending_enabled, now>>,
           due' \in [Requests -> Nat \cup {Unset}]
    PROVE  TypeOK' /\ IdsIssued' /\ NothingOpenWhileClosed' /\ SequencesIssued'
<1>1. PICK late, sent, failed \in SUBSET q : TickEffect(q, late, sent, failed)
    BY TickFromEffect
<1>2. /\ queue' \in SUBSET Entry /\ IsFiniteSet(queue')
      /\ queue' \in SUBSET q
    <2>1. queue' \in SUBSET q
        BY <1>1 DEF TickEffect
    <2>. QED
        BY <2>1, FS_Subset
<1>3. \A id \in DOMAIN pending' : pending'[id] \in Entry
    BY <1>1 DEF TickEffect, TypeOK
<1>4. TypeOK'
    <2>1. /\ tokens' \in 0..Burst
          /\ last_refill' = now
          /\ refill_initialised' = TRUE
          /\ metrics' \in Metrics
          /\ wire' \in SUBSET [id : Nat, sequence : Nat]
          /\ calls' \in [Requests -> Nat]
          /\ outcome' \in [Requests -> Outcomes]
        BY TickFromTypes
    <2>2. /\ DOMAIN pending' \in SUBSET Nat /\ IsFiniteSet(DOMAIN pending')
          /\ msg_seq' \in Nat
        BY <1>1 DEF TickEffect
    <2>3. last_refill' \in 0..now' /\ now' \in 0..MaxTime /\ sending_enabled' \in BOOLEAN
        BY <2>1 DEF TypeOK
    <2>. QED
        BY <1>2, <1>3, <2>1, <2>2, <2>3 DEF TypeOK, Open
<1>5. IdsIssued'
    BY <1>1 DEF TickEffect, IdsIssued, TypeOK, Open
<1>6. NothingOpenWhileClosed'
    BY <1>1 DEF TickEffect, NothingOpenWhileClosed, Open
<1>7. SequencesIssued'
    BY <1>2 DEF SequencesIssued, Distinct
<1>. QED
    BY <1>4, <1>5, <1>6, <1>7

LEMMA TickKeepsInv ==
    ASSUME IInv, Tick
    PROVE  IInv'
<1>1. /\ queue \in SUBSET Entry /\ IsFiniteSet(queue) /\ Distinct(queue)
      /\ metrics \in Metrics /\ TickFrom(queue, metrics)
      /\ sequence' \in Nat /\ \A e \in queue : e.sequence <= sequence'
      /\ UNCHANGED <<sending_enabled, now>>
      /\ due' \in [Requests -> Nat \cup {Unset}]
    BY DEF IInv, TypeOK, Tick, SequencesIssued, Distinct
<1>2. TypeOK' /\ IdsIssued' /\ NothingOpenWhileClosed' /\ SequencesIssued'
    BY <1>1, TickKeepsTypes DEF IInv
<1>3. OnceEach'
    <2>1. PICK late, sent, failed \in SUBSET queue :
              TickEffect(queue, late, sent, failed)
        BY <1>1, TickFromEffect DEF IInv
    <2>2. SUFFICES ASSUME NEW r \in Requests
                   PROVE  \/ ~Submitted(r)' /\ calls'[r] = 0 /\ HeldNowhere(r)'
                          \/ Submitted(r)' /\ calls'[r] = 1 /\ HeldNowhere(r)'
                          \/ Submitted(r)' /\ calls'[r] = 0 /\ HeldInQueue(r)'
                          \/ Submitted(r)' /\ calls'[r] = 0 /\ HeldOpen(r)'
        BY DEF OnceEach
    <2>3. Submitted(r)' <=> Submitted(r)
        BY DEF Tick, Submitted
    <2>4. CASE HeldNowhere(r)
        BY <2>1, <2>3, <2>4, TickUnheld
           DEF IInv, OnceEach, HeldNowhere, NowhereIn, HeldInQueue, HeldOpen
    <2>5. CASE calls[r] = 0 /\ Submitted(r) /\ HeldInQueue(r)
        <3>1. \/ calls'[r] = calls[r] /\ (HeldInQueue(r)' \/ HeldOpen(r)')
              \/ calls'[r] = calls[r] + 1 /\ HeldNowhere(r)'
            BY <2>1, <2>5, TickWaiting DEF IInv, HeldInQueue, WaitingIn
        <3>. QED
            BY <2>3, <2>5, <3>1
    <2>6. CASE calls[r] = 0 /\ Submitted(r) /\ HeldOpen(r)
        <3>1. \/ calls'[r] = calls[r] /\ HeldOpen(r)'
              \/ calls'[r] = calls[r] + 1 /\ HeldNowhere(r)'
            BY <2>1, <2>6, TickOpen DEF IInv, HeldOpen, OpenBeside
        <3>. QED
            BY <2>3, <2>6, <3>1
    <2>. QED
        BY <2>4, <2>5, <2>6 DEF IInv, OnceEach
<1>. QED
    BY <1>2, <1>3 DEF IInv

LEMMA EnqueueKeepsInv ==
    ASSUME IInv, NEW r0 \in Requests, NEW priority \in Priorities,
           NEW key \in Keys \cup {NoKey}, NEW timeout \in Timeouts[r0],
           ~Submitted(r0), due' = [due EXCEPT ![r0] = now + timeout],
           Enqueue(r0, priority, key, timeout),
           UNCHANGED <<sending_enabled, now>>
    PROVE  IInv'
<1>. DEFINE new == [handlers |-> {r0}, key |-> key, priority |-> priority,
                    deadline |-> now + timeout, sequence |-> sequence + 1]
            q   == queue \cup {new}
            m   == [metrics EXCEPT !.submitted = @ + 1]
<1>1. now + timeout \in Nat /\ sequence \in Nat /\ sequence' = sequence + 1
    BY DispatcherAssumption DEF IInv, TypeOK, Enqueue
<1>2. new \in Entry /\ new.handlers = {r0} /\ new.sequence = sequence + 1
    BY <1>1 DEF Entry
<1>3. TickFrom(q, m)
    BY DEF Enqueue
<1>4. m \in Metrics
    BY DEF IInv, TypeOK, Metrics
<1>. HIDE DEF new, m
<1>5. /\ q \in SUBSET Entry /\ IsFiniteSet(q)
      /\ \A e \in q : e.sequence <= sequence'
    <2>1. \A e \in queue : e \in Entry /\ e.sequence \in Nat /\ e.sequence <= sequence
        BY DEF IInv, TypeOK, SequencesIssued, Entry
    <2>2. IsFiniteSet(q)
        BY FS_AddElement DEF IInv, TypeOK
    <2>. QED
        BY <1>1, <1>2, <2>1, <2>2
<1>6. Distinct(q)
    <2>1. \A e \in queue : e.sequence \in Nat /\ e.sequence <= sequence
        BY DEF IInv, TypeOK, SequencesIssued, Entry
    <2>2. \A e \in queue : e.sequence # new.sequence
        BY <1>1, <1>2, <2>1
    <2>. QED
        BY <2>2 DEF Distinct, IInv, SequencesIssued
<1>7. due' \in [Requests -> Nat \cup {Unset}]
    BY <1>1 DEF IInv, TypeOK
<1>8. TypeOK' /\ IdsIssued' /\ NothingOpenWhileClosed' /\ SequencesIssued'
    <2>1. sequence' \in Nat
        BY <1>1
    <2>. HIDE DEF q
    <2>. QED
        BY <1>3, <1>4, <1>5, <1>6, <1>7, <2>1, TickKeepsTypes DEF IInv
<1>9. OnceEach'
    <2>1. PICK late, sent, failed \in SUBSET q : TickEffect(q, late, sent, failed)
        <3>. HIDE DEF q
        <3>. QED
            BY <1>3, <1>5, <1>6, TickFromEffect DEF IInv
    <2>2. SUFFICES ASSUME NEW r \in Requests
                   PROVE  \/ ~Submitted(r)' /\ calls'[r] = 0 /\ HeldNowhere(r)'
                          \/ Submitted(r)' /\ calls'[r] = 1 /\ HeldNowhere(r)'
                          \/ Submitted(r)' /\ calls'[r] = 0 /\ HeldInQueue(r)'
                          \/ Submitted(r)' /\ calls'[r] = 0 /\ HeldOpen(r)'
        BY DEF OnceEach
    <2>3. CASE r = r0
        <3>1. Submitted(r)'
            BY <1>1, <2>3 DEF IInv, TypeOK, Submitted, Unset
        <3>2. calls[r] = 0 /\ HeldNowhere(r)
            BY <2>3 DEF IInv, OnceEach
        <3>3. WaitingIn(q, r)
            BY <1>2, <2>3, <3>2 DEF WaitingIn, HeldNowhere
        <3>. HIDE DEF q
        <3>4. \/ calls'[r] = calls[r] /\ (HeldInQueue(r)' \/ HeldOpen(r)')
              \/ calls'[r] = calls[r] + 1 /\ HeldNowhere(r)'
            BY <2>1, <3>3, TickWaiting DEF IInv
        <3>. QED
            BY <3>1, <3>2, <3>4
    <2>4. CASE r # r0
        <3>1. Submitted(r)' <=> Submitted(r)
            BY <2>4 DEF IInv, TypeOK, Submitted
        <3>2. r \notin new.handlers
            BY <1>2, <2>4
        <3>3. CASE HeldNowhere(r)
            <4>1. NowhereIn(q, r)
                BY <3>2, <3>3 DEF HeldNowhere, NowhereIn
            <4>. HIDE DEF q
            <4>2. calls'[r] = calls[r] /\ HeldNowhere(r)'
                BY <2>1, <4>1, TickUnheld DEF IInv
            <4>. QED
                BY <3>1, <3>3, <4>2 DEF IInv, OnceEach, HeldNowhere, HeldInQueue, HeldOpen
        <3>4. CASE calls[r] = 0 /\ Submitted(r) /\ HeldInQueue(r)
            <4>1. WaitingIn(q, r)
                BY <3>2, <3>4 DEF HeldInQueue, WaitingIn
            <4>. HIDE DEF q
            <4>2. \/ calls'[r] = calls[r] /\ (HeldInQueue(r)' \/ HeldOpen(r)')
                  \/ calls'[r] = calls[r] + 1 /\ HeldNowhere(r)'
                BY <2>1, <4>1, TickWaiting DEF IInv
            <4>. QED
                BY <3>1, <3>4, <4>2
        <3>5. CASE calls[r] = 0 /\ Submitted(r) /\ HeldOpen(r)
            <4>1. OpenBeside(q, r)
                BY <3>2, <3>5 DEF HeldOpen, OpenBeside
            <4>. HIDE DEF q
            <4>2. \/ calls'[r] = calls[r] /\ HeldOpen(r)'
                  \/ calls'[r] = calls[r] + 1 /\ HeldNowhere(r)'
                BY <2>1, <4>1, TickOpen DEF IInv
            <4>. QED
                BY <3>1, <3>5, <4>2
        <3>. QED
            BY <3>3, <3>4, <3>5 DEF IInv, OnceEach
    <2>. QED
        BY <2>3, <2>4
<1>. QED
    BY <1>8, <1>9 DEF IInv

LEMMA AttachKeepsInv ==
    ASSUME IInv, NEW r0 \in Requests, NEW priority \in Priorities,
           NEW key \in Keys \cup {NoKey}, NEW timeout \in Timeouts[r0],
           ~Submitted(r0), due' = [due EXCEPT ![r0] = now + timeout],
           Attach(r0, priority, key, timeout),
           UNCHANGED <<sending_enabled, now>>
    PROVE  IInv'
<1>1. PICK e \in CoalesceTarget(key) :
        queue' = (queue \ {e}) \cup
              {[e EXCEPT !.handlers = @ \cup {r0},
                         !.priority = IF priority < @ THEN priority ELSE @,
                         !.deadline = LaterDeadline(@, now + timeout)]}
    BY DEF Attach
<1>2. e \in queue /\ e \in Entry
    BY DEF CoalesceTarget, IInv, TypeOK
<1>3. PICK x : x = [e EXCEPT !.handlers = @ \cup {r0},
                       !.priority = IF priority < @ THEN priority ELSE @,
                       !.deadline = LaterDeadline(@, now + timeout)]
    OBVIOUS
<1>4. now + timeout \in Nat
    BY DispatcherAssumption DEF IInv, TypeOK
<1>5. /\ x \in Entry /\ x.handlers = e.handlers \cup {r0}
      /\ x.sequence = e.sequence
    BY <1>2, <1>3, <1>4 DEF Entry, LaterDeadline
<1>6. queue' = (queue \ {e}) \cup {x}
    BY <1>1, <1>3
<1>7. UNCHANGED <<pending, sequence, bucket, msg_seq, wire, calls, outcome>>
    BY DEF Attach
<1>8. metrics' \in Metrics
    <2>1. metrics \in Metrics
          /\ metrics' = [metrics EXCEPT !.submitted = @ + 1, !.coalesced = @ + 1]
        BY DEF Attach, IInv, TypeOK
    <2>2. metrics.submitted + 1 \in Nat /\ metrics.coalesced + 1 \in Nat
        BY <2>1 DEF Metrics
    <2>. QED
        BY <2>1, <2>2 DEF Metrics
<1>9. TypeOK'
    <2>1. queue' \in SUBSET Entry
        BY <1>5, <1>6 DEF IInv, TypeOK
    <2>2. IsFiniteSet(queue')
        BY <1>6, FS_AddElement, FS_RemoveElement DEF IInv, TypeOK
    <2>3. due' \in [Requests -> Nat \cup {Unset}]
        BY <1>4 DEF IInv, TypeOK
    <2>. QED
        BY <1>7, <1>8, <2>1, <2>2, <2>3 DEF IInv, TypeOK, bucket, Open
<1>10. OnceEach'
    <2>. SUFFICES ASSUME NEW r \in Requests
                  PROVE  \/ ~Submitted(r)' /\ calls'[r] = 0 /\ HeldNowhere(r)'
                         \/ Submitted(r)' /\ calls'[r] = 1 /\ HeldNowhere(r)'
                         \/ Submitted(r)' /\ calls'[r] = 0 /\ HeldInQueue(r)'
                         \/ Submitted(r)' /\ calls'[r] = 0 /\ HeldOpen(r)'
        BY DEF OnceEach
    <2>1. calls' = calls /\ pending' = pending
        BY <1>7
    <2>2. x \notin queue \ {e}
        BY <1>2, <1>5 DEF IInv, SequencesIssued
    <2>3. CASE r = r0
        <3>1. Submitted(r)'
            BY <1>4, <2>3 DEF IInv, TypeOK, Submitted, Unset
        <3>2. calls[r] = 0 /\ HeldNowhere(r)
            BY <2>3 DEF IInv, OnceEach
        <3>3. HeldInQueue(r)'
            BY <1>5, <1>6, <2>1, <2>2, <2>3, <3>2 DEF HeldInQueue, HeldNowhere, Open
        <3>. QED
            BY <2>1, <3>1, <3>2, <3>3
    <2>4. CASE r # r0
        <3>1. Submitted(r)' <=> Submitted(r)
            BY <2>4 DEF IInv, TypeOK, Submitted
        <3>2. r \in x.handlers <=> r \in e.handlers
            BY <1>5, <2>4
        <3>3. HeldNowhere(r) => HeldNowhere(r)'
            BY <1>2, <1>6, <2>1, <3>2 DEF HeldNowhere, Open
        <3>4. HeldOpen(r) => HeldOpen(r)'
            BY <1>2, <1>6, <2>1, <3>2 DEF HeldOpen, Open
        <3>5. HeldInQueue(r) => HeldInQueue(r)'
            <4>. SUFFICES ASSUME HeldInQueue(r) PROVE HeldInQueue(r)'
                OBVIOUS
            <4>1. PICK g \in queue : \A f \in queue : r \in f.handlers <=> f = g
                BY DEF HeldInQueue
            <4>2. CASE g = e
                <5>1. \A f \in queue' : r \in f.handlers <=> f = x
                    BY <1>2, <1>6, <2>2, <3>2, <4>1, <4>2
                <5>. QED
                    BY <1>6, <2>1, <5>1 DEF HeldInQueue, Open
            <4>3. CASE g # e
                <5>1. \A f \in queue' : r \in f.handlers <=> f = g
                    BY <1>2, <1>6, <2>2, <3>2, <4>1, <4>3
                <5>. QED
                    BY <1>6, <2>1, <4>3, <5>1 DEF HeldInQueue, Open
            <4>. QED
                BY <4>2, <4>3
        <3>. QED
            BY <2>1, <3>1, <3>3, <3>4, <3>5 DEF IInv, OnceEach
    <2>. QED
        BY <2>3, <2>4
<1>11. IdsIssued' /\ NothingOpenWhileClosed'
    BY <1>7 DEF IInv, IdsIssued, NothingOpenWhileClosed, Open
<1>12. SequencesIssued'
    BY <1>2, <1>5, <1>6, <1>7 DEF IInv, SequencesIssued
<1>. QED
    BY <1>9, <1>10, <1>11, <1>12 DEF IInv

\* A response takes its request out of the map and calls its handlers.
LEMMA OnMessageKeepsInv ==
    ASSUME IInv, NEW m \in wire, NEW accepted \in BOOLEAN, OnMessage(m, accepted)
    PROVE  IInv'
<1>1. CASE m.id \notin Open /\ UNCHANGED <<pending, metrics, calls, outcome>>
    <2>1. UNCHANGED <<queue, pending, sequence, bucket, sending_enabled, metrics,
                      msg_seq, now, due, calls, outcome>>
          /\ wire' \in SUBSET wire
        BY <1>1 DEF OnMessage
    <2>2. TypeOK'
        BY <2>1 DEF IInv, TypeOK, bucket, Open
    <2>3. OnceEach'
        BY <2>1 DEF IInv, OnceEach, HeldNowhere, HeldInQueue, HeldOpen, Open, Submitted
    <2>. QED
        BY <2>1, <2>2, <2>3
           DEF IInv, IdsIssued, NothingOpenWhileClosed, SequencesIssued, Open
<1>2. CASE m.id \in Open /\ Answer(m.id, accepted)
    <2>1. UNCHANGED <<queue, sequence, bucket, sending_enabled, msg_seq, now, due>>
          /\ wire' \in SUBSET wire
        BY DEF OnMessage
    <2>2. PICK id \in Open : id = m.id
        BY <1>2
    <2>3. pending' = [i \in Open \ {id} |-> pending[i]]
        BY <1>2, <2>2 DEF Answer
    <2>4. \A r \in Requests :
            calls'[r] = calls[r] + (IF r \in pending[id].handlers THEN 1 ELSE 0)
        BY <1>2, <2>2 DEF Answer, Complete, IInv, TypeOK
    <2>5. TypeOK'
        <3>1. calls' \in [Requests -> Nat] /\ outcome' \in [Requests -> Outcomes]
            BY <1>2, <2>2 DEF Answer, Complete, IInv, TypeOK, Outcomes
        <3>2. metrics' \in Metrics
            <4>1. metrics \in Metrics
                BY DEF IInv, TypeOK
            <4>2. CASE accepted
                BY <1>2, <4>1, <4>2 DEF Answer, Metrics
            <4>3. CASE ~accepted
                BY <1>2, <4>1, <4>3 DEF Answer, Metrics
            <4>. QED
                BY <4>2, <4>3
        <3>3. DOMAIN pending' \in SUBSET Nat /\ IsFiniteSet(DOMAIN pending')
              /\ \A i \in DOMAIN pending' : pending'[i] \in Entry
            BY <2>3, FS_RemoveElement DEF IInv, TypeOK
        <3>. QED
            BY <2>1, <3>1, <3>2, <3>3 DEF IInv, TypeOK, bucket, Open
    <2>6. OnceEach'
        <3>. SUFFICES ASSUME NEW r \in Requests
                      PROVE  \/ ~Submitted(r)' /\ calls'[r] = 0 /\ HeldNowhere(r)'
                             \/ Submitted(r)' /\ calls'[r] = 1 /\ HeldNowhere(r)'
                             \/ Submitted(r)' /\ calls'[r] = 0 /\ HeldInQueue(r)'
                             \/ Submitted(r)' /\ calls'[r] = 0 /\ HeldOpen(r)'
            BY DEF OnceEach
        <3>1. Submitted(r)' <=> Submitted(r)
            BY <2>1 DEF Submitted
        <3>2. CASE r \in pending[id].handlers
            <4>1. Submitted(r) /\ calls[r] = 0 /\ HeldOpen(r)
                BY <3>2 DEF IInv, OnceEach, HeldNowhere, HeldInQueue
            <4>2. calls'[r] = 1
                BY <2>4, <3>2, <4>1
            <4>3. HeldNowhere(r)'
                BY <2>1, <2>3, <3>2, <4>1 DEF HeldOpen, HeldNowhere, Open
            <4>. QED
                BY <3>1, <4>1, <4>2, <4>3
        <3>3. CASE r \notin pending[id].handlers
            <4>1. calls'[r] = calls[r]
                BY <2>4, <3>3 DEF IInv, TypeOK
            <4>2. HeldNowhere(r) => HeldNowhere(r)'
                BY <2>1, <2>3 DEF HeldNowhere, Open
            <4>3. HeldInQueue(r) => HeldInQueue(r)'
                BY <2>1, <2>3 DEF HeldInQueue, Open
            <4>4. HeldOpen(r) => HeldOpen(r)'
                BY <2>1, <2>3, <3>3 DEF HeldOpen, Open
            <4>. QED
                BY <3>1, <4>1, <4>2, <4>3, <4>4 DEF IInv, OnceEach
        <3>. QED
            BY <3>2, <3>3
    <2>7. IdsIssued' /\ NothingOpenWhileClosed' /\ SequencesIssued'
        BY <2>1, <2>3 DEF IInv, IdsIssued, NothingOpenWhileClosed, SequencesIssued, Open
    <2>. QED
        BY <2>5, <2>6, <2>7 DEF IInv
<1>. QED
    BY <1>1, <1>2 DEF OnMessage

\* fail_all() calls every handler that is held.
LEMMA FailAllKeepsInv ==
    ASSUME IInv, FailAll
    PROVE  IInv'
<1>1. /\ queue' = {} /\ DOMAIN pending' = {}
      /\ UNCHANGED <<sequence, bucket, msg_seq, now, due>>
      /\ sending_enabled' = FALSE /\ wire' = {}
    BY DEF FailAll
<1>2. \A r \in Requests :
        calls'[r] = calls[r] + (IF HeldNowhere(r) THEN 0 ELSE 1)
    <2>1. ASSUME NEW r
          PROVE  r \in HandlersOf(FailedEntries) <=> ~HeldNowhere(r)
        BY DEF HandlersOf, FailedEntries, OpenEntries, HeldNowhere
    <2>. QED
        BY <2>1 DEF FailAll, Complete, IInv, TypeOK
<1>3. TypeOK'
    <2>1. calls' \in [Requests -> Nat] /\ outcome' \in [Requests -> Outcomes]
        BY DEF FailAll, Complete, IInv, TypeOK, Outcomes
    <2>2. metrics' \in Metrics
        <3>1. Cardinality(Open) \in Nat /\ Cardinality(queue) \in Nat
            BY FS_CardinalityType DEF IInv, TypeOK
        <3>2. metrics \in Metrics
              /\ metrics' = [metrics EXCEPT !.disconnect_failures =
                                @ + Cardinality(Open) + Cardinality(queue)]
            BY DEF FailAll, IInv, TypeOK
        <3>3. metrics.disconnect_failures + Cardinality(Open) + Cardinality(queue)
                \in Nat
            BY <3>1, <3>2 DEF Metrics
        <3>. QED
            BY <3>2, <3>3 DEF Metrics
    <2>. QED
        BY <1>1, <2>1, <2>2, FS_EmptySet DEF IInv, TypeOK, bucket, Open
<1>4. OnceEach'
    <2>. SUFFICES ASSUME NEW r \in Requests
                  PROVE  \/ ~Submitted(r)' /\ calls'[r] = 0 /\ HeldNowhere(r)'
                         \/ Submitted(r)' /\ calls'[r] = 1 /\ HeldNowhere(r)'
        BY DEF OnceEach
    <2>1. HeldNowhere(r)' /\ (Submitted(r)' <=> Submitted(r))
        BY <1>1 DEF HeldNowhere, Open, Submitted
    <2>2. CASE HeldNowhere(r)
        BY <1>2, <2>1, <2>2 DEF IInv, OnceEach, HeldNowhere, HeldInQueue, HeldOpen, TypeOK
    <2>3. CASE ~HeldNowhere(r)
        BY <1>2, <2>1, <2>3 DEF IInv, OnceEach
    <2>. QED
        BY <2>2, <2>3
<1>5. IdsIssued' /\ NothingOpenWhileClosed' /\ SequencesIssued'
    BY <1>1 DEF IdsIssued, NothingOpenWhileClosed, SequencesIssued, Open
<1>. QED
    BY <1>3, <1>4, <1>5 DEF IInv

LEMMA InitInv == Init => IInv
<1>. SUFFICES ASSUME Init PROVE IInv
    OBVIOUS
<1>. USE DispatcherAssumption DEF Init
<1>1. TypeOK
    <2>1. DOMAIN pending = {} /\ IsFiniteSet(queue) /\ IsFiniteSet(Open)
        BY FS_EmptySet DEF Open
    <2>2. metrics \in Metrics
        BY DEF Metrics
    <2>3. /\ tokens \in 0..Burst /\ now \in 0..MaxTime /\ last_refill \in 0..now
          /\ calls \in [Requests -> Nat] /\ outcome \in [Requests -> Outcomes]
          /\ due \in [Requests -> Nat \cup {Unset}]
        BY DEF Outcomes
    <2>. QED
        BY <2>1, <2>2, <2>3 DEF TypeOK, Open
<1>2. OnceEach
    BY DEF OnceEach, Submitted, HeldNowhere, Open
<1>. QED
    BY <1>1, <1>2
       DEF IInv, IdsIssued, NothingOpenWhileClosed, SequencesIssued, Open

LEMMA NextInv == IInv /\ [Next]_vars => IInv'
<1>. SUFFICES ASSUME IInv, [Next]_vars PROVE IInv'
    OBVIOUS
<1>1. ASSUME NEW r \in Requests, NEW priority \in Priorities,
             NEW key \in Keys \cup {NoKey}, NEW timeout \in Timeouts[r],
             Submit(r, priority, key, timeout)
      PROVE  IInv'
    BY <1>1, AttachKeepsInv, EnqueueKeepsInv DEF Submit
<1>2. CASE Tick
    BY <1>2, TickKeepsInv
<1>3. ASSUME NEW m \in wire, NEW accepted \in BOOLEAN, OnMessage(m, accepted)
      PROVE  IInv'
    BY <1>3, OnMessageKeepsInv
<1>4. CASE FailAll
    BY <1>4, FailAllKeepsInv
<1>5. CASE EnterRunning
    <2>1. TypeOK'
        BY <1>5 DEF EnterRunning, IInv, TypeOK, bucket, Open
    <2>2. OnceEach'
        BY <1>5 DEF EnterRunning, IInv, OnceEach, HeldNowhere, HeldInQueue,
                    HeldOpen, Open, Submitted
    <2>3. IdsIssued' /\ NothingOpenWhileClosed' /\ SequencesIssued'
        BY <1>5 DEF EnterRunning, IInv, IdsIssued, NothingOpenWhileClosed,
                    SequencesIssued, Open
    <2>. QED
        BY <2>1, <2>2, <2>3 DEF IInv
<1>6. CASE Advance
    <2>1. TypeOK'
        BY <1>6, DispatcherAssumption DEF Advance, IInv, TypeOK, bucket, Open
    <2>2. OnceEach'
        BY <1>6 DEF Advance, IInv, OnceEach, HeldNowhere, HeldInQueue,
                    HeldOpen, Open, Submitted
    <2>3. IdsIssued' /\ NothingOpenWhileClosed' /\ SequencesIssued'
        BY <1>6 DEF Advance, IInv, IdsIssued, NothingOpenWhileClosed,
                    SequencesIssued, Open
    <2>. QED
        BY <2>1, <2>2, <2>3 DEF IInv
<1>7. CASE UNCHANGED vars
    <2>1. TypeOK'
        BY <1>7 DEF vars, IInv, TypeOK, bucket, Open
    <2>2. OnceEach'
        BY <1>7 DEF vars, IInv, OnceEach, HeldNowhere, HeldInQueue,
                    HeldOpen, Open, Submitted
    <2>3. IdsIssued' /\ NothingOpenWhileClosed' /\ SequencesIssued'
        BY <1>7 DEF vars, IInv, IdsIssued, NothingOpenWhileClosed,
                    SequencesIssued, Open
    <2>. QED
        BY <2>1, <2>2, <2>3 DEF IInv
<1>. QED
    BY <1>1, <1>2, <1>3, <1>4, <1>5, <1>6, <1>7 DEF Next

\* The inductive invariant holds in every reachable state.
THEOREM Invariance == Spec => []IInv
    BY InitInv, NextInv, PTL DEF Spec

\* The dispatcher's state is well typed: in particular the token bucket is
\* never overdrawn and never overfull.
THEOREM TypeCorrect == Spec => []TypeOK
<1>1. IInv => TypeOK
    BY DEF IInv
<1>. QED
    BY <1>1, Invariance, PTL

\* submit(): "The handler is ALWAYS called exactly once".  For any number of
\* requests and any interleaving of submissions, ticks, responses, send
\* failures and lost connections, a submitted handler has been called once
\* and is held nowhere, or not been called and is held exactly once.
THEOREM ExactlyOnce == Spec => []HeldOrCalled
<1>1. IInv => HeldOrCalled
    <2>. SUFFICES ASSUME IInv, NEW r \in Requests
                  PROVE  calls[r] + Cardinality(Holders(r)) + Cardinality(OpenHolders(r))
                            = IF Submitted(r) THEN 1 ELSE 0
        BY DEF HeldOrCalled
    <2>1. CASE HeldNowhere(r)
        <3>1. Holders(r) = {} /\ OpenHolders(r) = {}
            BY <2>1 DEF HeldNowhere, Holders, OpenHolders
        <3>. QED
            BY <2>1, <3>1, FS_EmptySet
               DEF IInv, OnceEach, HeldNowhere, HeldInQueue, HeldOpen
    <2>2. CASE Submitted(r) /\ calls[r] = 0 /\ HeldInQueue(r)
        <3>1. OpenHolders(r) = {}
            BY <2>2 DEF HeldInQueue, OpenHolders
        <3>2. PICK e \in queue : \A f \in queue : r \in f.handlers <=> f = e
            BY <2>2 DEF HeldInQueue
        <3>3. Holders(r) = {e}
            BY <3>2 DEF Holders
        <3>4. Cardinality(Holders(r)) = 1 /\ Cardinality(OpenHolders(r)) = 0
            BY <3>1, <3>3, FS_EmptySet, FS_Singleton
        <3>. QED
            BY <2>2, <3>4
    <2>3. CASE Submitted(r) /\ calls[r] = 0 /\ HeldOpen(r)
        <3>1. Holders(r) = {}
            BY <2>3 DEF HeldOpen, Holders
        <3>2. PICK id \in Open : \A i \in Open : r \in pending[i].handlers <=> i = id
            BY <2>3 DEF HeldOpen
        <3>3. OpenHolders(r) = {id}
            BY <3>2 DEF OpenHolders
        <3>4. Cardinality(Holders(r)) = 0 /\ Cardinality(OpenHolders(r)) = 1
            BY <3>1, <3>3, FS_EmptySet, FS_Singleton
        <3>. QED
            BY <2>3, <3>4
    <2>. QED
        BY <2>1, <2>2, <2>3 DEF IInv, OnceEach
<1>. QED
    BY <1>1, Invariance, PTL

-----------------------------------------------------------------------------
(* The books, the answers and the deadlines: a second invariant on top of  *)
(* the first.                                                              *)

\* A queue that falls into four parts has the size of the four together.
LEMMA FourParts ==
    ASSUME NEW q, IsFiniteSet(q),
           NEW a \in SUBSET q, NEW b \in SUBSET q, NEW c \in SUBSET q,
           a \cap b = {}, a \cap c = {}, b \cap c = {}
    PROVE  /\ Cardinality(q) = Cardinality(q \ (a \cup b \cup c))
                + Cardinality(a) + Cardinality(b) + Cardinality(c)
           /\ Cardinality(q \ (a \cup b \cup c)) \in Nat
           /\ Cardinality(a) \in Nat /\ Cardinality(b) \in Nat /\ Cardinality(c) \in Nat
<1>1. IsFiniteSet(a) /\ IsFiniteSet(b) /\ IsFiniteSet(c)
    BY FS_Subset
<1>2. /\ Cardinality(q) \in Nat /\ Cardinality(a) \in Nat
      /\ Cardinality(b) \in Nat /\ Cardinality(c) \in Nat
    BY <1>1, FS_CardinalityType
<1>3. IsFiniteSet(a \cup b) /\ Cardinality(a \cup b) = Cardinality(a) + Cardinality(b)
    BY <1>1, <1>2, FS_Union, FS_EmptySet
<1>4. (a \cup b) \cap c = {}
    OBVIOUS
<1>5. /\ IsFiniteSet(a \cup b \cup c)
      /\ Cardinality(a \cup b \cup c) = Cardinality(a) + Cardinality(b) + Cardinality(c)
    <2>1. PICK ab : ab = a \cup b
        OBVIOUS
    <2>2. /\ IsFiniteSet(ab \cup c)
          /\ Cardinality(ab \cup c) = Cardinality(ab) + Cardinality(c) - Cardinality({})
        BY <1>1, <1>3, <1>4, <2>1, FS_Union
    <2>. QED
        BY <1>2, <1>3, <2>1, <2>2, FS_EmptySet
<1>6. q \cap (a \cup b \cup c) = a \cup b \cup c
    OBVIOUS
<1>7. /\ IsFiniteSet(q \ (a \cup b \cup c))
      /\ Cardinality(q \ (a \cup b \cup c)) = Cardinality(q) - Cardinality(a \cup b \cup c)
    BY <1>6, FS_Difference
<1>8. Cardinality(q \ (a \cup b \cup c)) \in Nat
    BY <1>7, FS_CardinalityType
<1>. QED
    BY <1>2, <1>5, <1>7, <1>8

\* A tick pays for what it sends out of the bucket and the time that passed.
LEMMA TickPays ==
    ASSUME TypeOK, BucketPaid, NEW n \in Nat, NEW s \in Nat,
           s = metrics.sent + n
    PROVE  Cost * s + Spend(Refilled, n) <= Burst + Rate * now
<1>1. /\ tokens \in Nat /\ last_refill \in Nat /\ now \in Nat
      /\ last_refill <= now /\ metrics.sent \in Nat
      /\ Rate \in Nat /\ Burst \in Nat /\ Cost \in Nat
    BY DispatcherAssumption DEF TypeOK, Metrics
<1>2. /\ Cost * s = Cost * metrics.sent + Cost * n
      /\ Cost * metrics.sent \in Nat /\ Cost * n \in Nat
    BY <1>1
<1>3. /\ Rate * now = Rate * last_refill + Rate * (now - last_refill)
      /\ Rate * last_refill \in Nat /\ Rate * (now - last_refill) \in Nat
    BY <1>1
<1>4. /\ Refilled <= tokens + Rate * (now - last_refill)
      /\ Refilled \in Int
    BY <1>1, <1>3 DEF Refilled, RefilledUncapped
<1>5. Cost * metrics.sent + tokens <= Burst + Rate * last_refill
    BY DEF BucketPaid
<1>. QED
    BY <1>1, <1>2, <1>3, <1>4, <1>5 DEF Spend

\* The equation of MetricsBalance, for given counters and sizes.
Balanced(m, waiting, open) ==
    m.submitted - m.coalesced =
        waiting + open + m.completed + m.timeouts + m.send_failures
        + m.unexpected_responses + m.disconnect_failures

\* A tick moves entries from the queue to the map and from both to the
\* counters, and loses none.
LEMMA TickBalances ==
    ASSUME NEW m \in Metrics, NEW q \in Nat, NEW open \in Nat,
           Balanced(m, q, open),
           NEW rest \in Nat, NEW stay \in Nat, NEW late \in Nat,
           NEW lateOpen \in Nat, NEW sent \in Nat, NEW failed \in Nat,
           q = rest + late + sent + failed,
           open = stay + lateOpen
    PROVE  Balanced([m EXCEPT !.timeouts = @ + (late + lateOpen),
                              !.sent = @ + sent,
                              !.send_failures = @ + failed], rest, stay + sent)
    BY DEF Balanced, Metrics

\* A tick keeps the books, whatever queue and counters it starts from, and
\* times nobody out early.
LEMMA TickKeepsLedger ==
    ASSUME IInv, LInv,
           NEW q \in SUBSET Entry, IsFiniteSet(q), Distinct(q),
           NEW m \in Metrics, TickFrom(q, m), m.sent = metrics.sent,
           Balanced(m, Cardinality(q), Cardinality(Open)),
           \A e, f \in q : e.key = f.key /\ e.key # NoKey => e = f,
           due' \in [Requests -> Nat \cup {Unset}],
           \A e \in q : \A r \in e.handlers : due'[r] <= e.deadline,
           \A id \in Open : \A r \in pending[id].handlers :
               due'[r] <= pending[id].deadline,
           \A e \in q : \E r \in e.handlers : due'[r] = e.deadline,
           \A id \in Open : \E r \in pending[id].handlers :
               due'[r] = pending[id].deadline,
           UNCHANGED <<sending_enabled, now>>
    PROVE  LInv' /\ NoEarlyTimeout /\ UrgentOrder
<1>1. PICK late, sent, failed \in SUBSET q :
          TickEffect(q, late, sent, failed) /\ TickLedger(q, m, late, sent, failed)
    BY TickFromEffect DEF IInv
<1>2. /\ IsFiniteSet(Open) /\ LateOpen \in SUBSET Open
      /\ IsFiniteSet(LateOpen) /\ IsFiniteSet(Open \ LateOpen)
    BY FS_Subset, FS_Difference DEF IInv, TypeOK, LateOpen
<1>3. /\ Cardinality(Open) = Cardinality(Open \ LateOpen) + Cardinality(LateOpen)
      /\ Cardinality(Open) \in Nat /\ Cardinality(Open \ LateOpen) \in Nat
      /\ Cardinality(LateOpen) \in Nat
    <2>1. Open \cap LateOpen = LateOpen
        BY <1>2
    <2>2. Cardinality(Open \ LateOpen) = Cardinality(Open) - Cardinality(LateOpen)
        BY <1>2, <2>1, FS_Difference
    <2>. QED
        BY <1>2, <2>2, FS_CardinalityType
<1>4. /\ Cardinality(q) = Cardinality(queue')
            + Cardinality(late) + Cardinality(sent) + Cardinality(failed)
      /\ Cardinality(q) \in Nat
      /\ Cardinality(queue') \in Nat /\ Cardinality(late) \in Nat
      /\ Cardinality(sent) \in Nat /\ Cardinality(failed) \in Nat
    <2>1. /\ queue' = q \ (late \cup sent \cup failed)
          /\ late \cap sent = {} /\ late \cap failed = {} /\ sent \cap failed = {}
        BY <1>1 DEF TickEffect
    <2>2. Cardinality(q) \in Nat
        BY FS_CardinalityType
    <2>3. /\ Cardinality(q) = Cardinality(q \ (late \cup sent \cup failed))
                + Cardinality(late) + Cardinality(sent) + Cardinality(failed)
          /\ Cardinality(q \ (late \cup sent \cup failed)) \in Nat
          /\ Cardinality(late) \in Nat /\ Cardinality(sent) \in Nat
          /\ Cardinality(failed) \in Nat
        BY <2>1, FourParts
    <2>. QED
        BY <2>1, <2>2, <2>3
<1>5. /\ queue' \in SUBSET q /\ queue' \cap late = {}
      /\ sent \cap late = {}
    BY <1>1 DEF TickEffect
<1>6. \A e \in q : e.deadline \in Nat /\ e.sequence \in Nat
                   /\ e.priority \in Nat /\ e.handlers \in SUBSET Requests
    BY DispatcherAssumption DEF Entry
<1>7. \A id \in Open : pending[id].deadline \in Nat
                       /\ pending[id].handlers \in SUBSET Requests
    BY DEF Entry, IInv, TypeOK
<1>8. now \in Nat /\ now' = now /\ msg_seq \in Nat /\ msg_seq' \in Nat
      /\ msg_seq <= msg_seq'
    BY <1>1 DEF IInv, TypeOK, TickEffect
<1>9. InFlightBound'
    <2>1. Cardinality(DOMAIN pending') =
            Cardinality(Open \ LateOpen) + Cardinality(sent)
        BY <1>1 DEF TickLedger
    <2>2. MaxInFlight \in Nat /\ Cardinality(Open) <= MaxInFlight
        BY DispatcherAssumption DEF LInv, InFlightBound
    <2>3. CASE sent = {}
        BY <1>3, <2>1, <2>2, <2>3, FS_EmptySet DEF InFlightBound, Open
    <2>4. CASE sent # {}
        <3>1. MaySend(Cardinality(Open \ LateOpen), Refilled, Cardinality(sent) - 1)
            <4>1. sending_enabled
                BY <1>1, <2>4 DEF TickEffect
            <4>. QED
                BY <1>1, <2>4, <4>1 DEF TickLedger, Drain
        <3>. QED
            BY <1>3, <1>4, <2>1, <2>2, <3>1 DEF MaySend, InFlightBound, Open
    <2>. QED
        BY <2>3, <2>4
<1>10. BucketPaid'
    <2>1. last_refill' = now
        BY TickFromTypes DEF IInv
    <2>2. tokens' = Spend(Refilled, Cardinality(sent))
        BY <1>1 DEF TickLedger
    <2>3. metrics'.sent = metrics.sent + Cardinality(sent)
        BY <1>1 DEF TickLedger, Metrics
    <2>4. metrics'.sent \in Nat
        BY TickFromTypes DEF IInv, Metrics
    <2>5. Cost * metrics'.sent + Spend(Refilled, Cardinality(sent)) <= Burst + Rate * now
        BY <1>4, <2>3, <2>4, TickPays DEF IInv, LInv
    <2>. QED
        BY <2>1, <2>2, <2>5 DEF BucketPaid
<1>11. MetricsBalance'
    <2>1. metrics' = [m EXCEPT
              !.timeouts = @ + (Cardinality(late) + Cardinality(LateOpen)),
              !.sent = @ + Cardinality(sent),
              !.send_failures = @ + Cardinality(failed)]
        BY <1>1 DEF TickLedger, TimeoutCount
    <2>2. Balanced(metrics', Cardinality(queue'),
                   Cardinality(Open \ LateOpen) + Cardinality(sent))
        BY <1>3, <1>4, <2>1, TickBalances
    <2>3. Cardinality(DOMAIN pending') =
            Cardinality(Open \ LateOpen) + Cardinality(sent)
        BY <1>1 DEF TickLedger
    <2>. QED
        BY <2>2, <2>3 DEF Balanced, MetricsBalance, Open
<1>12. OneEntryPerKey'
    BY <1>5 DEF OneEntryPerKey
<1>13. WireIssued'
    <2>1. \A w \in wire : w.id \in Nat /\ w.id <= msg_seq
        BY DEF LInv, WireIssued, IInv, TypeOK
    <2>2. \A w \in wire' : w.id <= msg_seq'
        BY <1>1, <1>8, <2>1 DEF TickLedger
    <2>3. sending_enabled' \/ wire' = {}
        BY <1>1 DEF TickLedger, TickEffect, LInv, WireIssued
    <2>. QED
        BY <2>2, <2>3 DEF WireIssued
<1>14. ResponseMeetsItsRequest'
    <2>. SUFFICES ASSUME NEW w \in wire', w.id \in DOMAIN pending'
                  PROVE  pending'[w.id].sequence = w.sequence
        BY DEF ResponseMeetsItsRequest, Open
    <2>1. CASE w \in wire
        <3>1. w.id \in Nat /\ w.id <= msg_seq
            BY <2>1 DEF LInv, WireIssued, IInv, TypeOK
        <3>2. w.id \in Open \ LateOpen
            BY <1>1, <1>8, <3>1 DEF TickEffect
        <3>. QED
            BY <1>1, <2>1, <3>2 DEF TickEffect, LInv, ResponseMeetsItsRequest
    <2>2. CASE w \notin wire
        BY <1>1, <2>2 DEF TickLedger
    <2>. QED
        BY <2>1, <2>2
<1>15. DeadlinesAhead'
    <2>1. last_refill' = now
        BY TickFromTypes DEF IInv
    <2>2. \A e \in q : e \notin late => e.deadline > now
        BY <1>1, <1>6, <1>8 DEF TickLedger, Expired
    <2>3. \A id \in Open \ LateOpen : pending[id].deadline > now
        BY <1>7, <1>8 DEF LateOpen, Expired
    <2>4. \A id \in DOMAIN pending' : pending'[id].deadline > now
        BY <1>1, <1>5, <2>2, <2>3 DEF TickEffect
    <2>. QED
        BY <1>5, <2>1, <2>2, <2>4 DEF DeadlinesAhead, OpenEntries, Open
<1>16. DueCovered'
    <2>1. \A e \in queue' : \A r \in e.handlers : due'[r] <= e.deadline
        BY <1>5
    <2>2. \A id \in DOMAIN pending' : \A r \in pending'[id].handlers :
             due'[r] <= pending'[id].deadline
        BY <1>1 DEF TickEffect
    <2>. QED
        BY <2>1, <2>2 DEF DueCovered, Open
<1>17. NoEarlyTimeout
    <2>. SUFFICES ASSUME NEW r \in Requests,
                         outcome'[r] = "timeout", outcome[r] # "timeout"
                  PROVE  due'[r] <= now
        BY DEF NoEarlyTimeout
    <2>1. due'[r] \in Int
        BY DEF Unset
    <2>2. CASE \E e \in late : r \in e.handlers
        <3>1. PICK e \in late : r \in e.handlers
            BY <2>2
        <3>2. e.deadline <= now /\ due'[r] <= e.deadline
            BY <1>1, <3>1 DEF TickLedger, Expired
        <3>. QED
            BY <1>6, <1>8, <2>1, <3>2
    <2>3. CASE \E id \in LateOpen : r \in pending[id].handlers
        <3>1. PICK id \in LateOpen : r \in pending[id].handlers
            BY <2>3
        <3>2. pending[id].deadline <= now /\ due'[r] <= pending[id].deadline
            BY <3>1 DEF LateOpen, Expired
        <3>. QED
            BY <1>2, <1>7, <1>8, <2>1, <3>2
    <2>. QED
        BY <1>1, <2>2, <2>3 DEF TickLedger
<1>18. UrgentOrder
    <2>. SUFFICES ASSUME NEW id \in DOMAIN pending' \ Open, NEW e \in queue'
                  PROVE  Before(pending'[id], e)
        BY DEF UrgentOrder, Before
    <2>1. pending'[id] \in sent /\ e \in q /\ e \notin late \cup sent \cup failed
        BY <1>1 DEF TickEffect
    <2>2. sending_enabled
        BY <1>1, <2>1 DEF TickEffect
    <2>3. ~Before(e, pending'[id])
        BY <1>1, <2>1, <2>2 DEF TickLedger, Drain
    <2>. QED
        BY <2>1, <2>3, BeforeIsTotal
<1>19. DeadlineOwed'
    <2>1. \A e \in queue' : \E r \in e.handlers : due'[r] = e.deadline
        BY <1>5
    <2>2. \A id \in DOMAIN pending' : \E r \in pending'[id].handlers :
             due'[r] = pending'[id].deadline
        BY <1>1 DEF TickEffect
    <2>. QED
        BY <2>1, <2>2 DEF DeadlineOwed, Open
<1>. QED
    BY <1>9, <1>10, <1>11, <1>12, <1>13, <1>14, <1>15, <1>16, <1>17, <1>18, <1>19
        DEF LInv

LEMMA EnqueueKeepsLedger ==
    ASSUME IInv, LInv, NEW r0 \in Requests, NEW priority \in Priorities,
           NEW key \in Keys \cup {NoKey}, NEW timeout \in Timeouts[r0],
           due' = [due EXCEPT ![r0] = now + timeout], ~Submitted(r0),
           Enqueue(r0, priority, key, timeout),
           UNCHANGED <<sending_enabled, now>>
    PROVE  LInv' /\ NoEarlyTimeout /\ UrgentOrder
<1>. DEFINE new == [handlers |-> {r0}, key |-> key, priority |-> priority,
                    deadline |-> now + timeout, sequence |-> sequence + 1]
            q   == queue \cup {new}
            m   == [metrics EXCEPT !.submitted = @ + 1]
<1>1. now + timeout \in Nat /\ sequence \in Nat
    BY DispatcherAssumption DEF IInv, TypeOK
<1>2. /\ new \in Entry /\ new.handlers = {r0} /\ new.sequence = sequence + 1
      /\ new.key = key /\ new.deadline = now + timeout
    BY <1>1 DEF Entry
<1>3. TickFrom(q, m)
    BY DEF Enqueue
<1>4. m \in Metrics /\ m.sent = metrics.sent
    BY DEF IInv, TypeOK, Metrics
<1>5. \A e \in queue : e.sequence \in Nat /\ e.sequence <= sequence
    BY DEF IInv, TypeOK, SequencesIssued, Entry
<1>6. \A e \in queue : e.key = key => key = NoKey
    <2>. SUFFICES ASSUME NEW e \in queue, e.key = key, key # NoKey
                  PROVE  FALSE
        OBVIOUS
    <2>1. \A f \in queue : f.key = key => f = e
        BY DEF LInv, OneEntryPerKey
    <2>2. e \in CoalesceTarget(key)
        BY <1>5, <2>1 DEF CoalesceTarget
    <2>. QED
        BY <2>2 DEF Enqueue
<1>7. Balanced(m, Cardinality(queue) + 1, Cardinality(Open))
    <2>1. Cardinality(queue) \in Nat /\ Cardinality(Open) \in Nat
        BY FS_CardinalityType DEF IInv, TypeOK
    <2>2. metrics \in Metrics /\ Balanced(metrics, Cardinality(queue), Cardinality(Open))
        BY DEF IInv, TypeOK, LInv, MetricsBalance, Balanced
    <2>. QED
        BY <2>1, <2>2 DEF Balanced, Metrics
<1>. HIDE DEF new, m
<1>8. q \in SUBSET Entry
    BY <1>2 DEF IInv, TypeOK
<1>9. Distinct(q) /\ new \notin queue
    BY <1>1, <1>2, <1>5 DEF Distinct, IInv, SequencesIssued
<1>10. IsFiniteSet(q) /\ Cardinality(q) = Cardinality(queue) + 1
    BY <1>9, FS_AddElement DEF IInv, TypeOK
<1>11. \A e, f \in q : e.key = f.key /\ e.key # NoKey => e = f
    BY <1>2, <1>6 DEF LInv, OneEntryPerKey
<1>12. due' \in [Requests -> Nat \cup {Unset}] /\ due'[r0] = now + timeout
       /\ \A r \in Requests \ {r0} : due'[r] = due[r]
    BY <1>1 DEF IInv, TypeOK
<1>13. \A e \in queue : r0 \notin e.handlers /\ e.handlers \in SUBSET Requests
    BY DEF IInv, OnceEach, HeldNowhere, TypeOK, Entry
<1>14. \A id \in Open : r0 \notin pending[id].handlers
                        /\ pending[id].handlers \in SUBSET Requests
    BY DEF IInv, OnceEach, HeldNowhere, TypeOK, Entry
<1>15. \A e \in q : \A r \in e.handlers : due'[r] <= e.deadline
    BY <1>1, <1>2, <1>12, <1>13 DEF LInv, DueCovered
<1>16. \A id \in Open : \A r \in pending[id].handlers :
          due'[r] <= pending[id].deadline
    BY <1>12, <1>14 DEF LInv, DueCovered
<1>17. Balanced(m, Cardinality(q), Cardinality(Open))
    BY <1>7, <1>10
<1>18. \A e \in q : \E r \in e.handlers : due'[r] = e.deadline
    <2>1. \A e \in queue : \E r \in e.handlers : due'[r] = e.deadline
        BY <1>12, <1>13 DEF LInv, DeadlineOwed
    <2>2. r0 \in new.handlers /\ due'[r0] = new.deadline
        BY <1>2, <1>12
    <2>. QED
        BY <2>1, <2>2
<1>19. \A id \in Open : \E r \in pending[id].handlers :
          due'[r] = pending[id].deadline
    BY <1>12, <1>14 DEF LInv, DeadlineOwed
<1>. HIDE DEF q
<1>. QED
    BY <1>3, <1>4, <1>8, <1>9, <1>10, <1>11, <1>12, <1>15, <1>16, <1>17,
       <1>18, <1>19, TickKeepsLedger

LEMMA TickKeepsBooks ==
    ASSUME IInv, LInv, Tick
    PROVE  LInv' /\ NoEarlyTimeout /\ UrgentOrder
<1>1. /\ queue \in SUBSET Entry /\ IsFiniteSet(queue) /\ Distinct(queue)
      /\ metrics \in Metrics /\ TickFrom(queue, metrics)
      /\ UNCHANGED <<sending_enabled, now>>
      /\ due' = due /\ due' \in [Requests -> Nat \cup {Unset}]
    BY DEF IInv, TypeOK, Tick, SequencesIssued, Distinct
<1>2. /\ Balanced(metrics, Cardinality(queue), Cardinality(Open))
      /\ \A e, f \in queue : e.key = f.key /\ e.key # NoKey => e = f
    BY DEF LInv, MetricsBalance, Balanced, OneEntryPerKey
<1>3. /\ \A e \in queue : \A r \in e.handlers : due'[r] <= e.deadline
      /\ \A id \in Open : \A r \in pending[id].handlers :
            due'[r] <= pending[id].deadline
    BY <1>1 DEF LInv, DueCovered
<1>4. /\ \A e \in queue : \E r \in e.handlers : due'[r] = e.deadline
      /\ \A id \in Open : \E r \in pending[id].handlers :
            due'[r] = pending[id].deadline
    BY <1>1 DEF LInv, DeadlineOwed
<1>. QED
    BY <1>1, <1>2, <1>3, <1>4, TickKeepsLedger

LEMMA AttachKeepsLedger ==
    ASSUME IInv, LInv, NEW r0 \in Requests, NEW priority \in Priorities,
           NEW key \in Keys \cup {NoKey}, NEW timeout \in Timeouts[r0],
           ~Submitted(r0), due' = [due EXCEPT ![r0] = now + timeout],
           Attach(r0, priority, key, timeout),
           UNCHANGED <<sending_enabled, now>>
    PROVE  LInv' /\ NoEarlyTimeout /\ UrgentOrder
<1>1. PICK e \in CoalesceTarget(key) :
        queue' = (queue \ {e}) \cup
              {[e EXCEPT !.handlers = @ \cup {r0},
                         !.priority = IF priority < @ THEN priority ELSE @,
                         !.deadline = LaterDeadline(@, now + timeout)]}
    BY DEF Attach
<1>2. e \in queue /\ e \in Entry
    BY DEF CoalesceTarget, IInv, TypeOK
<1>3. PICK x : x = [e EXCEPT !.handlers = @ \cup {r0},
                       !.priority = IF priority < @ THEN priority ELSE @,
                       !.deadline = LaterDeadline(@, now + timeout)]
    OBVIOUS
<1>4. now + timeout \in Nat
    BY DispatcherAssumption DEF IInv, TypeOK
<1>5. /\ x.handlers = e.handlers \cup {r0}
      /\ x.sequence = e.sequence /\ x.key = e.key
      /\ x.deadline \in Nat /\ e.deadline \in Nat
      /\ x.deadline >= e.deadline /\ x.deadline >= now + timeout
      /\ x.deadline = e.deadline \/ x.deadline = now + timeout
    BY <1>2, <1>3, <1>4 DEF Entry, LaterDeadline
<1>6. queue' = (queue \ {e}) \cup {x}
    BY <1>1, <1>3
<1>7. /\ UNCHANGED <<pending, sequence, bucket, msg_seq, wire, calls, outcome>>
      /\ metrics' = [metrics EXCEPT !.submitted = @ + 1, !.coalesced = @ + 1]
      /\ metrics \in Metrics
    BY DEF Attach, IInv, TypeOK
<1>8. Cardinality(queue') = Cardinality(queue)
    <2>1. x \notin queue \ {e}
        BY <1>2, <1>5 DEF IInv, SequencesIssued
    <2>2. /\ IsFiniteSet(queue \ {e})
          /\ Cardinality(queue \ {e}) = Cardinality(queue) - 1
        BY <1>2, FS_RemoveElement DEF IInv, TypeOK
    <2>3. Cardinality(queue') = Cardinality(queue \ {e}) + 1
        BY <1>6, <2>1, <2>2, FS_AddElement
    <2>4. Cardinality(queue) \in Nat
        BY FS_CardinalityType DEF IInv, TypeOK
    <2>. QED
        BY <2>2, <2>3, <2>4
<1>9. MetricsBalance'
    <2>1. Cardinality(queue) \in Nat /\ Cardinality(Open) \in Nat
        BY FS_CardinalityType DEF IInv, TypeOK
    <2>2. Balanced(metrics, Cardinality(queue), Cardinality(Open))
        BY DEF LInv, MetricsBalance, Balanced
    <2>3. Balanced(metrics', Cardinality(queue), Cardinality(Open))
        BY <1>7, <2>1, <2>2 DEF Balanced, Metrics
    <2>. QED
        BY <1>7, <1>8, <2>3 DEF MetricsBalance, Balanced, Open
<1>10. BucketPaid'
    BY <1>7 DEF LInv, BucketPaid, bucket, Metrics
<1>11. OneEntryPerKey'
    BY <1>2, <1>5, <1>6 DEF LInv, OneEntryPerKey
<1>12. InFlightBound' /\ WireIssued' /\ ResponseMeetsItsRequest'
    BY <1>7 DEF LInv, InFlightBound, WireIssued, ResponseMeetsItsRequest, Open
<1>13. DeadlinesAhead'
    <2>1. last_refill \in Nat
        BY DEF IInv, TypeOK
    <2>2. refill_initialised => x.deadline > last_refill
        BY <1>2, <1>5, <2>1 DEF LInv, DeadlinesAhead
    <2>. QED
        BY <1>6, <1>7, <2>2 DEF LInv, DeadlinesAhead, OpenEntries, Open, bucket
<1>14. DueCovered'
    <2>1. /\ due'[r0] = now + timeout
          /\ \A r \in Requests \ {r0} : due'[r] = due[r]
          /\ \A r \in Requests : due[r] \in Int
        BY DEF IInv, TypeOK, Unset
    <2>2. \A f \in queue : r0 \notin f.handlers /\ f.handlers \in SUBSET Requests
        BY DEF IInv, OnceEach, HeldNowhere, TypeOK, Entry
    <2>3. \A id \in Open : r0 \notin pending[id].handlers
                           /\ pending[id].handlers \in SUBSET Requests
        BY DEF IInv, OnceEach, HeldNowhere, TypeOK, Entry
    <2>4. \A f \in queue : \A r \in f.handlers : due'[r] <= f.deadline
        BY <2>1, <2>2 DEF LInv, DueCovered
    <2>5. \A r \in x.handlers : due'[r] <= x.deadline
        <3>1. \A r \in e.handlers : due[r] <= e.deadline /\ due'[r] = due[r] /\ due[r] \in Int
            BY <1>2, <2>1, <2>2 DEF LInv, DueCovered
        <3>. QED
            BY <1>4, <1>5, <2>1, <3>1
    <2>6. \A id \in Open : \A r \in pending[id].handlers :
            due'[r] <= pending[id].deadline
        BY <2>1, <2>3 DEF LInv, DueCovered
    <2>. QED
        BY <1>6, <1>7, <2>4, <2>5, <2>6 DEF DueCovered, Open
<1>16. DeadlineOwed'
    <2>1. /\ due'[r0] = now + timeout
          /\ \A r \in Requests \ {r0} : due'[r] = due[r]
        BY DEF IInv, TypeOK, Unset
    <2>2. \A f \in queue : r0 \notin f.handlers /\ f.handlers \in SUBSET Requests
        BY DEF IInv, OnceEach, HeldNowhere, TypeOK, Entry
    <2>3. \A id \in Open : r0 \notin pending[id].handlers
                           /\ pending[id].handlers \in SUBSET Requests
        BY DEF IInv, OnceEach, HeldNowhere, TypeOK, Entry
    <2>4. \A f \in queue : \E r \in f.handlers : due'[r] = f.deadline
        BY <2>1, <2>2 DEF LInv, DeadlineOwed
    <2>5. \E r \in x.handlers : due'[r] = x.deadline
        BY <1>2, <1>5, <2>1, <2>4
    <2>6. \A id \in Open : \E r \in pending[id].handlers :
            due'[r] = pending[id].deadline
        BY <2>1, <2>3 DEF LInv, DeadlineOwed
    <2>. QED
        BY <1>6, <1>7, <2>4, <2>5, <2>6 DEF DeadlineOwed, Open
<1>15. NoEarlyTimeout /\ UrgentOrder
    BY <1>7 DEF NoEarlyTimeout, UrgentOrder, Open
<1>. QED
    BY <1>9, <1>10, <1>11, <1>12, <1>13, <1>14, <1>15, <1>16 DEF LInv

LEMMA OnMessageKeepsLedger ==
    ASSUME IInv, LInv, NEW m \in wire, NEW accepted \in BOOLEAN, OnMessage(m, accepted)
    PROVE  LInv' /\ NoEarlyTimeout /\ UrgentOrder
<1>1. /\ UNCHANGED <<queue, sequence, bucket, sending_enabled, msg_seq, now, due>>
      /\ wire' \in SUBSET wire
    BY DEF OnMessage
<1>2. CASE m.id \notin Open /\ UNCHANGED <<pending, metrics, calls, outcome>>
    <2>1. NoEarlyTimeout /\ UrgentOrder
        BY <1>2 DEF NoEarlyTimeout, UrgentOrder, Open
    <2>2. InFlightBound' /\ BucketPaid' /\ MetricsBalance' /\ OneEntryPerKey'
        BY <1>1, <1>2 DEF LInv, InFlightBound, BucketPaid, MetricsBalance,
                          OneEntryPerKey, bucket, Open
    <2>3. WireIssued' /\ ResponseMeetsItsRequest' /\ DeadlinesAhead' /\ DueCovered'
          /\ DeadlineOwed'
        BY <1>1, <1>2 DEF LInv, WireIssued, ResponseMeetsItsRequest, DeadlinesAhead,
                          DueCovered, DeadlineOwed, bucket, Open, OpenEntries
    <2>. QED
        BY <2>1, <2>2, <2>3 DEF LInv
<1>3. CASE m.id \in Open /\ Answer(m.id, accepted)
    <2>1. PICK id \in Open : id = m.id
        BY <1>3
    <2>2. /\ DOMAIN pending' = Open \ {id}
          /\ \A i \in Open \ {id} : pending'[i] = pending[i]
        BY <1>3, <2>1 DEF Answer
    <2>3. /\ Cardinality(DOMAIN pending') = Cardinality(Open) - 1
          /\ Cardinality(Open) \in Nat /\ Cardinality(queue) \in Nat
        BY <2>2, FS_RemoveElement, FS_CardinalityType DEF IInv, TypeOK
    <2>4. InFlightBound'
        BY <2>3, DispatcherAssumption DEF LInv, InFlightBound, Open
    <2>5. metrics \in Metrics
          /\ \/ metrics' = [metrics EXCEPT !.completed = @ + 1]
             \/ metrics' = [metrics EXCEPT !.unexpected_responses = @ + 1]
        BY <1>3 DEF Answer, IInv, TypeOK
    <2>6. BucketPaid'
        BY <1>1, <2>5 DEF LInv, BucketPaid, bucket, Metrics
    <2>7. MetricsBalance'
        <3>1. Balanced(metrics, Cardinality(queue), Cardinality(Open))
            BY DEF LInv, MetricsBalance, Balanced
        <3>2. Balanced(metrics', Cardinality(queue), Cardinality(Open) - 1)
            BY <2>3, <2>5, <3>1 DEF Balanced, Metrics
        <3>. QED
            BY <1>1, <2>3, <3>2 DEF MetricsBalance, Balanced, Open
    <2>8. OneEntryPerKey' /\ WireIssued' /\ ResponseMeetsItsRequest'
        BY <1>1, <2>2 DEF LInv, OneEntryPerKey, WireIssued, ResponseMeetsItsRequest, Open
    <2>9. DeadlinesAhead' /\ DueCovered' /\ DeadlineOwed'
        BY <1>1, <2>2 DEF LInv, DeadlinesAhead, DueCovered, DeadlineOwed, bucket,
                    Open, OpenEntries
    <2>10. NoEarlyTimeout
        BY <1>3 DEF Answer, Complete, NoEarlyTimeout
    <2>11. UrgentOrder
        BY <2>2 DEF UrgentOrder
    <2>. QED
        BY <2>4, <2>6, <2>7, <2>8, <2>9, <2>10, <2>11 DEF LInv
<1>. QED
    BY <1>2, <1>3 DEF OnMessage

LEMMA FailAllKeepsLedger ==
    ASSUME IInv, LInv, FailAll
    PROVE  LInv' /\ NoEarlyTimeout /\ UrgentOrder
<1>1. /\ queue' = {} /\ DOMAIN pending' = {} /\ wire' = {}
      /\ UNCHANGED <<sequence, bucket, msg_seq, now, due>>
    BY DEF FailAll
<1>2. /\ Cardinality(queue') = 0 /\ Cardinality(DOMAIN pending') = 0
      /\ Cardinality(queue) \in Nat /\ Cardinality(Open) \in Nat
    BY <1>1, FS_EmptySet, FS_CardinalityType DEF IInv, TypeOK
<1>3. InFlightBound'
    BY <1>2, DispatcherAssumption DEF InFlightBound, Open
<1>4. /\ metrics \in Metrics
      /\ metrics' = [metrics EXCEPT !.disconnect_failures =
                        @ + Cardinality(Open) + Cardinality(queue)]
    BY DEF FailAll, IInv, TypeOK
<1>5. BucketPaid'
    BY <1>1, <1>4 DEF LInv, BucketPaid, bucket, Metrics
<1>6. MetricsBalance'
    <2>1. Balanced(metrics, Cardinality(queue), Cardinality(Open))
        BY DEF LInv, MetricsBalance, Balanced
    <2>2. Balanced(metrics', 0, 0)
        BY <1>2, <1>4, <2>1 DEF Balanced, Metrics
    <2>. QED
        BY <1>2, <2>2 DEF MetricsBalance, Balanced, Open
<1>7. OneEntryPerKey' /\ WireIssued' /\ ResponseMeetsItsRequest'
    BY <1>1 DEF OneEntryPerKey, WireIssued, ResponseMeetsItsRequest
<1>8. DeadlinesAhead' /\ DueCovered' /\ DeadlineOwed'
    BY <1>1 DEF DeadlinesAhead, DueCovered, DeadlineOwed, Open, OpenEntries
<1>9. NoEarlyTimeout /\ UrgentOrder
    BY <1>1 DEF FailAll, Complete, NoEarlyTimeout, UrgentOrder
<1>. QED
    BY <1>3, <1>5, <1>6, <1>7, <1>8, <1>9 DEF LInv

LEMMA InitLedger == Init => LInv
<1>. SUFFICES ASSUME Init PROVE LInv
    OBVIOUS
<1>. USE DispatcherAssumption DEF Init
<1>1. Open = {} /\ Cardinality(Open) = 0 /\ Cardinality(queue) = 0
    BY FS_EmptySet DEF Open
<1>2. InFlightBound /\ MetricsBalance
    BY <1>1 DEF InFlightBound, MetricsBalance
<1>3. BucketPaid
    BY DEF BucketPaid
<1>4. OneEntryPerKey /\ WireIssued /\ ResponseMeetsItsRequest
    BY DEF OneEntryPerKey, WireIssued, ResponseMeetsItsRequest
<1>5. DeadlinesAhead /\ DueCovered /\ DeadlineOwed
    BY <1>1 DEF DeadlinesAhead, DueCovered, DeadlineOwed, OpenEntries
<1>. QED
    BY <1>2, <1>3, <1>4, <1>5 DEF LInv

LEMMA NextLedger ==
    ASSUME IInv, LInv, [Next]_vars
    PROVE  LInv' /\ NoEarlyTimeout /\ UrgentOrder
<1>1. ASSUME NEW r \in Requests, NEW priority \in Priorities,
             NEW key \in Keys \cup {NoKey}, NEW timeout \in Timeouts[r],
             Submit(r, priority, key, timeout)
      PROVE  LInv' /\ NoEarlyTimeout /\ UrgentOrder
    BY <1>1, AttachKeepsLedger, EnqueueKeepsLedger DEF Submit
<1>2. CASE Tick
    BY <1>2, TickKeepsBooks
<1>3. ASSUME NEW m \in wire, NEW accepted \in BOOLEAN, OnMessage(m, accepted)
      PROVE  LInv' /\ NoEarlyTimeout /\ UrgentOrder
    BY <1>3, OnMessageKeepsLedger
<1>4. CASE FailAll
    BY <1>4, FailAllKeepsLedger
<1>5. ASSUME UNCHANGED <<queue, pending, bucket, metrics, wire, due, outcome>>,
             WireIssued'
      PROVE  LInv' /\ NoEarlyTimeout /\ UrgentOrder
    <2>1. InFlightBound' /\ BucketPaid' /\ MetricsBalance' /\ OneEntryPerKey'
        BY <1>5 DEF LInv, InFlightBound, BucketPaid, MetricsBalance,
                    OneEntryPerKey, bucket, Open
    <2>2. ResponseMeetsItsRequest' /\ DeadlinesAhead' /\ DueCovered'
          /\ DeadlineOwed'
        BY <1>5 DEF LInv, ResponseMeetsItsRequest, DeadlinesAhead, DueCovered,
                    DeadlineOwed, bucket, Open, OpenEntries
    <2>3. NoEarlyTimeout /\ UrgentOrder
        BY <1>5 DEF NoEarlyTimeout, UrgentOrder, Open
    <2>. QED
        BY <1>5, <2>1, <2>2, <2>3 DEF LInv
<1>6. CASE EnterRunning
    <2>1. WireIssued'
        BY <1>6 DEF EnterRunning, LInv, WireIssued
    <2>. QED
        BY <1>5, <1>6, <2>1 DEF EnterRunning
<1>7. CASE Advance \/ UNCHANGED vars
    <2>1. WireIssued'
        BY <1>7 DEF Advance, vars, LInv, WireIssued
    <2>. QED
        BY <1>5, <1>7, <2>1 DEF Advance, vars
<1>. QED
    BY <1>1, <1>2, <1>3, <1>4, <1>6, <1>7 DEF Next

\* The second invariant holds in every reachable state, beside the first.
THEOREM LedgerInvariance == Spec => [](IInv /\ LInv)
<1>1. Init => IInv /\ LInv
    BY InitInv, InitLedger
<1>2. IInv /\ LInv /\ [Next]_vars => (IInv /\ LInv)'
    BY NextInv, NextLedger
<1>. QED
    BY <1>1, <1>2, PTL DEF Spec

\* The dispatcher keeps its books: the window is never exceeded, what was
\* sent fits in one burst plus the refill, every entry is counted exactly
\* once and no two waiting entries share a key (drain(), tick(), submit(),
\* on_message(), fail_all()).
THEOREM BooksAlwaysBalance == Spec => []BooksBalance
<1>1. IInv /\ LInv => BooksBalance
    <2>. SUFFICES ASSUME IInv, LInv PROVE BooksBalance
        OBVIOUS
    <2>1. RateBound
        <3>1. /\ last_refill \in Nat /\ now \in Nat /\ last_refill <= now
              /\ Rate \in Nat /\ Burst \in Nat /\ Cost \in Nat
              /\ tokens \in Nat /\ metrics.sent \in Nat
            BY DispatcherAssumption DEF IInv, TypeOK, Metrics
        <3>2. Rate * last_refill <= Rate * now
              /\ Rate * last_refill \in Nat /\ Rate * now \in Nat
              /\ Cost * metrics.sent \in Nat
            BY <3>1
        <3>. QED
            BY <3>1, <3>2 DEF LInv, BucketPaid, RateBound
    <2>. QED
        BY <2>1 DEF IInv, LInv, BooksBalance
<1>. QED
    BY <1>1, LedgerInvariance, PTL

\* A response never reaches another request than the one it answers, for any
\* number of connections, timeouts and stragglers (on_message()).
THEOREM ResponsesMeet == Spec => []ResponseMeetsItsRequest
<1>1. LInv => ResponseMeetsItsRequest
    BY DEF LInv
<1>. QED
    BY <1>1, LedgerInvariance, PTL

\* tick() gives no request up before its own time, and leaves no entry behind
\* that none of its callers would still wait for.  (It does leave behind a
\* request whose time is up when a more patient one shares its entry.)
THEOREM TimeoutsAreExact == Spec => TimeoutsExact
<1>1. IInv /\ LInv => NoneOverdue
    BY DEF LInv, DeadlinesAhead, DeadlineOwed, NoneOverdue, OpenEntries
<1>2. IInv /\ LInv /\ [Next]_vars => [NoneOverdue' /\ NoEarlyTimeout]_vars
    <2>1. ASSUME IInv, LInv, [Next]_vars
          PROVE  NoneOverdue' /\ NoEarlyTimeout
        <3>1. (IInv /\ LInv)' => NoneOverdue'
            BY <1>1, PTL
        <3>. QED
            BY <2>1, <3>1, NextInv, NextLedger
    <2>. QED
        BY <2>1
<1>. QED
    BY <1>2, LedgerInvariance, PTL DEF Spec, TimeoutsExact

\* drain() never sends an entry while a more urgent or an older equally
\* urgent one stays behind.
THEOREM UrgentGoesFirst == Spec => UrgentFirst
<1>1. IInv /\ LInv /\ [Next]_vars => [UrgentOrder]_vars
    BY NextLedger
<1>. QED
    BY <1>1, LedgerInvariance, PTL DEF Spec, UrgentFirst

-----------------------------------------------------------------------------
(* The dispatcher implements CallOnce.                                     *)

\* No operation takes a call back, and only submit() accepts a request, one
\* at a time.
LEMMA StepAccepts ==
    ASSUME IInv, [Next]_vars
    PROVE  /\ \A r \in Requests : calls'[r] >= calls[r]
           /\ \/ due' = due
              \/ \E r0 \in Requests : \E d \in Nat :
                    ~Submitted(r0) /\ due' = [due EXCEPT ![r0] = d]
<1>. DEFINE Grows == \A r \in Requests : calls'[r] >= calls[r]
<1>1. ASSUME NEW a, NEW b, NEW c, Complete(a, b, c)
      PROVE  Grows
    BY <1>1 DEF Complete, IInv, TypeOK
<1>2. ASSUME NEW q, NEW m, TickFrom(q, m)
      PROVE  Grows
    BY <1>1, <1>2 DEF TickFrom
<1>3. calls' = calls => Grows
    BY DEF IInv, TypeOK
<1>. HIDE DEF Grows
<1>4. ASSUME NEW r0 \in Requests, NEW priority \in Priorities,
             NEW key \in Keys \cup {NoKey}, NEW timeout \in Timeouts[r0],
             Submit(r0, priority, key, timeout)
      PROVE  /\ Grows
             /\ \E d \in Nat : ~Submitted(r0) /\ due' = [due EXCEPT ![r0] = d]
    <2>1. Grows
        BY <1>2, <1>3, <1>4 DEF Submit, Attach, Enqueue
    <2>2. now + timeout \in Nat
        BY DispatcherAssumption DEF IInv, TypeOK
    <2>. QED
        BY <1>4, <2>1, <2>2 DEF Submit
<1>5. CASE Tick
    BY <1>2, <1>5 DEF Tick, Grows
<1>6. ASSUME NEW m \in wire, NEW accepted \in BOOLEAN, OnMessage(m, accepted)
      PROVE  Grows /\ due' = due
    BY <1>1, <1>3, <1>6 DEF OnMessage, Answer
<1>7. CASE FailAll
    BY <1>1, <1>7 DEF FailAll, Grows
<1>8. CASE EnterRunning \/ Advance \/ UNCHANGED vars
    BY <1>3, <1>8 DEF EnterRunning, Advance, vars, Grows
<1>. QED
    BY <1>4, <1>5, <1>6, <1>7, <1>8 DEF Next, Grows

\* Every step of the dispatcher is a step of CallOnce or leaves its view of
\* the handlers unchanged.
LEMMA StepRefines ==
    ASSUME IInv, IInv', [Next]_vars
    PROVE  [Promise!Next]_status
<1>. DEFINE new  == {r \in Requests : ~Submitted(r) /\ Submitted(r)'}
            done == {r \in Requests : calls[r] = 0 /\ calls'[r] = 1}
<1>1. \A r \in Requests : /\ calls[r] \in {0, 1} /\ (calls[r] = 1 => Submitted(r))
                          /\ calls'[r] \in {0, 1} /\ (calls'[r] = 1 => Submitted(r)')
                          /\ calls'[r] >= calls[r]
    <2>1. \A r \in Requests : calls[r] \in {0, 1} /\ (calls[r] = 1 => Submitted(r))
        BY DEF IInv, OnceEach
    <2>2. \A r \in Requests : calls'[r] \in {0, 1} /\ (calls'[r] = 1 => Submitted(r)')
        BY DEF IInv, OnceEach
    <2>. QED
        BY <2>1, <2>2, StepAccepts
<1>2. \A r \in Requests : Submitted(r) => Submitted(r)'
    BY StepAccepts DEF IInv, TypeOK, Submitted, Unset
<1>3. new = {} \/ \E r \in Requests : new = {r} /\ ~Submitted(r)
    BY StepAccepts DEF IInv, TypeOK, Submitted, Unset
<1>4. new \in {{}} \cup {{r} : r \in Promise!Idle}
    BY <1>3 DEF Promise!Idle, status
<1>5. done \in SUBSET (Promise!Waiting \cup new)
    BY <1>1 DEF Promise!Waiting, status
<1>6. status' = [r \in Requests |-> IF r \in done THEN "called"
                                    ELSE IF r \in new THEN "waiting"
                                    ELSE status[r]]
    <2>. SUFFICES ASSUME NEW r \in Requests
                  PROVE  status'[r] = IF r \in done THEN "called"
                                      ELSE IF r \in new THEN "waiting"
                                      ELSE status[r]
        BY DEF status
    <2>1. status[r] = IF ~Submitted(r) THEN "idle"
                      ELSE IF calls[r] = 0 THEN "waiting" ELSE "called"
        BY <1>1 DEF status
    <2>2. status'[r] = IF ~Submitted(r)' THEN "idle"
                       ELSE IF calls'[r] = 0 THEN "waiting" ELSE "called"
        BY <1>1 DEF status
    <2>3. CASE r \in done
        BY <1>1, <2>2, <2>3
    <2>4. CASE r \notin done /\ r \in new
        BY <1>1, <2>2, <2>4
    <2>5. CASE r \notin done /\ r \notin new
        BY <1>1, <1>2, <2>1, <2>2, <2>5
    <2>. QED
        BY <2>3, <2>4, <2>5
<1>. HIDE DEF new, done
<1>. QED
    BY <1>4, <1>5, <1>6 DEF Promise!Next, Promise!Step

\* The dispatcher implements CallOnce: it accepts requests one at a time and
\* calls only handlers that it accepted and has not called yet.
THEOREM Implements == Spec => CallsOnce
<1>1. Init => Promise!Init
    BY DEF Init, Promise!Init, status, Submitted
<1>2. IInv /\ IInv' /\ [Next]_vars => [Promise!Next]_status
    BY StepRefines
<1>. QED
    BY <1>1, <1>2, Invariance, PTL DEF Spec, CallsOnce, Promise!Spec
=============================================================================
