----------------------------- MODULE LogsProofs -----------------------------
(***************************************************************************)
(* Logs, for any page size, ring and number of boots: the inductive        *)
(* invariant IInv, and from it that read_all() loses and doubles nothing,  *)
(* ends at the end of the ring, and that no log is given up unfetched.     *)
(***************************************************************************)
EXTENDS Logs, SequenceTheorems, TLAPS

\* What a sequence of records gives.
LEMMA RecordsOf ==
    ASSUME NEW q \in Seq(Records)
    PROVE  /\ Len(q) \in Nat /\ DOMAIN q = 1..Len(q)
           /\ \A i \in 1..Len(q) : q[i] \in Records /\ q[i].s \in Nat /\ q[i].boot \in Nat
           /\ q # <<>> => Len(q) \in 1..Len(q)
<1>1. Len(q) \in Nat /\ DOMAIN q = 1..Len(q)
    BY LenProperties
<1>2. \A i \in 1..Len(q) : q[i] \in Records
    BY ElementOfSeq
<1>3. \A r \in Records : r.s \in Nat /\ r.boot \in Nat
    BY LogsAssumption DEF Records
<1>4. q # <<>> => Len(q) \in 1..Len(q)
    BY <1>1, EmptySeq
<1>. QED
    BY <1>1, <1>2, <1>3, <1>4

\* The records there are and those of a batch, one after the other.
LEMMA Joined ==
    ASSUME NEW q \in Seq(Records), NEW r \in Seq(Records)
    PROVE  /\ q \o r \in Seq(Records)
           /\ DOMAIN (q \o r) = 1..Len(q \o r)
           /\ Len(q \o r) = Len(q) + Len(r)
           /\ \A i \in 1..Len(q) : (q \o r)[i] = q[i]
           /\ \A i \in (Len(q) + 1)..(Len(q) + Len(r)) :
                  i - Len(q) \in 1..Len(r) /\ (q \o r)[i] = r[i - Len(q)]
<1>1. /\ q \o r \in Seq(Records) /\ Len(q \o r) = Len(q) + Len(r)
      /\ \A i \in 1..(Len(q) + Len(r)) :
             (q \o r)[i] = IF i <= Len(q) THEN q[i] ELSE r[i - Len(q)]
    BY ConcatProperties
<1>2. Len(q) \in Nat /\ Len(r) \in Nat
    BY LenProperties
<1>. QED
    BY <1>1, <1>2, LenProperties

LEMMA BatchOf ==
    ASSUME TypeOK, batch # None
    PROVE  batch.records \in Seq(Records) /\ batch.next_seq \in Nat
    BY DEF TypeOK

\* The ring goes on: records come after the ones there are, and none comes
\* back.
LEMMA RingTurns ==
    ASSUME IInv, passes' \in Seq(BOOLEAN), Len(passes) <= Len(passes'),
           kept' \in Nat \ {0},
           \A s \in 1..Len(passes) : Gone(s) => Gone(s)',
           UNCHANGED <<boot, previous, reader, other>>
    PROVE  IInv'
<1>1. UNCHANGED <<boot, previous, session, caller, since, retried, batch, all, fetched, acked>>
    BY DEF reader, other
<1>2. TypeOK'
    BY <1>1 DEF IInv, TypeOK
<1>3. /\ Len(passes) \in Nat /\ Len(passes') \in Nat /\ boot \in Nat /\ since \in Nat
      /\ all \in Seq(Records)
    BY LenProperties, LogsAssumption DEF IInv, TypeOK
<1>4. NewerEachTime' /\ AckedWasFetched'
    BY <1>1 DEF IInv, NewerEachTime, AckedWasFetched
<1>5. \A i \in 1..Len(all) : all[i].s \in Nat /\ all[i].boot \in Nat /\ i \in DOMAIN all
    BY <1>3, RecordsOf
<1>6. NoneSkipped'
    <2>. SUFFICES ASSUME NEW i \in 1..(Len(all) - 1), all[i].boot = boot,
                         NEW s \in (all[i].s + 1)..(all[i + 1].s - 1)
                  PROVE  Gone(s)'
        BY <1>1 DEF NoneSkipped, Gone
    <2>1. i \in 1..Len(all) /\ i + 1 \in 1..Len(all)
        BY <1>3, LenProperties
    <2>2. all[i + 1].boot = boot
        BY <1>3, <1>5, <2>1 DEF IInv, NewerEachTime, Collected
    <2>3. all[i + 1].s <= Len(passes)
        BY <1>5, <2>1, <2>2 DEF IInv, Collected
    <2>4. s \in 1..Len(passes)
        BY <1>3, <1>5, <2>1, <2>3
    <2>5. Gone(s)
        BY DEF IInv, NoneSkipped
    <2>. QED
        BY <2>4, <2>5
<1>7. Collected'
    <2>1. \A i \in DOMAIN all : all[i].boot <= boot /\ (all[i].boot = boot => all[i].s <= Len(passes'))
        BY <1>3, <1>5, RecordsOf DEF IInv, Collected
    <2>. QED
        BY <1>1, <2>1 DEF IInv, Collected
<1>8. BatchSound'
    <2>. SUFFICES ASSUME batch # None PROVE BatchSound'
        BY <1>1 DEF BatchSound
    <2>1. /\ batch.records \in Seq(Records) /\ batch.next_seq \in Nat
          /\ batch.next_seq <= Len(passes) + 1
        BY BatchOf DEF IInv, BatchSound, NextSeq
    <2>. DEFINE rs == batch.records
    <2>2. \A i \in DOMAIN rs :
              /\ rs[i].boot = boot
              /\ rs[i].s \in (since + 1)..Len(passes)
              /\ \A j \in DOMAIN rs : i < j => rs[i].s < rs[j].s
        BY DEF IInv, BatchSound
    <2>3. EndOf(batch) \in Nat /\ EndOf(batch) <= Len(passes) + 1
        BY <1>3, <2>1, <2>2, RecordsOf DEF EndOf, LastOf
    <2>4. ASSUME NEW s \in (since + 1)..(EndOf(batch) - 1)
          PROVE  Gone(s)' \/ \E i \in DOMAIN rs : rs[i].s = s
        <3>1. s \in 1..Len(passes)
            BY <1>3, <2>3
        <3>. QED
            BY <3>1 DEF IInv, BatchSound
    <2>5. \A i \in DOMAIN rs : rs[i].s \in (since + 1)..Len(passes')
        BY <1>3, <2>2
    <2>6. batch.next_seq <= NextSeq'
        BY <1>3, <2>1 DEF NextSeq
    <2>7. EndOf(batch)' = EndOf(batch) /\ batch' = batch /\ since' = since /\ boot' = boot
        BY <1>1 DEF EndOf, LastOf
    <2>8. caller' = "asked" /\ session' = "running"
        BY <1>1 DEF IInv, BatchSound
    <2>. QED
        BY <2>2, <2>4, <2>5, <2>6, <2>7, <2>8 DEF BatchSound
<1>. QED
    BY <1>1, <1>2, <1>4, <1>6, <1>7, <1>8 DEF IInv

LEMMA RecordKeepsInv == ASSUME IInv, NEW filtered \in BOOLEAN, Record(filtered) PROVE IInv'
<1>1. /\ passes' = Append(passes, ~filtered)
      /\ kept' = IF NextSeq - kept >= Capacity THEN kept + 1 ELSE kept
      /\ UNCHANGED <<boot, previous, reader, other>>
    BY DEF Record
<1>2. passes \in Seq(BOOLEAN) /\ kept \in Nat \ {0} /\ (~filtered) \in BOOLEAN
    BY DEF IInv, TypeOK
<1>3. kept' \in Nat \ {0} /\ kept <= kept'
    BY <1>1, <1>2
<1>4. /\ passes' \in Seq(BOOLEAN) /\ Len(passes') = Len(passes) + 1
      /\ \A s \in 1..Len(passes) : passes'[s] = passes[s]
    BY <1>1, <1>2, AppendProperties
<1>5. Len(passes) \in Nat
    BY <1>2, LenProperties
<1>6. \A s \in 1..Len(passes) : Gone(s) => Gone(s)'
    BY <1>2, <1>3, <1>4, <1>5 DEF Gone
<1>. QED
    BY <1>1, <1>3, <1>4, <1>5, <1>6, RingTurns

LEMMA ClearRuntimeKeepsInv == ASSUME IInv, ClearRuntime PROVE IInv'
<1>1. /\ kept < NextSeq /\ kept' = NextSeq
      /\ UNCHANGED <<boot, passes, previous, reader, other>>
    BY DEF ClearRuntime
<1>2. passes \in Seq(BOOLEAN) /\ kept \in Nat /\ Len(passes) \in Nat
    BY LenProperties DEF IInv, TypeOK
<1>3. kept' \in Nat \ {0}
    BY <1>1, <1>2 DEF NextSeq
<1>4. \A s \in 1..Len(passes) : Gone(s) => Gone(s)'
    BY <1>1, <1>2, <1>3 DEF Gone
<1>. QED
    BY <1>1, <1>2, <1>3, <1>4, RingTurns

\* A read_all() that failed, or is lost, has nothing to return.
LEMMA NothingCollected ==
    ASSUME all' = <<>>, caller' \in {"failed", "lost"}
    PROVE  NewerEachTime' /\ NoneSkipped' /\ Collected'
<1>1. Len(all') = 0 /\ DOMAIN all' = {}
    BY EmptySeq
<1>. QED
    BY <1>1 DEF NewerEachTime, NoneSkipped, Collected

LEMMA RebootKeepsInv == ASSUME IInv, Reboot PROVE IInv'
<1>1. /\ boot < MaxBoots /\ boot' = boot + 1 /\ previous' = TRUE
      /\ passes' = <<>> /\ kept' = 1 /\ batch' = None
      /\ \/ UNCHANGED <<caller, since, retried, all>>
         \/ caller' = "failed" /\ since' = 0 /\ retried' = FALSE /\ all' = <<>>
      /\ session' \in {session, "closed"}
      /\ UNCHANGED <<fetched, acked>>
    BY DEF Reboot, CloseSession, Fail, Over, other, reader, IInv, BatchSound
<1>2. boot \in Nat /\ boot \in 1..MaxBoots /\ MaxBoots \in Nat /\ all \in Seq(Records)
    BY LogsAssumption DEF IInv, TypeOK
<1>3. TypeOK'
    <2>1. passes' \in Seq(BOOLEAN)
        BY <1>1, EmptySeq
    <2>2. boot' \in 1..MaxBoots /\ kept' \in Nat \ {0}
        BY <1>1, <1>2
    <2>3. since' \in Nat
        BY <1>1 DEF IInv, TypeOK
    <2>4. all' \in Seq(Records)
        BY <1>1, <1>2, EmptySeq
    <2>5. retried' \in BOOLEAN
        BY <1>1 DEF IInv, TypeOK
    <2>. QED
        BY <1>1, <2>1, <2>2, <2>3, <2>4, <2>5 DEF IInv, TypeOK
<1>4. \A i \in 1..Len(all) : all[i].boot < boot'
    BY <1>1, <1>2, RecordsOf DEF IInv, Collected
<1>5. AckedWasFetched' /\ BatchSound'
    BY <1>1 DEF IInv, AckedWasFetched, BatchSound
<1>6. boot' > 1
    BY <1>1, <1>2
<1>7. CASE all' = <<>> /\ caller' = "failed"
    BY <1>3, <1>5, <1>6, <1>7, NothingCollected DEF IInv
<1>8. CASE UNCHANGED <<caller, since, all>>
    <2>1. NewerEachTime'
        BY <1>8 DEF IInv, NewerEachTime
    <2>2. NoneSkipped'
        BY <1>1, <1>2, <1>4, <1>8, RecordsOf DEF NoneSkipped
    <2>3. \A i \in DOMAIN all : all[i].boot <= boot' /\ all[i].boot # boot'
        BY <1>1, <1>2, <1>4, RecordsOf
    <2>4. Collected'
        BY <1>8, <2>3 DEF IInv, Collected, LastOf
    <2>. QED
        BY <1>3, <1>5, <1>6, <2>1, <2>2, <2>4 DEF IInv
<1>. QED
    BY <1>1, <1>7, <1>8

LEMMA DeviceAnswersKeepsInv == ASSUME IInv, DeviceAnswers PROVE IInv'
<1>1. /\ caller = "asked" /\ session = "running"
      /\ UNCHANGED <<boot, passes, kept, previous, session, caller, since, retried, all,
                     fetched, acked>>
    BY DEF DeviceAnswers, device, other
<1>. PICK n \in 0..Page : \E records \in FirstAfter(since, n) :
        /\ n = 0 => RecordsAfter(since) = {}
        /\ batch' = [boot_id |-> boot, next_seq |-> NextSeq, records |-> records]
    BY DEF DeviceAnswers, LogBatch
<1>2. PICK records \in FirstAfter(since, n) :
        /\ n = 0 => RecordsAfter(since) = {}
        /\ batch' = [boot_id |-> boot, next_seq |-> NextSeq, records |-> records]
    OBVIOUS
<1>3. /\ n \in Nat /\ n <= Page /\ Len(passes) \in Nat /\ since \in Nat
      /\ boot \in 1..MaxBoots /\ NextSeq \in Nat
    BY LenProperties, LogsAssumption DEF IInv, TypeOK, NextSeq
<1>4. /\ records \in [1..n -> RecordsAfter(since)]
      /\ \A i, j \in 1..n : i < j => records[i].s < records[j].s
      /\ \A r \in RecordsAfter(since), i \in 1..n :
             r.s < records[i].s => \E j \in 1..n : records[j] = r
    BY DEF FirstAfter
<1>5. \A r \in RecordsAfter(since) : r \in Records /\ r.boot = boot /\ r.s \in (since + 1)..Len(passes)
    BY <1>3 DEF RecordsAfter, Records
<1>6. \A s \in (since + 1)..Len(passes) : Gone(s) \/ [boot |-> boot, s |-> s] \in RecordsAfter(since)
    <2>. SUFFICES ASSUME NEW s \in (since + 1)..Len(passes), ~Gone(s)
                  PROVE  [boot |-> boot, s |-> s] \in RecordsAfter(since)
        OBVIOUS
    <2>1. s \in 1..Len(passes) /\ s > since
        BY <1>3
    <2>2. passes[s] /\ s >= kept
        BY <1>3 DEF Gone, IInv, TypeOK
    <2>. QED
        BY <2>1, <2>2 DEF RecordsAfter
<1>7. records \in Seq(Records) /\ Len(records) = n /\ DOMAIN records = 1..n
    <2>1. \A i \in 1..n : records[i] \in Records
        BY <1>4, <1>5
    <2>2. records = [i \in 1..n |-> records[i]]
        BY <1>4
    <2>3. [i \in 1..n |-> records[i]] \in Seq(Records)
        BY <1>3, <2>1, IsASeq
    <2>. QED
        BY <1>3, <1>4, <2>2, <2>3, LenProperties
<1>8. /\ batch'.records = records /\ batch'.next_seq = NextSeq
      /\ batch' \in [boot_id : 1..MaxBoots, next_seq : Nat, records : Seq(Records)]
    BY <1>2, <1>3, <1>7
<1>9. TypeOK'
    BY <1>1, <1>3, <1>7, <1>8 DEF IInv, TypeOK
<1>10. NewerEachTime' /\ NoneSkipped' /\ AckedWasFetched' /\ Collected'
    BY <1>1 DEF IInv, NewerEachTime, NoneSkipped, AckedWasFetched, Collected, Gone, LastOf
<1>11. BatchSound'
    <2>1. ASSUME NEW s \in (since + 1)..(EndOf(batch') - 1)
          PROVE  Gone(s) \/ \E i \in 1..n : records[i].s = s
        <3>1. CASE n = 0
            <4>1. EndOf(batch') = Len(passes) + 1
                BY <1>7, <1>8, <3>1, EmptySeq DEF EndOf, NextSeq
            <4>2. s \in (since + 1)..Len(passes)
                BY <1>3, <4>1
            <4>. QED
                BY <1>2, <1>6, <3>1, <4>2
        <3>2. CASE n # 0
            <4>1. n \in 1..n /\ EndOf(batch') = records[n].s
                BY <1>3, <1>7, <1>8, <3>2, EmptySeq DEF EndOf, LastOf
            <4>2. records[n].s \in (since + 1)..Len(passes)
                BY <1>4, <1>5, <4>1
            <4>3. s \in (since + 1)..Len(passes) /\ s < records[n].s
                BY <1>3, <4>1, <4>2
            <4>4. CASE ~Gone(s)
                <5>1. [boot |-> boot, s |-> s] \in RecordsAfter(since)
                    BY <1>6, <4>3, <4>4
                <5>2. PICK j \in 1..n : records[j] = [boot |-> boot, s |-> s]
                    BY <1>4, <4>1, <4>3, <5>1
                <5>. QED
                    BY <5>2
            <4>. QED
                BY <4>4
        <3>. QED
            BY <3>1, <3>2
    <2>2. \A i \in 1..n : records[i].boot = boot /\ records[i].s \in (since + 1)..Len(passes)
        BY <1>4, <1>5
    <2>3. \A s : Gone(s)' <=> Gone(s)
        BY <1>1 DEF Gone
    <2>4. NextSeq' = NextSeq /\ NextSeq <= NextSeq
        BY <1>1, <1>3 DEF NextSeq
    <2>5. EndOf(batch)' = EndOf(batch')
        BY DEF EndOf, LastOf
    <2>. QED
        BY <1>1, <1>4, <1>7, <1>8, <2>1, <2>2, <2>3, <2>4, <2>5 DEF BatchSound
<1>. QED
    BY <1>1, <1>9, <1>10, <1>11 DEF IInv

\* What the collected records and the batch make together.
LEMMA BatchFits ==
    ASSUME IInv, batch # None
    PROVE  LET both == all \o batch.records IN
           /\ both \in Seq(Records)
           /\ \A i \in 1..(Len(both) - 1) :
                  /\ both[i].s < both[i + 1].s /\ both[i].boot <= both[i + 1].boot
                  /\ both[i].boot = boot =>
                         \A s \in (both[i].s + 1)..(both[i + 1].s - 1) : Gone(s)
           /\ \A i \in DOMAIN both :
                  both[i].boot <= boot /\ (both[i].boot = boot => both[i].s <= Len(passes))
           /\ batch.records # <<>> => both # <<>> /\ LastOf(both) = LastOf(batch.records)
<1>. DEFINE rs == batch.records
            both == all \o rs
            n == Len(all)
            m == Len(rs)
<1>1. all \in Seq(Records) /\ rs \in Seq(Records)
    BY BatchOf DEF IInv, TypeOK
<1>2. /\ n \in Nat /\ m \in Nat /\ since \in Nat /\ boot \in Nat /\ Len(passes) \in Nat
      /\ DOMAIN all = 1..n /\ DOMAIN rs = 1..m
      /\ \A i \in 1..n : all[i].s \in Nat /\ all[i].boot \in Nat
      /\ \A i \in 1..m : rs[i].s \in Nat /\ rs[i].boot \in Nat
    BY <1>1, RecordsOf, LenProperties, LogsAssumption DEF IInv, TypeOK
<1>3. /\ both \in Seq(Records) /\ DOMAIN both = 1..Len(both) /\ Len(both) = n + m
      /\ \A i \in 1..n : both[i] = all[i]
      /\ \A i \in (n + 1)..(n + m) : i - n \in 1..m /\ both[i] = rs[i - n]
    BY <1>1, Joined
<1>4. \A i \in 1..m : /\ rs[i].boot = boot
                      /\ rs[i].s \in (since + 1)..Len(passes)
                      /\ \A j \in 1..m : i < j => rs[i].s < rs[j].s
    BY <1>2 DEF IInv, BatchSound
<1>5. \A i \in 1..n : all[i].boot <= boot /\ (all[i].boot = boot => all[i].s <= Len(passes))
    BY <1>2 DEF IInv, Collected
<1>6. n # 0 => all[n].s = since
    <2>1. n # 0 => all # <<>>
        BY EmptySeq
    <2>. QED
        BY <2>1 DEF IInv, BatchSound, Collected, LastOf
<1>7. m # 0 => EndOf(batch) = rs[m].s
    BY EmptySeq DEF EndOf, LastOf
<1>8. \A s \in (since + 1)..(EndOf(batch) - 1) : Gone(s) \/ \E i \in 1..m : rs[i].s = s
    BY <1>2 DEF IInv, BatchSound
<1>. HIDE DEF both, rs, n, m
<1>9. ASSUME NEW i \in 1..(Len(both) - 1)
      PROVE  /\ both[i].s < both[i + 1].s /\ both[i].boot <= both[i + 1].boot
             /\ both[i].boot = boot =>
                    \A s \in (both[i].s + 1)..(both[i + 1].s - 1) : Gone(s)
    <2>1. CASE i < n
        <3>1. i \in 1..(n - 1) /\ i \in 1..n /\ i + 1 \in 1..n
            BY <1>2, <1>3, <2>1
        <3>2. both[i] = all[i] /\ both[i + 1] = all[i + 1]
            BY <1>3, <3>1
        <3>. QED
            BY <3>1, <3>2 DEF IInv, NewerEachTime, NoneSkipped, n
    <2>2. CASE i = n
        <3>1. n \in 1..n /\ n + 1 \in (n + 1)..(n + m) /\ 1 \in 1..m /\ m \in 1..m /\ m # 0
            BY <1>2, <1>3, <2>2
        <3>2. both[i] = all[n] /\ both[i + 1] = rs[1]
            <4>1. both[n] = all[n]
                BY <1>3, <3>1
            <4>2. both[n + 1] = rs[(n + 1) - n]
                BY <1>3, <3>1
            <4>3. (n + 1) - n = 1
                BY <1>2
            <4>. QED
                BY <2>2, <4>1, <4>2, <4>3
        <3>3. all[n].s = since /\ all[n].boot <= boot
            BY <1>2, <1>5, <1>6, <3>1
        <3>4. rs[1].boot = boot /\ since < rs[1].s
            BY <1>2, <1>4, <3>1
        <3>5. ASSUME NEW s \in (since + 1)..(rs[1].s - 1) PROVE Gone(s)
            <4>1. rs[1].s <= rs[m].s
                BY <1>2, <1>4, <3>1
            <4>2. s \in (since + 1)..(EndOf(batch) - 1)
                BY <1>2, <1>7, <3>1, <4>1
            <4>3. \A j \in 1..m : rs[j].s # s
                BY <1>2, <1>4, <3>1
            <4>. QED
                BY <1>8, <4>2, <4>3
        <3>. QED
            BY <3>2, <3>3, <3>4, <3>5
    <2>3. CASE i > n
        <3>. DEFINE k == i - n
        <3>1. /\ i \in (n + 1)..(n + m) /\ i + 1 \in (n + 1)..(n + m) /\ (i + 1) - n = k + 1
              /\ k \in 1..m /\ k + 1 \in 1..m /\ m # 0 /\ m \in 1..m
            BY <1>2, <1>3, <2>3
        <3>2. both[i] = rs[k] /\ both[i + 1] = rs[k + 1]
            BY <1>3, <3>1
        <3>. HIDE DEF k
        <3>3. rs[k].s < rs[k + 1].s /\ rs[k].boot = boot /\ rs[k + 1].boot = boot
            BY <1>2, <1>4, <3>1
        <3>4. ASSUME NEW s \in (rs[k].s + 1)..(rs[k + 1].s - 1) PROVE Gone(s)
            <4>1. rs[k + 1].s <= rs[m].s /\ since < rs[k].s
                BY <1>2, <1>4, <3>1
            <4>2. s \in (since + 1)..(EndOf(batch) - 1)
                <5>1. rs[k].s \in Nat /\ rs[k + 1].s \in Nat /\ rs[m].s \in Nat /\ since \in Nat
                    BY <1>2, <3>1
                <5>2. EndOf(batch) = rs[m].s
                    BY <1>7, <3>1
                <5>. QED
                    BY <4>1, <5>1, <5>2
            <4>3. \A j \in 1..m : rs[j].s # s
                <5>. SUFFICES ASSUME NEW j \in 1..m PROVE rs[j].s # s
                    OBVIOUS
                <5>1. CASE j <= k
                    <6>1. rs[j].s <= rs[k].s
                        BY <1>2, <1>4, <3>1, <5>1
                    <6>. QED
                        BY <1>2, <3>1, <6>1
                <5>2. CASE j > k
                    <6>1. rs[k + 1].s <= rs[j].s
                        BY <1>2, <1>4, <3>1, <5>2
                    <6>. QED
                        BY <1>2, <3>1, <6>1
                <5>. QED
                    BY <1>2, <3>1, <5>1, <5>2
            <4>. QED
                BY <1>8, <4>2, <4>3
        <3>. QED
            BY <1>2, <3>2, <3>3, <3>4
    <2>. QED
        BY <1>2, <1>3, <2>1, <2>2, <2>3
<1>10. ASSUME NEW i \in 1..Len(both)
       PROVE  both[i].boot <= boot /\ (both[i].boot = boot => both[i].s <= Len(passes))
    <2>1. CASE i <= n
        BY <1>2, <1>3, <1>5, <2>1
    <2>2. CASE i > n
        <3>1. i \in (n + 1)..(n + m)
            BY <1>2, <1>3, <2>2
        <3>2. i - n \in 1..m /\ both[i] = rs[i - n]
            BY <1>3, <3>1
        <3>. QED
            BY <1>2, <1>4, <3>2
    <2>. QED
        BY <1>2, <1>3, <2>1, <2>2
<1>11. rs # <<>> => both # <<>> /\ LastOf(both) = LastOf(rs)
    <2>. SUFFICES ASSUME rs # <<>> PROVE both # <<>> /\ LastOf(both) = LastOf(rs)
        OBVIOUS
    <2>1. m \in Nat /\ m # 0
        BY <1>1, <1>2, EmptySeq DEF m
    <2>2. n + m \in (n + 1)..(n + m) /\ (n + m) - n = m /\ n + m # 0
        BY <1>2, <2>1
    <2>3. both[n + m] = rs[(n + m) - n]
        BY <1>3, <2>2
    <2>4. both # <<>>
        BY <1>3, <2>2, EmptySeq
    <2>. QED
        BY <1>3, <2>2, <2>3, <2>4 DEF LastOf, m
<1>. QED
    BY <1>3, <1>9, <1>10, <1>11 DEF both, rs

LEMMA TakeBatchKeepsInv == ASSUME IInv, TakeBatch PROVE IInv'
<1>1. /\ caller = "asked" /\ batch # None
      /\ all' = all \o batch.records /\ batch' = None
      /\ UNCHANGED <<boot, passes, kept, previous, session, fetched, acked>>
    BY DEF TakeBatch, device, other
<1>2. /\ retried' = FALSE
      /\ \/ caller' = "done" /\ since' = 0
         \/ /\ caller' = "between"
            /\ since' = LastOf(batch.records) /\ batch.records # <<>>
    BY DEF TakeBatch, CaughtUp, ContinueFrom
<1>3. batch.records # <<>> => LastOf(batch.records) \in Nat
    <2>1. batch.records \in Seq(Records)
        BY <1>1, BatchOf DEF IInv
    <2>. QED
        BY <2>1, RecordsOf DEF LastOf
<1>. DEFINE both == all \o batch.records
<1>4. /\ both \in Seq(Records)
      /\ \A i \in 1..(Len(both) - 1) :
             /\ both[i].s < both[i + 1].s /\ both[i].boot <= both[i + 1].boot
             /\ both[i].boot = boot =>
                    \A s \in (both[i].s + 1)..(both[i + 1].s - 1) : Gone(s)
      /\ \A i \in DOMAIN both :
             both[i].boot <= boot /\ (both[i].boot = boot => both[i].s <= Len(passes))
      /\ batch.records # <<>> => both # <<>> /\ LastOf(both) = LastOf(batch.records)
    BY <1>1, BatchFits
<1>5. all' = both
    BY <1>1
<1>. HIDE DEF both
<1>6. TypeOK'
    <2>1. since' \in Nat
        BY <1>2, <1>3
    <2>2. retried' \in BOOLEAN
        BY <1>2
    <2>. QED
        BY <1>1, <1>2, <1>4, <1>5, <2>1, <2>2 DEF IInv, TypeOK
<1>7. NewerEachTime'
    BY <1>4, <1>5 DEF NewerEachTime
<1>8. NoneSkipped'
    BY <1>1, <1>4, <1>5 DEF NoneSkipped, Gone
<1>9. Collected'
    BY <1>1, <1>2, <1>4, <1>5 DEF Collected, LastOf
<1>10. AckedWasFetched' /\ BatchSound' /\ (previous' => boot' > 1)
    BY <1>1 DEF IInv, AckedWasFetched, BatchSound
<1>. QED
    BY <1>6, <1>7, <1>8, <1>9, <1>10 DEF IInv

\* The steps of read_all(), and of the session, that leave what it has
\* collected alone.
LEMMA ReaderKeepsInv ==
    ASSUME IInv,
           session' \in {"none", "fresh", "running", "closed"},
           caller' \in {"idle", "asked", "between", "done", "failed", "lost"},
           caller' = "idle" => caller = "idle",
           since' \in Nat, retried' \in BOOLEAN,
           batch' = None \/ (batch' = batch /\ batch = None),
           caller' \in {"asked", "between"} =>
               \/ caller = "idle"
               \/ caller \in {"asked", "between"} /\ since' = since,
           UNCHANGED <<device, all, other>>
    PROVE  IInv'
<1>1. /\ UNCHANGED <<boot, passes, kept, previous, all, fetched, acked>>
      /\ batch' = None
    BY DEF device, other
<1>2. TypeOK'
    BY <1>1 DEF IInv, TypeOK
<1>3. NewerEachTime' /\ NoneSkipped' /\ AckedWasFetched'
    BY <1>1 DEF IInv, NewerEachTime, NoneSkipped, AckedWasFetched, Gone
<1>4. Collected'
    BY <1>1 DEF IInv, Collected, LastOf
<1>5. BatchSound' /\ (previous' => boot' > 1)
    BY <1>1 DEF IInv, BatchSound
<1>. QED
    BY <1>2, <1>3, <1>4, <1>5 DEF IInv

LEMMA OverKeepsInv ==
    ASSUME IInv, NEW how \in {"failed", "lost"}, Over(how), batch' = None,
           session' \in {"none", "fresh", "running", "closed"}, UNCHANGED <<device, other>>
    PROVE  IInv'
<1>1. /\ UNCHANGED <<boot, passes, kept, previous, fetched, acked>>
      /\ caller' \in {"failed", "lost"} /\ since' = 0 /\ retried' = FALSE /\ all' = <<>>
    BY DEF Over, device, other
<1>2. TypeOK'
    <2>1. all' \in Seq(Records)
        BY <1>1, EmptySeq
    <2>. QED
        BY <1>1, <2>1 DEF IInv, TypeOK
<1>3. AckedWasFetched' /\ BatchSound' /\ (previous' => boot' > 1)
    BY <1>1 DEF IInv, AckedWasFetched, BatchSound
<1>. QED
    BY <1>1, <1>2, <1>3, NothingCollected DEF IInv

LEMMA OtherThreadKeepsInv ==
    ASSUME IInv, ReadPrevious \/ \E boot_id \in 1..MaxBoots : AckPrevious(boot_id)
    PROVE  IInv'
<1>1. UNCHANGED <<boot, passes, kept, session, caller, since, retried, batch, all>>
    BY DEF ReadPrevious, AckPrevious, device, reader
<1>2. boot \in 1..MaxBoots /\ MaxBoots \in Nat
    BY LogsAssumption DEF IInv, TypeOK
<1>3. /\ previous' \in BOOLEAN /\ (previous' => previous)
      /\ fetched' \subseteq 1..MaxBoots /\ acked' \subseteq fetched'
    <2>1. CASE ReadPrevious
        <3>1. previous /\ fetched' = fetched \cup {boot - 1} /\ UNCHANGED <<previous, acked>>
            BY <2>1 DEF ReadPrevious, device
        <3>2. boot - 1 \in 1..MaxBoots
            BY <1>2, <3>1 DEF IInv
        <3>. QED
            BY <3>1, <3>2 DEF IInv, TypeOK, AckedWasFetched
    <2>2. ASSUME NEW boot_id \in 1..MaxBoots, AckPrevious(boot_id)
          PROVE  /\ previous' \in BOOLEAN /\ (previous' => previous)
                 /\ fetched' \subseteq 1..MaxBoots /\ acked' \subseteq fetched'
        BY <2>2 DEF AckPrevious, AckBody, IInv, TypeOK, AckedWasFetched
    <2>. QED
        BY <2>1, <2>2
<1>4. TypeOK'
    BY <1>1, <1>3 DEF IInv, TypeOK
<1>5. NewerEachTime' /\ NoneSkipped' /\ AckedWasFetched' /\ Collected'
    BY <1>1, <1>3 DEF IInv, NewerEachTime, NoneSkipped, AckedWasFetched, Gone, Collected, LastOf
<1>6. BatchSound'
    BY <1>1 DEF IInv, BatchSound, Gone, NextSeq, EndOf, LastOf
<1>. QED
    BY <1>1, <1>3, <1>4, <1>5, <1>6 DEF IInv

-----------------------------------------------------------------------------

\* Records, reboots, lost and repeated requests and clearing of the log: no
\* step breaks the invariant the other results rest on.
THEOREM Invariance == Spec => []IInv
<1>1. Init => IInv
    <2>. SUFFICES ASSUME Init PROVE IInv
        OBVIOUS
    <2>1. TypeOK
        <3>1. passes \in Seq(BOOLEAN) /\ all \in Seq(Records)
            BY EmptySeq DEF Init
        <3>2. boot \in 1..MaxBoots
            BY LogsAssumption DEF Init
        <3>3. kept \in Nat \ {0} /\ since \in Nat
            BY DEF Init
        <3>4. previous \in BOOLEAN /\ retried \in BOOLEAN
            BY DEF Init
        <3>5. /\ caller \in {"idle", "asked", "between", "done", "failed", "lost"}
              /\ session \in {"none", "fresh", "running", "closed"}
            BY DEF Init
        <3>6. batch = None /\ fetched = {} /\ acked = {}
            BY DEF Init
        <3>. QED
            BY <3>1, <3>2, <3>3, <3>4, <3>5, <3>6 DEF TypeOK
    <2>2. Len(all) = 0 /\ DOMAIN all = {}
        BY EmptySeq DEF Init
    <2>3. NewerEachTime /\ NoneSkipped
        BY <2>2 DEF NewerEachTime, NoneSkipped
    <2>4. AckedWasFetched /\ Collected /\ BatchSound /\ ~previous
        BY <2>2 DEF Init, AckedWasFetched, Collected, BatchSound
    <2>. QED
        BY <2>1, <2>3, <2>4 DEF IInv
<1>2. IInv /\ Next => IInv'
    <2>. SUFFICES ASSUME IInv, Next PROVE IInv'
        OBVIOUS
    <2>1. /\ since \in Nat /\ retried \in BOOLEAN
          /\ session \in {"none", "fresh", "running", "closed"}
          /\ caller \in {"idle", "asked", "between", "done", "failed", "lost"}
        BY DEF IInv, TypeOK
    <2>2. (caller # "asked" => batch = None) /\ (session # "running" => batch = None)
        BY DEF IInv, BatchSound
    <2>3. ASSUME NEW from \in Nat, AsyncRead(from), caller \in {"idle", "between"},
                 caller = "between" => from = since, UNCHANGED <<device, session, batch, other>>
          PROVE  IInv'
        <3>1. batch' = None
            BY <2>2, <2>3
        <3>2. CASE session # "none"
            BY <2>1, <2>2, <2>3, <3>2, ReaderKeepsInv DEF AsyncRead
        <3>3. CASE session = "none"
            BY <2>1, <2>3, <3>1, <3>3, OverKeepsInv DEF AsyncRead, Fail
        <3>. QED
            BY <3>2, <3>3
    <2>4. ASSUME NEW from \in 0..1, ReadAll(from) PROVE IInv'
        <3>1. from \in Nat
            OBVIOUS
        <3>. QED
            BY <2>3, <2>4, <3>1 DEF ReadAll
    <2>5. CASE NextPage
        BY <2>1, <2>3, <2>5 DEF NextPage
    <2>6. CASE ReadTimesOut
        <3>1. CASE MayRetry
            BY <2>1, <2>6, <3>1, ReaderKeepsInv DEF ReadTimesOut
        <3>2. CASE ~MayRetry
            BY <2>1, <2>6, <3>2, OverKeepsInv DEF ReadTimesOut, Fail
        <3>. QED
            BY <3>1, <3>2
    <2>7. CASE ReadFails
        BY <2>1, <2>7, OverKeepsInv DEF ReadFails, Fail
    <2>8. CASE Redial
        <3>1. session \in {"none", "closed"} /\ batch' = None /\ session' \in {"fresh", "none"}
            BY <2>2, <2>8 DEF Redial
        <3>2. CASE caller # "asked"
            BY <2>1, <2>2, <2>8, <3>1, <3>2, ReaderKeepsInv DEF Redial
        <3>3. CASE caller = "asked"
            BY <2>8, <3>1, <3>3, OverKeepsInv DEF Redial
        <3>. QED
            BY <3>2, <3>3
    <2>9. CASE DialFails \/ BecomesReady
        BY <2>1, <2>2, <2>9, ReaderKeepsInv DEF DialFails, BecomesReady
    <2>10. CASE ConnectionEnds
        <3>1. CASE caller # "asked"
            BY <2>1, <2>2, <2>10, <3>1, ReaderKeepsInv DEF ConnectionEnds, CloseSession
        <3>2. CASE caller = "asked"
            BY <2>10, <3>2, OverKeepsInv DEF ConnectionEnds, CloseSession, Fail
        <3>. QED
            BY <3>1, <3>2
    <2>. QED
        BY <2>4, <2>5, <2>6, <2>7, <2>8, <2>9, <2>10, RecordKeepsInv, RebootKeepsInv,
           DeviceAnswersKeepsInv, TakeBatchKeepsInv, ClearRuntimeKeepsInv, OtherThreadKeepsInv
           DEF Next
<1>3. IInv /\ UNCHANGED vars => IInv'
    <2>. SUFFICES ASSUME IInv, UNCHANGED vars PROVE IInv'
        OBVIOUS
    <2>1. UNCHANGED <<boot, passes, kept, previous, session, caller, since, retried, batch, all,
                      fetched, acked>>
        BY DEF vars
    <2>2. TypeOK' /\ NewerEachTime' /\ NoneSkipped' /\ AckedWasFetched' /\ Collected'
        BY <2>1 DEF IInv, TypeOK, NewerEachTime, NoneSkipped, AckedWasFetched, Gone,
                    Collected, LastOf
    <2>3. BatchSound'
        BY <2>1 DEF IInv, BatchSound, Gone, NextSeq, EndOf, LastOf
    <2>. QED
        BY <2>1, <2>2, <2>3 DEF IInv
<1>. QED
    BY <1>1, <1>2, <1>3, PTL DEF Spec

\* What read_all() puts together has no record twice, is in order, and has,
\* of one boot, no gap of the client's making, however the batches are cut,
\* asked for again and the ring turns; across a reboot nothing is said of
\* gaps.  The device gives up no log of a previous boot that nobody fetched,
\* if only fetched ones are acknowledged (read_all(), ack_previous()).
THEOREM NothingEverLost == Spec => []NothingLost
<1>1. IInv => NothingLost
    BY DEF IInv, NothingLost
<1>. QED
    BY <1>1, Invariance, PTL

\* read_all() is not over at a batch while the ring that batch is of has a
\* record for it (the two conditions that end the loop of read_all()).
THEOREM ReadsToTheEnd == Spec => EndsWithTheRing
<1>. DEFINE Told == IF batch.records = <<>> THEN since ELSE LastOf(batch.records)
            Ends == caller # "done" /\ caller' = "done" =>
                        \A s \in (Told + 1)..(batch.next_seq - 1) : Gone(s)
<1>1. IInv /\ Next => Ends
    <2>. SUFFICES ASSUME IInv, Next, caller # "done", caller' = "done",
                         NEW s \in (Told + 1)..(batch.next_seq - 1)
                  PROVE  Gone(s)
        OBVIOUS
    <2>1. TakeBatch
        BY DEF Next, Record, Reboot, CloseSession, DeviceAnswers, Redial, DialFails, BecomesReady,
               ConnectionEnds, ReadAll, AsyncRead, Fail, Over, ReadTimesOut, ReadFails, NextPage,
               ClearRuntime, ReadPrevious, AckPrevious, reader
    <2>2. CaughtUp(batch) /\ batch # None
        BY <2>1 DEF TakeBatch
    <2>3. batch.records \in Seq(Records) /\ batch.next_seq \in Nat
        BY <2>2, BatchOf DEF IInv
    <2>4. CASE batch.records = <<>>
        <3>1. DOMAIN batch.records = {}
            BY <2>4
        <3>. QED
            BY <2>2, <2>4, <3>1 DEF IInv, BatchSound, EndOf
    <2>5. CASE batch.records # <<>>
        <3>1. LastOf(batch.records) \in Nat
            BY <2>3, <2>5, RecordsOf DEF LastOf
        <3>. QED
            BY <2>2, <2>3, <2>5, <3>1 DEF CaughtUp
    <2>. QED
        BY <2>4, <2>5
<1>2. IInv /\ [Next]_vars => [Ends]_vars
    BY <1>1
<1>. QED
    BY <1>2, Invariance, PTL DEF Spec, EndsWithTheRing
=============================================================================
