---------------------------- MODULE PollerProofs ----------------------------
(***************************************************************************)
(* Poller, for any catalog, intervals, size of a request, lateness of the  *)
(* timer and number of calls: the inductive invariant IInv, and from it    *)
(* that the account of the reads is right and that late ticks never move   *)
(* the time grid.                                                          *)
(***************************************************************************)
EXTENDS Poller, SequenceTheorems, FiniteSetTheorems, TLAPS

-----------------------------------------------------------------------------
(* Arithmetic of the grid.                                                 *)

LEMMA DivMod ==
    ASSUME NEW x \in Int, NEW i \in Nat \ {0}
    PROVE  /\ x \div i \in Int /\ x % i \in 0..(i - 1)
           /\ x = (x \div i) * i + (x % i)
    OBVIOUS

\* A number is in one way a multiple of i and a rest.
LEMMA RestUnique ==
    ASSUME NEW i \in Nat \ {0}, NEW a \in Int, NEW r \in 0..(i - 1)
    PROVE  (a * i + r) % i = r /\ (a * i + r) \div i = a
<1>. DEFINE x == a * i + r
            b == x \div i
            s == x % i
<1>1. x \in Int /\ b \in Int /\ s \in 0..(i - 1) /\ x = b * i + s
    BY DivMod
<1>. HIDE DEF b, s
<1>2. (a - b) * i = s - r
    BY <1>1
<1>. HIDE DEF x
<1>3. a - b >= 1 => (a - b) * i >= i
    BY <1>1
<1>4. a - b <= -1 => (a - b) * i <= -i
    BY <1>1
<1>5. a = b
    BY <1>1, <1>2, <1>3, <1>4
<1>6. r = s
    BY <1>1, <1>2, <1>5
<1>. QED
    BY <1>5, <1>6 DEF x, b, s

\* Whole intervals leave the distance from the grid as it is.
LEMMA SameRest ==
    ASSUME NEW i \in Nat \ {0}, NEW x \in Int, NEW k \in Int
    PROVE  (x + k * i) % i = x % i
<1>1. x \div i \in Int /\ x % i \in 0..(i - 1) /\ x = (x \div i) * i + (x % i)
    BY DivMod
<1>2. x + k * i = ((x \div i) + k) * i + (x % i)
    BY <1>1
<1>3. (x \div i) + k \in Int
    BY <1>1
<1>. QED
    BY <1>1, <1>2, <1>3, RestUnique

\* One unit of time later.
LEMMA RestOfNext ==
    ASSUME NEW i \in Nat \ {0}, NEW x \in Int
    PROVE  (x - 1) % i = ((x % i) - 1) % i
<1>1. x \div i \in Int /\ x % i \in 0..(i - 1) /\ x = (x \div i) * i + (x % i)
    BY DivMod
<1>2. x - 1 = ((x % i) - 1) + (x \div i) * i
    BY <1>1
<1>3. (x % i) - 1 \in Int
    BY <1>1
<1>. QED
    BY <1>1, <1>2, <1>3, SameRest

\* The deadline after a deadline that has passed: on the grid, ahead, and by
\* at most an interval.
LEMMA NextDueOnGrid ==
    ASSUME NEW e, e.interval \in Nat \ {0}, e.next_due \in Int, e.next_due <= 0
    PROVE  /\ NextDue(e) \in 1..e.interval
           /\ NextDue(e) % e.interval = e.next_due % e.interval
<1>. DEFINE i == e.interval
            d == e.next_due
            n == -d
<1>1. i \in Nat \ {0} /\ d \in Int /\ d <= 0 /\ n \in Int
    OBVIOUS
<1>2. n \div i \in Int /\ n % i \in 0..(i - 1) /\ n = (n \div i) * i + (n % i)
    BY <1>1, DivMod
<1>3. NextDue(e) = IF d + i > 0 THEN d + i ELSE d + (n \div i + 1) * i
    BY DEF NextDue
<1>. HIDE DEF i, d, n
<1>4. d + (n \div i + 1) * i = i - (n % i)
    <2>1. d = -n
        BY <1>1 DEF n
    <2>. QED
        BY <1>1, <1>2, <2>1
<1>5. NextDue(e) \in 1..i
    BY <1>1, <1>2, <1>3, <1>4
<1>6. \A k \in Int : (d + k * i) % i = d % i
    <2>. SUFFICES ASSUME NEW k \in Int PROVE (d + k * i) % i = d % i
        OBVIOUS
    <2>. QED
        BY <1>1, SameRest
<1>7. (d + i) % i = d % i
    <2>1. (d + 1 * i) % i = d % i
        BY <1>6
    <2>2. 1 * i = i
        BY <1>1
    <2>. QED
        BY <2>1, <2>2
<1>8. n \div i + 1 \in Int
    BY <1>2
<1>9. NextDue(e) % i = d % i
    BY <1>3, <1>6, <1>7, <1>8
<1>. QED
    BY <1>5, <1>9 DEF i, d

-----------------------------------------------------------------------------
(* The reads a name is in.                                                 *)

LEMMA ReadsWithType ==
    ASSUME NEW rs \in Seq(Reads), NEW p
    PROVE  /\ Len(rs) \in Nat /\ DOMAIN rs = 1..Len(rs)
           /\ ReadsWith(rs, p) \subseteq 1..Len(rs)
           /\ IsFiniteSet(ReadsWith(rs, p))
           /\ Cardinality(ReadsWith(rs, p)) \in Nat
<1>1. Len(rs) \in Nat /\ DOMAIN rs = 1..Len(rs)
    BY LenProperties
<1>2. ReadsWith(rs, p) \subseteq 1..Len(rs)
    BY <1>1 DEF ReadsWith
<1>3. IsFiniteSet(1..Len(rs))
    BY <1>1, FS_Interval
<1>4. IsFiniteSet(ReadsWith(rs, p))
    BY <1>2, <1>3, FS_Subset
<1>. QED
    BY <1>1, <1>2, <1>4, FS_CardinalityType

LEMMA NoReads == ASSUME NEW p PROVE Cardinality(ReadsWith(<<>>, p)) = 0
<1>1. ReadsWith(<<>>, p) = {}
    BY DEF ReadsWith
<1>. QED
    BY <1>1, FS_EmptySet

\* Reads that are submitted: a name that is in one of them is in one more.
LEMMA ReadsAdded ==
    ASSUME NEW rs \in Seq(Reads), NEW cs \in Seq(Reads), NEW p,
           \A i, j \in DOMAIN cs : p \in cs[i].names /\ p \in cs[j].names => i = j
    PROVE  /\ rs \o cs \in Seq(Reads)
           /\ Cardinality(ReadsWith(rs \o cs, p)) =
                  IF \E i \in DOMAIN cs : p \in cs[i].names
                  THEN Cardinality(ReadsWith(rs, p)) + 1 ELSE Cardinality(ReadsWith(rs, p))
<1>. DEFINE n == Len(rs)
            m == Len(cs)
            both == rs \o cs
<1>1. n \in Nat /\ m \in Nat /\ DOMAIN rs = 1..n /\ DOMAIN cs = 1..m
    BY LenProperties
<1>2. /\ both \in Seq(Reads) /\ Len(both) = n + m
      /\ \A i \in 1..(n + m) : both[i] = IF i <= n THEN rs[i] ELSE cs[i - n]
    BY ConcatProperties
<1>3. DOMAIN both = 1..(n + m)
    BY <1>2, LenProperties
<1>4. ReadsWith(rs, p) \subseteq 1..n /\ IsFiniteSet(ReadsWith(rs, p))
    BY ReadsWithType
<1>. HIDE DEF n, m, both
<1>5. CASE \A i \in DOMAIN cs : p \notin cs[i].names
    <2>1. \A i \in 1..(n + m) : i \in ReadsWith(both, p) <=> i \in ReadsWith(rs, p)
        <3>. SUFFICES ASSUME NEW i \in 1..(n + m)
                      PROVE  p \in both[i].names <=> i \in ReadsWith(rs, p)
            BY <1>3 DEF ReadsWith
        <3>1. CASE i <= n
            BY <1>1, <1>2, <3>1 DEF ReadsWith
        <3>2. CASE i > n
            <4>1. i - n \in 1..m /\ both[i] = cs[i - n] /\ i \notin ReadsWith(rs, p)
                BY <1>1, <1>2, <1>4, <3>2
            <4>. QED
                BY <1>1, <1>5, <4>1
        <3>. QED
            BY <1>1, <3>1, <3>2
    <2>2. ReadsWith(both, p) = ReadsWith(rs, p)
        BY <1>1, <1>3, <1>4, <2>1 DEF ReadsWith
    <2>. QED
        BY <1>2, <1>5, <2>2 DEF both
<1>6. CASE \E i \in DOMAIN cs : p \in cs[i].names
    <2>1. PICK k \in 1..m : p \in cs[k].names
        BY <1>1, <1>6
    <2>2. \A i \in 1..m : p \in cs[i].names => i = k
        BY <1>1, <2>1
    <2>3. n + k \in 1..(n + m) /\ n + k \notin ReadsWith(rs, p)
        BY <1>1, <1>4
    <2>4. \A i \in 1..(n + m) : i \in ReadsWith(both, p) <=> (i \in ReadsWith(rs, p) \/ i = n + k)
        <3>. SUFFICES ASSUME NEW i \in 1..(n + m)
                      PROVE  p \in both[i].names <=> (i \in ReadsWith(rs, p) \/ i = n + k)
            BY <1>3 DEF ReadsWith
        <3>1. CASE i <= n
            BY <1>1, <1>2, <3>1 DEF ReadsWith
        <3>2. CASE i > n
            <4>1. i - n \in 1..m /\ both[i] = cs[i - n] /\ i \notin ReadsWith(rs, p)
                BY <1>1, <1>2, <1>4, <3>2
            <4>2. p \in cs[i - n].names <=> i - n = k
                BY <2>1, <2>2, <4>1
            <4>. QED
                BY <1>1, <4>1, <4>2
        <3>. QED
            BY <1>1, <3>1, <3>2
    <2>5. ReadsWith(both, p) = ReadsWith(rs, p) \cup {n + k}
        <3>1. ReadsWith(both, p) \subseteq 1..(n + m)
            BY <1>3 DEF ReadsWith
        <3>2. ReadsWith(rs, p) \subseteq 1..(n + m)
            BY <1>1, <1>4
        <3>. QED
            BY <2>3, <2>4, <3>1, <3>2
    <2>. QED
        BY <1>2, <1>4, <1>6, <2>3, <2>5, FS_AddElement DEF both
<1>. QED
    BY <1>5, <1>6

\* A read that is completed: its names are in one less.
LEMMA ReadRemoved ==
    ASSUME NEW rs \in Seq(Reads), NEW i \in DOMAIN rs, NEW p
    PROVE  /\ RemoveAt(rs, i) \in Seq(Reads)
           /\ Cardinality(ReadsWith(RemoveAt(rs, i), p)) =
                  IF p \in rs[i].names
                  THEN Cardinality(ReadsWith(rs, p)) - 1 ELSE Cardinality(ReadsWith(rs, p))
<1>. DEFINE n == Len(rs)
            left == SubSeq(rs, 1, i - 1)
            right == SubSeq(rs, i + 1, n)
            rest == left \o right
<1>1. n \in Nat /\ i \in 1..n /\ DOMAIN rs = 1..n
    BY LenProperties
<1>2. /\ left \in Seq(Reads) /\ Len(left) = i - 1
      /\ \A j \in 1..(i - 1) : left[j] = rs[j]
    BY <1>1, SubSeqProperties
<1>3. /\ right \in Seq(Reads) /\ Len(right) = n - i
      /\ \A j \in 1..(n - i) : right[j] = rs[i + j]
    BY <1>1, SubSeqProperties
<1>4. rest = RemoveAt(rs, i)
    BY DEF RemoveAt
<1>. HIDE DEF n, left, right
<1>5. /\ rest \in Seq(Reads) /\ Len(rest) = n - 1
      /\ \A j \in 1..(n - 1) : rest[j] = IF j <= i - 1 THEN left[j] ELSE right[j - (i - 1)]
    BY <1>1, <1>2, <1>3, ConcatProperties
<1>6. DOMAIN rest = 1..(n - 1)
    BY <1>5, LenProperties
<1>. HIDE DEF rest
<1>7. \A j \in 1..(n - 1) : rest[j] = IF j < i THEN rs[j] ELSE rs[j + 1]
    <2>. SUFFICES ASSUME NEW j \in 1..(n - 1)
                  PROVE  rest[j] = IF j < i THEN rs[j] ELSE rs[j + 1]
        OBVIOUS
    <2>1. CASE j < i
        BY <1>1, <1>2, <1>5, <2>1
    <2>2. CASE j >= i
        <3>1. j - (i - 1) \in 1..(n - i) /\ i + (j - (i - 1)) = j + 1
            BY <1>1, <2>2
        <3>2. right[j - (i - 1)] = rs[i + (j - (i - 1))]
            BY <1>3, <3>1
        <3>3. rest[j] = right[j - (i - 1)]
            BY <1>1, <1>5, <2>2
        <3>. QED
            BY <1>1, <2>2, <3>1, <3>2, <3>3
    <2>. QED
        BY <1>1, <2>1, <2>2
<1>. DEFINE old == ReadsWith(rs, p)
            new == ReadsWith(rest, p)
            place == [j \in new |-> IF j < i THEN j ELSE j + 1]
<1>8. old \subseteq 1..n /\ IsFiniteSet(old) /\ Cardinality(old) \in Nat
    BY <1>1, ReadsWithType DEF n
<1>9. new \subseteq 1..(n - 1) /\ IsFiniteSet(new)
    BY <1>5, <1>6, ReadsWithType
<1>10. \A j \in new : place[j] \in old \ {i}
    BY <1>1, <1>6, <1>7, <1>9 DEF ReadsWith
<1>11. \A j, k \in new : place[j] = place[k] => j = k
    BY <1>1, <1>9
<1>12. \A k \in old \ {i} : \E j \in new : place[j] = k
    <2>. SUFFICES ASSUME NEW k \in old \ {i} PROVE \E j \in new : place[j] = k
        OBVIOUS
    <2>. DEFINE j == IF k < i THEN k ELSE k - 1
    <2>1. k \in 1..n /\ p \in rs[k].names
        BY <1>1, <1>8 DEF ReadsWith
    <2>2. j \in 1..(n - 1) /\ (IF j < i THEN j ELSE j + 1) = k
        BY <1>1, <2>1
    <2>3. j \in new
        BY <1>6, <1>7, <2>1, <2>2 DEF ReadsWith
    <2>. QED
        BY <2>2, <2>3
<1>. HIDE DEF old, new
<1>13. place \in Bijection(new, old \ {i})
    BY <1>10, <1>11, <1>12 DEF Bijection, Injection, Surjection, IsInjective
<1>14. Cardinality(new) = Cardinality(old \ {i})
    <2>1. ExistsBijection(new, old \ {i})
        BY <1>13 DEF ExistsBijection
    <2>. QED
        BY <1>9, <2>1, FS_Bijection
<1>15. i \in old <=> p \in rs[i].names
    BY <1>1 DEF old, ReadsWith
<1>16. Cardinality(old \ {i}) = IF i \in old THEN Cardinality(old) - 1 ELSE Cardinality(old)
    BY <1>8, FS_RemoveElement
<1>. QED
    BY <1>4, <1>5, <1>14, <1>15, <1>16 DEF old, new

\* A read that goes from what is posted to the dispatcher.
LEMMA ReadTaken ==
    ASSUME NEW rs \in Seq(Reads), rs # <<>>, NEW p
    PROVE  /\ Head(rs) \in Reads /\ Tail(rs) \in Seq(Reads)
           /\ Cardinality(ReadsWith(Tail(rs), p)) =
                  IF p \in Head(rs).names
                  THEN Cardinality(ReadsWith(rs, p)) - 1 ELSE Cardinality(ReadsWith(rs, p))
<1>. DEFINE n == Len(rs)
<1>1. n \in Nat /\ n # 0 /\ DOMAIN rs = 1..n
    BY LenProperties, EmptySeq
<1>2. 1 \in DOMAIN rs /\ rs[1] = Head(rs)
    BY <1>1
<1>3. Tail(rs) = RemoveAt(rs, 1)
    <2>1. Tail(rs) = SubSeq(rs, 2, n)
        BY TailIsSubSeq
    <2>2. SubSeq(rs, 1, 0) = <<>>
        BY <1>1
    <2>3. SubSeq(rs, 2, n) \in Seq(Reads)
        BY <2>1, HeadTailProperties
    <2>4. RemoveAt(rs, 1) = SubSeq(rs, 1, 0) \o SubSeq(rs, 2, n)
        BY DEF RemoveAt
    <2>. QED
        BY <2>1, <2>2, <2>3, <2>4, ConcatEmptySeq
<1>4. /\ RemoveAt(rs, 1) \in Seq(Reads)
      /\ Cardinality(ReadsWith(RemoveAt(rs, 1), p)) =
             IF p \in rs[1].names
             THEN Cardinality(ReadsWith(rs, p)) - 1 ELSE Cardinality(ReadsWith(rs, p))
    BY <1>2, ReadRemoved
<1>5. Head(rs) \in Reads
    BY HeadTailProperties
<1>. QED
    BY <1>2, <1>3, <1>4, <1>5

LEMMA ReadQueued ==
    ASSUME NEW rs \in Seq(Reads), NEW r \in Reads, NEW p
    PROVE  /\ Append(rs, r) \in Seq(Reads)
           /\ Cardinality(ReadsWith(Append(rs, r), p)) =
                  IF p \in r.names
                  THEN Cardinality(ReadsWith(rs, p)) + 1 ELSE Cardinality(ReadsWith(rs, p))
<1>. DEFINE cs == <<r>>
<1>1. cs \in Seq(Reads) /\ DOMAIN cs = {1} /\ cs[1] = r
    OBVIOUS
<1>2. Append(rs, r) = rs \o cs
    BY AppendIsConcat
<1>. HIDE DEF cs
<1>. QED
    BY <1>1, <1>2, ReadsAdded

\* A read that is sent stays where it is.
LEMMA ReadSent ==
    ASSUME NEW rs \in Seq(Reads), NEW i \in DOMAIN rs
    PROVE  /\ [rs EXCEPT ![i].sent = TRUE] \in Seq(Reads)
           /\ \A p : ReadsWith([rs EXCEPT ![i].sent = TRUE], p) = ReadsWith(rs, p)
<1>. DEFINE r == [rs[i] EXCEPT !.sent = TRUE]
            new == [rs EXCEPT ![i] = r]
<1>1. i \in 1..Len(rs) /\ DOMAIN rs = 1..Len(rs) /\ rs[i] \in Reads
    BY LenProperties, ElementOfSeq
<1>2. r \in Reads /\ r.names = rs[i].names
    BY <1>1 DEF Reads
<1>3. [rs EXCEPT ![i].sent = TRUE] = new
    OBVIOUS
<1>. HIDE DEF r
<1>4. /\ new \in Seq(Reads) /\ Len(new) = Len(rs)
      /\ \A j \in 1..Len(rs) : new[j] = IF j = i THEN r ELSE rs[j]
    BY <1>1, <1>2, ExceptSeq
<1>5. DOMAIN new = DOMAIN rs
    OBVIOUS
<1>. HIDE DEF new
<1>6. \A p : ReadsWith(new, p) = ReadsWith(rs, p)
    BY <1>1, <1>2, <1>4, <1>5 DEF ReadsWith
<1>. QED
    BY <1>3, <1>4, <1>6

-----------------------------------------------------------------------------
(* The reads of a tick.                                                    *)

\* The names before another one are counted from 0, and no two alike.
LEMMA BeforeType ==
    ASSUME NEW due, due \subseteq Points, NEW p \in due
    PROVE  /\ IsFiniteSet(due) /\ Cardinality(due) \in Nat
           /\ Before(due, p) \in Nat /\ Before(due, p) < Cardinality(due)
<1>1. IsFiniteSet(due) /\ Cardinality(due) \in Nat
    BY PollerAssumption, FS_Subset, FS_CardinalityType
<1>. DEFINE b == {q \in due : q < p}
<1>2. p \in Nat /\ due \subseteq Nat
    BY PollerAssumption
<1>3. b \subseteq due /\ p \notin b
    BY <1>2
<1>. HIDE DEF b
<1>4. IsFiniteSet(b) /\ Cardinality(b) \in Nat
    BY <1>1, <1>3, FS_Subset, FS_CardinalityType
<1>5. b \cup {p} \in SUBSET due
    BY <1>3
<1>6. Cardinality(b \cup {p}) = Cardinality(b) + 1
    BY <1>3, <1>4, FS_AddElement
<1>7. Cardinality(b \cup {p}) <= Cardinality(due)
    BY <1>1, <1>5, FS_Subset
<1>. QED
    BY <1>1, <1>4, <1>6, <1>7 DEF Before, b

LEMMA BeforeInjective ==
    ASSUME NEW due, due \subseteq Points, NEW p \in due, NEW q \in due, p < q
    PROVE  Before(due, p) < Before(due, q)
<1>. DEFINE b == {x \in due : x < p}
            c == {x \in due : x < q}
<1>1. IsFiniteSet(due) /\ p \in Nat /\ q \in Nat /\ due \subseteq Nat
    BY PollerAssumption, FS_Subset
<1>2. b \subseteq c /\ c \subseteq due /\ p \in c /\ p \notin b
    <2>1. \A x \in due : x < p => x < q
        BY <1>1
    <2>2. ~(p < p)
        BY <1>1
    <2>. QED
        BY <2>1, <2>2
<1>. HIDE DEF b, c
<1>3. IsFiniteSet(b) /\ Cardinality(b) \in Nat /\ IsFiniteSet(c) /\ Cardinality(c) \in Nat
    BY <1>1, <1>2, FS_Subset, FS_CardinalityType
<1>4. b \cup {p} \in SUBSET c
    BY <1>2
<1>5. Cardinality(b \cup {p}) <= Cardinality(c)
    BY <1>3, <1>4, FS_Subset
<1>6. Cardinality(b \cup {p}) = Cardinality(b) + 1
    BY <1>2, <1>3, FS_AddElement
<1>. QED
    BY <1>3, <1>5, <1>6 DEF Before, b, c

\* The due names are divided between the reads: every one is in exactly one,
\* and none of them asks for too many.
LEMMA ChunksDivide ==
    ASSUME NEW due, due \subseteq Points
    PROVE  /\ Chunks(due) \in Seq(Reads)
           /\ \A i \in DOMAIN Chunks(due) : Chunks(due)[i].names \subseteq due
           /\ \A p \in due : \E i \in DOMAIN Chunks(due) : p \in Chunks(due)[i].names
           /\ \A p \in due : \A i, j \in DOMAIN Chunks(due) :
                  p \in Chunks(due)[i].names /\ p \in Chunks(due)[j].names => i = j
<1>. DEFINE c == Cardinality(due)
            n == (c + PerRequest - 1) \div PerRequest
            Names(i) == {p \in due : Before(due, p) \div PerRequest = i - 1}
            Chunk(i) == [names |-> Names(i), sent |-> FALSE]
<1>1. IsFiniteSet(due) /\ c \in Nat /\ PerRequest \in Nat \ {0} /\ due \subseteq Nat
    BY PollerAssumption, FS_Subset, FS_CardinalityType
<1>2. Chunks(due) = [i \in 1..n |-> Chunk(i)]
    BY DEF Chunks
<1>. HIDE DEF c
<1>3. n \in Nat
    <2>1. c + PerRequest - 1 \in Nat
        BY <1>1
    <2>. QED
        BY <1>1, <2>1
<1>4. \A p \in due : Before(due, p) \in Nat /\ Before(due, p) < c
    BY BeforeType DEF c
<1>5. ASSUME NEW i \in 1..n PROVE Cardinality(Names(i)) <= PerRequest
    <2>. DEFINE T == ((i - 1) * PerRequest)..((i - 1) * PerRequest + PerRequest - 1)
                S == Names(i)
                f == [p \in S |-> Before(due, p)]
    <2>1. i \in Nat /\ (i - 1) * PerRequest \in Int
        BY <1>1, <1>3
    <2>2. IsFiniteSet(T) /\ Cardinality(T) = PerRequest
        <3>. DEFINE a == (i - 1) * PerRequest
        <3>1. a \in Int
            BY <2>1
        <3>. HIDE DEF a
        <3>2. IsFiniteSet(a..(a + PerRequest - 1)) /\ Cardinality(a..(a + PerRequest - 1)) = PerRequest
            BY <1>1, <3>1, FS_Interval
        <3>. QED
            BY <3>2 DEF a
    <2>3. \A p \in S : Before(due, p) \in T
        <3>. SUFFICES ASSUME NEW p \in S PROVE Before(due, p) \in T
            OBVIOUS
        <3>. DEFINE b == Before(due, p)
        <3>1. b \in Nat /\ b \div PerRequest = i - 1
            BY <1>4
        <3>. HIDE DEF b
        <3>2. b = (b \div PerRequest) * PerRequest + (b % PerRequest) /\ b % PerRequest \in 0..(PerRequest - 1)
            <4>1. b \in Int
                BY <3>1
            <4>. QED
                BY <1>1, <4>1, DivMod
        <3>3. b = (i - 1) * PerRequest + (b % PerRequest)
            BY <3>1, <3>2
        <3>4. b \in T
            BY <1>1, <2>1, <3>2, <3>3
        <3>. QED
            BY <3>4 DEF b
    <2>4. \A p, q \in S : Before(due, p) = Before(due, q) => p = q
        <3>. SUFFICES ASSUME NEW p \in S, NEW q \in S, p # q
                      PROVE  Before(due, p) # Before(due, q)
            OBVIOUS
        <3>1. p \in due /\ q \in due /\ (p < q \/ q < p)
            BY <1>1
        <3>2. Before(due, p) < Before(due, q) \/ Before(due, q) < Before(due, p)
            BY <3>1, BeforeInjective
        <3>. QED
            BY <1>4, <3>1, <3>2
    <2>. HIDE DEF T, S
    <2>5. f \in Injection(S, T)
        BY <2>3, <2>4 DEF Injection, IsInjective
    <2>6. Cardinality(S) <= Cardinality(T)
        BY <2>2, <2>5, FS_Injection
    <2>. QED
        BY <2>2, <2>6 DEF S
<1>6. \A i \in 1..n : Chunk(i) \in Reads
    BY <1>5 DEF Reads
<1>7. [i \in 1..n |-> Chunk(i)] \in Seq(Reads)
    <2>. HIDE DEF Chunk, n
    <2>. QED
        BY <1>3, <1>6, IsASeq
<1>8. DOMAIN Chunks(due) = 1..n /\ \A i \in 1..n : Chunks(due)[i].names = Names(i)
    BY <1>2
<1>9. ASSUME NEW p \in due PROVE \E i \in 1..n : p \in Names(i)
    <2>. DEFINE b == Before(due, p)
                i == b \div PerRequest + 1
    <2>1. b \in Nat /\ b < c
        BY <1>4
    <2>. HIDE DEF b
    <2>2. b = (b \div PerRequest) * PerRequest + (b % PerRequest) /\ b % PerRequest \in 0..(PerRequest - 1)
          /\ b \div PerRequest \in Int
        BY <1>1, <2>1, DivMod
    <2>3. c + PerRequest - 1 \in Int
        BY <1>1
    <2>4. /\ c + PerRequest - 1 = n * PerRequest + ((c + PerRequest - 1) % PerRequest)
          /\ (c + PerRequest - 1) % PerRequest \in 0..(PerRequest - 1)
        BY <1>1, <2>3, DivMod
    <2>. HIDE DEF n
    <2>5. b \div PerRequest >= 0
        BY <1>1, <2>1, <2>2
    <2>6. b \div PerRequest < n
        <3>. DEFINE x == b \div PerRequest
        <3>1. x \in Int /\ x * PerRequest <= b /\ b <= c - 1
            BY <1>1, <2>1, <2>2
        <3>2. c - 1 < n * PerRequest
            BY <1>1, <1>3, <2>4
        <3>. HIDE DEF x
        <3>3. (n - x) * PerRequest > 0
            <4>1. (n - x) * PerRequest = n * PerRequest - x * PerRequest
                BY <1>1, <1>3, <3>1
            <4>2. n * PerRequest \in Int /\ x * PerRequest \in Int
                BY <1>1, <1>3, <3>1
            <4>. QED
                BY <1>1, <2>1, <3>1, <3>2, <4>1, <4>2
        <3>4. n - x > 0
            BY <1>1, <1>3, <3>1, <3>3
        <3>. QED
            BY <1>3, <3>1, <3>4 DEF x
    <2>7. i \in 1..n /\ b \div PerRequest = i - 1
        BY <1>3, <2>2, <2>5, <2>6
    <2>. QED
        BY <2>7 DEF b
<1>10. \A p \in due : \A i, j \in 1..n : p \in Names(i) /\ p \in Names(j) => i = j
    BY <1>3
<1>. HIDE DEF Names, Chunk, n
<1>11. \A i \in 1..n : Names(i) \subseteq due
    BY DEF Names
<1>. QED
    BY <1>2, <1>7, <1>8, <1>9, <1>10, <1>11

-----------------------------------------------------------------------------
(* Entries.                                                                *)

LEMMA EntryType ==
    ASSUME NEW e \in Entries
    PROVE  /\ e.interval \in Nat /\ e.next_due \in Int
           /\ e.in_flight \in BOOLEAN /\ e.once \in BOOLEAN /\ e.once_done \in BOOLEAN
<1>1. Intervals \cup {0, ClassInterval} \subseteq Nat
    BY PollerAssumption
<1>2. e.interval \in Intervals \cup {0, ClassInterval} /\ e.next_due \in Int
    BY DEF Entries
<1>3. e.in_flight \in BOOLEAN /\ e.once \in BOOLEAN /\ e.once_done \in BOOLEAN
    BY DEF Entries
<1>. QED
    BY <1>1, <1>2, <1>3

\* What a tick makes of an entry.
LEMMA TickedFields ==
    ASSUME NEW e \in Entries, ~e.once => e.interval # 0
    PROVE  /\ Ticked(e) \in Entries
           /\ Ticked(e).interval = e.interval /\ Ticked(e).once = e.once
           /\ Ticked(e).in_flight = (e.in_flight \/ Due(e))
           /\ Ticked(e).next_due = IF e.once \/ e.next_due > 0 THEN e.next_due ELSE NextDue(e)
<1>1. Due(e) \in BOOLEAN
    BY EntryType DEF Due
<1>. DEFINE nd == IF e.once \/ e.next_due > 0 THEN e.next_due ELSE NextDue(e)
            fl == e.in_flight \/ Due(e)
            od == e.once_done \/ (e.once /\ Due(e))
<1>2. nd \in Int
    <2>1. CASE e.once \/ e.next_due > 0
        BY <2>1, EntryType
    <2>2. CASE ~(e.once \/ e.next_due > 0)
        <3>1. e.interval \in Nat \ {0} /\ e.next_due \in Int /\ e.next_due <= 0
            BY <2>2, EntryType
        <3>2. NextDue(e) \in 1..e.interval
            BY <3>1, NextDueOnGrid
        <3>. QED
            BY <2>2, <3>1, <3>2
    <2>. QED
        BY <2>1, <2>2
<1>3. Ticked(e) = [e EXCEPT !.in_flight = fl, !.once_done = od, !.next_due = nd]
    BY DEF Ticked
<1>4. fl \in BOOLEAN /\ od \in BOOLEAN
    OBVIOUS
<1>. HIDE DEF nd, fl, od
<1>5. /\ Ticked(e) \in Entries
      /\ Ticked(e).interval = e.interval /\ Ticked(e).once = e.once
      /\ Ticked(e).in_flight = fl /\ Ticked(e).next_due = nd
    BY <1>2, <1>3, <1>4 DEF Entries
<1>. QED
    BY <1>5 DEF fl, nd

\* What a reset of the grid makes of it.
LEMMA ResetFields ==
    ASSUME TypeOK
    PROVE  /\ DOMAIN ResetRaster = DOMAIN entries
           /\ \A p \in DOMAIN entries :
                  /\ ResetRaster[p] \in Entries
                  /\ ResetRaster[p].interval = entries[p].interval
                  /\ ResetRaster[p].once = entries[p].once
                  /\ ResetRaster[p].next_due = 0
                  /\ ~ResetRaster[p].in_flight
                  /\ Due(ResetRaster[p])
<1>1. DOMAIN ResetRaster = DOMAIN entries
    BY DEF ResetRaster
<1>. SUFFICES ASSUME NEW p \in DOMAIN entries
              PROVE  /\ ResetRaster[p] \in Entries
                     /\ ResetRaster[p].interval = entries[p].interval
                     /\ ResetRaster[p].once = entries[p].once
                     /\ ResetRaster[p].next_due = 0
                     /\ ~ResetRaster[p].in_flight
                     /\ Due(ResetRaster[p])
    BY <1>1
<1>. DEFINE e == entries[p]
            od == e.once_done /\ ~e.once
            fl == FALSE
            nd == 0
<1>2. e \in Entries
    BY DEF TypeOK
<1>3. ResetRaster[p] = [e EXCEPT !.next_due = nd, !.in_flight = fl, !.once_done = od]
    BY DEF ResetRaster
<1>4. od \in BOOLEAN /\ fl \in BOOLEAN /\ (e.once => ~od) /\ nd \in Int
    OBVIOUS
<1>. HIDE DEF e, od, fl, nd
<1>5. /\ ResetRaster[p] \in Entries
      /\ ResetRaster[p].interval = e.interval /\ ResetRaster[p].once = e.once
      /\ ResetRaster[p].next_due = nd /\ ResetRaster[p].in_flight = fl
      /\ ResetRaster[p].once_done = od
    BY <1>2, <1>3, <1>4 DEF Entries
<1>6. Due(ResetRaster[p])
    BY <1>4, <1>5 DEF Due, fl, nd
<1>. QED
    BY <1>5, <1>6 DEF e, fl, nd

\* What a completed read makes of the entries.
LEMMA FreedFields ==
    ASSUME TypeOK, NEW names, NEW answered
    PROVE  LET es == Freed(entries, names, answered) IN
           /\ DOMAIN es = DOMAIN entries
           /\ es \in [DOMAIN es -> Entries]
           /\ \A p \in DOMAIN entries :
                  /\ es[p].interval = entries[p].interval
                  /\ es[p].once = entries[p].once
                  /\ es[p].next_due = entries[p].next_due
                  /\ es[p].in_flight = (entries[p].in_flight /\ p \notin names)
<1>. DEFINE es == Freed(entries, names, answered)
<1>1. DOMAIN es = DOMAIN entries
    BY DEF Freed
<1>2. ASSUME NEW p \in DOMAIN entries
      PROVE  /\ es[p] \in Entries
             /\ es[p].interval = entries[p].interval
             /\ es[p].once = entries[p].once
             /\ es[p].next_due = entries[p].next_due
             /\ es[p].in_flight = (entries[p].in_flight /\ p \notin names)
    <2>. DEFINE e == entries[p]
                fl == e.in_flight /\ p \notin names
    <2>1. e \in Entries
        BY DEF TypeOK
    <2>2. es[p] = [e EXCEPT !.in_flight = fl]
        BY DEF Freed
    <2>3. fl \in BOOLEAN
        OBVIOUS
    <2>. HIDE DEF e, fl, es
    <2>4. /\ es[p] \in Entries
          /\ es[p].interval = e.interval /\ es[p].once = e.once
          /\ es[p].next_due = e.next_due /\ es[p].in_flight = fl
        BY <2>1, <2>2, <2>3 DEF Entries
    <2>. QED
        BY <2>4 DEF e, fl
<1>3. es = [p \in DOMAIN es |-> es[p]]
    BY DEF Freed
<1>. HIDE DEF es
<1>4. es \in [DOMAIN es -> Entries]
    BY <1>1, <1>2, <1>3
<1>. QED
    BY <1>1, <1>2, <1>4 DEF es

-----------------------------------------------------------------------------
(* Every step keeps the invariant.                                         *)

LEMMA CountType ==
    ASSUME TypeOK, NEW p
    PROVE  ReadsOf(p) \in Nat /\ PostedOf(p) \in Nat /\ Outstanding(p) \in Nat
    BY ReadsWithType DEF TypeOK, ReadsOf, PostedOf, Outstanding

\* Steps that leave the connection and its reads alone leave the account alone.
LEMMA CountsKept ==
    ASSUME UNCHANGED <<session, posted, reads, resets>>
    PROVE  /\ ready' = ready /\ ReadsAllowed' = ReadsAllowed
           /\ \A p : PostedOf(p)' = PostedOf(p) /\ Outstanding(p)' = Outstanding(p)
<1>1. \A p : PostedOf(p)' = PostedOf(p) /\ ReadsOf(p)' = ReadsOf(p)
    BY DEF PostedOf, ReadsOf, ReadsWith
<1>2. \A p : Outstanding(p)' = Outstanding(p)
    BY <1>1 DEF Outstanding
<1>. QED
    BY <1>1, <1>2 DEF ready, ReadsAllowed

Keepalives == [posted : 0..1, queued : 0..1, sent : Nat]

\* Calls that only change the flags: start(), pause(), resume(), stop(), and
\* frames of others and keepalives.
LEMMA FlagsKeepInv ==
    ASSUME IInv, UNCHANGED <<entries, session, posted, reads, resets, grid>>,
           running' \in BOOLEAN, paused' \in BOOLEAN, raster_dirty' \in BOOLEAN,
           raster_dirty => raster_dirty',
           keepalive' \in Keepalives,
           silent' \in 0..Keepalive, changes' \in 0..MaxChanges
    PROVE  IInv'
<1>1. TypeOK'
    BY DEF IInv, TypeOK, Keepalives
<1>2. /\ ready' = ready /\ ReadsAllowed' = ReadsAllowed
      /\ \A p : PostedOf(p)' = PostedOf(p) /\ Outstanding(p)' = Outstanding(p)
    BY CountsKept
<1>3. InFlightIsReal' /\ PileUpBounded'
    BY <1>2 DEF IInv, InFlightIsReal, PileUpBounded
<1>4. ReadsCounted'
    BY <1>2 DEF IInv, ReadsCounted
<1>5. OnGrid'
    BY DEF IInv, OnGrid, Periodic
<1>. QED
    BY <1>1, <1>3, <1>4, <1>5 DEF IInv

LEMMA ChangeType == ASSUME TypeOK, Change PROVE changes' \in 0..MaxChanges
    BY PollerAssumption DEF TypeOK, Change

\* every(), once() and start_defaults(): entries are added or replaced, and
\* none is marked that was not.
LEMMA SetEntriesKeepsInv ==
    ASSUME IInv, NEW new, SetEntries(new), running' \in BOOLEAN, paused' \in BOOLEAN,
           DOMAIN new \subseteq Points,
           \A p \in DOMAIN new :
               /\ new[p] \in Entries
               /\ ~new[p].once => new[p].interval # 0
               /\ new[p].in_flight => p \in DOMAIN entries /\ entries[p].in_flight
    PROVE  IInv'
<1>1. /\ Change /\ raster_dirty' = TRUE
      /\ entries' = [p \in DOMAIN entries \cup DOMAIN new |->
                        IF p \in DOMAIN new THEN new[p] ELSE entries[p]]
      /\ UNCHANGED <<session, posted, reads, keepalive, silent, resets, grid>>
    BY DEF SetEntries, connection, history
<1>2. /\ DOMAIN entries' = DOMAIN entries \cup DOMAIN new
      /\ \A p \in DOMAIN entries' : entries'[p] = IF p \in DOMAIN new THEN new[p] ELSE entries[p]
    BY <1>1
<1>3. DOMAIN entries' \subseteq Points /\ entries' \in [DOMAIN entries' -> Entries]
    <2>1. \A p \in DOMAIN entries : entries[p] \in Entries
        BY DEF IInv, TypeOK
    <2>2. \A p \in DOMAIN entries' : entries'[p] \in Entries
        BY <1>2, <2>1
    <2>3. entries' = [p \in DOMAIN entries' |-> entries'[p]]
        BY <1>1
    <2>4. DOMAIN entries' \subseteq Points
        BY <1>2 DEF IInv, TypeOK
    <2>. QED
        BY <2>2, <2>3, <2>4
<1>4. changes' \in 0..MaxChanges
    BY <1>1, ChangeType DEF IInv
<1>5. TypeOK'
    BY <1>1, <1>3, <1>4 DEF IInv, TypeOK
<1>6. /\ ready' = ready /\ ReadsAllowed' = ReadsAllowed
      /\ \A p : PostedOf(p)' = PostedOf(p) /\ Outstanding(p)' = Outstanding(p)
    BY <1>1, CountsKept
<1>7. InFlightIsReal' /\ PileUpBounded'
    BY <1>1, <1>6 DEF IInv, InFlightIsReal, PileUpBounded
<1>8. ReadsCounted'
    BY <1>1, <1>6 DEF IInv, ReadsCounted
<1>9. OnGrid'
    <2>1. \A p \in DOMAIN entries : ~entries[p].once => entries[p].interval # 0
        BY DEF IInv, OnGrid, Periodic
    <2>2. \A p \in DOMAIN entries' : ~entries'[p].once => entries'[p].interval # 0
        BY <1>2, <2>1
    <2>. QED
        BY <1>1, <2>2 DEF OnGrid, Periodic
<1>. QED
    BY <1>5, <1>7, <1>8, <1>9 DEF IInv

\* The entries add() and add_once() make.
LEMMA NewEntries ==
    ASSUME TypeOK, NEW p, NEW interval \in Intervals \cup {ClassInterval}
    PROVE  /\ Repeated(p, interval) \in Entries /\ Once(p) \in Entries
           /\ Repeated(p, interval).interval # 0
           /\ Once(p).once
           /\ Repeated(p, interval).in_flight => p \in DOMAIN entries /\ entries[p].in_flight
           /\ Once(p).in_flight => p \in DOMAIN entries /\ entries[p].in_flight
<1>. DEFINE e == EntryOf(p)
            no == FALSE
            yes == TRUE
<1>1. interval # 0 /\ interval \in Intervals \cup {0, ClassInterval}
    BY PollerAssumption
<1>2. e \in Entries /\ (e.in_flight => p \in DOMAIN entries /\ entries[p].in_flight)
    <2>1. CASE p \in DOMAIN entries
        BY <2>1 DEF TypeOK, EntryOf
    <2>2. CASE p \notin DOMAIN entries
        <3>1. e = [interval |-> 0, next_due |-> 0, in_flight |-> FALSE, once |-> FALSE,
                   once_done |-> FALSE]
            BY <2>2 DEF EntryOf
        <3>. HIDE DEF e
        <3>. QED
            BY <3>1 DEF Entries
    <2>. QED
        BY <2>1, <2>2
<1>3. no \in BOOLEAN /\ yes \in BOOLEAN
    OBVIOUS
<1>4. /\ Repeated(p, interval) = [e EXCEPT !.interval = interval, !.once = no]
      /\ Once(p) = [e EXCEPT !.once = yes, !.once_done = no]
    BY DEF Repeated, Once
<1>. HIDE DEF e, no, yes
<1>5. /\ Repeated(p, interval) \in Entries
      /\ Repeated(p, interval).interval = interval
      /\ Repeated(p, interval).in_flight = e.in_flight
    BY <1>1, <1>2, <1>3, <1>4 DEF Entries
<1>6. Once(p) \in Entries /\ Once(p).once = yes /\ Once(p).in_flight = e.in_flight
    BY <1>2, <1>3, <1>4 DEF Entries
<1>. QED
    BY <1>1, <1>2, <1>5, <1>6 DEF yes

LEMMA EveryKeepsInv ==
    ASSUME IInv, NEW p \in Points, NEW interval \in Intervals, Every(p, interval)
    PROVE  IInv'
<1>. DEFINE new == [x \in {p} |-> Repeated(x, interval)]
<1>1. SetEntries(new) /\ UNCHANGED <<running, paused>>
    BY DEF Every, lifecycle
<1>2. DOMAIN new = {p} /\ new[p] = Repeated(p, interval)
    OBVIOUS
<1>3. running' \in BOOLEAN /\ paused' \in BOOLEAN
    BY <1>1 DEF IInv, TypeOK
<1>4. TypeOK /\ interval \in Intervals \cup {ClassInterval}
    BY DEF IInv
<1>. HIDE DEF new
<1>. QED
    BY <1>1, <1>2, <1>3, <1>4, NewEntries, SetEntriesKeepsInv

LEMMA AddOnceKeepsInv == ASSUME IInv, NEW p \in Points, AddOnce(p) PROVE IInv'
<1>. DEFINE new == [x \in {p} |-> Once(x)]
<1>1. SetEntries(new) /\ UNCHANGED <<running, paused>>
    BY DEF AddOnce, lifecycle
<1>2. DOMAIN new = {p} /\ new[p] = Once(p)
    OBVIOUS
<1>3. running' \in BOOLEAN /\ paused' \in BOOLEAN
    BY <1>1 DEF IInv, TypeOK
<1>4. TypeOK /\ ClassInterval \in Intervals \cup {ClassInterval}
    BY DEF IInv
<1>. HIDE DEF new
<1>. QED
    BY <1>1, <1>2, <1>3, <1>4, NewEntries, SetEntriesKeepsInv

LEMMA StartDefaultsKeepsInv == ASSUME IInv, StartDefaults PROVE IInv'
<1>. DEFINE S == {x \in Points : PollClass[x] # "Disabled"}
            new == [p \in S |-> IF PollClass[p] = "OnConnect" THEN Once(p)
                                ELSE Repeated(p, ClassInterval)]
<1>1. SetEntries(new) /\ running' = TRUE /\ paused' = FALSE
    BY DEF StartDefaults
<1>2. DOMAIN new = S /\ S \subseteq Points
    OBVIOUS
<1>3. TypeOK /\ ClassInterval \in Intervals \cup {ClassInterval}
    BY DEF IInv
<1>4. \A p \in S : new[p] \in {Once(p), Repeated(p, ClassInterval)}
    OBVIOUS
<1>. HIDE DEF new, S
<1>5. \A p \in DOMAIN new :
          /\ new[p] \in Entries
          /\ ~new[p].once => new[p].interval # 0
          /\ new[p].in_flight => p \in DOMAIN entries /\ entries[p].in_flight
    BY <1>2, <1>3, <1>4, NewEntries
<1>6. running' \in BOOLEAN /\ paused' \in BOOLEAN
    BY <1>1
<1>. QED
    BY <1>1, <1>2, <1>5, <1>6, SetEntriesKeepsInv

LEMMA DisableKeepsInv == ASSUME IInv, NEW p \in Points, Disable(p) PROVE IInv'
<1>1. /\ Change /\ entries' = [x \in DOMAIN entries \ {p} |-> entries[x]]
      /\ UNCHANGED <<running, paused, raster_dirty, session, posted, reads, keepalive,
                     silent, resets, grid>>
    BY DEF Disable, lifecycle, connection, history
<1>2. /\ DOMAIN entries' \subseteq DOMAIN entries
      /\ \A x \in DOMAIN entries' : entries'[x] = entries[x]
    BY <1>1
<1>3. TypeOK'
    <2>1. entries' \in [DOMAIN entries' -> Entries] /\ DOMAIN entries' \subseteq Points
        <3>1. \A x \in DOMAIN entries' : entries'[x] \in Entries
            BY <1>2 DEF IInv, TypeOK
        <3>2. entries' = [x \in DOMAIN entries' |-> entries'[x]]
            BY <1>1
        <3>. QED
            BY <1>2, <3>1, <3>2 DEF IInv, TypeOK
    <2>2. changes' \in 0..MaxChanges
        BY <1>1, ChangeType DEF IInv
    <2>. QED
        BY <1>1, <2>1, <2>2 DEF IInv, TypeOK
<1>4. /\ ready' = ready /\ ReadsAllowed' = ReadsAllowed
      /\ \A x : PostedOf(x)' = PostedOf(x) /\ Outstanding(x)' = Outstanding(x)
    BY <1>1, CountsKept
<1>5. InFlightIsReal' /\ PileUpBounded'
    BY <1>1, <1>2, <1>4 DEF IInv, InFlightIsReal, PileUpBounded
<1>6. ReadsCounted'
    BY <1>1, <1>2, <1>4 DEF IInv, ReadsCounted
<1>7. OnGrid'
    BY <1>1, <1>2 DEF IInv, OnGrid, Periodic
<1>. QED
    BY <1>3, <1>5, <1>6, <1>7 DEF IInv

\* The reads a tick posts: one for each name that is due, none for another.
LEMMA TickReads ==
    ASSUME TypeOK, NEW due, due \subseteq Points, posted = <<>>,
           posted' = Chunks(due), UNCHANGED reads
    PROVE  /\ posted' \in Seq(Reads)
           /\ \A p : /\ PostedOf(p)' = IF p \in due THEN 1 ELSE 0
                     /\ Outstanding(p)' = IF p \in due THEN Outstanding(p) + 1
                                          ELSE Outstanding(p)
<1>. DEFINE cs == Chunks(due)
<1>1. /\ cs \in Seq(Reads)
      /\ \A i \in DOMAIN cs : cs[i].names \subseteq due
      /\ \A p \in due : \E i \in DOMAIN cs : p \in cs[i].names
      /\ \A p \in due : \A i, j \in DOMAIN cs :
             p \in cs[i].names /\ p \in cs[j].names => i = j
    BY ChunksDivide
<1>2. posted' = cs
    OBVIOUS
<1>. HIDE DEF cs
<1>3. \A p : \A i, j \in DOMAIN cs : p \in cs[i].names /\ p \in cs[j].names => i = j
    BY <1>1
<1>4. \A p : (\E i \in DOMAIN cs : p \in cs[i].names) <=> p \in due
    BY <1>1
<1>5. <<>> \in Seq(Reads) /\ <<>> \o cs = cs
    BY <1>1, EmptySeq, ConcatEmptySeq
<1>6. ASSUME NEW p
      PROVE  PostedOf(p) = 0 /\ PostedOf(p)' = IF p \in due THEN 1 ELSE 0
    <2>1. Cardinality(ReadsWith(<<>>, p)) = 0
        BY NoReads
    <2>2. Cardinality(ReadsWith(<<>> \o cs, p)) =
              IF \E i \in DOMAIN cs : p \in cs[i].names
              THEN Cardinality(ReadsWith(<<>>, p)) + 1 ELSE Cardinality(ReadsWith(<<>>, p))
        BY <1>1, <1>3, <1>5, ReadsAdded
    <2>3. PostedOf(p)' = Cardinality(ReadsWith(cs, p))
        BY <1>2 DEF PostedOf, ReadsWith
    <2>4. PostedOf(p) = 0
        BY <2>1 DEF PostedOf
    <2>. QED
        BY <1>4, <1>5, <2>1, <2>2, <2>3, <2>4
<1>7. \A p : ReadsOf(p)' = ReadsOf(p) /\ ReadsOf(p) \in Nat
    BY CountType DEF ReadsOf, ReadsWith
<1>. QED
    BY <1>1, <1>2, <1>6, <1>7 DEF Outstanding

LEMMA TickKeepsInv ==
    ASSUME IInv, Tick
    PROVE  /\ IInv'
           /\ DOMAIN entries' = DOMAIN entries
           /\ \A p \in Periodic : entries'[p].next_due \in 1..entries[p].interval
<1>. DEFINE current == IF raster_dirty THEN ResetRaster ELSE entries
            due == {p \in DOMAIN current : Due(current[p])}
<1>1. /\ ready /\ posted = <<>> /\ raster_dirty' = FALSE
      /\ entries' = [p \in DOMAIN current |-> Ticked(current[p])]
      /\ posted' = Chunks(due)
      /\ keepalive' = [keepalive EXCEPT !.posted =
                           IF due = {} /\ SilentTooLong THEN 1 ELSE 0]
      /\ resets' = IF raster_dirty THEN resets + 1 ELSE resets
      /\ grid' = IF raster_dirty THEN [p \in Points |-> 0] ELSE grid
      /\ UNCHANGED <<running, paused, session, reads, silent, changes>>
    BY DEF Tick, Polling, NothingPosted, lifecycle
<1>2. /\ TypeOK /\ DOMAIN entries \subseteq Points /\ resets \in Nat
      /\ raster_dirty \in BOOLEAN
      /\ \A p \in DOMAIN entries : entries[p] \in Entries
    BY DEF IInv, TypeOK
<1>3. /\ DOMAIN current = DOMAIN entries
      /\ \A p \in DOMAIN entries :
             /\ current[p] \in Entries
             /\ current[p].interval = entries[p].interval
             /\ current[p].once = entries[p].once
    BY <1>2, ResetFields
<1>4. raster_dirty => \A p \in DOMAIN entries :
          current[p].next_due = 0 /\ ~current[p].in_flight /\ Due(current[p])
    BY <1>2, ResetFields
<1>5. ~raster_dirty => current = entries
    OBVIOUS
<1>6. \A p \in DOMAIN entries : ~current[p].once => current[p].interval # 0
    BY <1>3 DEF IInv, OnGrid, Periodic
<1>7. \A p : p \in due <=> p \in DOMAIN entries /\ Due(current[p])
    BY <1>3
<1>. HIDE DEF current, due
<1>8. /\ DOMAIN entries' = DOMAIN entries
      /\ \A p \in DOMAIN entries : entries'[p] = Ticked(current[p])
    BY <1>1, <1>3
<1>9. \A p \in DOMAIN entries :
          /\ entries'[p] \in Entries
          /\ entries'[p].interval = entries[p].interval
          /\ entries'[p].once = entries[p].once
          /\ entries'[p].in_flight = (current[p].in_flight \/ Due(current[p]))
          /\ entries'[p].next_due = IF current[p].once \/ current[p].next_due > 0
                                    THEN current[p].next_due ELSE NextDue(current[p])
    BY <1>3, <1>6, <1>8, TickedFields
<1>10. due \subseteq Points
    BY <1>2, <1>7
<1>11. /\ posted' \in Seq(Reads)
       /\ \A p : /\ PostedOf(p)' = IF p \in due THEN 1 ELSE 0
                 /\ Outstanding(p)' = IF p \in due THEN Outstanding(p) + 1
                                      ELSE Outstanding(p)
    BY <1>1, <1>2, <1>10, TickReads
<1>12. /\ \A p : Outstanding(p) \in Nat
       /\ ready' /\ ReadsAllowed = resets /\ ReadsAllowed' = resets'
    BY <1>1, <1>2, CountType DEF ready, ReadsAllowed
<1>13. TypeOK'
    <2>1. entries' \in [DOMAIN entries' -> Entries]
        <3>1. entries' = [p \in DOMAIN entries' |-> entries'[p]]
            BY <1>1
        <3>. QED
            BY <1>8, <1>9, <3>1
    <2>2. resets' \in Nat /\ grid' \in [Points -> Nat]
        BY <1>1, <1>2 DEF TypeOK
    <2>3. raster_dirty' \in BOOLEAN
        BY <1>1
    <2>4. keepalive' \in [posted : 0..1, queued : 0..1, sent : Nat]
        <3>. DEFINE k == IF due = {} /\ SilentTooLong THEN 1 ELSE 0
        <3>1. k \in 0..1 /\ keepalive' = [keepalive EXCEPT !.posted = k]
            BY <1>1
        <3>. HIDE DEF k
        <3>. QED
            BY <1>2, <3>1 DEF TypeOK
    <2>. QED
        BY <1>1, <1>2, <1>8, <1>11, <2>1, <2>2, <2>3, <2>4 DEF TypeOK
<1>14. InFlightIsReal'
    <2>. SUFFICES ASSUME NEW p \in DOMAIN entries, entries'[p].in_flight
                  PROVE  Outstanding(p)' > 0
        BY <1>8 DEF InFlightIsReal
    <2>1. CASE p \in due
        BY <1>11, <1>12, <2>1
    <2>2. CASE p \notin due
        <3>1. current[p].in_flight
            BY <1>7, <1>9, <2>2
        <3>2. entries[p].in_flight /\ ~raster_dirty
            BY <1>4, <1>5, <3>1
        <3>. QED
            BY <1>1, <1>11, <2>2, <3>2 DEF IInv, InFlightIsReal
    <2>. QED
        BY <2>1, <2>2
<1>15. \A p \in due : ~current[p].in_flight
    BY <1>7 DEF Due
<1>16. PileUpBounded' /\ ReadsCounted'
    <2>1. \A p \in Points : Outstanding(p) <= resets
        BY <1>12 DEF IInv, PileUpBounded
    <2>4. \A p \in Points : PostedOf(p)' <= 1
        BY <1>11
    <2>2. CASE raster_dirty
        <3>1. resets' = resets + 1
            BY <1>1, <2>2
        <3>2. \A p \in Points : Outstanding(p)' <= resets'
            BY <1>2, <1>11, <1>12, <2>1, <3>1
        <3>3. \A p \in DOMAIN entries : entries'[p].in_flight
            BY <1>4, <1>9, <2>2
        <3>. QED
            BY <1>1, <1>2, <1>8, <1>12, <2>4, <3>1, <3>2, <3>3 DEF PileUpBounded, ReadsCounted
    <2>3. CASE ~raster_dirty
        <3>1. resets' = resets /\ resets > 0 /\ current = entries
            BY <1>1, <1>5, <2>3 DEF IInv, ReadsCounted
        <3>2. \A p \in DOMAIN entries : entries[p].in_flight \/ Outstanding(p) < resets
            BY <1>1, <1>12, <2>3 DEF IInv, ReadsCounted
        <3>3. \A p \in due : Outstanding(p) < resets
            BY <1>7, <1>15, <3>1, <3>2
        <3>4. \A p \in Points : Outstanding(p)' <= resets'
            BY <1>2, <1>11, <1>12, <2>1, <3>1, <3>3
        <3>5. \A p \in DOMAIN entries : entries'[p].in_flight \/ Outstanding(p)' < resets'
            BY <1>7, <1>9, <1>11, <3>1, <3>2
        <3>. QED
            BY <1>1, <1>8, <1>12, <2>4, <3>1, <3>4, <3>5 DEF PileUpBounded, ReadsCounted
    <2>. QED
        BY <1>2, <2>2, <2>3
<1>17. \A p \in DOMAIN entries : ~entries[p].once =>
           /\ entries'[p].next_due \in 1..entries[p].interval
           /\ entries'[p].next_due % entries[p].interval = grid'[p]
    <2>. SUFFICES ASSUME NEW p \in DOMAIN entries, ~entries[p].once
                  PROVE  /\ entries'[p].next_due \in 1..entries[p].interval
                         /\ entries'[p].next_due % entries[p].interval = grid'[p]
        OBVIOUS
    <2>. DEFINE e == current[p]
    <2>1. /\ e.interval \in Nat \ {0} /\ e.next_due \in Int /\ ~e.once
          /\ e.interval = entries[p].interval
        BY <1>3, <1>6, EntryType
    <2>2. entries'[p].next_due = IF e.next_due > 0 THEN e.next_due ELSE NextDue(e)
        BY <1>9, <2>1
    <2>3. e.next_due <= e.interval /\ e.next_due % e.interval = grid'[p]
        <3>1. CASE raster_dirty
            <4>1. e.next_due = 0 /\ grid'[p] = 0
                BY <1>1, <1>2, <1>4, <3>1
            <4>2. 0 % e.interval = 0
                BY <2>1
            <4>. QED
                BY <2>1, <4>1, <4>2
        <3>2. CASE ~raster_dirty
            BY <1>1, <1>5, <2>1, <3>2 DEF IInv, OnGrid, Periodic
        <3>. QED
            BY <1>2, <3>1, <3>2
    <2>. HIDE DEF e
    <2>4. CASE e.next_due > 0
        BY <2>1, <2>2, <2>3, <2>4
    <2>5. CASE e.next_due <= 0
        <3>1. NextDue(e) \in 1..e.interval /\ NextDue(e) % e.interval = e.next_due % e.interval
            BY <2>1, <2>5, NextDueOnGrid
        <3>. QED
            BY <2>1, <2>2, <2>3, <2>5, <3>1
    <2>. QED
        BY <2>1, <2>4, <2>5
<1>18. OnGrid'
    <2>1. \A p \in DOMAIN entries : ~entries[p].once => entries[p].interval # 0
        BY DEF IInv, OnGrid, Periodic
    <2>2. \A p \in Periodic' : p \in DOMAIN entries /\ ~entries[p].once
                             /\ entries'[p].interval = entries[p].interval
        BY <1>8, <1>9 DEF Periodic
    <2>3. \A p \in DOMAIN entries : entries[p].interval \in Nat
        BY <1>2, EntryType
    <2>4. \A p \in Periodic' : entries'[p].next_due <= entries'[p].interval
        BY <1>17, <2>2, <2>3
    <2>. QED
        BY <1>17, <2>1, <2>2, <2>4 DEF OnGrid
<1>. QED
    BY <1>8, <1>13, <1>14, <1>16, <1>17, <1>18 DEF IInv, Periodic

\* A posted read fails without a session, or goes to the session's dispatcher.
LEMMA RunPostedKeepsInv == ASSUME IInv, RunPosted PROVE IInv'
<1>. DEFINE r == Head(posted)
            names == r.names
            no == FALSE
<1>1. /\ posted # <<>> /\ posted' = Tail(posted)
      /\ UNCHANGED <<running, paused, raster_dirty, session, keepalive, silent, changes,
                     resets, grid>>
    BY DEF RunPosted, lifecycle, history
<1>2. \/ session = "none" /\ entries' = Freed(entries, names, no) /\ reads' = reads
      \/ session # "none" /\ reads' = Append(reads, r) /\ entries' = entries
    BY DEF RunPosted
<1>3. /\ TypeOK /\ posted \in Seq(Reads) /\ reads \in Seq(Reads)
      /\ DOMAIN entries \subseteq Points
    BY DEF IInv, TypeOK
<1>4. /\ r \in Reads /\ posted' \in Seq(Reads)
      /\ \A p : PostedOf(p)' = IF p \in names THEN PostedOf(p) - 1 ELSE PostedOf(p)
    <2>1. ASSUME NEW p
          PROVE  /\ Head(posted) \in Reads /\ Tail(posted) \in Seq(Reads)
                 /\ Cardinality(ReadsWith(Tail(posted), p)) =
                        IF p \in names THEN Cardinality(ReadsWith(posted, p)) - 1
                        ELSE Cardinality(ReadsWith(posted, p))
        BY <1>1, <1>3, ReadTaken
    <2>2. \A p : PostedOf(p)' = Cardinality(ReadsWith(Tail(posted), p))
        BY <1>1 DEF PostedOf, ReadsWith
    <2>. QED
        BY <1>1, <2>1, <2>2 DEF PostedOf
<1>5. /\ ready' = ready /\ ReadsAllowed' = ReadsAllowed
    BY <1>1 DEF ready, ReadsAllowed
<1>6. \A p : PostedOf(p) \in Nat /\ ReadsOf(p) \in Nat /\ Outstanding(p) \in Nat
    BY <1>3, CountType
<1>. HIDE DEF no
<1>7. /\ DOMAIN entries' = DOMAIN entries
      /\ entries' \in [DOMAIN entries' -> Entries]
      /\ \A p \in DOMAIN entries :
             /\ entries'[p].interval = entries[p].interval
             /\ entries'[p].once = entries[p].once
             /\ entries'[p].next_due = entries[p].next_due
    <2>1. CASE entries' = entries
        BY <1>3, <2>1 DEF TypeOK
    <2>2. CASE entries' = Freed(entries, names, no)
        BY <1>3, <2>2, FreedFields
    <2>. QED
        BY <1>2, <2>1, <2>2
<1>8. /\ reads' \in Seq(Reads)
      /\ \A p : Outstanding(p)' <= Outstanding(p)
      /\ session # "none" => \A p : Outstanding(p)' = Outstanding(p)
    <2>1. CASE session = "none"
        <3>1. reads' = reads
            BY <1>2, <2>1
        <3>2. \A p : ReadsOf(p)' = ReadsOf(p)
            BY <3>1 DEF ReadsOf, ReadsWith
        <3>3. \A p : Outstanding(p)' = PostedOf(p)' + ReadsOf(p)
            BY <3>2 DEF Outstanding
        <3>4. \A p : Outstanding(p) = PostedOf(p) + ReadsOf(p)
            BY DEF Outstanding
        <3>. QED
            BY <1>3, <1>4, <1>6, <2>1, <3>1, <3>3, <3>4
    <2>2. CASE session # "none"
        <3>1. reads' = Append(reads, r)
            BY <1>2, <2>2
        <3>. HIDE DEF r
        <3>2. ASSUME NEW p
              PROVE  /\ Append(reads, r) \in Seq(Reads)
                     /\ Cardinality(ReadsWith(Append(reads, r), p)) =
                            IF p \in names THEN Cardinality(ReadsWith(reads, p)) + 1
                            ELSE Cardinality(ReadsWith(reads, p))
            BY <1>3, <1>4, ReadQueued
        <3>3. \A p : ReadsOf(p)' = Cardinality(ReadsWith(Append(reads, r), p))
            BY <3>1 DEF ReadsOf, ReadsWith
        <3>4. \A p : ReadsOf(p)' = IF p \in names THEN ReadsOf(p) + 1 ELSE ReadsOf(p)
            BY <3>2, <3>3 DEF ReadsOf
        <3>5. \A p : Outstanding(p)' = PostedOf(p)' + ReadsOf(p)'
            BY DEF Outstanding
        <3>6. \A p : Outstanding(p) = PostedOf(p) + ReadsOf(p)
            BY DEF Outstanding
        <3>7. \A p : Outstanding(p)' = Outstanding(p)
            BY <1>4, <1>6, <3>4, <3>5, <3>6
        <3>. QED
            BY <1>6, <3>1, <3>2, <3>7
    <2>. QED
        BY <2>1, <2>2
<1>. HIDE DEF r, names
<1>9. ready => entries' = entries /\ \A p : Outstanding(p)' = Outstanding(p)
    BY <1>2, <1>8 DEF ready
<1>10. TypeOK'
    BY <1>1, <1>3, <1>4, <1>7, <1>8 DEF TypeOK
<1>11. InFlightIsReal'
    BY <1>1, <1>5, <1>9 DEF IInv, InFlightIsReal
<1>12. PileUpBounded'
    <2>1. ReadsAllowed \in Nat
        BY <1>3 DEF ReadsAllowed, TypeOK
    <2>2. \A p : Outstanding(p)' \in Nat
        BY <1>10, ReadsWithType DEF TypeOK, ReadsOf, PostedOf, Outstanding
    <2>. QED
        BY <1>5, <1>6, <1>8, <2>1, <2>2 DEF IInv, PileUpBounded
<1>13. ReadsCounted'
    <2>1. \A p \in Points : PostedOf(p)' <= 1
        BY <1>4, <1>6 DEF IInv, ReadsCounted
    <2>. QED
        BY <1>1, <1>5, <1>9, <2>1 DEF IInv, ReadsCounted
<1>14. OnGrid'
    BY <1>1, <1>7 DEF IInv, OnGrid, Periodic
<1>. QED
    BY <1>10, <1>11, <1>12, <1>13, <1>14 DEF IInv

LEMMA SendPollKeepsInv == ASSUME IInv, SendPoll PROVE IInv'
<1>1. PICK i \in DOMAIN reads : reads' = [reads EXCEPT ![i].sent = TRUE]
    BY DEF SendPoll, NextToSend, Unsent
<1>2. /\ UNCHANGED <<running, paused, raster_dirty, entries, session, posted, keepalive,
                     changes, resets, grid>>
      /\ silent' = 0
    BY DEF SendPoll, lifecycle, history
<1>3. reads \in Seq(Reads)
    BY DEF IInv, TypeOK
<1>4. reads' \in Seq(Reads) /\ \A p : ReadsWith(reads', p) = ReadsWith(reads, p)
    BY <1>1, <1>3, ReadSent
<1>5. TypeOK'
    <2>1. silent' \in 0..Keepalive
        BY <1>2, PollerAssumption
    <2>. QED
        BY <1>2, <1>4, <2>1 DEF IInv, TypeOK
<1>6. \A p : PostedOf(p)' = PostedOf(p) /\ ReadsOf(p)' = ReadsOf(p)
    BY <1>2, <1>4 DEF PostedOf, ReadsOf, ReadsWith
<1>7. /\ ready' = ready /\ ReadsAllowed' = ReadsAllowed
      /\ \A p : Outstanding(p)' = Outstanding(p)
    BY <1>2, <1>6 DEF ready, ReadsAllowed, Outstanding
<1>8. InFlightIsReal' /\ PileUpBounded'
    BY <1>2, <1>7 DEF IInv, InFlightIsReal, PileUpBounded
<1>9. ReadsCounted'
    BY <1>2, <1>6, <1>7 DEF IInv, ReadsCounted
<1>10. OnGrid'
    BY <1>2 DEF IInv, OnGrid, Periodic
<1>. QED
    BY <1>5, <1>8, <1>9, <1>10 DEF IInv

LEMMA CompleteKeepsInv ==
    ASSUME IInv, NEW i \in DOMAIN reads, NEW answered \in BOOLEAN, Complete(i, answered)
    PROVE  IInv'
<1>. DEFINE names == reads[i].names
<1>1. /\ entries' = Freed(entries, names, answered) /\ reads' = RemoveAt(reads, i)
      /\ UNCHANGED <<running, paused, raster_dirty, session, posted, keepalive, silent,
                     changes, resets, grid>>
    BY DEF Complete, lifecycle, history
<1>2. TypeOK /\ reads \in Seq(Reads) /\ resets \in Nat /\ DOMAIN entries \subseteq Points
    BY DEF IInv, TypeOK
<1>3. /\ DOMAIN entries' = DOMAIN entries
      /\ entries' \in [DOMAIN entries' -> Entries]
      /\ \A p \in DOMAIN entries :
             /\ entries'[p].interval = entries[p].interval
             /\ entries'[p].once = entries[p].once
             /\ entries'[p].next_due = entries[p].next_due
             /\ entries'[p].in_flight = (entries[p].in_flight /\ p \notin names)
    BY <1>1, <1>2, FreedFields
<1>4. ASSUME NEW p
      PROVE  /\ reads' \in Seq(Reads)
             /\ ReadsOf(p)' = IF p \in names THEN ReadsOf(p) - 1 ELSE ReadsOf(p)
    <2>1. /\ RemoveAt(reads, i) \in Seq(Reads)
          /\ Cardinality(ReadsWith(RemoveAt(reads, i), p)) =
                 IF p \in names THEN Cardinality(ReadsWith(reads, p)) - 1
                 ELSE Cardinality(ReadsWith(reads, p))
        BY <1>2, ReadRemoved
    <2>2. ReadsOf(p)' = Cardinality(ReadsWith(RemoveAt(reads, i), p))
        BY <1>1 DEF ReadsOf, ReadsWith
    <2>. QED
        BY <1>1, <2>1, <2>2 DEF ReadsOf
<1>. HIDE DEF names
<1>5. \A p : PostedOf(p) \in Nat /\ ReadsOf(p) \in Nat /\ Outstanding(p) \in Nat
    BY <1>2, CountType
<1>6. TypeOK'
    BY <1>1, <1>2, <1>3, <1>4 DEF TypeOK
<1>7. /\ ready' = ready /\ ReadsAllowed' = ReadsAllowed
      /\ ReadsAllowed \in Nat
      /\ \A p : PostedOf(p)' = PostedOf(p)
    BY <1>1, <1>2 DEF ready, ReadsAllowed, PostedOf, ReadsWith
<1>8. \A p : Outstanding(p)' = IF p \in names THEN Outstanding(p) - 1 ELSE Outstanding(p)
    <2>1. \A p : Outstanding(p)' = PostedOf(p) + ReadsOf(p)'
        BY <1>7 DEF Outstanding
    <2>2. \A p : Outstanding(p) = PostedOf(p) + ReadsOf(p)
        BY DEF Outstanding
    <2>. QED
        BY <1>4, <1>5, <2>1, <2>2
<1>9. InFlightIsReal'
    BY <1>1, <1>3, <1>7, <1>8 DEF IInv, InFlightIsReal
<1>10. PileUpBounded'
    BY <1>5, <1>7, <1>8 DEF IInv, PileUpBounded
<1>11. ReadsCounted'
    <2>1. ASSUME ready, ~raster_dirty, NEW p \in DOMAIN entries
          PROVE  entries'[p].in_flight \/ Outstanding(p)' < ReadsAllowed
        <3>1. Outstanding(p) <= ReadsAllowed
            BY <1>2 DEF IInv, PileUpBounded
        <3>2. CASE p \in names
            BY <1>5, <1>7, <1>8, <3>1, <3>2
        <3>3. CASE p \notin names
            BY <1>3, <1>8, <2>1, <3>3 DEF IInv, ReadsCounted
        <3>. QED
            BY <3>2, <3>3
    <2>. QED
        BY <1>1, <1>3, <1>7, <2>1 DEF IInv, ReadsCounted
<1>12. OnGrid'
    BY <1>1, <1>3 DEF IInv, OnGrid, Periodic
<1>. QED
    BY <1>6, <1>9, <1>10, <1>11, <1>12 DEF IInv

\* Keepalives are in no name's account.
LEMMA KeepalivesKeepInv ==
    ASSUME IInv, RunKeepalive \/ SendKeepalive \/ CompleteKeepalive
    PROVE  IInv'
<1>1. /\ UNCHANGED <<running, paused, raster_dirty, entries, session, posted, reads, changes,
                     resets, grid>>
      /\ silent' \in {silent, 0}
    BY DEF RunKeepalive, SendKeepalive, CompleteKeepalive, lifecycle, history
<1>2. silent' \in 0..Keepalive
    BY <1>1, PollerAssumption DEF IInv, TypeOK
<1>. DEFINE zero == 0
            one == 1
            up == keepalive.sent + 1
            down == keepalive.sent - 1
<1>3. /\ keepalive \in Keepalives /\ zero \in 0..1 /\ one \in 0..1 /\ up \in Nat
      /\ keepalive.sent > 0 => down \in Nat
    <2>1. keepalive \in Keepalives
        BY DEF IInv, TypeOK, Keepalives
    <2>2. keepalive.sent \in Nat
        BY <2>1 DEF Keepalives
    <2>. QED
        BY <2>1, <2>2
<1>4. \/ keepalive' = [keepalive EXCEPT !.posted = zero]
      \/ keepalive' = [keepalive EXCEPT !.posted = zero, !.queued = one]
      \/ keepalive' = [keepalive EXCEPT !.queued = zero, !.sent = up]
      \/ keepalive.sent > 0 /\ keepalive' = [keepalive EXCEPT !.sent = down]
      \/ keepalive' = [keepalive EXCEPT !.queued = zero]
    <2>1. CASE RunKeepalive
        <3>1. keepalive' = [keepalive EXCEPT !.posted = 0,
                                             !.queued = IF session = "none" THEN @ ELSE 1]
            BY <2>1 DEF RunKeepalive
        <3>2. CASE session = "none"
            <4>1. keepalive' = [keepalive EXCEPT !.posted = 0, !.queued = keepalive.queued]
                BY <3>1, <3>2
            <4>2. keepalive' = [keepalive EXCEPT !.posted = 0]
                BY <1>3, <4>1 DEF Keepalives
            <4>. QED
                BY <4>2
        <3>3. CASE session # "none"
            BY <3>1, <3>3
        <3>. QED
            BY <3>2, <3>3
    <2>2. CASE SendKeepalive
        BY <2>2 DEF SendKeepalive
    <2>3. CASE CompleteKeepalive
        BY <2>3 DEF CompleteKeepalive
    <2>. QED
        BY <2>1, <2>2, <2>3
<1>. HIDE DEF zero, one, up, down
<1>5. keepalive' \in Keepalives
    BY <1>3, <1>4 DEF Keepalives
<1>. QED
    BY <1>1, <1>2, <1>5, FlagsKeepInv DEF IInv, TypeOK

\* A session that is reset, or that gets ready: at most one read of a name is
\* posted, or came over.
LEMMA RedialKeepsInv == ASSUME IInv, Redial PROVE IInv'
<1>. DEFINE zero == 0
<1>1. /\ session' \in {"fresh", "none"} /\ reads' = <<>>
      /\ keepalive' = [keepalive EXCEPT !.queued = zero]
      /\ UNCHANGED <<running, paused, raster_dirty, entries, posted, silent, changes, resets,
                     grid>>
    BY DEF Redial, lifecycle, history
<1>2. TypeOK /\ ~ready' /\ ReadsAllowed' = 1
    BY <1>1 DEF IInv, ready, ReadsAllowed
<1>3. TypeOK'
    <2>1. reads' \in Seq(Reads)
        BY <1>1, EmptySeq
    <2>2. keepalive' \in [posted : 0..1, queued : 0..1, sent : Nat]
        <3>1. zero \in 0..1
            OBVIOUS
        <3>. HIDE DEF zero
        <3>. QED
            BY <1>1, <1>2, <3>1 DEF TypeOK
    <2>. QED
        BY <1>1, <1>2, <2>1, <2>2 DEF TypeOK
<1>4. \A p : ReadsOf(p)' = 0 /\ PostedOf(p)' = PostedOf(p)
    <2>1. \A p : ReadsOf(p)' = Cardinality(ReadsWith(<<>>, p))
        BY <1>1 DEF ReadsOf, ReadsWith
    <2>2. \A p : PostedOf(p)' = PostedOf(p)
        BY <1>1 DEF PostedOf, ReadsWith
    <2>. QED
        BY <2>1, <2>2, NoReads
<1>5. \A p : Outstanding(p)' = PostedOf(p) /\ PostedOf(p) \in Nat
    <2>1. \A p : Outstanding(p)' = PostedOf(p)' + ReadsOf(p)'
        BY DEF Outstanding
    <2>. QED
        BY <1>2, <1>4, <2>1, CountType
<1>6. InFlightIsReal' /\ PileUpBounded'
    BY <1>2, <1>5 DEF IInv, InFlightIsReal, PileUpBounded, ReadsCounted
<1>7. ReadsCounted'
    BY <1>2, <1>4 DEF IInv, ReadsCounted
<1>8. OnGrid'
    BY <1>1 DEF IInv, OnGrid, Periodic
<1>. QED
    BY <1>3, <1>6, <1>7, <1>8 DEF IInv

LEMMA BecomesReadyKeepsInv == ASSUME IInv, BecomesReady PROVE IInv'
<1>1. /\ session = "fresh" /\ posted = <<>> /\ session' = "running" /\ raster_dirty' = TRUE
      /\ resets' = IF reads = <<>> THEN 0 ELSE 1
      /\ UNCHANGED <<running, paused, entries, posted, reads, keepalive, silent, changes,
                     grid>>
    BY DEF BecomesReady, NothingPosted, lifecycle
<1>2. TypeOK'
    <2>1. resets' \in Nat
        BY <1>1
    <2>. QED
        BY <1>1, <2>1 DEF IInv, TypeOK
<1>3. \A p : PostedOf(p)' = PostedOf(p) /\ ReadsOf(p)' = ReadsOf(p)
    BY <1>1 DEF PostedOf, ReadsOf, ReadsWith
<1>4. \A p : PostedOf(p) = 0 /\ (reads = <<>> => ReadsOf(p) = 0)
    BY <1>1, NoReads DEF PostedOf, ReadsOf
<1>5. \A p : Outstanding(p)' = Outstanding(p) /\ Outstanding(p) = PostedOf(p) + ReadsOf(p)
    BY <1>3 DEF Outstanding
<1>6. ReadsAllowed = 1 /\ ReadsAllowed' = resets'
    BY <1>1 DEF ready, ReadsAllowed
<1>7. PileUpBounded'
    <2>1. CASE reads = <<>>
        BY <1>1, <1>4, <1>5, <1>6, <2>1 DEF PileUpBounded
    <2>2. CASE reads # <<>>
        BY <1>1, <1>5, <1>6, <2>2 DEF IInv, PileUpBounded
    <2>. QED
        BY <2>1, <2>2
<1>8. InFlightIsReal' /\ ReadsCounted'
    BY <1>1, <1>3, <1>4 DEF InFlightIsReal, ReadsCounted
<1>9. OnGrid'
    BY <1>1 DEF IInv, OnGrid, Periodic
<1>. QED
    BY <1>2, <1>7, <1>8, <1>9 DEF IInv

LEMMA ConnectionEndsKeepsInv == ASSUME IInv, ConnectionEnds PROVE IInv'
<1>. DEFINE names == UNION {r.names : r \in ToSet(reads)}
            no == FALSE
            zero == 0
<1>1. /\ session' = "closed" /\ entries' = Freed(entries, names, no)
      /\ reads' = <<>> /\ silent' = 0 /\ resets' = 0
      /\ keepalive' = [keepalive EXCEPT !.queued = zero, !.sent = zero]
      /\ UNCHANGED <<running, paused, raster_dirty, posted, changes, grid>>
    BY DEF ConnectionEnds, lifecycle
<1>2. TypeOK /\ DOMAIN entries \subseteq Points /\ ~ready' /\ ReadsAllowed' = 1
    BY <1>1 DEF IInv, TypeOK, ready, ReadsAllowed
<1>. HIDE DEF no
<1>3. /\ DOMAIN entries' = DOMAIN entries
      /\ entries' \in [DOMAIN entries' -> Entries]
      /\ \A p \in DOMAIN entries :
             /\ entries'[p].interval = entries[p].interval
             /\ entries'[p].once = entries[p].once
             /\ entries'[p].next_due = entries[p].next_due
    BY <1>1, <1>2, FreedFields
<1>. HIDE DEF names
<1>4. \A p : ReadsOf(p)' = 0 /\ PostedOf(p)' = PostedOf(p)
    <2>1. \A p : ReadsOf(p)' = Cardinality(ReadsWith(<<>>, p))
        BY <1>1 DEF ReadsOf, ReadsWith
    <2>2. \A p : PostedOf(p)' = PostedOf(p)
        BY <1>1 DEF PostedOf, ReadsWith
    <2>. QED
        BY <2>1, <2>2, NoReads
<1>5. \A p : Outstanding(p)' = PostedOf(p) /\ PostedOf(p) \in Nat
    <2>1. \A p : Outstanding(p)' = PostedOf(p)' + ReadsOf(p)'
        BY DEF Outstanding
    <2>. QED
        BY <1>2, <1>4, <2>1, CountType
<1>6. TypeOK'
    <2>1. reads' \in Seq(Reads)
        BY <1>1, EmptySeq
    <2>2. silent' \in 0..Keepalive /\ resets' \in Nat
        BY <1>1, PollerAssumption
    <2>3. keepalive' \in [posted : 0..1, queued : 0..1, sent : Nat]
        <3>1. zero \in 0..1 /\ zero \in Nat
            OBVIOUS
        <3>. HIDE DEF zero
        <3>. QED
            BY <1>1, <1>2, <3>1 DEF TypeOK
    <2>. QED
        BY <1>1, <1>2, <1>3, <2>1, <2>2, <2>3 DEF TypeOK
<1>7. InFlightIsReal' /\ PileUpBounded'
    BY <1>2, <1>5 DEF IInv, InFlightIsReal, PileUpBounded, ReadsCounted
<1>8. ReadsCounted'
    BY <1>2, <1>4 DEF IInv, ReadsCounted
<1>9. OnGrid'
    BY <1>1, <1>3 DEF IInv, OnGrid, Periodic
<1>. QED
    BY <1>6, <1>7, <1>8, <1>9 DEF IInv

LEMMA PassKeepsInv == ASSUME IInv, Pass PROVE IInv'
<1>1. /\ silent' = IF silent < Keepalive THEN silent + 1 ELSE silent
      /\ UNCHANGED <<running, paused, raster_dirty, session, posted, reads, keepalive,
                     changes, resets>>
    BY DEF Pass, lifecycle
<1>2. silent' \in 0..Keepalive
    BY <1>1, PollerAssumption DEF IInv, TypeOK
<1>3. CASE UNCHANGED <<entries, grid>>
    BY <1>1, <1>2, <1>3, FlagsKeepInv DEF IInv, TypeOK, Keepalives
<1>4. CASE /\ entries' = [p \in DOMAIN entries |->
                              IF entries[p].once THEN entries[p]
                              ELSE [entries[p] EXCEPT !.next_due = @ - 1]]
           /\ grid' = [p \in Points |->
                           IF p \in Periodic THEN (grid[p] - 1) % entries[p].interval ELSE 0]
    <2>1. /\ DOMAIN entries \subseteq Points /\ grid \in [Points -> Nat]
          /\ \A p \in DOMAIN entries : entries[p] \in Entries
        BY DEF IInv, TypeOK
    <2>2. DOMAIN entries' = DOMAIN entries
        BY <1>4
    <2>3. ASSUME NEW p \in DOMAIN entries
          PROVE  /\ entries'[p] \in Entries
                 /\ entries'[p].interval = entries[p].interval
                 /\ entries'[p].once = entries[p].once
                 /\ entries'[p].in_flight = entries[p].in_flight
                 /\ ~entries[p].once => entries'[p].next_due = entries[p].next_due - 1
        <3>. DEFINE e == entries[p]
                    nd == e.next_due - 1
        <3>1. e \in Entries /\ nd \in Int
            BY <2>1, EntryType
        <3>2. entries'[p] = IF e.once THEN e ELSE [e EXCEPT !.next_due = nd]
            BY <1>4
        <3>. HIDE DEF e, nd
        <3>3. CASE e.once
            BY <3>1, <3>2, <3>3 DEF e
        <3>4. CASE ~e.once
            <4>1. entries'[p] = [e EXCEPT !.next_due = nd]
                BY <3>2, <3>4
            <4>2. /\ entries'[p] \in Entries /\ entries'[p].interval = e.interval
                  /\ entries'[p].once = e.once /\ entries'[p].in_flight = e.in_flight
                  /\ entries'[p].next_due = nd
                BY <3>1, <4>1 DEF Entries
            <4>. QED
                BY <4>2 DEF e, nd
        <3>. QED
            BY <3>3, <3>4
    <2>4. \A p \in Periodic : p \in DOMAIN entries /\ ~entries[p].once /\ p \in Points
                             /\ entries[p].interval \in Nat \ {0}
                             /\ entries[p].next_due \in Int
        BY <2>1, EntryType DEF IInv, OnGrid, Periodic
    <2>5. \A p \in Points : grid'[p] =
              IF p \in Periodic THEN (grid[p] - 1) % entries[p].interval ELSE 0
        BY <1>4
    <2>6. TypeOK'
        <3>1. entries' \in [DOMAIN entries' -> Entries]
            <4>1. entries' = [p \in DOMAIN entries' |-> entries'[p]]
                BY <1>4
            <4>. QED
                BY <2>2, <2>3, <4>1
        <3>2. grid' \in [Points -> Nat]
            <4>1. \A p \in Points : grid'[p] \in Nat
                <5>. SUFFICES ASSUME NEW p \in Points PROVE grid'[p] \in Nat
                    OBVIOUS
                <5>1. CASE p \in Periodic
                    <6>1. entries[p].interval \in Nat \ {0} /\ grid[p] - 1 \in Int
                        BY <2>1, <2>4, <5>1
                    <6>2. (grid[p] - 1) % entries[p].interval \in 0..(entries[p].interval - 1)
                        BY <6>1, DivMod
                    <6>. QED
                        BY <2>5, <5>1, <6>1, <6>2
                <5>2. CASE p \notin Periodic
                    BY <2>5, <5>2
                <5>. QED
                    BY <5>1, <5>2
            <4>. QED
                BY <1>4, <4>1
        <3>. QED
            BY <1>1, <1>2, <2>2, <3>1, <3>2 DEF IInv, TypeOK
    <2>7. /\ ready' = ready /\ ReadsAllowed' = ReadsAllowed
          /\ \A p : PostedOf(p)' = PostedOf(p) /\ Outstanding(p)' = Outstanding(p)
        BY <1>1, CountsKept
    <2>8. InFlightIsReal' /\ PileUpBounded'
        BY <1>1, <2>2, <2>3, <2>7 DEF IInv, InFlightIsReal, PileUpBounded
    <2>9. ReadsCounted'
        BY <1>1, <2>2, <2>3, <2>7 DEF IInv, ReadsCounted
    <2>10. OnGrid'
        <3>1. Periodic' = Periodic /\ \A p \in Periodic : entries'[p].interval = entries[p].interval
            BY <2>2, <2>3 DEF Periodic
        <3>2. ASSUME ~raster_dirty, NEW p \in Periodic
              PROVE  /\ entries'[p].next_due <= entries'[p].interval
                     /\ entries'[p].next_due % entries'[p].interval = grid'[p]
            <4>. DEFINE i == entries[p].interval
                        x == entries[p].next_due
            <4>1. /\ i \in Nat \ {0} /\ x \in Int /\ entries'[p].interval = i
                  /\ entries'[p].next_due = x - 1 /\ grid'[p] = (grid[p] - 1) % i
                BY <2>3, <2>4, <2>5, <3>1
            <4>2. x <= i /\ x % i = grid[p]
                BY <3>2 DEF IInv, OnGrid
            <4>. HIDE DEF i, x
            <4>3. (x - 1) % i = ((x % i) - 1) % i
                BY <4>1, RestOfNext
            <4>. QED
                BY <4>1, <4>2, <4>3
        <3>. QED
            BY <1>1, <2>4, <3>1, <3>2 DEF OnGrid
    <2>. QED
        BY <2>6, <2>8, <2>9, <2>10 DEF IInv
<1>. QED
    BY <1>3, <1>4 DEF Pass

-----------------------------------------------------------------------------

\* Calls of the application, ticks, reads answered in any order or failed,
\* connections and time: no step breaks the invariant the other results rest
\* on.
THEOREM Invariance == Spec => []IInv
<1>1. Init => IInv
    <2>. SUFFICES ASSUME Init PROVE IInv
        OBVIOUS
    <2>1. TypeOK
        <3>1. running \in BOOLEAN /\ paused \in BOOLEAN /\ raster_dirty \in BOOLEAN
            BY DEF Init
        <3>2. DOMAIN entries = {} /\ entries \in [DOMAIN entries -> Entries]
            BY DEF Init
        <3>3. reads \in Seq(Reads) /\ posted \in Seq(Reads)
            BY EmptySeq DEF Init
        <3>6. /\ session \in {"none", "fresh", "running", "closed"}
              /\ keepalive \in [posted : 0..1, queued : 0..1, sent : Nat]
            BY DEF Init
        <3>4. silent \in 0..Keepalive /\ changes \in 0..MaxChanges /\ resets \in Nat
            BY PollerAssumption DEF Init
        <3>5. grid \in [Points -> Nat]
            BY DEF Init
        <3>. QED
            BY <3>1, <3>2, <3>3, <3>4, <3>5, <3>6 DEF TypeOK
    <2>2. DOMAIN entries = {}
        BY DEF Init
    <2>3. \A p : ReadsOf(p) = 0 /\ PostedOf(p) = 0
        BY NoReads DEF Init, ReadsOf, PostedOf
    <2>4. PileUpBounded /\ ReadsCounted
        BY <2>3 DEF Init, ready, Outstanding, ReadsAllowed, PileUpBounded, ReadsCounted
    <2>. QED
        BY <2>1, <2>2, <2>4 DEF IInv, InFlightIsReal, OnGrid, Periodic
<1>2. IInv /\ Next => IInv'
    <2>. SUFFICES ASSUME IInv, Next PROVE IInv'
        OBVIOUS
    <2>. USE DEF lifecycle, connection, history, Keepalives
    <2>1. TypeOK
        BY DEF IInv
    <2>2. CASE Start
        BY <2>1, <2>2, ChangeType, FlagsKeepInv DEF Start, TypeOK
    <2>3. CASE Pause
        BY <2>1, <2>3, ChangeType, FlagsKeepInv DEF Pause, TypeOK
    <2>4. CASE Resume
        BY <2>1, <2>4, ChangeType, FlagsKeepInv DEF Resume, TypeOK
    <2>5. CASE Stop
        BY <2>1, <2>5, ChangeType, FlagsKeepInv DEF Stop, TypeOK
    <2>6. CASE SendOther
        <3>1. silent' \in 0..Keepalive
            BY <2>6, PollerAssumption DEF SendOther
        <3>. QED
            BY <2>1, <2>6, <3>1, FlagsKeepInv DEF SendOther, TypeOK
    <2>7. CASE Application
        BY <2>2, <2>3, <2>4, <2>5, <2>7, EveryKeepsInv, AddOnceKeepsInv, DisableKeepsInv,
           StartDefaultsKeepsInv DEF Application
    <2>. QED
        BY <2>6, <2>7, TickKeepsInv, RunPostedKeepsInv, SendPollKeepsInv, CompleteKeepsInv,
           KeepalivesKeepInv, RedialKeepsInv, BecomesReadyKeepsInv, ConnectionEndsKeepsInv,
           PassKeepsInv DEF Next
<1>3. IInv /\ UNCHANGED vars => IInv'
    <2>. SUFFICES ASSUME IInv, UNCHANGED vars PROVE IInv'
        OBVIOUS
    <2>. QED
        BY FlagsKeepInv DEF vars, IInv, TypeOK, Keepalives
<1>. QED
    BY <1>1, <1>2, <1>3, PTL DEF Spec

\* On a connection whose first tick has been, a name is marked as in flight
\* only while it is read or about to be; no read asks for more than
\* PerRequest names; and a name is in as many reads as the grid was reset on
\* this connection, and one that came over from the connection before.  So no
\* lost, late or failed read ends the polling of a name: also one that was
\* posted and died with a closed session, whose mark the reset of the next
\* connection clears (tick(), reset_raster(), on_reconnected()).
THEOREM ReadsAlwaysBounded == Spec => []ReadsBounded
<1>1. IInv => ReadsBounded
    BY DEF IInv, ReadsBounded
<1>. QED
    BY <1>1, Invariance, PTL

\* However late a tick is, the deadlines stay on the grid of the last reset,
\* and after it each of them is ahead by at most its interval (tick()).
THEOREM GridAlwaysKept == Spec => KeepsGrid
<1>1. IInv' => StaysOnGrid'
    BY DEF IInv, OnGrid, StaysOnGrid
<1>2. IInv => DeadlinesAhead
    BY TickKeepsInv DEF DeadlinesAhead
<1>3. IInv /\ IInv' /\ [Next]_vars => [StaysOnGrid' /\ DeadlinesAhead]_vars
    BY <1>1, <1>2
<1>. QED
    BY <1>3, Invariance, PTL DEF Spec, KeepsGrid
=============================================================================
