---------------------------- MODULE ManagerProofs ----------------------------
(***************************************************************************)
(* Proofs about Manager, for any catalog, values, threads and subscribers; *)
(* and about Rules, the functions that encode and check what the manager   *)
(* writes, with those of the configuration and the commands, for any input *)
(* and any integer widths.                                                 *)
(***************************************************************************)
EXTENDS Manager, Rules, FiniteSetTheorems, SequenceTheorems, TLAPS

-----------------------------------------------------------------------------
(* The calls that an update makes due.                                     *)

\* The call of s for a change of n.
Notify(s, n, dp) ==
    [kind |-> "notify", to |-> s, name |-> n, value |-> dp[n],
     old |-> OldValue(cache[n], dp[n])]

\* s is told of n when dp arrives.
ToldOf(s, n, dp) ==
    /\ s \in subscriptions /\ n \in Names /\ Concerns(s, n)
    /\ dp[n] # Absent /\ Changed(cache[n], dp[n])

\* The loops of update_cache() make one call for each callback and name.
LEMMA NotificationsAre ==
    ASSUME NEW dp
    PROVE  \A x : x \in Notifications(dp) <=>
               \E s \in subscriptions, n \in Names :
                   ToldOf(s, n, dp) /\ x = Notify(s, n, dp)
<1>. DEFINE changes == {n \in EntriesOf(dp) : Changed(cache[n], dp[n])}
            callsFor(n) == {Notify(s, n, dp) : s \in {y \in subscriptions : Concerns(y, n)}}
<1>1. Notifications(dp) = UNION {callsFor(n) : n \in changes}
    BY DEF Notifications, Notify
<1>2. \A n : n \in changes <=> n \in Names /\ dp[n] # Absent /\ Changed(cache[n], dp[n])
    BY DEF EntriesOf
<1>3. \A n, x : x \in callsFor(n) <=>
                \E s \in subscriptions : Concerns(s, n) /\ x = Notify(s, n, dp)
    OBVIOUS
<1>. HIDE DEF changes, callsFor
<1>4. \A x : x \in Notifications(dp) <=> \E n \in changes : x \in callsFor(n)
    BY <1>1
<1>. QED
    BY <1>2, <1>3, <1>4 DEF ToldOf

\* There are finitely many of them.
LEMMA NotificationsFinite ==
    ASSUME TypeOK, NEW dp
    PROVE  IsFiniteSet(Notifications(dp))
<1>. DEFINE P == {x \in subscriptions \X Names : ToldOf(x[1], x[2], dp)}
            f == [x \in P |-> Notify(x[1], x[2], dp)]
<1>1. IsFiniteSet(subscriptions) /\ IsFiniteSet(Names)
    BY ManagerAssumption, FS_Subset DEF TypeOK
<1>2. IsFiniteSet(subscriptions \X Names)
    BY <1>1, FS_Product
<1>3. IsFiniteSet(P)
    BY <1>2, FS_Subset
<1>4. f \in Surjection(P, Notifications(dp))
    <2>1. \A x \in P : Notify(x[1], x[2], dp) \in Notifications(dp)
        BY NotificationsAre
    <2>2. \A y \in Notifications(dp) : \E x \in P : f[x] = y
        <3>. SUFFICES ASSUME NEW y \in Notifications(dp)
                      PROVE  \E x \in P : f[x] = y
            OBVIOUS
        <3>1. PICK s \in subscriptions, n \in Names :
                  ToldOf(s, n, dp) /\ y = Notify(s, n, dp)
            BY NotificationsAre
        <3>2. <<s, n>> \in P /\ f[<<s, n>>] = y
            BY <3>1
        <3>. QED
            BY <3>2
    <2>. QED
        BY <2>1, <2>2 DEF Surjection
<1>. HIDE DEF P, f
<1>. QED
    BY <1>3, <1>4, FS_Surjection

\* Any order of a finite set of calls has each of them once.
LEMMA InAnyOrder ==
    ASSUME NEW N, IsFiniteSet(N), NEW q \in SetToSeqs(N)
    PROVE  /\ q \in Seq(N)
           /\ \A x \in N : \E i \in DOMAIN q : q[i] = x
           /\ \A i, j \in DOMAIN q : q[i] = q[j] => i = j
<1>. DEFINE k == Cardinality(N)
<1>1. k \in Nat
    BY FS_CardinalityType
<1>2. q \in [1..k -> N] /\ \A i, j \in 1..k : i # j => q[i] # q[j]
    BY DEF SetToSeqs
<1>. HIDE DEF k
<1>3. q \in Injection(1..k, N)
    BY <1>2 DEF Injection, IsInjective
<1>4. IsFiniteSet(1..k) /\ Cardinality(1..k) = k
    BY <1>1, FS_Interval
<1>5. q \in Surjection(1..k, N)
    BY <1>3, <1>4, FS_Injection DEF k
<1>6. q \in Seq(N)
    BY <1>1, <1>2, SeqDef
<1>. QED
    BY <1>2, <1>5, <1>6 DEF Surjection

-----------------------------------------------------------------------------
(* The invariant in two parts, for what a step leaves alone.               *)

TellsInv == SubscriberKnowsCache /\ ChangesChain /\ DueIsNews /\ CompletionLast

\* A step that changes neither the values of the cache nor what is due and
\* known keeps what subscribers know, as long as nobody who is to be
\* completed stops waiting.
LEMMA TellsUnchanged ==
    ASSUME TypeOK, TellsInv,
           subscriptions' \in SUBSET subscriptions,
           UNCHANGED <<due, seen>>,
           \A n \in Names : cache'[n].value = cache[n].value,
           \A i \in DOMAIN due : due[i].kind = "complete" =>
               call'[due[i].to].state = "asked"
    PROVE  TellsInv'
<1>1. \A i \in DOMAIN due : due[i].kind = "notify" => due[i].name \in Names
    BY LenProperties, ElementOfSeq DEF TypeOK, DueCalls
<1>2. SubscriberKnowsCache'
    BY DEF TellsInv, SubscriberKnowsCache, IsDue, Concerns
<1>3. ChangesChain'
    BY DEF TellsInv, ChangesChain
<1>4. DueIsNews'
    BY <1>1 DEF TellsInv, DueIsNews
<1>5. CompletionLast'
    BY DEF TellsInv, CompletionLast
<1>. QED
    BY <1>2, <1>3, <1>4, <1>5 DEF TellsInv

\* The calls of an update in any order, and at most one completion after
\* them.
LEMMA DueAfter ==
    ASSUME NEW N \in SUBSET DueCalls, IsFiniteSet(N),
           \A x \in N : x.kind = "notify",
           NEW told \in SetToSeqs(N), NEW c, c.kind = "complete",
           NEW d, d = told \/ (d = told \o <<c>> /\ c \in DueCalls)
    PROVE  /\ d \in Seq(DueCalls)
           /\ \A i \in DOMAIN d : \/ d[i] \in N
                                  \/ d[i] = c /\ i = Len(d) /\ d = told \o <<c>>
           /\ \A x \in N : \E i \in DOMAIN d : d[i] = x
           /\ \A i, j \in DOMAIN d : d[i] \in N /\ d[i] = d[j] => i = j
<1>1. /\ told \in Seq(N)
      /\ \A x \in N : \E i \in DOMAIN told : told[i] = x
      /\ \A i, j \in DOMAIN told : told[i] = told[j] => i = j
    BY InAnyOrder
<1>2. told \in Seq(DueCalls)
    BY <1>1, SeqMonotonic
<1>3. /\ Len(told) \in Nat /\ DOMAIN told = 1..Len(told)
      /\ \A i \in DOMAIN told : told[i] \in N
    BY <1>1, LenProperties, ElementOfSeq
<1>4. CASE d = told
    BY <1>1, <1>2, <1>3, <1>4
<1>5. CASE d = told \o <<c>> /\ c \in DueCalls
    <2>1. d = Append(told, c)
        BY <1>2, <1>5, AppendIsConcat
    <2>2. /\ d \in Seq(DueCalls) /\ Len(d) = Len(told) + 1
          /\ \A i \in 1..Len(told) : d[i] = told[i]
          /\ d[Len(told) + 1] = c
        BY <1>2, <2>1, AppendProperties
    <2>3. DOMAIN d = 1..(Len(told) + 1)
        BY <2>2, LenProperties
    <2>4. c \notin N
        OBVIOUS
    <2>5. \A i \in DOMAIN d : i \in DOMAIN told \/ i = Len(told) + 1
        BY <1>3, <2>3
    <2>6. \A i \in DOMAIN told : i \in DOMAIN d /\ d[i] = told[i]
        BY <1>3, <2>2, <2>3
    <2>7. \A i \in DOMAIN d : \/ d[i] \in N
                              \/ d[i] = c /\ i = Len(d) /\ d = told \o <<c>>
        BY <1>3, <1>5, <2>2, <2>5, <2>6
    <2>8. \A x \in N : \E i \in DOMAIN d : d[i] = x
        BY <1>1, <2>6
    <2>9. \A i, j \in DOMAIN d : d[i] \in N /\ d[i] = d[j] => i = j
        BY <1>1, <1>3, <2>2, <2>4, <2>5, <2>6
    <2>. QED
        BY <2>2, <2>7, <2>8, <2>9
<1>. QED
    BY <1>4, <1>5

\* update_cache() on a connection, with no call due from an earlier one: the
\* cache stays honest, and each subscriber is owed exactly what it does not
\* know.
LEMMA UpdateKeeps ==
    ASSUME IInv, due = <<>>, connection # 0, NEW dp \in Snapshots,
           NEW t, NEW outcome, NEW after,
           \/ after = <<>>
           \/ /\ after = <<[kind |-> "complete", to |-> t,
                            outcome |-> outcome, dp |-> dp]>>
              /\ t \in Threads /\ outcome \in Outcomes
              /\ call[t].state = "asked",
           Update(dp, after), UNCHANGED <<subscriptions, seen, call, connection>>
    PROVE  /\ cache' \in [Names -> [quality : {"Unknown", "Good", "Stale"},
                                   value : Values \cup {Absent},
                                   heard : 0..MaxConnections]]
           /\ \A n \in Names :
                 (cache'[n].quality = "Unknown") <=> (cache'[n].value = Absent)
           /\ GoodIsOfThisConnection'
           /\ due' \in Seq(DueCalls)
           /\ TellsInv'
<1>. DEFINE N == Notifications(dp)
            c == [kind |-> "complete", to |-> t, outcome |-> outcome, dp |-> dp]
<1>1. /\ cache \in [Names -> [quality : {"Unknown", "Good", "Stale"},
                              value : Values \cup {Absent},
                              heard : 0..MaxConnections]]
      /\ \A n \in Names : (cache[n].quality = "Unknown") <=> (cache[n].value = Absent)
      /\ connection \in 0..MaxConnections
      /\ subscriptions \in SUBSET Subscribers
      /\ dp \in [Names -> Values \cup {Absent}]
    BY ManagerAssumption DEF IInv, TypeOK, Snapshots
<1>2. cache' = [n \in Names |->
                  IF dp[n] = Absent THEN cache[n]
                  ELSE [quality |-> "Good", value |-> dp[n], heard |-> connection]]
    BY DEF Update, UpdatedCache
<1>3. cache' \in [Names -> [quality : {"Unknown", "Good", "Stale"},
                           value : Values \cup {Absent},
                           heard : 0..MaxConnections]]
    BY <1>1, <1>2
<1>4. \A n \in Names : (cache'[n].quality = "Unknown") <=> (cache'[n].value = Absent)
    BY <1>1, <1>2
<1>5. GoodIsOfThisConnection'
    BY <1>1, <1>2 DEF IInv, GoodIsOfThisConnection
<1>6. \A n \in Names : cache'[n].value = IF dp[n] = Absent THEN cache[n].value ELSE dp[n]
    BY <1>2
<1>7. \A n \in Names : dp[n] # Absent =>
         /\ OldValue(cache[n], dp[n]) = cache[n].value
         /\ Changed(cache[n], dp[n]) <=> cache[n].value # dp[n]
    BY <1>1 DEF OldValue, Changed
<1>8. \A x \in N : \E s \in subscriptions, n \in Names :
         /\ ToldOf(s, n, dp) /\ x = Notify(s, n, dp)
         /\ x \in DueCalls /\ x.kind = "notify" /\ x.to = s /\ x.name = n
         /\ x.value = dp[n] /\ x.old = cache[n].value
         /\ x.value = cache'[n].value /\ x.old # x.value
    <2>. SUFFICES ASSUME NEW x \in N
                  PROVE  \E s \in subscriptions, n \in Names :
                            /\ ToldOf(s, n, dp) /\ x = Notify(s, n, dp)
                            /\ x \in DueCalls /\ x.kind = "notify" /\ x.to = s /\ x.name = n
                            /\ x.value = dp[n] /\ x.old = cache[n].value
                            /\ x.value = cache'[n].value /\ x.old # x.value
        OBVIOUS
    <2>1. PICK s \in subscriptions, n \in Names :
              ToldOf(s, n, dp) /\ x = Notify(s, n, dp)
        BY NotificationsAre
    <2>2. dp[n] # Absent /\ Changed(cache[n], dp[n])
        BY <2>1 DEF ToldOf
    <2>3. /\ x.kind = "notify" /\ x.to = s /\ x.name = n /\ x.value = dp[n]
          /\ x.old = cache[n].value
        BY <1>7, <2>1, <2>2 DEF Notify
    <2>4. x \in DueCalls
        BY <1>1, <1>7, <2>1, <2>2 DEF Notify, DueCalls
    <2>. QED
        BY <1>6, <1>7, <2>1, <2>2, <2>3, <2>4
<1>9. /\ c.kind = "complete" /\ c.to = t
      /\ t \in Threads /\ outcome \in Outcomes => c \in DueCalls
    BY DEF DueCalls
<1>10. PICK told \in SetToSeqs(N) : due' = told \o after
    BY DEF Update
<1>11. IsFiniteSet(N)
    BY NotificationsFinite DEF IInv
<1>. HIDE DEF N
<1>12. \/ due' = told
       \/ due' = told \o <<c>> /\ c \in DueCalls /\ call[t].state = "asked"
    <2>1. told \in Seq(N)
        BY <1>11, InAnyOrder
    <2>. QED
        BY <1>9, <1>10, <2>1, ConcatEmptySeq
<1>. HIDE DEF c
<1>13. /\ due' \in Seq(DueCalls)
       /\ \A i \in DOMAIN due' : \/ due'[i] \in N
                                  \/ /\ due'[i] = c /\ i = Len(due')
                                     /\ due' = told \o <<c>>
       /\ \A x \in N : \E i \in DOMAIN due' : due'[i] = x
       /\ \A i, j \in DOMAIN due' : due'[i] \in N /\ due'[i] = due'[j] => i = j
    <2>1. N \in SUBSET DueCalls /\ \A x \in N : x.kind = "notify"
        BY <1>8
    <2>2. PICK d : d = due'
        OBVIOUS
    <2>3. d = told \/ (d = told \o <<c>> /\ c \in DueCalls)
        BY <1>12, <2>2
    <2>4. /\ d \in Seq(DueCalls)
          /\ \A i \in DOMAIN d : \/ d[i] \in N
                                 \/ d[i] = c /\ i = Len(d) /\ d = told \o <<c>>
          /\ \A x \in N : \E i \in DOMAIN d : d[i] = x
          /\ \A i, j \in DOMAIN d : d[i] \in N /\ d[i] = d[j] => i = j
        BY <1>9, <1>11, <2>1, <2>3, DueAfter
    <2>. QED
        BY <2>2, <2>4
<1>14. \A i \in DOMAIN due' : due'[i].kind = "notify" => due'[i] \in N
    BY <1>9, <1>13
<1>15. \A s \in subscriptions, n \in Names : Concerns(s, n) => seen[s][n] = cache[n].value
    BY DEF IInv, SubscriberKnowsCache, IsDue
<1>16. SubscriberKnowsCache'
    <2>. SUFFICES ASSUME NEW s \in subscriptions, NEW n \in Names, Concerns(s, n),
                         ~IsDue(s, n)'
                  PROVE  seen[s][n] = cache'[n].value
        BY DEF SubscriberKnowsCache, Concerns
    <2>1. ~ToldOf(s, n, dp)
        <3>. SUFFICES ASSUME ToldOf(s, n, dp) PROVE FALSE
            OBVIOUS
        <3>1. Notify(s, n, dp) \in N
            BY NotificationsAre DEF N
        <3>2. Notify(s, n, dp).kind = "notify" /\ Notify(s, n, dp).to = s
              /\ Notify(s, n, dp).name = n
            BY DEF Notify
        <3>. QED
            BY <1>13, <3>1, <3>2 DEF IsDue
    <2>. QED
        BY <1>6, <1>7, <1>15, <2>1 DEF ToldOf
<1>17. ChangesChain'
    <2>. SUFFICES ASSUME NEW i \in DOMAIN due', due'[i].kind = "notify"
                  PROVE  /\ due'[i].old = seen[due'[i].to][due'[i].name]
                         /\ due'[i].old # due'[i].value
        BY DEF ChangesChain
    <2>1. PICK s \in subscriptions, n \in Names :
             /\ ToldOf(s, n, dp) /\ due'[i].to = s /\ due'[i].name = n
             /\ due'[i].old = cache[n].value /\ due'[i].old # due'[i].value
        BY <1>8, <1>14
    <2>. QED
        BY <1>15, <2>1 DEF ToldOf
<1>18. DueIsNews'
    <2>. SUFFICES ASSUME NEW i \in DOMAIN due', due'[i].kind = "notify"
                  PROVE  /\ due'[i].value = cache'[due'[i].name].value
                         /\ \A j \in DOMAIN due' : due'[j].kind = "notify"
                              /\ due'[j].to = due'[i].to
                              /\ due'[j].name = due'[i].name => i = j
        BY DEF DueIsNews
    <2>1. due'[i].value = cache'[due'[i].name].value
        BY <1>8, <1>14
    <2>2. \A j \in DOMAIN due' : due'[j].kind = "notify"
              /\ due'[j].to = due'[i].to /\ due'[j].name = due'[i].name
              => due'[j] = due'[i]
        BY <1>8, <1>14
    <2>. QED
        BY <1>13, <1>14, <2>1, <2>2
<1>19. CompletionLast'
    <2>1. \A i \in DOMAIN due' : due'[i].kind = "complete" =>
             due'[i] = c /\ i = Len(due') /\ due' = told \o <<c>>
        BY <1>8, <1>13
    <2>2. due' = told => \A i \in DOMAIN due' : due'[i] \in N
        <3>1. told \in Seq(N)
            BY <1>11, InAnyOrder
        <3>. QED
            BY <3>1, LenProperties, ElementOfSeq
    <2>3. \A i \in DOMAIN due' : due'[i].kind = "complete" => call[t].state = "asked"
        BY <1>8, <1>12, <2>2
    <2>. QED
        BY <1>9, <2>1, <2>3 DEF CompletionLast
<1>. QED
    BY <1>3, <1>4, <1>5, <1>13, <1>16, <1>17, <1>18, <1>19 DEF TellsInv
-----------------------------------------------------------------------------
(* The inductive step.                                                     *)

\* A response or report is taken from the wire of the connection.
LEMMA ReceiveKeepsInv ==
    ASSUME IInv, Receive
    PROVE  IInv'
<1>1. /\ due = <<>> /\ wire # <<>> /\ wire' = Tail(wire)
      /\ UNCHANGED <<connection, connections, calls, staged, subscriptions, seen>>
    BY DEF Receive
<1>2. PICK frame : frame = Head(wire)
    OBVIOUS
<1>3. wire' \in Seq(Frames) /\ frame \in Frames
    BY <1>1, <1>2, HeadTailProperties DEF IInv, TypeOK
<1>4. connection # 0 /\ frame.dp \in Snapshots
      /\ (frame.type = "response" => frame.outcome \in Outcomes)
    BY <1>1, <1>3 DEF IInv, WireNeedsConnection, Frames
<1>5. /\ WireNeedsConnection'
      /\ connection' \in 0..connections' /\ connections' \in 0..MaxConnections
      /\ call' \in [Threads -> CallStates] /\ next_id' \in 0..MaxRequests
      /\ staged' \in Snapshots /\ subscriptions' \subseteq Subscribers
      /\ seen' \in [Subscribers -> Snapshots]
    BY <1>1, <1>4 DEF IInv, TypeOK, WireNeedsConnection, calls
<1>6. ASSUME NEW t, NEW outcome, NEW after,
             \/ after = <<>>
             \/ /\ after = <<[kind |-> "complete", to |-> t,
                              outcome |-> outcome, dp |-> frame.dp]>>
                /\ t \in Threads /\ outcome \in Outcomes
                /\ call[t].state = "asked",
             Update(frame.dp, after)
      PROVE  IInv'
    <2>1. /\ cache' \in [Names -> [quality : {"Unknown", "Good", "Stale"},
                                   value : Values \cup {Absent},
                                   heard : 0..MaxConnections]]
          /\ \A n \in Names :
                (cache'[n].quality = "Unknown") <=> (cache'[n].value = Absent)
          /\ GoodIsOfThisConnection'
          /\ due' \in Seq(DueCalls)
          /\ TellsInv'
        BY <1>1, <1>4, <1>6, UpdateKeeps DEF calls
    <2>. QED
        BY <1>3, <1>5, <2>1 DEF IInv, TypeOK, TellsInv
<1>7. CASE frame.type = "dp_report" /\ Update(frame.dp, <<>>)
    BY <1>6, <1>7
<1>8. CASE /\ frame.type = "response"
           /\ \E t \in Threads :
                 /\ call[t].state = "asked" /\ call[t].id = frame.id
                 /\ Update(frame.dp, <<[kind |-> "complete", to |-> t,
                                        outcome |-> frame.outcome,
                                        dp |-> frame.dp]>>)
    BY <1>4, <1>6, <1>8
<1>9. CASE UNCHANGED <<cache, due>>
    <2>1. TellsInv'
        BY <1>1, <1>9, TellsUnchanged DEF IInv, TellsInv, calls, CompletionLast
    <2>2. GoodIsOfThisConnection'
        BY <1>1, <1>9 DEF IInv, GoodIsOfThisConnection
    <2>. QED
        BY <1>3, <1>5, <1>9, <2>1, <2>2 DEF IInv, TypeOK, TellsInv
<1>. QED
    BY <1>2, <1>7, <1>8, <1>9 DEF Receive

\* A call that was due is made: its callback now knows what the cache has.
LEMMA MakeCallKeepsInv ==
    ASSUME IInv, MakeCall
    PROVE  IInv'
<1>1. /\ due # <<>> /\ due' = Tail(due)
      /\ UNCHANGED <<network, next_id, cache, staged, subscriptions>>
    BY DEF MakeCall
<1>2. /\ due \in Seq(DueCalls) /\ Len(due) \in Nat /\ DOMAIN due = 1..Len(due)
      /\ Len(due) # 0
    BY <1>1, LenProperties, EmptySeq DEF IInv, TypeOK
<1>3. /\ due' \in Seq(DueCalls) /\ Len(due') = Len(due) - 1
      /\ DOMAIN due' = 1..(Len(due) - 1)
      /\ \A i \in DOMAIN due' : i + 1 \in DOMAIN due /\ due'[i] = due[i + 1]
    <2>1. /\ Tail(due) \in Seq(DueCalls) /\ Len(Tail(due)) = Len(due) - 1
          /\ \A i \in 1..Len(Tail(due)) : Tail(due)[i] = due[i + 1]
        BY <1>1, <1>2, HeadTailProperties
    <2>2. DOMAIN Tail(due) = 1..(Len(due) - 1)
        BY <2>1, LenProperties
    <2>. QED
        BY <1>1, <1>2, <2>1, <2>2
<1>4. PICK first : first = Head(due)
    OBVIOUS
<1>5. 1 \in DOMAIN due /\ first = due[1] /\ first \in DueCalls
    BY <1>1, <1>2, <1>4, HeadTailProperties
<1>6. GoodIsOfThisConnection' /\ WireNeedsConnection'
    BY <1>1 DEF IInv, GoodIsOfThisConnection, WireNeedsConnection, network
<1>7. CASE /\ first.kind = "notify"
           /\ seen' = [seen EXCEPT ![first.to][first.name] = first.value]
           /\ UNCHANGED call
    <2>1. first.to \in Subscribers /\ first.name \in Names /\ first.value \in Values
        BY <1>5, <1>7 DEF DueCalls
    <2>2. /\ seen' \in [Subscribers -> Snapshots]
          /\ \A s \in Subscribers, n \in Names :
                seen'[s][n] = IF s = first.to /\ n = first.name
                              THEN first.value ELSE seen[s][n]
        BY <1>7, <2>1 DEF IInv, TypeOK, Snapshots
    <2>3. first.value = cache[first.name].value
        BY <1>5, <1>7 DEF IInv, DueIsNews
    <2>4. TypeOK'
        BY <1>1, <1>3, <1>7, <2>2 DEF IInv, TypeOK, network
    <2>5. SubscriberKnowsCache'
        <3>. SUFFICES ASSUME NEW s \in subscriptions, NEW n \in Names, Concerns(s, n),
                             ~IsDue(s, n)'
                      PROVE  seen'[s][n] = cache[n].value
            BY <1>1 DEF SubscriberKnowsCache, Concerns
        <3>1. s \in Subscribers
            BY DEF IInv, TypeOK
        <3>2. CASE s = first.to /\ n = first.name
            BY <2>2, <2>3, <3>1, <3>2
        <3>3. CASE ~(s = first.to /\ n = first.name)
            <4>1. ASSUME NEW i \in DOMAIN due, due[i].kind = "notify",
                         due[i].to = s, due[i].name = n
                  PROVE  FALSE
                <5>1. i # 1
                    BY <1>5, <3>3, <4>1
                <5>2. i - 1 \in DOMAIN due' /\ due'[i - 1] = due[i]
                    BY <1>2, <1>3, <5>1
                <5>. QED
                    BY <4>1, <5>2 DEF IsDue
            <4>2. ~IsDue(s, n)
                BY <4>1 DEF IsDue
            <4>. QED
                BY <2>2, <3>1, <3>3, <4>2 DEF IInv, SubscriberKnowsCache
        <3>. QED
            BY <3>2, <3>3
    <2>6. \A i \in DOMAIN due' : due'[i].kind = "notify" =>
             /\ ~(due'[i].to = first.to /\ due'[i].name = first.name)
             /\ due'[i].to \in Subscribers /\ due'[i].name \in Names
        <3>. SUFFICES ASSUME NEW i \in DOMAIN due', due'[i].kind = "notify"
                      PROVE  /\ ~(due'[i].to = first.to /\ due'[i].name = first.name)
                             /\ due'[i].to \in Subscribers /\ due'[i].name \in Names
            OBVIOUS
        <3>1. i + 1 \in DOMAIN due /\ due'[i] = due[i + 1] /\ i + 1 # 1
            BY <1>2, <1>3
        <3>2. due'[i] \in DueCalls
            BY <1>2, <3>1, ElementOfSeq
        <3>. QED
            BY <1>5, <1>7, <3>1, <3>2 DEF IInv, DueIsNews, DueCalls
    <2>7. ChangesChain'
        BY <1>3, <2>2, <2>6 DEF IInv, ChangesChain
    <2>8. DueIsNews'
        <3>1. \A i, j \in DOMAIN due' : i + 1 = j + 1 => i = j
            BY <1>2, <1>3
        <3>. QED
            BY <1>1, <1>3, <3>1 DEF IInv, DueIsNews
    <2>9. CompletionLast'
        <3>1. \A i \in DOMAIN due' : i + 1 = Len(due) => i = Len(due')
            BY <1>2, <1>3
        <3>. QED
            BY <1>3, <1>7, <3>1 DEF IInv, CompletionLast
    <2>. QED
        BY <1>6, <2>4, <2>5, <2>7, <2>8, <2>9 DEF IInv
<1>8. CASE /\ first.kind = "complete"
           /\ call' = [call EXCEPT ![first.to] = Done(@, first.outcome, first.dp)]
           /\ UNCHANGED seen
    <2>1. /\ Len(due) = 1 /\ call[first.to].state = "asked"
          /\ first.to \in Threads /\ first.outcome \in Outcomes /\ first.dp \in Snapshots
        BY <1>5, <1>8 DEF IInv, CompletionLast, DueCalls
    <2>2. DOMAIN due' = {}
        BY <1>3, <2>1
    <2>3. call[first.to].purpose \in Purposes
        BY <2>1 DEF IInv, TypeOK, CallStates, Idle
    <2>4. Done(call[first.to], first.outcome, first.dp) \in CallStates
        <3>1. Nothing \in Snapshots
            BY DEF Nothing, Snapshots
        <3>. QED
            BY <2>1, <2>3, <3>1 DEF Done, CallStates
    <2>5. call' \in [Threads -> CallStates]
        BY <1>8, <2>1, <2>4 DEF IInv, TypeOK
    <2>6. TypeOK'
        BY <1>1, <1>3, <1>8, <2>5 DEF IInv, TypeOK, network
    <2>7. \A i \in DOMAIN due : due[i].kind # "notify"
        BY <1>2, <1>5, <1>8, <2>1
    <2>8. SubscriberKnowsCache'
        BY <1>1, <1>8, <2>7 DEF IInv, SubscriberKnowsCache, IsDue, Concerns
    <2>9. ChangesChain' /\ DueIsNews' /\ CompletionLast'
        BY <2>2 DEF ChangesChain, DueIsNews, CompletionLast
    <2>. QED
        BY <1>6, <2>6, <2>8, <2>9 DEF IInv
<1>. QED
    BY <1>4, <1>7, <1>8 DEF MakeCall
\* A call that gives up, is refused or returns has a place in CallStates.
LEMMA CallTypes ==
    /\ Nothing \in Snapshots
    /\ Idle \in CallStates /\ Idle.state = "idle"
    /\ \A c \in CallStates : c.state = "asked" =>
          /\ c.purpose \in Purposes /\ c.id \in Nat /\ c.dp \in Snapshots
          /\ Done(c, "error", Nothing) \in CallStates
    /\ \A purpose \in Purposes :
          Done([purpose |-> purpose], "error", Nothing) \in CallStates
    /\ \A purpose \in Purposes, id \in Nat, names \in SUBSET Names, dp \in Snapshots :
          Asked(purpose, id, names, dp) \in CallStates
<1>1. Nothing \in Snapshots
    BY DEF Nothing, Snapshots
<1>2. Idle \in CallStates /\ Idle.state = "idle"
    BY DEF Idle, CallStates
<1>3. \A c \in CallStates : c.state = "asked" =>
          c.purpose \in Purposes /\ c.id \in Nat /\ c.dp \in Snapshots
    BY DEF CallStates, Idle
<1>4. \A c \in CallStates : c.state = "asked" => Done(c, "error", Nothing) \in CallStates
    BY <1>1, <1>3 DEF Done, CallStates, Outcomes
<1>5. \A purpose \in Purposes : Done([purpose |-> purpose], "error", Nothing) \in CallStates
    BY <1>1 DEF Done, CallStates, Outcomes
<1>6. \A purpose \in Purposes, id \in Nat, names \in SUBSET Names, dp \in Snapshots :
          Asked(purpose, id, names, dp) \in CallStates
    BY DEF Asked, CallStates
<1>. QED
    BY <1>1, <1>2, <1>3, <1>4, <1>5, <1>6

\* The steps that touch neither the wire, the cache nor the subscribers.
LEMMA CallerKeepsInv ==
    ASSUME IInv, UNCHANGED <<network, cache, subscriptions, due, seen>>,
           call' \in [Threads -> CallStates], next_id' \in 0..MaxRequests,
           staged' \in Snapshots,
           \A t \in Threads : due # <<>> /\ call[t].state = "asked" => call'[t] = call[t]
    PROVE  IInv'
<1>1. TypeOK'
    BY DEF IInv, TypeOK, network
<1>2. GoodIsOfThisConnection' /\ WireNeedsConnection'
    BY DEF IInv, GoodIsOfThisConnection, WireNeedsConnection, network
<1>3. \A i \in DOMAIN due : due[i].kind = "complete" =>
          call'[due[i].to].state = "asked"
    <2>. SUFFICES ASSUME NEW i \in DOMAIN due, due[i].kind = "complete"
                  PROVE  call'[due[i].to].state = "asked"
        OBVIOUS
    <2>1. due # <<>>
        OBVIOUS
    <2>2. due[i] \in DueCalls
        BY LenProperties, ElementOfSeq DEF IInv, TypeOK
    <2>. QED
        BY <2>1, <2>2 DEF DueCalls, IInv, CompletionLast
<1>4. TellsInv'
    BY <1>3, TellsUnchanged DEF IInv, TellsInv
<1>. QED
    BY <1>1, <1>2, <1>4 DEF IInv, TellsInv

\* The steps that add a frame to the wire.
LEMMA DeviceKeepsInv ==
    ASSUME IInv, connection # 0, NEW frame \in Frames, wire' = Append(wire, frame),
           UNCHANGED <<connection, connections, calls, cache, staged, subscriptions,
                       due, seen>>
    PROVE  IInv'
<1>1. wire' \in Seq(Frames)
    BY AppendProperties DEF IInv, TypeOK
<1>2. TypeOK'
    BY <1>1 DEF IInv, TypeOK, calls
<1>3. GoodIsOfThisConnection' /\ WireNeedsConnection'
    BY DEF IInv, GoodIsOfThisConnection, WireNeedsConnection
<1>4. TellsInv'
    BY TellsUnchanged DEF IInv, TellsInv, calls, CompletionLast
<1>. QED
    BY <1>2, <1>3, <1>4 DEF IInv, TellsInv

LEMMA DeviceNext == IInv /\ Device => IInv'
<1>. SUFFICES ASSUME IInv, Device PROVE IInv'
    OBVIOUS
<1>1. ASSUME NEW names \in SUBSET Names \ {{}}, NEW dp \in Told(names), DeviceReports(dp)
      PROVE  IInv'
    <2>1. [type |-> "dp_report", dp |-> dp] \in Frames
        BY DEF Told, Frames
    <2>. QED
        BY <1>1, <2>1, DeviceKeepsInv DEF DeviceReports
<1>2. ASSUME NEW t \in Threads, NEW outcome \in Outcomes, NEW dp \in Snapshots,
             DeviceAnswers(t, outcome, dp)
      PROVE  IInv'
    <2>1. call[t].id \in Nat
        BY <1>2, CallTypes DEF DeviceAnswers, IInv, TypeOK
    <2>2. [type |-> "response", id |-> call[t].id, outcome |-> outcome, dp |-> dp] \in Frames
        BY <2>1 DEF Frames
    <2>. QED
        BY <1>2, <2>2, DeviceKeepsInv DEF DeviceAnswers
<1>3. ASSUME NEW t \in Threads, DeviceReads(t)
      PROVE  IInv'
    BY <1>2, <1>3 DEF DeviceReads, Told, Outcomes
<1>4. ASSUME NEW t \in Threads, DeviceWrites(t)
      PROVE  IInv'
    <2>1. call[t].dp \in Snapshots /\ Nothing \in Snapshots
        BY <1>4, CallTypes DEF DeviceWrites, IInv, TypeOK
    <2>. QED
        BY <1>2, <1>4, <2>1 DEF DeviceWrites, Outcomes
<1>5. CASE Connect
    <2>1. /\ connection = 0 /\ connections' = connections + 1
          /\ connections < MaxConnections /\ connection' = connections'
          /\ UNCHANGED <<wire, calls, cache, staged, subscriptions, due, seen>>
        BY <1>5 DEF Connect
    <2>2. TypeOK'
        <3>1. connection' \in 0..connections' /\ connections' \in 0..MaxConnections
            BY <2>1, ManagerAssumption DEF IInv, TypeOK
        <3>. QED
            BY <2>1, <3>1 DEF IInv, TypeOK, calls
    <2>3. GoodIsOfThisConnection' /\ WireNeedsConnection'
        <3>1. connection' # 0
            BY <2>1 DEF IInv, TypeOK
        <3>. QED
            BY <2>1, <3>1 DEF IInv, GoodIsOfThisConnection, WireNeedsConnection
    <2>4. TellsInv'
        BY <2>1, TellsUnchanged DEF IInv, TellsInv, calls, CompletionLast
    <2>. QED
        BY <2>2, <2>3, <2>4 DEF IInv, TellsInv
<1>. QED
    BY <1>1, <1>3, <1>4, <1>5 DEF Device

LEMMA IoThreadNext == IInv /\ IoThread => IInv'
<1>. SUFFICES ASSUME IInv, IoThread PROVE IInv'
    OBVIOUS
<1>1. ASSUME NEW t \in Threads, RequestFails(t)
      PROVE  IInv'
    <2>1. /\ due = <<>> /\ call[t].state = "asked"
          /\ call' = [call EXCEPT ![t] = Done(@, "error", Nothing)]
          /\ UNCHANGED <<network, next_id, cache, staged, subscriptions, due, seen>>
        BY <1>1 DEF RequestFails
    <2>2. call' \in [Threads -> CallStates]
        BY <2>1, CallTypes DEF IInv, TypeOK
    <2>. QED
        BY <2>1, <2>2, CallerKeepsInv DEF IInv, TypeOK
<1>2. CASE Disconnect
    <2>1. /\ due = <<>> /\ connection' = 0 /\ wire' = <<>>
          /\ UNCHANGED <<connections, next_id, staged, subscriptions, due, seen>>
        BY <1>2 DEF Disconnect
    <2>2. cache' \in [Names -> [quality : {"Unknown", "Good", "Stale"},
                                value : Values \cup {Absent},
                                heard : 0..MaxConnections]]
        BY <1>2 DEF Disconnect, StaleCache, IInv, TypeOK
    <2>3. \A n \in Names : cache'[n].value = cache[n].value
        BY <1>2 DEF Disconnect, StaleCache, IInv, TypeOK
    <2>4. \A n \in Names : cache'[n].quality # "Good"
        BY <1>2 DEF Disconnect, StaleCache, IInv, TypeOK
    <2>5. \A n \in Names : (cache'[n].quality = "Unknown") <=> (cache'[n].value = Absent)
        BY <1>2 DEF Disconnect, StaleCache, IInv, TypeOK
    <2>6. call' \in [Threads -> CallStates]
        BY <1>2, CallTypes DEF Disconnect, IInv, TypeOK
    <2>7. TypeOK'
        <3>1. connection' \in 0..connections'
            BY <2>1 DEF IInv, TypeOK
        <3>2. wire' \in Seq(Frames)
            BY <2>1, EmptySeq
        <3>. QED
            BY <2>1, <2>2, <2>5, <2>6, <3>1, <3>2 DEF IInv, TypeOK
    <2>8. GoodIsOfThisConnection'
        BY <2>4 DEF GoodIsOfThisConnection
    <2>9. WireNeedsConnection'
        BY <2>1 DEF WireNeedsConnection
    <2>10. TellsInv'
        BY <2>1, <2>3, TellsUnchanged DEF IInv, TellsInv
    <2>. QED
        BY <2>7, <2>8, <2>9, <2>10 DEF IInv, TellsInv
<1>. QED
    BY <1>1, <1>2, ReceiveKeepsInv, MakeCallKeepsInv DEF IoThread

LEMMA ApplicationNext == IInv /\ Application => IInv'
<1>. SUFFICES ASSUME IInv, Application PROVE IInv'
    OBVIOUS
<1>1. ASSUME NEW t \in Threads, NEW purpose \in Purposes, NEW names \in SUBSET Names,
             NEW dp \in Snapshots, call[t] = Idle, Ask(t, purpose, names, dp),
             UNCHANGED <<network, cache, staged, subscriptions, due, seen>>
      PROVE  IInv'
    <2>1. /\ next_id' \in 0..MaxRequests /\ next_id' \in Nat
          /\ call' = [call EXCEPT ![t] = Asked(purpose, next_id', names, dp)]
        BY <1>1, ManagerAssumption DEF Ask, IInv, TypeOK
    <2>2. call' \in [Threads -> CallStates]
        BY <2>1, CallTypes DEF IInv, TypeOK
    <2>3. \A u \in Threads : call[u].state = "asked" => call'[u] = call[u]
        BY <1>1, <2>1, CallTypes DEF IInv, TypeOK
    <2>. QED
        BY <1>1, <2>1, <2>2, <2>3, CallerKeepsInv DEF IInv, TypeOK
<1>2. ASSUME NEW t \in Threads, NEW purpose \in Purposes, call[t] = Idle, Refuse(t, purpose),
             UNCHANGED <<network, cache, staged, subscriptions, due, seen>>
      PROVE  IInv'
    <2>1. /\ next_id' = next_id
          /\ call' = [call EXCEPT ![t] = Done([purpose |-> purpose], "error", Nothing)]
        BY <1>2 DEF Refuse
    <2>2. call' \in [Threads -> CallStates]
        BY <2>1, CallTypes DEF IInv, TypeOK
    <2>3. \A u \in Threads : call[u].state = "asked" => call'[u] = call[u]
        BY <1>2, <2>1, CallTypes DEF IInv, TypeOK
    <2>. QED
        BY <1>2, <2>1, <2>2, <2>3, CallerKeepsInv DEF IInv, TypeOK
<1>3. ASSUME NEW t \in Threads, NEW names \in SUBSET Names, Read(t, "read", names)
      PROVE  IInv'
    BY <1>1, <1>2, <1>3, CallTypes DEF Read, Purposes
<1>4. ASSUME NEW t \in Threads, NEW purpose \in Purposes, NEW dp \in Snapshots,
             Write(t, purpose, dp)
      PROVE  IInv'
    BY <1>1, <1>2, <1>4 DEF Write
<1>5. ASSUME NEW t \in Threads, NEW n \in Writable, NEW v \in Values,
             Write(t, "write", [Nothing EXCEPT ![n] = v])
      PROVE  IInv'
    <2>1. [Nothing EXCEPT ![n] = v] \in Snapshots
        BY ManagerAssumption DEF Nothing, Snapshots
    <2>. QED
        BY <1>4, <1>5, <2>1 DEF Purposes
<1>6. ASSUME NEW n \in Names, NEW v \in Values, Stage(n, v)
      PROVE  IInv'
    <2>1. staged' \in Snapshots
        BY <1>6 DEF Stage, Snapshots, IInv, TypeOK
    <2>. QED
        BY <1>6, <2>1, CallerKeepsInv DEF Stage, calls, IInv, TypeOK
<1>7. ASSUME NEW t \in Threads, Commit(t)
      PROVE  IInv'
    BY <1>4, <1>7 DEF Commit, Purposes, IInv, TypeOK
<1>8. ASSUME NEW t \in Threads, Return(t)
      PROVE  IInv'
    <2>1. /\ call[t].state = "done" /\ call' = [call EXCEPT ![t] = Idle]
          /\ staged' \in Snapshots
          /\ UNCHANGED <<network, next_id, cache, subscriptions, due, seen>>
        BY <1>8, CallTypes DEF Return, IInv, TypeOK
    <2>2. /\ call' \in [Threads -> CallStates]
          /\ \A u \in Threads : call[u].state = "asked" => call'[u] = call[u]
        BY <2>1, CallTypes DEF IInv, TypeOK
    <2>. QED
        BY <2>1, <2>2, CallerKeepsInv DEF IInv, TypeOK
<1>9. CASE DiscardStaged
    BY <1>9, CallTypes, CallerKeepsInv DEF DiscardStaged, calls, IInv, TypeOK
<1>10. ASSUME NEW s \in Subscribers, Subscribe(s)
       PROVE  IInv'
    <2>1. /\ \A i \in DOMAIN due : due[i].to # s
          /\ subscriptions' = subscriptions \cup {s}
          /\ seen' = [seen EXCEPT ![s] = [n \in Names |-> cache[n].value]]
          /\ UNCHANGED <<network, calls, cache, staged, due>>
        BY <1>10 DEF Subscribe
    <2>2. /\ seen' \in [Subscribers -> Snapshots]
          /\ \A n \in Names : seen'[s][n] = cache[n].value
          /\ \A x \in Subscribers \ {s} : seen'[x] = seen[x]
        <3>1. [n \in Names |-> cache[n].value] \in Snapshots
            BY DEF Snapshots, IInv, TypeOK
        <3>. QED
            BY <2>1, <3>1 DEF IInv, TypeOK
    <2>3. TypeOK'
        BY <2>1, <2>2 DEF IInv, TypeOK, network, calls
    <2>4. GoodIsOfThisConnection' /\ WireNeedsConnection'
        BY <2>1 DEF IInv, GoodIsOfThisConnection, WireNeedsConnection, network
    <2>5. SubscriberKnowsCache'
        BY <2>1, <2>2 DEF IInv, TypeOK, SubscriberKnowsCache, IsDue, Concerns
    <2>6. ChangesChain'
        <3>1. \A i \in DOMAIN due : due[i].kind = "notify" =>
                  due[i].to \in Subscribers \ {s}
            <4>1. \A i \in DOMAIN due : due[i] \in DueCalls
                BY LenProperties, ElementOfSeq DEF IInv, TypeOK
            <4>. QED
                BY <2>1, <4>1 DEF DueCalls
        <3>. QED
            BY <2>1, <2>2, <3>1 DEF IInv, ChangesChain
    <2>7. DueIsNews' /\ CompletionLast'
        BY <2>1 DEF IInv, DueIsNews, CompletionLast, calls
    <2>. QED
        BY <2>3, <2>4, <2>5, <2>6, <2>7 DEF IInv
<1>11. ASSUME NEW s \in Subscribers, Unsubscribe(s)
       PROVE  IInv'
    <2>1. /\ subscriptions' \in SUBSET subscriptions
          /\ UNCHANGED <<network, calls, cache, staged, due, seen>>
        BY <1>11 DEF Unsubscribe
    <2>2. TypeOK'
        BY <2>1 DEF IInv, TypeOK, network, calls
    <2>3. GoodIsOfThisConnection' /\ WireNeedsConnection'
        BY <2>1 DEF IInv, GoodIsOfThisConnection, WireNeedsConnection, network
    <2>4. TellsInv'
        BY <2>1, TellsUnchanged DEF IInv, TellsInv, calls, CompletionLast
    <2>. QED
        BY <2>2, <2>3, <2>4 DEF IInv, TellsInv
<1>. QED
    BY <1>3, <1>5, <1>6, <1>7, <1>8, <1>9, <1>10, <1>11 DEF Application

LEMMA InitInv == Init => IInv
<1>. SUFFICES ASSUME Init PROVE IInv
    OBVIOUS
<1>1. TypeOK
    BY ManagerAssumption, CallTypes, EmptySeq DEF Init, TypeOK
<1>2. GoodIsOfThisConnection /\ WireNeedsConnection /\ SubscriberKnowsCache
    BY DEF Init, GoodIsOfThisConnection, WireNeedsConnection, SubscriberKnowsCache
<1>3. ChangesChain /\ DueIsNews /\ CompletionLast
    BY DEF Init, ChangesChain, DueIsNews, CompletionLast
<1>. QED
    BY <1>1, <1>2, <1>3 DEF IInv

LEMMA NextInv == IInv /\ [Next]_vars => IInv'
<1>1. IInv /\ UNCHANGED vars => IInv'
    <2>. SUFFICES ASSUME IInv, UNCHANGED vars PROVE IInv'
        OBVIOUS
    <2>1. UNCHANGED <<network, call, next_id, cache, staged, subscriptions, due, seen>>
        BY DEF vars, calls
    <2>. QED
        BY <2>1, CallerKeepsInv DEF IInv, TypeOK
<1>. QED
    BY <1>1, IoThreadNext, DeviceNext, ApplicationNext DEF Next

\* The inductive invariant holds in every reachable state.
THEOREM Invariance == Spec => []IInv
    BY InitInv, NextInv, PTL DEF Spec

\* The cache is honest about its values: whatever reads, writes, reports and
\* disconnects interleave, a value called Good was received on the
\* connection that exists now, and Unknown is only what never was received
\* (update_cache(), mark_all_stale()).
THEOREM CacheIsHonest == Spec => []CacheSound
<1>1. IInv => CacheSound
    BY DEF IInv, CacheSound
<1>. QED
    BY <1>1, Invariance, PTL

\* For any number of subscribers, names and threads, no change is missed,
\* told twice or told with a wrong old value, also when a subscription
\* begins or ends between an update and its calls (update_cache(),
\* subscribe_raw()).
THEOREM ChangesAreTold == Spec => []TellsChanges
<1>1. IInv => TellsChanges
    BY DEF IInv, TellsChanges
<1>. QED
    BY <1>1, Invariance, PTL

-----------------------------------------------------------------------------
(* The staging.                                                            *)

\* Steps at which calls end without an answer, or do not end, and nothing is
\* staged.
LEMMA CallsEndStaging ==
    ASSUME IInv, StagingInv,
           late' \in [Threads -> SUBSET Names],
           \A u \in Threads : \/ call'[u] = call[u] /\ late'[u] = late[u]
                              \/ call'[u].state = "idle" /\ call'[u] = Idle
                              \/ call'[u].state = "done" /\ call'[u].outcome = "error",
           \A u \in Threads : due # <<>> /\ call[u].state = "asked" => call'[u] = call[u],
           wire' = wire \/ wire' = <<>>,
           due' = due, next_id' = next_id,
           \A n \in Names : staged'[n] # Absent => staged'[n] = staged[n]
    PROVE  StagingInv'
<1>1. RequestsNumbered'
    BY DEF StagingInv, RequestsNumbered
<1>2. AnswersFit'
    BY DEF StagingInv, AnswersFit
<1>3. CompletionFits'
    <2>. SUFFICES ASSUME NEW i \in DOMAIN due, due[i].kind = "complete",
                         due[i].outcome = "applied"
                  PROVE  due[i].dp = call'[due[i].to].dp
        BY DEF CompletionFits
    <2>1. due # <<>>
        OBVIOUS
    <2>2. due[i] \in DueCalls
        BY LenProperties, ElementOfSeq DEF IInv, TypeOK
    <2>3. due[i].to \in Threads /\ call[due[i].to].state = "asked"
        BY <2>2 DEF DueCalls, IInv, CompletionLast
    <2>. QED
        BY <2>1, <2>3 DEF StagingInv, CompletionFits
<1>4. CopyIsStaged'
    <2>. SUFFICES ASSUME NEW t \in Threads, NEW n \in Names, Committing(t)',
                         call'[t].state = "done" => call'[t].outcome = "applied",
                         staged'[n] # Absent
                  PROVE  call'[t].dp[n] = staged'[n] \/ n \in late'[t]
        BY DEF CopyIsStaged
    <2>1. call'[t] = call[t] /\ late'[t] = late[t]
        BY DEF Committing
    <2>. QED
        BY <2>1 DEF StagingInv, CopyIsStaged, Committing
<1>. QED
    BY <1>1, <1>2, <1>3, <1>4 DEF StagingInv

\* A frame comes onto the wire: a report, or the answer to a request that
\* repeats what it was asked to write.
LEMMA DeviceStaging ==
    ASSUME IInv, StagingInv, NEW frame, wire' = Append(wire, frame),
           UNCHANGED <<calls, staged, late, due>>,
           \/ frame.type = "dp_report"
           \/ \E t \in Threads : /\ call[t].state = "asked" /\ frame.id = call[t].id
                                 /\ frame.outcome = "applied" => frame.dp = call[t].dp
    PROVE  StagingInv'
<1>1. call' = call /\ next_id' = next_id
    BY DEF calls
<1>2. /\ Len(wire) \in Nat /\ DOMAIN wire = 1..Len(wire)
      /\ DOMAIN wire' = 1..(Len(wire) + 1)
      /\ wire'[Len(wire) + 1] = frame
      /\ \A i \in DOMAIN wire : wire'[i] = wire[i]
    <2>1. wire \in Seq(Frames) /\ wire \in Seq(Frames \cup {frame})
        BY SeqMonotonic DEF IInv, TypeOK
    <2>. QED
        BY <2>1, LenProperties, AppendProperties
<1>3. AnswersFit'
    <2>. SUFFICES ASSUME NEW i \in DOMAIN wire', wire'[i].type = "response"
                  PROVE  /\ wire'[i].id <= next_id
                         /\ wire'[i].outcome = "applied" =>
                               \A t \in Threads :
                                   call[t].state = "asked" /\ call[t].id = wire'[i].id =>
                                       wire'[i].dp = call[t].dp
        BY <1>1 DEF AnswersFit
    <2>1. CASE i \in DOMAIN wire
        BY <1>2, <2>1 DEF StagingInv, AnswersFit
    <2>2. CASE i \notin DOMAIN wire
        <3>1. wire'[i] = frame
            BY <1>2, <2>2
        <3>2. PICK t \in Threads :
                  /\ call[t].state = "asked" /\ frame.id = call[t].id
                  /\ frame.outcome = "applied" => frame.dp = call[t].dp
            BY <3>1
        <3>. QED
            BY <3>1, <3>2 DEF StagingInv, RequestsNumbered
    <2>. QED
        BY <2>1, <2>2
<1>. QED
    BY <1>1, <1>3 DEF StagingInv, RequestsNumbered, CompletionFits, CopyIsStaged,
                      Committing

\* The IO thread takes a frame: the completion that becomes due repeats what
\* the response said.
LEMMA ReceiveStaging ==
    ASSUME IInv, StagingInv, Receive
    PROVE  StagingInv'
<1>1. /\ due = <<>> /\ wire # <<>> /\ wire' = Tail(wire)
      /\ UNCHANGED <<calls, staged, late>>
      /\ call' = call /\ next_id' = next_id
    BY DEF Receive, calls
<1>2. PICK frame : frame = Head(wire)
    OBVIOUS
<1>3. /\ frame \in Frames /\ frame = wire[1] /\ 1 \in DOMAIN wire
      /\ \A i \in DOMAIN wire' : i + 1 \in DOMAIN wire /\ wire'[i] = wire[i + 1]
    <2>1. /\ wire \in Seq(Frames) /\ Len(wire) \in Nat /\ DOMAIN wire = 1..Len(wire)
          /\ Len(wire) # 0
        BY <1>1, LenProperties, EmptySeq DEF IInv, TypeOK
    <2>2. /\ Tail(wire) \in Seq(Frames) /\ Len(Tail(wire)) = Len(wire) - 1
          /\ \A i \in 1..Len(Tail(wire)) : Tail(wire)[i] = wire[i + 1]
          /\ frame \in Frames /\ frame = wire[1]
        BY <1>1, <1>2, <2>1, HeadTailProperties
    <2>3. DOMAIN Tail(wire) = 1..(Len(wire) - 1)
        BY <2>2, LenProperties
    <2>. QED
        BY <1>1, <2>1, <2>2, <2>3
<1>4. AnswersFit'
    BY <1>1, <1>3 DEF StagingInv, AnswersFit
<1>5. RequestsNumbered' /\ CopyIsStaged' /\ late' \in [Threads -> SUBSET Names]
    BY <1>1 DEF StagingInv, RequestsNumbered, CopyIsStaged, Committing
<1>6. ASSUME NEW c, c.kind = "complete", NEW after,
             after = <<>> \/ (after = <<c>> /\ c \in DueCalls),
             Update(frame.dp, after)
      PROVE  \A i \in DOMAIN due' : due'[i].kind = "complete" =>
                 due'[i] = c /\ after = <<c>>
    <2>1. PICK told \in SetToSeqs(Notifications(frame.dp)) : due' = told \o after
        BY <1>6 DEF Update
    <2>2. frame.dp \in Snapshots
        BY <1>3 DEF Frames
    <2>3. /\ \A x \in Notifications(frame.dp) : x \in DueCalls /\ x.kind = "notify"
          /\ IsFiniteSet(Notifications(frame.dp))
        <3>1. ASSUME NEW x \in Notifications(frame.dp)
              PROVE  x \in DueCalls /\ x.kind = "notify"
            <4>1. PICK s \in subscriptions, n \in Names :
                      ToldOf(s, n, frame.dp) /\ x = Notify(s, n, frame.dp)
                BY NotificationsAre
            <4>2. /\ s \in Subscribers /\ frame.dp[n] \in Values
                  /\ OldValue(cache[n], frame.dp[n]) \in Values \cup {Absent}
                BY <2>2, <4>1 DEF ToldOf, OldValue, Snapshots, IInv, TypeOK
            <4>. QED
                BY <4>1, <4>2 DEF Notify, DueCalls
        <3>. QED
            BY <3>1, NotificationsFinite DEF IInv
    <2>4. told \in Seq(DueCalls)
        BY <2>3, InAnyOrder, SeqMonotonic
    <2>5. due' = told \/ (due' = told \o <<c>> /\ c \in DueCalls)
        BY <1>6, <2>1, <2>4
    <2>6. \A i \in DOMAIN due' : \/ due'[i] \in Notifications(frame.dp)
                                 \/ due'[i] = c /\ due' = told \o <<c>>
        BY <1>6, <2>3, <2>5, DueAfter
    <2>7. after = <<>> => due' = told
        BY <2>1, <2>4
    <2>8. \A i \in DOMAIN told : told[i] \in Notifications(frame.dp)
        BY <2>3, InAnyOrder, LenProperties, ElementOfSeq
    <2>. QED
        BY <1>6, <2>3, <2>6, <2>7, <2>8
<1>7. CompletionFits'
    <2>1. CASE frame.type = "dp_report" /\ Update(frame.dp, <<>>)
        <3>. DEFINE c == [kind |-> "complete"]
        <3>1. c.kind = "complete" /\ <<>> # <<c>>
            OBVIOUS
        <3>. HIDE DEF c
        <3>2. \A i \in DOMAIN due' : due'[i].kind # "complete"
            BY <1>6, <2>1, <3>1
        <3>. QED
            BY <3>2 DEF CompletionFits
    <2>2. ASSUME frame.type = "response", NEW t \in Threads,
                 call[t].state = "asked", call[t].id = frame.id,
                 Update(frame.dp, <<[kind |-> "complete", to |-> t,
                                     outcome |-> frame.outcome, dp |-> frame.dp]>>)
          PROVE  CompletionFits'
        <3>. DEFINE c == [kind |-> "complete", to |-> t,
                          outcome |-> frame.outcome, dp |-> frame.dp]
        <3>1. /\ c.kind = "complete" /\ c \in DueCalls /\ c.to = t
              /\ c.outcome = frame.outcome /\ c.dp = frame.dp
              /\ Update(frame.dp, <<c>>)
            BY <1>3, <2>2 DEF Frames, DueCalls
        <3>. HIDE DEF c
        <3>2. \A i \in DOMAIN due' : due'[i].kind = "complete" => due'[i] = c
            BY <1>6, <3>1
        <3>3. frame.outcome = "applied" => frame.dp = call[t].dp
            BY <1>3, <2>2 DEF StagingInv, AnswersFit
        <3>. QED
            BY <1>1, <3>1, <3>2, <3>3 DEF CompletionFits
    <2>3. CASE UNCHANGED <<cache, due>>
        BY <1>1, <2>3 DEF CompletionFits
    <2>. QED
        BY <1>2, <2>1, <2>2, <2>3 DEF Receive
<1>. QED
    BY <1>4, <1>5, <1>7 DEF StagingInv

\* A completion hands on what was read back.
LEMMA MakeCallStaging ==
    ASSUME IInv, StagingInv, MakeCall
    PROVE  StagingInv'
<1>1. /\ due # <<>> /\ due' = Tail(due)
      /\ UNCHANGED <<wire, next_id, staged, late>>
    BY DEF MakeCall, network
<1>2. /\ due \in Seq(DueCalls) /\ Len(due) \in Nat /\ DOMAIN due = 1..Len(due)
      /\ Len(due) # 0
    BY <1>1, LenProperties, EmptySeq DEF IInv, TypeOK
<1>3. /\ DOMAIN due' = 1..(Len(due) - 1)
      /\ \A i \in DOMAIN due' : i + 1 \in DOMAIN due /\ due'[i] = due[i + 1]
    <2>1. /\ Tail(due) \in Seq(DueCalls) /\ Len(Tail(due)) = Len(due) - 1
          /\ \A i \in 1..Len(Tail(due)) : Tail(due)[i] = due[i + 1]
        BY <1>1, <1>2, HeadTailProperties
    <2>2. DOMAIN Tail(due) = 1..(Len(due) - 1)
        BY <2>1, LenProperties
    <2>. QED
        BY <1>1, <1>2, <2>1, <2>2
<1>4. PICK first : first = Head(due)
    OBVIOUS
<1>5. 1 \in DOMAIN due /\ first = due[1] /\ first \in DueCalls
    BY <1>1, <1>2, <1>4, HeadTailProperties
<1>6. CASE call' = call
    <2>1. CompletionFits'
        BY <1>3, <1>6 DEF StagingInv, CompletionFits
    <2>. QED
        BY <1>1, <1>6, <2>1 DEF StagingInv, RequestsNumbered, AnswersFit, CopyIsStaged,
                                Committing
<1>7. CASE /\ first.kind = "complete"
           /\ call' = [call EXCEPT ![first.to] = Done(@, first.outcome, first.dp)]
    <2>1. /\ Len(due) = 1 /\ call[first.to].state = "asked"
          /\ first.to \in Threads
        BY <1>5, <1>7 DEF IInv, CompletionLast, DueCalls
    <2>2. DOMAIN due' = {}
        BY <1>3, <2>1
    <2>3. first.outcome = "applied" => first.dp = call[first.to].dp
        BY <1>5, <1>7 DEF StagingInv, CompletionFits
    <2>4. /\ \A u \in Threads \ {first.to} : call'[u] = call[u]
          /\ call'[first.to].state = "done"
          /\ call'[first.to].purpose = call[first.to].purpose
          /\ call'[first.to].outcome = first.outcome
          /\ call[first.to].purpose = "commit" => call'[first.to].dp = first.dp
        BY <1>7, <2>1 DEF IInv, TypeOK, Done
    <2>5. RequestsNumbered' /\ AnswersFit'
        BY <1>1, <2>4 DEF StagingInv, RequestsNumbered, AnswersFit
    <2>6. CompletionFits'
        BY <2>2 DEF CompletionFits
    <2>7. CopyIsStaged'
        <3>. SUFFICES ASSUME NEW t \in Threads, NEW n \in Names, Committing(t)',
                             call'[t].state = "done" => call'[t].outcome = "applied",
                             staged[n] # Absent
                      PROVE  call'[t].dp[n] = staged[n] \/ n \in late[t]
            BY <1>1 DEF CopyIsStaged
        <3>1. CASE t # first.to
            BY <2>4, <3>1 DEF StagingInv, CopyIsStaged, Committing
        <3>2. CASE t = first.to
            <4>1. call[t] # Idle
                BY <2>1, <3>2, CallTypes
            <4>2. call[t].purpose = "commit" /\ call'[t].dp = call[t].dp
                BY <2>3, <2>4, <3>2 DEF Committing
            <4>. QED
                BY <2>1, <3>2, <4>1, <4>2 DEF StagingInv, CopyIsStaged, Committing
        <3>. QED
            BY <3>1, <3>2
    <2>. QED
        BY <1>1, <2>5, <2>6, <2>7 DEF StagingInv
<1>. QED
    BY <1>4, <1>6, <1>7 DEF MakeCall

\* A new request has a number of its own, and a commit asks for what is
\* staged.
LEMMA AskStaging ==
    ASSUME IInv, StagingInv, NEW t \in Threads, NEW purpose \in Purposes,
           NEW names \in SUBSET Names, NEW dp \in Snapshots, call[t] = Idle,
           purpose = "commit" => dp = staged,
           Ask(t, purpose, names, dp), UNCHANGED <<wire, staged, late, due>>
    PROVE  StagingInv'
<1>1. next_id \in Nat /\ next_id' = next_id + 1
    BY ManagerAssumption DEF Ask, IInv, TypeOK
<1>2. /\ \A u \in Threads \ {t} : call'[u] = call[u]
      /\ call'[t].state = "asked" /\ call'[t].id = next_id + 1
      /\ call'[t].dp = dp /\ call'[t].purpose = purpose
    BY <1>1 DEF Ask, Asked, IInv, TypeOK
<1>3. \A u \in Threads : call[u].state = "asked" => u # t /\ call[u].id \in Nat
    BY CallTypes DEF IInv, TypeOK
<1>4. RequestsNumbered'
    BY <1>1, <1>2, <1>3 DEF StagingInv, RequestsNumbered
<1>5. AnswersFit'
    <2>1. \A i \in DOMAIN wire : wire[i].type = "response" => wire[i].id \in Nat
        <3>1. \A i \in DOMAIN wire : wire[i] \in Frames
            BY LenProperties, ElementOfSeq DEF IInv, TypeOK
        <3>. QED
            BY <3>1 DEF Frames
    <2>2. \A i \in DOMAIN wire : wire[i].type = "response" =>
              wire[i].id <= next_id /\ wire[i].id # next_id + 1
        BY <1>1, <2>1 DEF StagingInv, AnswersFit
    <2>. QED
        BY <1>1, <1>2, <2>1, <2>2 DEF StagingInv, AnswersFit
<1>6. CompletionFits'
    <2>1. \A i \in DOMAIN due : due[i].kind = "complete" =>
              due[i].to \in Threads \ {t}
        <3>1. \A i \in DOMAIN due : due[i] \in DueCalls
            BY LenProperties, ElementOfSeq DEF IInv, TypeOK
        <3>. QED
            BY <1>3, <3>1 DEF IInv, CompletionLast, DueCalls
    <2>. QED
        BY <1>2, <2>1 DEF StagingInv, CompletionFits
<1>7. CopyIsStaged'
    BY <1>2 DEF StagingInv, CopyIsStaged, Committing
<1>. QED
    BY <1>4, <1>5, <1>6, <1>7 DEF StagingInv

LEMMA StagingInit == Init => StagingInv
    BY CallTypes DEF Init, StagingInv, RequestsNumbered, AnswersFit, CompletionFits,
                     CopyIsStaged, Committing

LEMMA StagingIoThread == IInv /\ StagingInv /\ IoThread => StagingInv'
<1>. SUFFICES ASSUME IInv, StagingInv, IoThread PROVE StagingInv'
    OBVIOUS
<1>1. ASSUME NEW t \in Threads, RequestFails(t) PROVE StagingInv'
    <2>1. /\ \A u \in Threads \ {t} : call'[u] = call[u]
          /\ call'[t].state = "done" /\ call'[t].outcome = "error"
          /\ UNCHANGED <<wire, next_id, staged, late, due>> /\ due = <<>>
        BY <1>1 DEF RequestFails, Done, IInv, TypeOK, network
    <2>. QED
        BY <2>1, CallsEndStaging DEF StagingInv
<1>2. CASE Disconnect
    <2>1. /\ \A u \in Threads : \/ call'[u] = call[u]
                                \/ call'[u].state = "done" /\ call'[u].outcome = "error"
          /\ UNCHANGED <<next_id, staged, late, due>> /\ due = <<>> /\ wire' = <<>>
        BY <1>2 DEF Disconnect, Done, IInv, TypeOK
    <2>. QED
        BY <2>1, CallsEndStaging DEF StagingInv
<1>. QED
    BY <1>1, <1>2, ReceiveStaging, MakeCallStaging DEF IoThread

LEMMA StagingDevice == IInv /\ StagingInv /\ Device => StagingInv'
<1>. SUFFICES ASSUME IInv, StagingInv, Device PROVE StagingInv'
    OBVIOUS
<1>1. ASSUME NEW dp, DeviceReports(dp) PROVE StagingInv'
    <2>. DEFINE frame == [type |-> "dp_report", dp |-> dp]
    <2>1. frame.type = "dp_report" /\ wire' = Append(wire, frame)
          /\ UNCHANGED <<calls, staged, late, due>>
        BY <1>1 DEF DeviceReports
    <2>. HIDE DEF frame
    <2>. QED
        BY <2>1, DeviceStaging
<1>2. ASSUME NEW t \in Threads, NEW outcome, NEW dp, DeviceAnswers(t, outcome, dp),
             outcome = "applied" => dp = call[t].dp
      PROVE  StagingInv'
    <2>. DEFINE frame == [type |-> "response", id |-> call[t].id,
                          outcome |-> outcome, dp |-> dp]
    <2>1. /\ frame.id = call[t].id /\ call[t].state = "asked"
          /\ frame.outcome = "applied" => frame.dp = call[t].dp
          /\ wire' = Append(wire, frame)
          /\ UNCHANGED <<calls, staged, late, due>>
        BY <1>2 DEF DeviceAnswers
    <2>. HIDE DEF frame
    <2>. QED
        BY <2>1, DeviceStaging
<1>3. ASSUME NEW t \in Threads, DeviceReads(t) PROVE StagingInv'
    BY <1>2, <1>3 DEF DeviceReads
<1>4. ASSUME NEW t \in Threads, DeviceWrites(t) PROVE StagingInv'
    BY <1>2, <1>4 DEF DeviceWrites
<1>5. CASE Connect
    <2>1. UNCHANGED <<wire, call, next_id, staged, late, due>>
        BY <1>5 DEF Connect, calls
    <2>. QED
        BY <2>1, CallsEndStaging DEF StagingInv
<1>. QED
    BY <1>1, <1>3, <1>4, <1>5 DEF Device

LEMMA StagingApplication == IInv /\ StagingInv /\ Application => StagingInv'
<1>. SUFFICES ASSUME IInv, StagingInv, Application PROVE StagingInv'
    OBVIOUS
<1>1. ASSUME NEW t \in Threads, NEW purpose \in Purposes, call[t] = Idle,
             Refuse(t, purpose), UNCHANGED <<network, staged, late, due>>
      PROVE  StagingInv'
    <2>1. /\ \A u \in Threads \ {t} : call'[u] = call[u]
          /\ call'[t].state = "done" /\ call'[t].outcome = "error"
          /\ UNCHANGED <<wire, next_id, staged, late, due>>
          /\ call[t].state # "asked"
        BY <1>1, CallTypes DEF Refuse, Done, IInv, TypeOK, network
    <2>. QED
        BY <2>1, CallsEndStaging DEF StagingInv
<1>2. ASSUME NEW t \in Threads, NEW names \in SUBSET Names, Read(t, "read", names)
      PROVE  StagingInv'
    BY <1>1, <1>2, AskStaging, CallTypes DEF Read, Purposes, network
<1>3. ASSUME NEW t \in Threads, NEW purpose \in Purposes, NEW dp \in Snapshots,
             purpose = "commit" => dp = staged, Write(t, purpose, dp)
      PROVE  StagingInv'
    BY <1>1, <1>3, AskStaging DEF Write, network
<1>4. ASSUME NEW t \in Threads, NEW n \in Writable, NEW v \in Values,
             Write(t, "write", [Nothing EXCEPT ![n] = v])
      PROVE  StagingInv'
    <2>1. [Nothing EXCEPT ![n] = v] \in Snapshots
        BY ManagerAssumption DEF Nothing, Snapshots
    <2>. QED
        BY <1>3, <1>4, <2>1 DEF Purposes
<1>5. ASSUME NEW n \in Names, NEW v \in Values, Stage(n, v) PROVE StagingInv'
    <2>1. /\ UNCHANGED <<wire, call, next_id, due>>
          /\ late' \in [Threads -> SUBSET Names]
          /\ \A t \in Threads : late'[t] = IF Committing(t) THEN late[t] \cup {n}
                                           ELSE late[t]
          /\ \A m \in Names \ {n} : staged'[m] = staged[m]
        BY <1>5 DEF Stage, calls, network, Snapshots, StagingInv, IInv, TypeOK
    <2>2. CopyIsStaged'
        BY <2>1 DEF StagingInv, CopyIsStaged, Committing
    <2>. QED
        BY <2>1, <2>2 DEF StagingInv, RequestsNumbered, AnswersFit, CompletionFits
<1>6. ASSUME NEW t \in Threads, Commit(t) PROVE StagingInv'
    BY <1>3, <1>6 DEF Commit, Purposes, IInv, TypeOK
<1>7. ASSUME NEW t \in Threads, Return(t) PROVE StagingInv'
    <2>1. /\ \A u \in Threads \ {t} : call'[u] = call[u] /\ late'[u] = late[u]
          /\ call'[t] = Idle /\ call'[t].state = "idle" /\ call[t].state # "asked"
          /\ late' \in [Threads -> SUBSET Names]
          /\ UNCHANGED <<wire, next_id, due>>
        BY <1>7, CallTypes DEF Return, network, IInv, TypeOK, StagingInv
    <2>2. \A n \in Names : staged'[n] # Absent => staged'[n] = staged[n]
        BY <1>7 DEF Return, Nothing
    <2>. QED
        BY <2>1, <2>2, CallsEndStaging
<1>8. CASE DiscardStaged
    <2>1. UNCHANGED <<wire, call, next_id, late, due>>
        BY <1>8 DEF DiscardStaged, calls, network
    <2>2. \A n \in Names : staged'[n] # Absent => staged'[n] = staged[n]
        BY <1>8 DEF DiscardStaged, Nothing
    <2>. QED
        BY <2>1, <2>2, CallsEndStaging DEF StagingInv
<1>9. ASSUME NEW s \in Subscribers, Subscribe(s) \/ Unsubscribe(s) PROVE StagingInv'
    <2>1. UNCHANGED <<wire, call, next_id, staged, late, due>>
        BY <1>9 DEF Subscribe, Unsubscribe, calls, network
    <2>. QED
        BY <2>1, CallsEndStaging DEF StagingInv
<1>. QED
    BY <1>2, <1>4, <1>5, <1>6, <1>7, <1>8, <1>9 DEF Application

LEMMA StagingNext == IInv /\ StagingInv /\ [Next]_vars => StagingInv'
<1>1. IInv /\ StagingInv /\ UNCHANGED vars => StagingInv'
    BY CallsEndStaging DEF vars, calls, network, StagingInv
<1>. QED
    BY <1>1, StagingIoThread, StagingDevice, StagingApplication DEF Next

\* For any number of threads and names: a staged value leaves the staging by
\* discard_staged(), or at the end of a commit() that the device has applied
\* with this very value, unless the value was staged while the write of that
\* commit was under way (commit()).
THEOREM StagingKept == Spec => StagedUntilConfirmed
<1>. DEFINE Kept == \A n \in Names : staged[n] # Absent /\ staged'[n] = Absent =>
                       DiscardStaged \/ \E t \in Threads : Return(t) /\ Committed(t, n)
<1>1. IInv /\ StagingInv /\ [Next]_vars => [Kept]_vars
    <2>. SUFFICES ASSUME IInv, StagingInv, Next PROVE Kept
        OBVIOUS
    <2>1. (\A n \in Names : staged[n] # Absent => staged'[n] # Absent) => Kept
        OBVIOUS
    <2>2. ASSUME NEW t \in Threads, Return(t) PROVE Kept
        <3>. SUFFICES ASSUME NEW n \in Names, staged[n] # Absent, staged'[n] = Absent
                      PROVE  Committed(t, n)
            BY <2>2
        <3>1. /\ call[t].state = "done" /\ call[t].purpose = "commit"
              /\ call[t].outcome = "applied"
            BY <2>2 DEF Return, Confirmed
        <3>2. call[t] # Idle
            BY <3>1, CallTypes
        <3>3. call[t].dp[n] = staged[n] \/ n \in late[t]
            BY <3>1, <3>2 DEF StagingInv, CopyIsStaged, Committing
        <3>. QED
            BY <3>1, <3>3 DEF Committed
    <2>3. DiscardStaged => Kept
        OBVIOUS
    <2>4. ASSUME NEW n \in Names, NEW v \in Values, Stage(n, v) PROVE Kept
        <3>1. \A m \in Names : staged[m] # Absent => staged'[m] # Absent
            BY <2>4, ManagerAssumption DEF Stage, Snapshots, IInv, TypeOK
        <3>. QED
            BY <2>1, <3>1
    <2>. HIDE DEF Kept
    <2>5. CASE IoThread
        BY <2>1, <2>5 DEF IoThread, Receive, MakeCall, RequestFails, Disconnect
    <2>6. CASE Device
        BY <2>1, <2>6 DEF Device, DeviceReports, DeviceReads, DeviceWrites,
                          DeviceAnswers, Connect
    <2>7. CASE Application
        BY <2>1, <2>2, <2>3, <2>4, <2>7
           DEF Application, Read, Write, Commit, Subscribe, Unsubscribe
    <2>. QED
        BY <2>5, <2>6, <2>7 DEF Next
<1>2. Spec => []StagingInv
    BY StagingInit, StagingNext, Invariance, PTL DEF Spec
<1>. QED
    BY <1>1, <1>2, Invariance, PTL DEF Spec, StagedUntilConfirmed

-----------------------------------------------------------------------------
(* The codec, the constraints, the configuration and the commands.         *)

\* A number below the modulus is its own rest.
LEMMA SmallRest == ASSUME NEW q \in Nat, NEW m \in Nat, q < m PROVE q % m = q
    OBVIOUS

\* Rounded up to whole steps, and no longer if there are too many of them.
LEMMA StepsCover ==
    ASSUME NEW d \in Int, d > 0
    PROVE  /\ (StepsFor(d) - 1) * TurnOnStep < d
           /\ d <= TurnOnStep * (2 ^ StepsBits - 1) => StepsFor(d) * TurnOnStep >= d
<1>. DEFINE s == TurnOnStep
            m == 2 ^ StepsBits
            x == d + s - 1
            q == x \div s
<1>1. s \in Nat \ {0} /\ m \in Nat \ {0} /\ x \in Int
    BY RulesAssumption, CommandsAssumption
<1>2. q \in Int /\ x % s \in 0..(s - 1) /\ x = q * s + (x % s)
    BY <1>1
<1>3. StepsFor(d) = q % m
    BY DEF StepsFor
<1>4. x = d + s - 1
    OBVIOUS
<1>. HIDE DEF s, m, q, x
<1>5. q * s >= d /\ (q - 1) * s < d
    BY <1>1, <1>2, <1>4
<1>6. q >= 0
    <2>. SUFFICES ASSUME -1 - q \in Nat PROVE FALSE
        BY <1>2
    <2>1. (-1 - q) * s \in Nat
        BY <1>1
    <2>2. (-1 - q) * s = -s - q * s
        BY <1>1, <1>2
    <2>. QED
        BY <1>1, <1>2, <1>5, <2>1, <2>2
<1>7. d <= s * (m - 1) => q < m
    <2>. SUFFICES ASSUME d <= s * (m - 1) PROVE q < m
        OBVIOUS
    <2>1. (q - 1) * s < (m - 1) * s
        BY <1>1, <1>2, <1>5
    <2>2. (m - q) * s > 0
        BY <1>1, <1>2, <2>1
    <2>. QED
        BY <1>1, <1>2, <2>2
<1>8. d <= s * (m - 1) => q % m = q
    BY <1>1, <1>2, <1>6, <1>7, SmallRest
<1>9. q % m \in Int /\ q % m <= q
    <2>. DEFINE k == q \div m
                r == q % m
    <2>1. k \in Int /\ r \in 0..(m - 1) /\ q = m * k + r
        BY <1>1, <1>2
    <2>. HIDE DEF k, r
    <2>2. k >= 0
        <3>. SUFFICES ASSUME -1 - k \in Nat PROVE FALSE
            BY <2>1
        <3>1. m * (-1 - k) \in Nat
            BY <1>1
        <3>2. m * (-1 - k) = -m - m * k
            BY <1>1, <2>1
        <3>. QED
            BY <1>1, <1>6, <2>1, <3>1, <3>2
    <2>3. m * k \in Nat
        BY <1>1, <2>1, <2>2
    <2>4. r <= q /\ r \in Int
        BY <1>1, <1>2, <2>1, <2>3
    <2>. QED
        BY <2>4 DEF r
<1>10. ((q % m) - 1) * s < d
    <2>. DEFINE r == q % m
    <2>1. r \in Int /\ q - r \in Nat
        BY <1>2, <1>9
    <2>. HIDE DEF r
    <2>2. (q - r) * s \in Nat
        BY <1>1, <2>1
    <2>3. (r - 1) * s = (q - 1) * s - (q - r) * s
        BY <1>1, <1>2, <2>1
    <2>4. (r - 1) * s < d
        BY <1>1, <1>2, <1>5, <2>1, <2>2, <2>3
    <2>. QED
        BY <2>4 DEF r
<1>. QED
    BY <1>3, <1>5, <1>8, <1>10 DEF s, m

\* Any command.
LEMMA CommandAsAsked ==
    ASSUME Looked, input.about = "command" PROVE CommandsAsAsked
<1>. DEFINE op == input.op
            argument == input.argument
            enabled == input.enabled
            priority == input.priority
            sent == Submit(op, argument, enabled, priority)
<1>1. /\ op \in {"raw", "set_state", "restart_pump", "reboot", "turn_on_for",
                 "inject_watchdog_fault", "force_poor_link"}
      /\ op = "turn_on_for" => argument \in Int
      /\ priority \in 0..5
    BY DEF Looked, Priorities
<1>2. op = input.op /\ argument = input.argument /\ Sent = sent
    BY DEF Sent
<1>. HIDE DEF op, argument, enabled, priority
<1>3. TurnOnCovers
    <2>. SUFFICES ASSUME op = "turn_on_for"
                  PROVE  IF argument <= 0 THEN ~sent.submitted
                         ELSE /\ (sent.steps - 1) * TurnOnStep < argument
                              /\ argument <= TurnOnStep * (2 ^ StepsBits - 1) =>
                                     sent.steps * TurnOnStep >= argument
        BY <1>2 DEF TurnOnCovers
    <2>1. argument \in Int
        BY <1>1
    <2>2. sent = TurnOnFor(argument)
        BY DEF Submit
    <2>3. CASE argument <= 0
        BY <2>1, <2>2, <2>3 DEF TurnOnFor, Positive, Refused
    <2>4. CASE argument > 0
        <3>1. TurnOnFor(argument).steps = StepsFor(argument)
            BY <2>1, <2>4 DEF TurnOnFor, Positive, Raw
        <3>2. sent.steps = StepsFor(argument)
            BY <2>2, <3>1
        <3>3. ~(argument <= 0)
            BY <2>1, <2>4
        <3>. HIDE DEF sent
        <3>. QED
            BY <2>1, <2>4, <3>2, <3>3, StepsCover
    <2>. QED
        BY <2>1, <2>3, <2>4
<1>4. OffOvertakesAll
    <2>1. SetState("Off").priority = 0
        BY DEF SetState, Raw, StatePriority, SafetyControl
    <2>2. \A command, steps, p : Raw(command, steps, p).submitted =>
              Raw(command, steps, p).priority = p
        BY DEF Raw, Refused
    <2>3. ~Refused.submitted /\ InteractiveControl = 1
        BY DEF Refused, InteractiveControl
    <2>4. sent.submitted =>
              \/ sent = SetState("Off")
              \/ op = "raw" /\ sent.priority = priority
              \/ sent.priority = 1
        <3>1. CASE op = "raw"
            BY <2>2, <3>1 DEF Submit
        <3>2. CASE op = "set_state"
            <4>1. CASE argument = "Off"
                BY <3>2, <4>1 DEF Submit
            <4>2. CASE argument # "Off"
                BY <2>2, <2>3, <3>2, <4>2 DEF Submit, SetState, StatePriority
            <4>. QED
                BY <4>1, <4>2
        <3>3. CASE op = "restart_pump"
            BY <2>2, <2>3, <3>3 DEF Submit, RestartPump
        <3>4. CASE op = "reboot"
            BY <2>2, <2>3, <3>4 DEF Submit, RebootDevice
        <3>5. CASE op = "turn_on_for"
            BY <2>2, <2>3, <3>5 DEF Submit, TurnOnFor
        <3>6. CASE op = "inject_watchdog_fault"
            BY <2>2, <2>3, <3>6 DEF Submit, Guarded
        <3>7. CASE op = "force_poor_link"
            BY <2>2, <2>3, <3>7 DEF Submit, Guarded
        <3>. QED
            BY <1>1, <3>1, <3>2, <3>3, <3>4, <3>5, <3>6, <3>7
    <2>. HIDE DEF sent
    <2>. QED
        BY <1>1, <1>2, <2>1, <2>4 DEF OffOvertakesAll, Polling
<1>. QED
    BY <1>3, <1>4 DEF CommandsAsAsked

-----------------------------------------------------------------------------

\* v is what is known of the settings d: in order they pass, and if all of them
\* are known they pass only in order.
LEMMA CrossExact ==
    ASSUME NEW v, NEW d \in [Fields -> Int],
           \A f \in Fields : v[f] \in {Unknown, d[f]}
    PROVE  /\ InOrder(d) => CheckCrossConstraints(v) = "ok"
           /\ CheckCrossConstraints(v) = "ok" /\ (\A f \in Fields : v[f] = d[f]) =>
                  InOrder(d)
<1>1. \A f \in Fields : d[f] \in Int /\ d[f] # Unknown
    BY RulesAssumption
<1>2. \A a, b \in Fields : d[a] < d[b] => ~NotBelow(v, a, b)
    BY DEF NotBelow, Known
<1>3. InOrder(d) => CheckCrossConstraints(v) = "ok"
    <2>. SUFFICES ASSUME InOrder(d) PROVE CheckCrossConstraints(v) = "ok"
        OBVIOUS
    <2>1. /\ ~NotBelow(v, "Min", "Max") /\ ~NotBelow(v, "Max", "AlertHigh")
          /\ ~NotBelow(v, "AlertLow", "Min") /\ ~NotBelow(v, "MinOn", "MaxOn")
          /\ ~NotBelow(v, "DryRun", "MaxOn")
        BY <1>2 DEF InOrder, Fields
    <2>2. ~(Known(v, {"MaxOn"}) /\ v["MaxOn"] < MinOnTimeLimit)
        BY <1>1, RulesAssumption DEF InOrder, Known, Fields
    <2>3. ~(Known(v, {"Report"}) /\ (v["Report"] < 1 \/ v["Report"] > ReportLimit))
        BY <1>1, RulesAssumption DEF InOrder, Known, Fields
    <2>. QED
        BY <2>1, <2>2, <2>3 DEF CheckCrossConstraints
<1>4. ASSUME CheckCrossConstraints(v) = "ok", \A f \in Fields : v[f] = d[f]
      PROVE  InOrder(d)
    <2>1. \A fs \in SUBSET Fields : Known(v, fs)
        BY <1>1, <1>4 DEF Known
    <2>2. /\ ~NotBelow(v, "Min", "Max") /\ ~NotBelow(v, "Max", "AlertHigh")
          /\ ~NotBelow(v, "AlertLow", "Min") /\ ~NotBelow(v, "MinOn", "MaxOn")
          /\ ~NotBelow(v, "DryRun", "MaxOn")
          /\ ~(Known(v, {"MaxOn"}) /\ v["MaxOn"] < MinOnTimeLimit)
          /\ ~(Known(v, {"Report"}) /\ (v["Report"] < 1 \/ v["Report"] > ReportLimit))
        BY <1>4 DEF CheckCrossConstraints
    <2>3. \A a, b \in Fields : ~NotBelow(v, a, b) => d[a] < d[b]
        BY <1>4, <2>1 DEF NotBelow
    <2>4. d["MaxOn"] >= MinOnTimeLimit /\ d["Report"] \in 1..ReportLimit
        BY <1>1, <1>4, <2>1, <2>2, RulesAssumption DEF Fields
    <2>. QED
        BY <2>2, <2>3, <2>4 DEF InOrder, Fields
<1>. QED
    BY <1>3, <1>4

\* Any write is checked exactly.
LEMMA WriteExact ==
    ASSUME Looked, input.about = "write" PROVE ConstraintsExact
<1>. DEFINE changes ==
                [f \in Fields |-> IF Planned(f) THEN input.changes[f] ELSE Unknown]
            cached ==
                [f \in Fields |-> IF f \in input.uncached THEN Unknown ELSE input.device[f]]
            v == Effective(changes, cached)
<1>1. /\ input.device \in [Fields -> Int]
      /\ \A f \in Fields : Planned(f) => input.changes[f] \in Int
    BY DEF Looked, Planned
<1>2. After \in [Fields -> Int]
    BY <1>1 DEF After
<1>3. \A f \in Fields :
        v[f] = IF Planned(f) THEN After[f]
               ELSE IF f \in input.uncached THEN Unknown ELSE After[f]
    BY DEF Effective, After, Planned
<1>4. Verdict = CheckCrossConstraints(v)
    BY DEF Verdict, ValidateConstraints
<1>. HIDE DEF v
<1>5. /\ InOrder(After) => Verdict = "ok"
      /\ Verdict = "ok" /\ (\A f \in Fields : v[f] = After[f]) => InOrder(After)
    <2>1. \A f \in Fields : v[f] \in {Unknown, After[f]}
        BY <1>3
    <2>. QED
        BY <1>2, <1>4, <2>1, CrossExact
<1>6. (\A f \in input.uncached : Planned(f)) => \A f \in Fields : v[f] = After[f]
    BY <1>3
<1>. QED
    BY <1>5, <1>6 DEF ConstraintsExact, AcceptedWriteKeepsOrder, RepairIsAccepted

-----------------------------------------------------------------------------

\* Any configuration file.
LEMMA ConfigUsable ==
    ASSUME Looked, input.about = "config" PROVE ConfigSound
<1>. DEFINE json == input.json
            c == Loaded(json)
<1>1. /\ c.enabled = json["fountain"] /\ json["fountain"] \in BOOLEAN
      /\ c.verify_peer = Value(json, "verify_peer", TRUE)
      /\ ~json["fountain"] => c.hmac = ""
    BY DEF Looked, Loaded
<1>2. Accepted(json) =>
        /\ c.verify_peer => Exists(c.ca)
        /\ c.enabled => c.device_id # "" /\ c.kid # "" /\ Exists(c.hmac)
    <2>1. Accepted(json) =>
            /\ c.verify_peer => Exists(c.ca)
            /\ FountainSection(c)
        BY DEF Accepted
    <2>. HIDE DEF c
    <2>. QED
        BY <2>1 DEF FountainSection
<1>3. Configured(json) <=>
        /\ c.verify_peer => Readable(c.ca)
        /\ c.cert # "" => Readable(c.cert) /\ Readable(c.key)
        /\ c.kid # "" /\ c.hmac = "good"
    BY DEF Configured, TlsValid, Tls, HmacLoads, Readable, DecodesHexKey
<1>4. /\ Client(json).tls.peer_verified = c.verify_peer
      /\ Client(json).tls.ca = c.ca
      /\ Client(json).expected_device_id = c.device_id
      /\ Client(json).kid = c.kid /\ Client(json).key = c.hmac
    BY DEF Client, Tls
<1>. HIDE DEF c
<1>5. AcceptedIsUsable
    BY <1>1, <1>2, <1>3 DEF AcceptedIsUsable, Exists, Readable, c
<1>6. ConfiguredIsBound
    BY <1>1, <1>2, <1>3, <1>4 DEF ConfiguredIsBound, Readable
<1>. QED
    BY <1>5, <1>6 DEF ConfigSound

-----------------------------------------------------------------------------

\* A number is at most one half away from what it is rounded to, and a whole
\* number stays what it is.
LEMMA Rounds ==
    ASSUME NEW quarters \in Int
    PROVE  /\ NearbyInt(quarters) \in Int
           /\ 4 * NearbyInt(quarters) - quarters \in -2..2
           /\ NearbyInt(4 * quarters) = quarters
<1>1. /\ quarters \div 4 \in Int /\ quarters % 4 \in 0..3
      /\ quarters = 4 * (quarters \div 4) + (quarters % 4)
    OBVIOUS
<1>2. NearbyInt(quarters) \in {quarters \div 4, quarters \div 4 + 1}
    BY DEF NearbyInt, NearestCount
<1>3. 4 * NearbyInt(quarters) - quarters \in -2..2
    BY <1>1 DEF NearbyInt, NearestCount
<1>4. (4 * quarters) \div 4 = quarters /\ (4 * quarters) % 4 = 0
    OBVIOUS
<1>5. NearbyInt(4 * quarters) = quarters
    BY <1>4 DEF NearbyInt, NearestCount
<1>. QED
    BY <1>1, <1>2, <1>3, <1>5

\* A multiple of a unit is its own nearest multiple.
LEMMA NearestMultiple ==
    ASSUME NEW x \in Int, NEW unit \in Nat \ {0}
    PROVE  NearestCount(x, unit) \in Int /\ NearestCount(unit * x, unit) = x
<1>. DEFINE y == unit * x
            q == y \div unit
            r == y % unit
<1>1. NearestCount(x, unit) \in {x \div unit, x \div unit + 1} /\ x \div unit \in Int
    BY DEF NearestCount
<1>2. y \in Int /\ q \in Int /\ r \in 0..(unit - 1) /\ y = unit * q + r
    <2>1. y \in Int
        OBVIOUS
    <2>. HIDE DEF y
    <2>. QED
        BY <2>1
<1>3. y = unit * x
    OBVIOUS
<1>. HIDE DEF y, q, r
<1>4. unit * (x - q) = r
    BY <1>2, <1>3
<1>5. x - q < 1
    <2>. SUFFICES ASSUME x - q - 1 \in Nat PROVE FALSE
        BY <1>2
    <2>1. unit * (x - q - 1) \in Nat
        OBVIOUS
    <2>2. unit * (x - q - 1) = unit * (x - q) - unit
        BY <1>2
    <2>. QED
        BY <1>2, <1>4, <2>1, <2>2
<1>6. x - q > -1
    <2>. SUFFICES ASSUME q - x - 1 \in Nat PROVE FALSE
        BY <1>2
    <2>1. unit * (q - x - 1) \in Nat
        OBVIOUS
    <2>2. unit * (q - x - 1) = -(unit * (x - q)) - unit
        BY <1>2
    <2>. QED
        BY <1>2, <1>4, <2>1, <2>2
<1>7. q = x
    BY <1>2, <1>5, <1>6
<1>8. r = 0
    BY <1>2, <1>4, <1>7
<1>9. NearestCount(y, unit) = IF 2 * r < unit \/ (2 * r = unit /\ q % 2 = 0)
                              THEN q ELSE q + 1
    BY DEF NearestCount, q, r
<1>10. NearestCount(y, unit) = x
    BY <1>7, <1>8, <1>9
<1>. QED
    BY <1>1, <1>3, <1>10

\* A float is a double, and stays what it is when it is made a float again.
LEMMA FloatForm ==
    ASSUME NEW x \in Doubles
    PROVE  /\ Float(x) \in Doubles
           /\ Float(x) = NaN <=> x = NaN
           /\ Float(Float(x)) = Float(x)
<1>1. /\ NaN \notin Int /\ Grain \in Nat \ {0} /\ Infinity \in Nat
      /\ FloatMax \in 0..(Infinity - 1)
    BY CodecAssumption
<1>2. CASE ~Finite(x)
    BY <1>2 DEF Float
<1>3. CASE Finite(x)
    <2>1. x \in Int
        BY <1>3 DEF Finite, Doubles
    <2>. DEFINE nearest == Grain * NearestCount(x, Grain)
    <2>2. nearest \in Int
        BY <1>1, <2>1, NearestMultiple
    <2>3. Float(x) = IF nearest > FloatMax THEN Infinity
                     ELSE IF nearest < -FloatMax THEN -Infinity ELSE nearest
        BY <1>3 DEF Float
    <2>4. NearestCount(nearest, Grain) = NearestCount(x, Grain)
        BY <1>1, <2>1, NearestMultiple
    <2>5. Grain * NearestCount(nearest, Grain) = nearest
        BY <2>4
    <2>. HIDE DEF nearest
    <2>6. CASE nearest > FloatMax
        <3>1. Float(x) = Infinity /\ ~Finite(Infinity) /\ Infinity \in Doubles
            BY <1>1, <2>3, <2>6 DEF Finite, Doubles
        <3>. QED
            BY <1>1, <1>3, <3>1 DEF Float, Finite
    <2>7. CASE nearest < -FloatMax /\ ~(nearest > FloatMax)
        <3>1. Float(x) = -Infinity /\ ~Finite(-Infinity) /\ -Infinity \in Doubles
            BY <1>1, <2>3, <2>7 DEF Finite, Doubles
        <3>. QED
            BY <1>1, <1>3, <3>1 DEF Float, Finite
    <2>8. CASE ~(nearest < -FloatMax) /\ ~(nearest > FloatMax)
        <3>1. Float(x) = nearest /\ Finite(nearest) /\ nearest \in Doubles
            BY <1>1, <2>2, <2>3, <2>8 DEF Finite, Doubles
        <3>2. Float(nearest) = nearest
            BY <2>5, <2>8, <3>1 DEF Float
        <3>. QED
            BY <1>1, <1>3, <2>2, <3>1, <3>2 DEF Finite
    <2>. QED
        BY <2>6, <2>7, <2>8
<1>. QED
    BY <1>2, <1>3

\* The limits of an integer type are numbers.
LEMMA WidthsAreNumbers ==
    ASSUME NEW type \in Narrowed
    PROVE  Lowest(type) \in Int /\ Highest(type) \in Int
<1>1. Bits[type] \in Nat \ {0, 1}
    BY CodecAssumption
<1>2. 2 ^ (Bits[type] - 1) \in Int /\ 2 ^ Bits[type] \in Int
    BY <1>1
<1>. QED
    BY <1>2 DEF Lowest, Highest

\* What is decoded for a type is of that type, and for a number one.
LEMMA DecodedForm ==
    ASSUME NEW type \in Types, NEW json \in JsonValues,
           ValueFromJson(type, json).ok
    PROVE  LET value == ValueFromJson(type, json).value IN
           /\ value.index = ValueIndexFor(type)
           /\ type = "Bool" => json.is = "bool" /\ value.v = json.v
           /\ type = "Str" => json.is = "string" /\ value.v = json.v /\ Len(value.v) \in Nat
           /\ type = "F32" => json.is = "number" /\ value.v = Float(json.v)
                              /\ json.v \in Doubles
           /\ type \in Narrowed =>
                /\ json.is = "number" /\ json.v \in Int /\ Finite(json.v)
                /\ value.v = NearbyInt(json.v)
                /\ Lowest(type) <= value.v /\ value.v <= Highest(type)
<1>. DEFINE decoded == ValueFromJson(type, json)
<1>1. ~Error("TypeMismatch").ok /\ ~Error("OutOfRange").ok
    BY DEF Error
<1>2. CASE type = "Bool"
    <2>1. decoded = IF json.is = "bool" THEN Ok(Boxed(0, json.v))
                    ELSE Error("TypeMismatch")
        BY <1>2 DEF ValueFromJson, Narrowed, SignedTypes
    <2>2. json.is = "bool" /\ decoded.value = [index |-> 0, v |-> json.v]
        BY <1>1, <2>1 DEF Ok, Boxed
    <2>. QED
        BY <1>2, <2>2 DEF ValueIndexFor, Narrowed, SignedTypes
<1>3. CASE type = "Str"
    <2>1. decoded = IF json.is = "string" THEN Ok(Boxed(9, json.v))
                    ELSE Error("TypeMismatch")
        BY <1>3 DEF ValueFromJson, Narrowed, SignedTypes
    <2>2. json.is = "string" /\ decoded.value = [index |-> 9, v |-> json.v]
        BY <1>1, <2>1 DEF Ok, Boxed
    <2>3. json.v \in Texts
        BY <2>2 DEF JsonValues
    <2>4. Len(json.v) \in Nat
        BY <2>3, LenProperties, RulesAssumption
    <2>. QED
        BY <1>3, <2>2, <2>4 DEF ValueIndexFor, Narrowed, SignedTypes
<1>4. CASE type = "F32"
    <2>1. decoded = IF json.is = "number" THEN Ok(Boxed(8, Float(json.v)))
                    ELSE Error("TypeMismatch")
        BY <1>4 DEF ValueFromJson, Narrowed, SignedTypes
    <2>2. json.is = "number" /\ decoded.value = [index |-> 8, v |-> Float(json.v)]
        BY <1>1, <2>1 DEF Ok, Boxed
    <2>3. json.v \in Doubles
        BY <2>2, RulesAssumption DEF JsonValues
    <2>. QED
        BY <1>4, <2>2, <2>3 DEF ValueIndexFor, Narrowed, SignedTypes
<1>5. CASE type = "U64"
    <2>1. decoded = IF json.is = "string" THEN ParseU64(json.v)
                    ELSE Error("TypeMismatch")
        BY <1>5 DEF ValueFromJson, Narrowed, SignedTypes
    <2>2. decoded.value.index = 4
        BY <1>1, <2>1 DEF ParseU64, Ok, Boxed
    <2>. QED
        BY <1>5, <2>2 DEF ValueIndexFor, Narrowed, SignedTypes
<1>6. CASE type \in Narrowed
    <2>1. decoded = IF json.is = "number" THEN Narrow(type, json.v)
                    ELSE Error("TypeMismatch")
        BY <1>6 DEF ValueFromJson, Narrowed, SignedTypes
    <2>2. json.is = "number" /\ decoded = Narrow(type, json.v)
        BY <1>1, <2>1
    <2>3. json.v \in Doubles
        BY <2>2, RulesAssumption DEF JsonValues
    <2>. DEFINE rounded == NearbyInt(json.v)
    <2>4. Finite(json.v) /\ ~(rounded < Lowest(type) \/ rounded > Highest(type))
        BY <1>1, <2>2 DEF Narrow
    <2>5. decoded.value = [index |-> CppIndex(type), v |-> rounded]
        BY <2>2, <2>4 DEF Narrow, Ok, Boxed
    <2>6. CppIndex(type) = ValueIndexFor(type)
        BY <1>6 DEF CppIndex, ValueIndexFor, Narrowed, SignedTypes
    <2>7. json.v \in Int /\ rounded \in Int
        BY <2>3, <2>4, Rounds DEF Finite, Doubles
    <2>8. Lowest(type) \in Int /\ Highest(type) \in Int
        BY <1>6, WidthsAreNumbers
    <2>9. Lowest(type) <= rounded /\ rounded <= Highest(type)
        BY <2>4, <2>7, <2>8
    <2>. HIDE DEF rounded
    <2>. QED
        BY <1>6, <2>2, <2>4, <2>5, <2>6, <2>7, <2>9 DEF rounded, Narrowed, SignedTypes
<1>. QED
    BY <1>2, <1>3, <1>4, <1>5, <1>6 DEF Types

\* Any value, for any descriptor.
LEMMA ValueExact ==
    ASSUME Looked, input.about = "value" PROVE CodecExact
<1>. DEFINE type == input.descriptor.type
            json == input.json
            value == Decoded.value
            coded == ValueToJson(type, value)
<1>1. /\ type \in Types /\ json \in JsonValues
      /\ input.descriptor.min \in Doubles /\ input.descriptor.max \in Doubles
      /\ type = "U64" => ~input.descriptor.writable
      /\ StringMax \in Nat /\ NaN \notin Int
    BY RulesAssumption, CodecAssumption DEF Looked
<1>2. CASE ~Decoded.ok
    BY <1>2 DEF CodecExact, RoundTrips, NoSilentTruncation, DeviceAgrees
<1>3. CASE Decoded.ok
    <2>1. /\ value.index = ValueIndexFor(type)
          /\ type = "Bool" => json.is = "bool" /\ value.v = json.v
          /\ type = "Str" => json.is = "string" /\ value.v = json.v /\ Len(value.v) \in Nat
          /\ type = "F32" => json.is = "number" /\ value.v = Float(json.v)
                             /\ json.v \in Doubles
          /\ type \in Narrowed =>
                /\ json.is = "number" /\ json.v \in Int /\ Finite(json.v)
                /\ value.v = NearbyInt(json.v)
                /\ Lowest(type) <= value.v /\ value.v <= Highest(type)
        BY <1>1, <1>3, DecodedForm DEF Decoded
    <2>2. Decoded = ValueFromJson(type, json)
        BY DEF Decoded
    <2>3. type = "F32" => coded = [is |-> "number", v |-> value.v]
        BY DEF ValueToJson, Narrowed, SignedTypes
    <2>4. type \in Narrowed =>
              /\ coded = [is |-> "number", v |-> 4 * value.v]
              /\ value.v \in Int /\ 4 * value.v \in Int /\ Finite(4 * value.v)
        <3>. SUFFICES ASSUME type \in Narrowed
                      PROVE  /\ coded = [is |-> "number", v |-> 4 * value.v]
                             /\ value.v \in Int /\ 4 * value.v \in Int
                             /\ Finite(4 * value.v)
            OBVIOUS
        <3>1. coded = [is |-> "number", v |-> 4 * value.v]
            BY DEF ValueToJson, Narrowed, SignedTypes
        <3>2. value.v \in Int /\ 4 * value.v \in Int /\ 4 * value.v # NaN
            <4>1. value.v \in Int
                BY <2>1, Rounds
            <4>2. 4 * value.v \in Int
                BY <4>1
            <4>. QED
                BY <1>1, <4>1, <4>2
        <3>3. /\ Lowest(type) \in Int /\ Highest(type) \in Int /\ Infinity \in Nat
              /\ -Infinity < 4 * Lowest(type) /\ 4 * Highest(type) < Infinity
            BY WidthsAreNumbers, WidthAssumption, CodecAssumption
        <3>4. -Infinity < 4 * value.v /\ 4 * value.v < Infinity
            BY <2>1, <3>2, <3>3
        <3>. QED
            BY <3>1, <3>2, <3>4 DEF Finite
    <2>5. type \in {"Bool", "Str", "U64"} => coded.is # "number"
        BY DEF ValueToJson, Narrowed, SignedTypes
    <2>6. Signable(coded) <=> (type = "F32" => Finite(value.v))
        <3>1. CASE type = "F32"
            BY <2>3, <3>1 DEF Signable
        <3>2. CASE type \in Narrowed
            BY <2>4, <3>2 DEF Signable, Narrowed, SignedTypes
        <3>3. CASE type \in {"Bool", "Str", "U64"}
            BY <2>5, <3>3 DEF Signable
        <3>. QED
            BY <1>1, <3>1, <3>2, <3>3 DEF Types
    <2>7. NoSilentTruncation
        <3>. SUFFICES ASSUME type \in Narrowed PROVE 4 * value.v - json.v \in -2..2
            BY DEF NoSilentTruncation
        <3>. QED
            BY <2>1, Rounds
    <2>8. type # "U64" => RoundTrips
        <3>. SUFFICES ASSUME type # "U64" PROVE ValueFromJson(type, coded) = Decoded
            BY DEF RoundTrips
        <3>1. CASE type \in {"Bool", "Str"}
            <4>1. coded.is = json.is /\ coded.v = json.v
                BY <2>1, <3>1 DEF ValueToJson, Narrowed, SignedTypes
            <4>. QED
                BY <2>2, <3>1, <4>1 DEF ValueFromJson, Narrowed, SignedTypes
        <3>2. CASE type = "F32"
            <4>1. ValueFromJson(type, coded) = Ok(Boxed(8, Float(value.v)))
                BY <2>3, <3>2 DEF ValueFromJson, Narrowed, SignedTypes
            <4>2. Decoded = Ok(Boxed(8, Float(json.v)))
                BY <2>1, <2>2, <3>2 DEF ValueFromJson, Narrowed, SignedTypes
            <4>3. Float(value.v) = Float(json.v)
                BY <2>1, <3>2, FloatForm
            <4>. QED
                BY <4>1, <4>2, <4>3
        <3>3. CASE type \in Narrowed
            <4>1. ValueFromJson(type, coded) = Narrow(type, 4 * value.v)
                BY <2>4, <3>3 DEF ValueFromJson, Narrowed, SignedTypes
            <4>2. Decoded = Narrow(type, json.v)
                BY <2>1, <2>2, <3>3 DEF ValueFromJson, Narrowed, SignedTypes
            <4>3. NearbyInt(4 * value.v) = value.v
                BY <2>4, <3>3, Rounds
            <4>4. Narrow(type, 4 * value.v) = Narrow(type, json.v)
                BY <2>1, <2>4, <3>3, <4>3 DEF Narrow
            <4>. QED
                BY <4>1, <4>2, <4>4
        <3>. QED
            BY <1>1, <3>1, <3>2, <3>3 DEF Types
    <2>9. DeviceAgrees
        <3>. DEFINE descriptor == input.descriptor
        <3>1. ParseAssignment(descriptor, json) =
                  IF descriptor.writable THEN Decoded ELSE Error("ReadOnlyDatapoint")
            BY <1>3, <2>1, <2>2 DEF ParseAssignment, MaySet
        <3>2. ~Error("ReadOnlyDatapoint").ok
            BY DEF Error
        <3>3. Written(descriptor, json) =
                  IF ~descriptor.writable \/ ~Validate(descriptor, value).ok THEN "refused"
                  ELSE IF ~Signable(coded) THEN "throws" ELSE "sent"
            BY <1>3, <3>1, <3>2 DEF Written
        <3>4. DeviceAccepts(descriptor, coded) => descriptor.writable
            BY DEF DeviceAccepts
        <3>5. ASSUME NEW number \in Int, type \in Narrowed \cup {"F32"},
                     number = IF value.index = 8 THEN value.v ELSE 4 * value.v,
                     coded = [is |-> "number", v |-> number], descriptor.writable
              PROVE  Validate(descriptor, value).ok <=> DeviceAccepts(descriptor, coded)
            <4>. DEFINE low == Float(descriptor.min)
                        high == Float(descriptor.max)
            <4>1. value.index \notin {0, 4, 9}
                BY <2>1, <3>5 DEF ValueIndexFor, Narrowed, SignedTypes
            <4>2. Validate(descriptor, value) =
                    IF Beyond(number, descriptor) THEN Error("OutOfRange") ELSE Ok(value)
                BY <2>1, <3>5, <4>1 DEF Validate
            <4>3. Beyond(number, descriptor) <=>
                    \/ low # NaN /\ number < low
                    \/ high # NaN /\ number > high
                BY <1>1, <3>5 DEF Beyond, Bound
            <4>4. DeviceAccepts(descriptor, coded) <=>
                    /\ descriptor.min = NaN \/ number >= low
                    /\ descriptor.max = NaN \/ number <= high
                BY <3>5 DEF DeviceAccepts, Narrowed, SignedTypes
            <4>5. /\ low \in Int \cup {NaN} /\ high \in Int \cup {NaN}
                  /\ descriptor.min = NaN <=> low = NaN
                  /\ descriptor.max = NaN <=> high = NaN
                <5>1. /\ low \in Doubles /\ high \in Doubles
                      /\ descriptor.min = NaN <=> low = NaN
                      /\ descriptor.max = NaN <=> high = NaN
                    BY <1>1, FloatForm
                <5>2. Doubles \subseteq Int \cup {NaN}
                    BY CodecAssumption DEF Doubles
                <5>. QED
                    BY <5>1, <5>2
            <4>6. ~Error("OutOfRange").ok /\ Ok(value).ok
                BY DEF Error, Ok
            <4>. HIDE DEF low, high
            <4>. QED
                BY <1>1, <3>5, <4>2, <4>3, <4>4, <4>5, <4>6
        <3>6. ASSUME descriptor.writable, Signable(coded)
              PROVE  Validate(descriptor, value).ok <=> DeviceAccepts(descriptor, coded)
            <4>1. CASE type = "Bool"
                BY <2>1, <3>6, <4>1 DEF Validate, ValueIndexFor, DeviceAccepts,
                                        ValueToJson, Ok
            <4>2. CASE type = "Str"
                <5>1. coded = [is |-> "string", v |-> json.v] /\ value.index = 9
                    BY <2>1, <4>2 DEF ValueToJson, ValueIndexFor
                <5>2. Validate(descriptor, value) =
                          IF Len(value.v) > StringMax THEN Error("ValueTooLong")
                          ELSE Ok(value)
                    BY <2>1, <5>1 DEF Validate
                <5>3. DeviceAccepts(descriptor, coded) <=> Len(json.v) < StringMax + 1
                    BY <3>6, <4>2, <5>1 DEF DeviceAccepts
                <5>4. ~Error("ValueTooLong").ok /\ Ok(value).ok
                    BY DEF Error, Ok
                <5>. QED
                    BY <1>1, <2>1, <4>2, <5>2, <5>3, <5>4
            <4>3. CASE type = "U64"
                BY <1>1, <3>6, <4>3
            <4>4. CASE type = "F32"
                <5>1. value.index = 8 /\ Finite(value.v) /\ value.v \in Doubles
                    BY <2>1, <2>6, <3>6, <4>4, FloatForm DEF ValueIndexFor
                <5>2. value.v \in Int
                    BY <5>1 DEF Finite, Doubles
                <5>. QED
                    BY <2>3, <3>5, <3>6, <4>4, <5>1, <5>2
            <4>5. CASE type \in Narrowed
                <5>1. value.index # 8
                    BY <2>1, <4>5 DEF ValueIndexFor, Narrowed, SignedTypes
                <5>. QED
                    BY <2>4, <3>5, <3>6, <4>5, <5>1
            <4>. QED
                BY <1>1, <4>1, <4>2, <4>3, <4>4, <4>5 DEF Types
        <3>7. ~Signable(coded) => type = "F32" /\ ~Finite(value.v)
            BY <2>6
        <3>. HIDE DEF coded
        <3>. QED
            BY <3>3, <3>4, <3>6, <3>7 DEF DeviceAgrees, coded
    <2>. QED
        BY <2>7, <2>8, <2>9 DEF CodecExact
<1>. QED
    BY <1>2, <1>3

-----------------------------------------------------------------------------

\* Whatever Look looks at is as Looked says.
LEMMA LookFinds == ASSUME Look PROVE Looked'
<1>1. ASSUME LookAtValue PROVE Looked'
    <2>1. PICK descriptor \in Descriptors, json \in JsonValues :
            input' = [about |-> "value", descriptor |-> descriptor, json |-> json]
        BY <1>1 DEF LookAtValue
    <2>2. /\ descriptor.type \in Types
          /\ {descriptor.min, descriptor.max} \subseteq Doubles
          /\ descriptor.type = "U64" => ~descriptor.writable
        BY RulesAssumption DEF Descriptors
    <2>. QED
        BY <2>1, <2>2 DEF Looked, JsonValues
<1>2. ASSUME NEW group \in SUBSET Fields, NEW written \in SUBSET Fields,
             LookAtWrite(group, written)
      PROVE  Looked'
    <2>1. PICK settings \in [group -> Levels], changes \in [written -> Levels \cup {Unknown}] :
            \E uncached \in SUBSET written :
                input' = [about |-> "write", device |-> Orderly(group, settings),
                          changes |-> changes, uncached |-> uncached]
        BY <1>2 DEF LookAtWrite
    <2>2. Orderly(group, settings) \in [Fields -> Int]
        <3>1. \A f \in group : settings[f] \in Int
            BY RulesAssumption
        <3>. QED
            BY <3>1, RulesAssumption DEF Orderly
    <2>3. \A f \in DOMAIN changes : changes[f] \in Int \cup {Unknown}
        BY RulesAssumption
    <2>. QED
        BY <2>1, <2>2, <2>3 DEF Looked
<1>3. Good["fountain"] = TRUE /\ "fountain" \in DOMAIN Good
    BY DEF Good, Plain
<1>4. ASSUME LookAtCredentials PROVE Looked'
    <2>1. \E json : input' = [about |-> "config", json |-> json]
                    /\ json["fountain"] \in BOOLEAN
        BY <1>3, <1>4 DEF LookAtCredentials
    <2>. QED
        BY <2>1 DEF Looked
<1>5. ASSUME LookAtTimes PROVE Looked'
    <2>1. PICK initial, max \in {NoKey, 0, 1, 30, 31}, connect, handshake \in {NoKey, 0},
               idle \in {NoKey, -1} :
          \E port \in {NoKey, -1, 0, 2 ^ 16}, name \in {NoKey, "true", "off", "other"},
             host \in {NoKey, "ip", "name"}, known, valid \in BOOLEAN :
            input' = [about |-> "config",
                      json |-> [Good EXCEPT !["initial"] = initial, !["max"] = max,
                                            !["connect_timeout"] = connect,
                                            !["handshake"] = handshake, !["idle"] = idle,
                                            !["port"] = port, !["host"] = host,
                                            !["verify_hostname"] = name,
                                            !["steps_known"] = known,
                                            !["texts_valid"] = valid]]
        BY <1>5 DEF LookAtTimes
    <2>2. input'.about = "config" /\ input'.json["fountain"] = Good["fountain"]
        BY <1>3, <2>1
    <2>. QED
        BY <1>3, <2>2 DEF Looked
<1>6. ASSUME NEW op \in {"raw", "set_state", "restart_pump", "reboot", "turn_on_for",
                         "inject_watchdog_fault", "force_poor_link"},
             NEW arguments, op = "turn_on_for" => arguments \subseteq Int,
             LookAtCommand(op, arguments)
      PROVE  Looked'
    <2>1. PICK argument \in arguments, enabled \in BOOLEAN, priority \in Priorities :
            input' = [about |-> "command", op |-> op, argument |-> argument,
                      enabled |-> enabled, priority |-> priority]
        BY <1>6 DEF LookAtCommand
    <2>. QED
        BY <1>6, <2>1 DEF Looked
<1>7. Pressures \in SUBSET Fields /\ Times \in SUBSET Fields
      /\ {"Min", "Max"} \in SUBSET Fields /\ {"MinOn", "MaxOn"} \in SUBSET Fields
    BY DEF Pressures, Times, Fields
<1>8. Seconds \subseteq Int
    BY RulesAssumption
<1>. QED
    BY <1>1, <1>2, <1>4, <1>5, <1>6, <1>7, <1>8 DEF Look

\* What is looked at is always a value, a write, a file or a command.
THEOREM AlwaysLooked == RulesSpec => []Looked
<1>1. RulesInit => Looked
    BY DEF RulesInit, Looked
<1>2. Looked /\ [Look]_input => Looked'
    BY LookFinds DEF Looked
<1>. QED
    BY <1>1, <1>2, PTL DEF RulesSpec

\* For every integer width, every precision of a float, every limit and every
\* number: the codec changes a number by at most one half for an integer type,
\* what it writes is read back as it was (which is not claimed of 64-bit
\* numbers), client and firmware agree on what may be written, also at limits
\* that are no floats, and nothing but a float that is not finite makes the
\* signature throw (value_from_json(), value_to_json(), validate(),
\* parse_assignment(), canonical_number()).
THEOREM CodecAlwaysExact == RulesSpec => []CodecExact
<1>1. Looked => CodecExact
    BY ValueExact DEF CodecExact, RoundTrips, NoSilentTruncation, DeviceAgrees
<1>. QED
    BY <1>1, AlwaysLooked, PTL

\* For any settings of the device and any changes, cached or not, the check
\* before a write refuses what would put known settings out of order, and
\* nothing that puts them in order (check_cross_constraints()).
THEOREM ConstraintsAlwaysExact == RulesSpec => []ConstraintsExact
<1>1. Looked => ConstraintsExact
    BY WriteExact DEF ConstraintsExact, AcceptedWriteKeepsOrder, RepairIsAccepted
<1>. QED
    BY <1>1, AlwaysLooked, PTL

\* Whatever a configuration file holds, if it is accepted and its files are
\* what they should be, the client can be configured exactly when there is a
\* fountain section and a certificate, if one is named, comes with its key; and
\* a client that is configured is bound to its device (load_config(),
\* configure()).
THEOREM ConfigAlwaysSound == RulesSpec => []ConfigSound
<1>1. Looked => ConfigSound
    BY ConfigUsable DEF ConfigSound, AcceptedIsUsable, ConfiguredIsBound
<1>. QED
    BY <1>1, AlwaysLooked, PTL

\* For any step and any width of the step counter, the pump is switched on for
\* the time asked for, rounded up to a step, or for less if the counter wraps
\* around; and an Off goes before every other command that has a name, before
\* polling, and behind no raw() (CommandService).
THEOREM CommandsAlwaysAsAsked == RulesSpec => []CommandsAsAsked
<1>1. Looked => CommandsAsAsked
    BY CommandAsAsked DEF CommandsAsAsked, TurnOnCovers, OffOvertakesAll
<1>. QED
    BY <1>1, AlwaysLooked, PTL
==============================================================================
