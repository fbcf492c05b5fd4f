------------------------------ MODULE Manager -------------------------------
(***************************************************************************)
(* DatapointManager (src/datapoints/manager.cpp): the cache and its        *)
(* qualities, reads, writes with readback, reports of the device,          *)
(* subscriptions, and staging with commit.                                 *)
(*                                                                         *)
(* There are two kinds of threads.  The IO thread takes the frames of the  *)
(* device in the order of the WebSocket connection, updates the cache      *)
(* under the mutex, and then, without the mutex, makes the calls in `due`  *)
(* one after the other: the subscribers' callbacks and the completion.     *)
(* Application threads call the synchronous functions in between.  The     *)
(* dispatcher and session below are used as Dispatcher and Session show    *)
(* them to work: a request is completed once, with its own response or     *)
(* with an error, and a response that comes later reaches nobody.          *)
(*                                                                         *)
(* A snapshot, a write set and the staged changes are functions from names *)
(* to values, Absent where they have no entry.                             *)
(*                                                                         *)
(* A definition marked "Fault" is what the one below it would be with a    *)
(* plausible mistake in the code; it is not part of the model.             *)
(***************************************************************************)
EXTENDS Integers, Sequences, SequencesExt, FiniteSets

CONSTANTS
    Names,              \* the catalog
    Writable,           \* the names that are writable(); the others are
                        \* read-only
    Values,             \* values a datapoint takes
    Invalid,            \* those that are out of range for a write
    Threads,            \* application threads
    Subscribers,        \* callbacks, each with the name it is about
    Topic,              \* Topic[s]: that name, or AllNames
    AllNames,           \* the empty name of subscribe_all()
    Absent,             \* no value
    MaxRequests,        \* bound: requests made
    MaxConnections,     \* bound: connections made
    MaxWire             \* bound: frames on their way

ASSUME ManagerAssumption ==
    /\ IsFiniteSet(Names) /\ IsFiniteSet(Subscribers)
    /\ Writable \subseteq Names
    /\ Invalid \subseteq Values
    /\ Topic \in [Subscribers -> Names \cup {AllNames}]
    /\ Absent \notin Values
    /\ AllNames \notin Names
    /\ MaxRequests \in Nat /\ MaxConnections \in Nat /\ MaxWire \in Nat

VARIABLES
    connection,         \* number of the connection, 0 without one
    connections,        \* connections made so far
    wire,               \* frames of the device, oldest first
    call,               \* call[t]: the synchronous call t is in
    next_id,            \* requests made so far
    cache,              \* Impl::cache
    staged,             \* Impl::staged
    late,               \* late[t], history: what was staged since the
                        \* commit() of t took its copy of the staging
    subscriptions,      \* Impl::subscriptions: the callbacks subscribed
    due,                \* calls the IO thread has still to make
    seen                \* seen[s][n]: the value of n in the cache when s was
                        \* subscribed, then what its callbacks told

network == <<connection, connections, wire>>
calls == <<call, next_id>>
vars == <<network, calls, cache, staged, late, subscriptions, due, seen>>

Snapshots == [Names -> Values \cup {Absent}]
Nothing == [n \in Names |-> Absent]
EntriesOf(dp) == {n \in Names : dp[n] # Absent}

Idle == [state |-> "idle"]
Asked(purpose, id, names, dp) ==
    [state |-> "asked", purpose |-> purpose, id |-> id, names |-> names, dp |-> dp]
Done(c, outcome, dp) ==
    [state |-> "done", purpose |-> c.purpose, outcome |-> outcome,
     dp |-> IF c.purpose = "read" THEN Nothing ELSE dp]

Init ==
    /\ connection = 0
    /\ connections = 0
    /\ wire = <<>>
    /\ call = [t \in Threads |-> Idle]
    /\ next_id = 0
    /\ cache = [n \in Names |->
                   [quality |-> "Unknown", value |-> Absent, heard |-> 0]]
    /\ staged = Nothing
    /\ late = [t \in Threads |-> {}]
    /\ subscriptions = {}
    /\ due = <<>>
    /\ seen = [s \in Subscribers |-> Nothing]

-----------------------------------------------------------------------------
(* The device and the network.                                             *)

\* The values a device may tell at any time: it changes by itself and by the
\* writes of other clients.
Told(names) == {dp \in Snapshots : EntriesOf(dp) = names
                                   /\ \A n \in names : dp[n] \notin Invalid}

\* dp_report: the device tells some of its values on its own.
DeviceReports(dp) ==
    /\ connection # 0 /\ Len(wire) < MaxWire
    /\ wire' = Append(wire, [type |-> "dp_report", dp |-> dp])
    /\ UNCHANGED <<connection, connections, calls, cache, staged, late,
                   subscriptions, due, seen>>

\* The device answers a request of t.
DeviceAnswers(t, outcome, dp) ==
    /\ connection # 0 /\ Len(wire) < MaxWire
    /\ call[t].state = "asked"
    /\ \A i \in DOMAIN wire : wire[i].type = "response" => wire[i].id # call[t].id
    /\ wire' = Append(wire, [type |-> "response", id |-> call[t].id,
                             outcome |-> outcome, dp |-> dp])
    /\ UNCHANGED <<connection, connections, calls, cache, staged, late,
                   subscriptions, due, seen>>

\* The response to a dp_read; a firmware may not know, or send undecodable
\* values for, some of the names.
DeviceReads(t) ==
    /\ call[t].state = "asked" /\ call[t].names # {}
    /\ \E known \in SUBSET call[t].names : \E dp \in Told(known) :
           DeviceAnswers(t, "ok", dp)

\* The response to a dp_write: all values are taken and read back, or none.
DeviceWrites(t) ==
    /\ call[t].state = "asked" /\ call[t].names = {}
    /\ \/ DeviceAnswers(t, "applied", call[t].dp)
       \/ DeviceAnswers(t, "rejected", Nothing)

\* The session becomes running.
Connect ==
    /\ connection = 0 /\ connections < MaxConnections
    /\ connections' = connections + 1
    /\ connection' = connections'
    /\ UNCHANGED <<wire, calls, cache, staged, late, subscriptions, due, seen>>

-----------------------------------------------------------------------------
(* The IO thread.                                                          *)

\* Fault: a first value is no change.
DiffersOnly(entry, value) == entry.quality # "Unknown" /\ entry.value # value

\* `changed` of update_cache()
Changed(entry, value) == entry.quality = "Unknown" \/ entry.value # value

\* `old` of update_cache(): taken before the entry is overwritten.
OldValue(entry, value) ==
    IF entry.quality = "Unknown" THEN Absent ELSE entry.value

\* The names a callback is about.
Concerns(s, n) == Topic[s] \in {n, AllNames}

\* update_cache(): what a snapshot makes of the cache, and whom to call.
UpdatedCache(dp) ==
    [n \in Names |->
        IF dp[n] = Absent THEN cache[n]
        ELSE [quality |-> "Good", value |-> dp[n], heard |-> connection]]

\* The callbacks that a change of a name concerns, each with the old and the
\* new value.
Notifications(dp) ==
    LET changes == {n \in EntriesOf(dp) : Changed(cache[n], dp[n])}
    IN  UNION {{[kind |-> "notify", to |-> s, name |-> n, value |-> dp[n],
                 old |-> OldValue(cache[n], dp[n])] :
                s \in {x \in subscriptions : Concerns(x, n)}} : n \in changes}

\* update_cache(), then the calls it returned and `after` them.  The code
\* goes through the names, and for each through the subscriptions; any order
\* is allowed here, since no two of these calls are about the same name and
\* the same callback.
Update(dp, after) ==
    /\ cache' = UpdatedCache(dp)
    /\ \E told \in SetToSeqs(Notifications(dp)) : due' = told \o after

\* ingest_report(), and the handlers of async_read() and async_write_json()
\* with parse_write_result().
Receive ==
    /\ due = <<>> /\ wire # <<>>
    /\ wire' = Tail(wire)
    /\ LET frame == Head(wire)
           Asks(t) == call[t].state = "asked" /\ call[t].id = frame.id
       IN  \/ frame.type = "dp_report" /\ Update(frame.dp, <<>>)
           \/ /\ frame.type = "response"
              /\ \E t \in Threads :
                    /\ Asks(t)
                    /\ Update(frame.dp, <<[kind |-> "complete", to |-> t,
                                           outcome |-> frame.outcome,
                                           dp |-> frame.dp]>>)
           \/ /\ frame.type = "response"
              /\ \A t \in Threads : ~Asks(t)
              /\ UNCHANGED <<cache, due>>
    /\ UNCHANGED <<connection, connections, calls, staged, late, subscriptions,
                   seen>>

\* The next call of the loop over the notifications, and the completion
\* after them.
MakeCall ==
    /\ due # <<>>
    /\ due' = Tail(due)
    /\ \/ /\ Head(due).kind = "notify"
          /\ seen' = [seen EXCEPT ![Head(due).to][Head(due).name] = Head(due).value]
          /\ UNCHANGED call
       \/ /\ Head(due).kind = "complete"
          /\ LET t == Head(due).to IN
                 call' = [call EXCEPT ![t] = Done(@, Head(due).outcome, Head(due).dp)]
          /\ UNCHANGED seen
    /\ UNCHANGED <<network, next_id, cache, staged, late, subscriptions>>

\* The dispatcher gives up on a request.
RequestFails(t) ==
    /\ due = <<>>
    /\ call[t].state = "asked"
    /\ call' = [call EXCEPT ![t] = Done(@, "error", Nothing)]
    /\ UNCHANGED <<network, next_id, cache, staged, late, subscriptions, due,
                   seen>>

\* Fault: a lost connection leaves the cache as it is.
KeptCache == cache

\* mark_all_stale()
StaleCache ==
    [n \in Names |-> IF cache[n].quality = "Good"
                     THEN [cache[n] EXCEPT !.quality = "Stale"] ELSE cache[n]]

\* handle_transport_closed() of the client: the session fails all requests,
\* then the cache is marked.
Disconnect ==
    /\ due = <<>> /\ connection # 0
    /\ connection' = 0
    /\ wire' = <<>>
    /\ call' = [t \in Threads |-> IF call[t].state = "asked"
                                  THEN Done(call[t], "error", Nothing) ELSE call[t]]
    /\ cache' = StaleCache
    /\ UNCHANGED <<connections, next_id, staged, late, subscriptions, due, seen>>

-----------------------------------------------------------------------------
(* Application threads.                                                    *)

\* A synchronous call that becomes a request, or is refused before.
Ask(t, purpose, names, dp) ==
    /\ next_id < MaxRequests
    /\ next_id' = next_id + 1
    /\ call' = [call EXCEPT ![t] = Asked(purpose, next_id', names, dp)]

Refuse(t, purpose) ==
    /\ call' = [call EXCEPT ![t] = Done([purpose |-> purpose], "error", Nothing)]
    /\ UNCHANGED next_id

\* read_names(), read(), read_all(): no names is an error.
Read(t, purpose, names) ==
    /\ call[t] = Idle
    /\ \/ names = {} /\ Refuse(t, purpose)
       \/ names # {} /\ Ask(t, purpose, names, Nothing)
    /\ UNCHANGED <<network, cache, staged, late, subscriptions, due, seen>>

\* DatapointWriteSet::validate(), the head of async_write()
ValidChanges(dp) == dp # Nothing /\ \A n \in EntriesOf(dp) : dp[n] \notin Invalid

\* write() of a write set, whose set() has refused names that are not
\* writable.
Write(t, purpose, dp) ==
    /\ call[t] = Idle
    /\ \/ ~ValidChanges(dp) /\ Refuse(t, purpose)
       \/ ValidChanges(dp) /\ Ask(t, purpose, {}, dp)
    /\ UNCHANGED <<network, cache, staged, late, subscriptions, due, seen>>

\* t is in commit(), between the copy of the staging and its end.
Committing(t) == call[t] # Idle /\ call[t].purpose = "commit"

\* stage(): the type is checked, not the range.
Stage(n, v) ==
    /\ n \in Writable
    /\ staged' = [staged EXCEPT ![n] = v]
    /\ late' = [t \in Threads |->
                   IF Committing(t) THEN late[t] \cup {n} ELSE late[t]]
    /\ UNCHANGED <<network, calls, cache, subscriptions, due, seen>>

\* commit(), up to its write.
Commit(t) ==
    /\ staged # Nothing
    /\ Write(t, "commit", staged)

\* Fault: a commit that failed gives up its changes too.
Always(c) == c.purpose = "commit"

\* result && result->applied()
Confirmed(c) == c.purpose = "commit" /\ c.outcome = "applied"

\* A synchronous call returns; commit() discards what is staged now.
Return(t) ==
    /\ call[t].state = "done"
    /\ call' = [call EXCEPT ![t] = Idle]
    /\ staged' = IF Confirmed(call[t]) THEN Nothing ELSE staged
    /\ late' = [late EXCEPT ![t] = {}]
    /\ UNCHANGED <<network, next_id, cache, subscriptions, due, seen>>

\* discard_staged()
DiscardStaged ==
    /\ staged # Nothing
    /\ staged' = Nothing
    /\ UNCHANGED <<network, calls, cache, late, subscriptions, due, seen>>

\* subscribe_raw(), subscribe_all().  A new subscription is a new callback,
\* for which nothing is due.
Subscribe(s) ==
    /\ s \notin subscriptions
    /\ \A i \in DOMAIN due : due[i].to # s
    /\ subscriptions' = subscriptions \cup {s}
    /\ seen' = [seen EXCEPT ![s] = [n \in Names |-> cache[n].value]]
    /\ UNCHANGED <<network, calls, cache, staged, late, due>>

\* The token of a subscription is dropped; calls that are due stay due.
Unsubscribe(s) ==
    /\ s \in subscriptions
    /\ subscriptions' = subscriptions \ {s}
    /\ UNCHANGED <<network, calls, cache, staged, late, due, seen>>

IoThread ==
    \/ Receive
    \/ MakeCall
    \/ \E t \in Threads : RequestFails(t)
    \/ Disconnect

Device ==
    \/ \E names \in SUBSET Names \ {{}} : \E dp \in Told(names) : DeviceReports(dp)
    \/ \E t \in Threads : DeviceReads(t) \/ DeviceWrites(t)
    \/ Connect

Application ==
    \/ \E t \in Threads, names \in SUBSET Names : Read(t, "read", names)
    \/ \E t \in Threads, n \in Writable, v \in Values :
           Write(t, "write", [Nothing EXCEPT ![n] = v])
    \/ \E n \in Names, v \in Values : Stage(n, v)
    \/ \E t \in Threads : Commit(t) \/ Return(t)
    \/ DiscardStaged
    \/ \E s \in Subscribers : Subscribe(s) \/ Unsubscribe(s)

Next == IoThread \/ Device \/ Application

Spec == Init /\ [][Next]_vars

-----------------------------------------------------------------------------
(* Properties.                                                             *)

Purposes == {"read", "write", "commit"}
Outcomes == {"ok", "applied", "rejected", "error"}

Frames ==
    [type : {"dp_report"}, dp : Snapshots] \cup
    [type : {"response"}, id : Nat, outcome : Outcomes, dp : Snapshots]

CallStates ==
    {Idle} \cup
    [state : {"asked"}, purpose : Purposes, id : Nat, names : SUBSET Names,
     dp : Snapshots] \cup
    [state : {"done"}, purpose : Purposes, outcome : Outcomes, dp : Snapshots]

DueCalls ==
    [kind : {"notify"}, to : Subscribers, name : Names, value : Values,
     old : Values \cup {Absent}] \cup
    [kind : {"complete"}, to : Threads, outcome : Outcomes, dp : Snapshots]

\* The types of the manager's state; an entry has a value if and only if its
\* quality says so (cached_raw()).
TypeOK ==
    /\ connection \in 0..connections
    /\ connections \in 0..MaxConnections
    /\ wire \in Seq(Frames)
    /\ call \in [Threads -> CallStates]
    /\ next_id \in 0..MaxRequests
    /\ cache \in [Names -> [quality : {"Unknown", "Good", "Stale"},
                           value : Values \cup {Absent},
                           heard : 0..MaxConnections]]
    /\ \A n \in Names : (cache[n].quality = "Unknown") <=> (cache[n].value = Absent)
    /\ staged \in Snapshots
    /\ subscriptions \subseteq Subscribers
    /\ due \in Seq(DueCalls)
    /\ seen \in [Subscribers -> Snapshots]

\* A value of quality Good was received on the connection that exists now,
\* whatever crossed on its way when the last one was lost (snapshot.hpp,
\* mark_all_stale()).
GoodIsOfThisConnection ==
    \A n \in Names : cache[n].quality = "Good" =>
        connection # 0 /\ cache[n].heard = connection

\* The cache is honest about its values: what is Good was heard on this
\* connection, and only what was never heard is Unknown.
CacheSound ==
    /\ TypeOK
    /\ GoodIsOfThisConnection

IsDue(s, n) ==
    \E i \in DOMAIN due : due[i].kind = "notify" /\ due[i].to = s /\ due[i].name = n

\* What was in the cache when a callback was subscribed, and what the callback
\* was told since, is what is in the cache, apart from calls still due: no
\* change is missed and none is told in the wrong order, also not one between
\* the subscription and the calls of an update (update_cache(),
\* subscribe_raw()).
SubscriberKnowsCache ==
    \A s \in subscriptions, n \in Names :
        Concerns(s, n) /\ ~IsDue(s, n) => seen[s][n] = cache[n].value

\* The old value a callback is given is the value it knew
\* (AnyDatapointChange::old_value), and it is called for a change only.
ChangesChain ==
    \A i \in DOMAIN due : due[i].kind = "notify" =>
        /\ due[i].old = seen[due[i].to][due[i].name]
        /\ due[i].old # due[i].value

\* A subscriber is told every change, once and in order, from the value it
\* knew to the value that the cache has.
TellsChanges == SubscriberKnowsCache /\ ChangesChain

\* What makes them inductive: frames belong to a connection that exists; the
\* calls still due tell what the cache has, each callback and name once; and
\* the completion comes last, to a thread that still waits for it.
WireNeedsConnection == connection = 0 => wire = <<>>

DueIsNews ==
    \A i \in DOMAIN due : due[i].kind = "notify" =>
        /\ due[i].value = cache[due[i].name].value
        /\ \A j \in DOMAIN due : due[j].kind = "notify"
               /\ due[j].to = due[i].to /\ due[j].name = due[i].name => i = j

CompletionLast ==
    \A i \in DOMAIN due : due[i].kind = "complete" =>
        i = Len(due) /\ call[due[i].to].state = "asked"

IInv ==
    /\ TypeOK
    /\ GoodIsOfThisConnection
    /\ WireNeedsConnection
    /\ SubscriberKnowsCache
    /\ ChangesChain
    /\ DueIsNews
    /\ CompletionLast

\* A staged value is as good as written: t returns from a commit() that the
\* device has applied, and either this value is the one that was sent and read
\* back, or it was staged after the commit had taken its copy.
Committed(t, n) ==
    /\ call[t].state = "done"
    /\ call[t].purpose = "commit"
    /\ call[t].outcome = "applied"
    /\ call[t].dp[n] = staged[n] \/ n \in late[t]

\* commit(): "Discard only after device confirmation -- on "rejected" the
\* staging is kept so the application can correct it".  A staged value leaves
\* the staging by discard_staged(), or at the end of a commit() whose write
\* the device has applied with this very value; a commit that is refused,
\* rejected or lost keeps every one, and so does a write().  One case is
\* excepted, in which the code does not do what the comment says: a value
\* staged while the write was under way is discarded with the others,
\* although no device has seen it.
StagedUntilConfirmed ==
    [][\A n \in Names : staged[n] # Absent /\ staged'[n] = Absent =>
           DiscardStaged \/ \E t \in Threads : Return(t) /\ Committed(t, n)]_vars

\* What makes it inductive: requests that wait have numbers of their own; a
\* response that says "applied" repeats what its request asked to be written,
\* and so does the completion; and what is staged while a commit is under way,
\* or was applied, is what it writes or was staged since.
RequestsNumbered ==
    \A t \in Threads : call[t].state = "asked" =>
        /\ call[t].id <= next_id
        /\ \A u \in Threads :
               call[u].state = "asked" /\ call[u].id = call[t].id => u = t

AnswersFit ==
    \A i \in DOMAIN wire : wire[i].type = "response" =>
        /\ wire[i].id <= next_id
        /\ wire[i].outcome = "applied" =>
               \A t \in Threads :
                   call[t].state = "asked" /\ call[t].id = wire[i].id =>
                       wire[i].dp = call[t].dp

CompletionFits ==
    \A i \in DOMAIN due :
        due[i].kind = "complete" /\ due[i].outcome = "applied" =>
            due[i].dp = call[due[i].to].dp

CopyIsStaged ==
    \A t \in Threads, n \in Names :
        /\ Committing(t)
        /\ call[t].state = "done" => call[t].outcome = "applied"
        /\ staged[n] # Absent
        => call[t].dp[n] = staged[n] \/ n \in late[t]

StagingInv ==
    /\ late \in [Threads -> SUBSET Names]
    /\ RequestsNumbered
    /\ AnswersFit
    /\ CompletionFits
    /\ CopyIsStaged
=============================================================================
