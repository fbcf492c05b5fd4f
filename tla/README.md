# TLA+ models of the Fountainer client framework

The framework is a C++ library that talks to a fountain controller over a
mutually authenticated WebSocket. An application owns one `Client` per device;
the client owns an IO thread, keeps the connection up, and offers services
(datapoints, polling, commands, logs, maintenance) whose requests all go
through one dispatcher. The modules here model the whole way of a request, from
the transport over session, client and dispatcher to the services, and the pure
functions that decide what is sent. TLC checks them on small instances; TLAPS
proves every safety property the runs check, one about 64-bit numbers excepted,
for all instances. Where the code does not keep what one would expect, the property
names the exception, and "Disagreements" below lists it.

Paths below are relative to the repository; `PROJECT.json` maps every
definition to the lines it models.

## Inventory

| Component | State | Operations | Hard behaviour | What makes it correct |
|---|---|---|---|---|
| `RequestDispatcher` (`src/protocol/dispatcher.cpp`) | queue, map of open requests, token bucket, metrics | submit, tick, on_message, fail_all | timeouts against late answers, coalescing, limits, handlers that submit | every handler once, limits kept, urgent first, no answer to the wrong request |
| `ControllerSession` (`src/protocol/session.cpp`) | handshake phase, nonces, sequence numbers, the dispatcher | on_transport_open/closed, on_text, tick, request | order of hello, proof and data; replay; abort inside callbacks | running only after a verified proof; nothing replayed is dispatched |
| authentication (`auth.cpp`, `canonical.cpp`, `envelope.cpp`) | last sequence number | sign, verify, AntiReplay::check | order of frames | strictly increasing numbers per connection |
| `WssTransport` (`src/transport/wss_transport.cpp`) | phase, send queue, completions | async_open, cancel, async_send, close | late completions after cancel or close | one completion per attempt, one close per connection, one completion per frame |
| `Client` (`src/client.cpp`) | state, dialer, transport, session, timers, waiting callers | connect, disconnect, reconnect, submit | disconnect at any moment, expired timers, failures in the middle of an attempt | calls return, the state is true, no dial after a disconnect, no request lost |
| `SecurityConfiguration` (`src/security.cpp`) | credentials, lock | setters, lock, unlock, validate | change between attempts, unsynchronised setters | parameters fixed while in use, free afterwards |
| `DatapointManager` (`src/datapoints/manager.cpp`) | cache with quality, staged values, subscriptions | read, write, stage, commit, ingest_report, mark_all_stale | callbacks after the lock is released, answers of a lost connection, commits that fail | Good values are current, a subscriber knows what the cache knows, staged values stay until they are confirmed |
| `DatapointPoller` (`src/datapoints/poller.cpp`) | grid, in-flight marks | tick, start, stop, every, once, on_reconnected | marks cleared while a read is out, reads posted to a session that closes, missed cycles, silence | the grid is kept, reads and marks agree, little piles up, every point is read, the session is kept alive |
| `LogService` (`src/logs.cpp`) | none between calls | read, read_all, read_previous, ack_previous, clear | a ring that grows, turns, is cleared and starts again meanwhile | each record once, in order; ends; nothing unfetched is given up |
| `CommandService`, `MaintenanceService`, `DiagnosticsService` | none | one request per command | priorities, rounding, guards | no command before an Off, durations covered |
| `DatapointRestoreGuard` (`src/datapoints/restore_guard.cpp`) | baseline, armed | capture, restore, dismiss, move, destructor | failure half way, moves | each baseline is handed back once |
| `EventBus` (`src/events.cpp`) | slots | attach, reset, publish | coming and going during a delivery | no event missed, none after removal |
| codec, constraints, configuration | none | pure functions | limits, rounding, absent values | they agree with the device and with each other |
| errors, results, logger, catalog | none | values, output, a generated table | - | - |

How they interact: application threads post to the IO thread and block in
`connect()`, `disconnect()` or `sync_wait` until a completion is called there.
On the IO thread the client owns the transport, which hands frames to the
session, which hands responses to the dispatcher and events to the services. A
timer calls `session->tick()` every 100 ms while the transport is open. When
the connection ends the session fails all requests and the client decides
whether to reconnect.

## Modules

| Module | What it is |
|---|---|
| `CallOnce` | what the request path promises: each handler is idle, then waiting, then called |
| `Dispatcher` | `RequestDispatcher`, every operation, with the clock, the device and the connection as its environment |
| `DispatcherProofs` | theorems about `Dispatcher` |
| `DispatcherReentry` | the queue loop of `tick()` when handlers submit from within |
| `Link` | what session and client promise each other about one connection |
| `Session` | `ControllerSession` with `sign()`, `verify()` and `AntiReplay`, devices and the network as its environment |
| `SessionProofs` | theorems about `Session` |
| `Client` | the life cycle of the connection, the security lock, the fate of requests |
| `ClientProofs` | theorems about `Client`, and about `Events`, the bus the client owns |
| `Connection` | what a transport promises its owner about one connection |
| `Transport` | `WssTransport`, with the handlers Asio has already queued |
| `TransportProofs` | theorems about `Transport` |
| `Manager` | `DatapointManager`, the device, the IO thread and application threads |
| `ManagerProofs` | theorems about `Manager`, and about `Rules`, whose codec and constraints it uses |
| `Poller` | `DatapointPoller` with the part of client and dispatcher it needs |
| `PollerProofs` | theorems about `Poller` |
| `Logs` | `LogService` against a device with a ring of records |
| `LogsProofs` | theorems about `Logs` |
| `Events` | one list of handlers of `EventBus` and its `Subscription` objects |
| `RestoreGuard` | `DatapointRestoreGuard` objects that are moved about |
| `RestoreGuardProofs` | theorems about `RestoreGuard` |
| `Codec`, `Constraints`, `Config`, `Commands` | the pure functions, as operators |
| `Rules` | reference definitions for those, and the inputs they are compared on |
| `MC*` | instances for TLC |

`Link` composes the two halves of the connection: `Session` implements it
(`KeepsLink`) and every behaviour of `Client`, restricted to its session and its
transport, is one of it (`UsesLink`). `Connection` stands between `Transport`,
which implements it (`KeepsPromise`), and `Client`, whose dialer and transport
assume it. `CallOnce` does the same for requests: `Dispatcher` implements it,
and `Manager`, `Poller` and `Logs` use a request as it promises (completed once,
with its own response or an error, and, on a connection, in the end). `Poller` and
`Logs` also have the sessions of `Client`, since a request given to a session that
is closed is not completed.

Definitions marked "Fault" are seeded mistakes; each of them makes one property
fail, which shows that the property can fail.

### Dispatcher

Every public call is one action that runs to its end. `Submit` either attaches
to a waiting entry (and returns without a tick, as the code does) or creates an
entry and runs a tick. `TickFrom` is the whole of `tick()`: refill, both timeout
loops, drain. `drain()` is a loop over the queue in the order `Before`; since
sends may fail at any point, the action chooses which of the entries it takes
are sent and which fail, constrained by `Drain`: what was taken is a prefix of
the order, no frame was sent beyond the budget, and the loop stopped only
because the queue was empty or the budget was spent. `OnMessage` takes a frame
the device has received and answers it with an admitted or another type; the
device may answer late or never. `FailAll` and `EnterRunning` are what the
session does at the end and at the start of a connection; the msg ids start
over with it. `due[r]` is a history, the time up to which the caller of r has said
it will wait. The deadline of an entry is another thing: coalescing moves it to the
latest of those of its callers.

Abstractions: the queue is a set, because `sequence` orders it; tokens are
natural numbers (`Cost` fractions per frame, `Rate` fractions per unit of time)
instead of doubles; an open request keeps its whole entry. The code's handlers
post what they submit, so a call does not nest; the nested case is
`DispatcherReentry`, which follows the iterators of the nested loops one step at
a time. There the vector has room to grow; if it has not, the outer iterators
dangle, which is worse.

### Session

`on_text()` is one action per state of the session (`OnHello`, `OnProof`,
`OnRunning`, `OnClosed`) and one for what is not a JSON object (`OnGarbage`);
each is the whole handler with everything it sends and every callback it makes.
`TransportOpen`, `TransportClosed` and `Tick` are the other events of the
session, `SendRequest` and `SendMessage` the two ways in which control messages
get their signature, `UserClose` the client's `close()`, which the session does
not hear of. A read that has completed when the connection ends is still
delivered (`reading`). The variables `proof`, `sent`, `handed` and `verdicts`
are histories: the frame that made the session running, what it signed, what
passed its checks, and the calls of `on_ready` and `on_failed`.

A MAC is the pair of its key and its input, so MACs are equal exactly if key and
input are. Body, time stamp and ids of a frame follow from its context and its
number and need no place in the input. Server nonces are the numbers of the
connections, since random ones do not repeat. A device signs with the key it
has, under any server nonce ever acknowledged, and uses each sequence number
once; a hello may claim anything; a signed frame arrives at any time, any number
of times and over any connection, or never. Nothing else is assumed of the peer. A session
always has a credential provider: `SecurityConfiguration::validate()` refuses to
connect without one, so the branch at `session.cpp:296` is not taken.

### Client

Everything happens on the IO thread; the calls of other threads are posted and
have no effect before they run, so calling and running is one action. `state` is
what `Client::state()` shows. The transport is `none`, `open` or `closing`
(`close()` called, close handler outstanding); the session is `none`, `closed`,
`await` (handshake) or `running`. `ReconnectNow` is the handler of the reconnect
timer: once the timer has expired the handler is queued and `cancel()` comes too
late. It runs before the completion of any attempt that is started meanwhile,
since the queue of the IO thread is first in, first out. `validate()` and
`make_ssl_context()` read the certificate files at every attempt and may fail at
any of them. The four intermediate states of `ClientState` that the code never
enters (`TcpConnecting`, `TlsHandshaking`, `WebSocketHandshaking`, `Closing`) are
left out, and with `Closing` the branch of `begin_connect()` that tests for it.

A request is `held` while the dispatcher of the current session has it; what the
dispatcher does with it is the subject of `Dispatcher`. `tick()` runs while the
transport is open, so only then does a deadline end a request. `session.reset()`
destroys the dispatcher and drops what it holds.

### Transport

One action per call of the owner and per handler. What makes the transport hard
is that an operation of Asio that has succeeded has queued its handler, and
closing the socket does not recall it; so an operation in progress is `started`
while it can still fail and `succeeded` once its handler is queued with a
success. `Finish` is `finish()`, shared by almost all of them. `OnWriteUndefined`
is `front()` of an empty deque; after it the process has crashed or not.
`answer`, `closes` and `sent` record the calls that were made.

### Manager

The IO thread takes a frame, updates the cache under the mutex and then makes the
calls in `due` one by one without it; application threads run in between. `call[t]`
is the synchronous call thread t waits in; that of a commit has the copy of the
staging it writes, and the history `late[t]` the names that were staged after the
copy was taken. The device tells any values at any time, since other clients write
to it too. `seen` is a history: what a subscriber was told. `subscriptions` is a set
and `Update` allows the calls of one update in any order: the code's order, by name
and then by subscription, is one of them, and no two of these calls have the same
callback and the same name. Time stamps, sources and the report's sequence number
are stored by the code and compared by nobody, and left out.

### Poller

Points in time are relative to the present, so time needs no bound: `next_due` is
the time until an entry is due. A name is its place in the order of names, which
is the order of `entries`, so a due name goes into the request that the number of
due names before it gives (`Before`, `Chunks`). `resets` and `grid` are
histories. A timer that is late by at most `MaxLag` is what lets cycles be missed.

A tick only posts its reads (`client.cpp:142`). `posted` are those that have not run
yet, `reads` those that a session's dispatcher has, which it sends and completes in
an order of its own. `session` is the client's: `none`, `fresh` (made by
`begin_connect()`, handshake not done), `running` or `closed`. `RunPosted` gives a
read to whatever session there is by then. When the connection has ended in between
(`ConnectionEnds`), that is the closed one, which nobody ticks, and `Redial`, the
`session.reset()` of the next attempt, destroys the read without a call of its
handler. The mark it leaves is cleared by the reset of the grid on the next
connection. When the attempt has begun in between, the read goes to the fresh session
and is sent on the new connection. The IO thread runs what it is given first in,
first out, so what a tick posts runs before the next tick and before anything that
takes a round trip; this is the guard `NothingPosted`.

### Logs, Events, RestoreGuard

`Logs` has a thread in `read_all()` and another one that clears the log and fetches
and acknowledges the log of the previous boot, while the device records, cuts its
batches short, answers late and boots. `session` is as in `Poller`: a page that is
asked for while it is `closed` is held by a dispatcher that nobody ticks, and lost
at the next `Redial`; the thread is then `lost`. A `fresh` session that does not get
a connection (`DialFails`) keeps the page and becomes such a closed one. A batch is
described by what it is, the first records after a number, oldest first
(`FirstAfter`). `Events` has `emit()` as one step for its copy, the set of handlers
still to be called, and one for each call, in the order of their tokens.
`RestoreGuard` has objects that are captured, moved, assigned, restored, dismissed
and destroyed in any order by one thread; `outcome` records what became of each
baseline.

### Codec, Constraints, Config, Commands

Operators without state. A double is a whole number of quarters, so that rounding
has something to decide, an infinity, or NaN; a float is a multiple of `Grain`
quarters up to `FloatMax`, and `Float` is the cast to the nearest one, halves to the
even one, and to an infinity beyond the last. So neither the cast in
`value_from_json()` nor that of the limits in `validate()` is the identity. Integer
types have the widths `Bits` gives them. `Written` follows an assignment of the
command line tool to its end: it is refused, it is sent, or, as `canonical_number()`
does not take what is not finite, its signature throws. `DeviceAccepts` is the
firmware's check as `codec.cpp:173` tells it, with floats as limits;
`tools/fake_device.py` has the same checks with doubles. No `U64` is writable in the
catalog, so how the firmware would read one does not matter. `Submit` of `Commands`
takes the priority of a `raw()` from its caller, as the code does. `Rules` states
what the operators are for and enumerates inputs: one state per input, which is why
its run has no interleavings.

## Runs

| Run | Shows | Distinct states |
|---|---|---|
| `dispatcher` | the safety properties of `Dispatcher`, that it implements `CallOnce`, and that every handler is called in the end | 76 000 |
| `client` | the safety properties of `Client`, that it keeps to `Link`, that calls return and that requests of a connection are answered | 35 000 |
| `session` | a running session is authentic, nothing is replayed or reordered, ours is accepted; it implements `Link`; every handshake ends | 302 000 |
| `transport` | frames complete once, no operation is started twice, it implements `Connection`; attempts are answered and a close ends | 3 200 |
| `manager` | Good means of this connection; subscribers know what the cache knows; what is staged stays until it is confirmed | 830 000 |
| `poller` | a mark on a connection has a read, pile-up is bounded, the grid is kept; the session is kept alive and every point read | 151 000 |
| `logs` | records come once, in order, and to the end of the ring; what is acknowledged was fetched; `read_all()` returns unless its page was lost | 141 000 |
| `events` | handlers have one owner, miss nothing and hear nothing after their removal | 27 000 |
| `guard` | each baseline is armed in one guard until it is handed back, and unchanged | 179 000 |
| `rules` | codec, constraints, configuration and commands agree with their reference definitions | 258 000 |
| `dispatcher_reentry`, `client_lost` | two disagreements, see below | - |

The properties a run checks, and the named parts of those that are conjunctions:

| Run | Invariants | Action and temporal properties |
|---|---|---|
| `dispatcher` | `HeldOrCalled`, `ResponseMeetsItsRequest`, `BooksBalance` (`TypeOK`, `InFlightBound`, `RateBound`, `MetricsBalance`, `OneEntryPerKey`) | `TimeoutsExact` (`NoneOverdue`, `NoEarlyTimeout`), `UrgentFirst`, `CallsOnce`, `EveryHandlerCalled` |
| `client` | `Consistent` (`TypeOK`, `StateTellsTheTruth`, `CallersServed`, `TimerOnlyWhileReconnecting`), `AuthFailureWaits`, `CredentialsStable` | `NoUnwantedDial`, `UsesLink`, `EveryoneAnswered` (`CallsReturn`, `OpenRequestsAnswered`) |
| `session` | `Authentic`, `NotReplayed` (`TypeOK`, `HandedOnce`, `HandedInOrder`), `OursAccepted`, `OneVerdict` | `KeepsLink`, `HandshakeEnds` |
| `transport` | `QueueSound` (`TypeOK`, `HeldIffWaiting`, `WritesWhatIsQueued`), `NoOverlap` | `KeepsPromise`, `OwnerAnswered` (`AttemptAnswered`, `CloseEnds`) |
| `manager` | `CacheSound` (`TypeOK`, `GoodIsOfThisConnection`), `TellsChanges` (`SubscriberKnowsCache`, `ChangesChain`) | `StagedUntilConfirmed` |
| `poller` | `ReadsBounded` (`TypeOK`, `InFlightIsReal`, `PileUpBounded`) | `KeepsGrid` (`StaysOnGrid`, `DeadlinesAhead`), `KeepsAlive`, `EveryPointRead` |
| `logs` | `NothingLost` (`TypeOK`, `NewerEachTime`, `NoneSkipped`, `AckedWasFetched`) | `EndsWithTheRing`, `ReadAllReturns` |
| `events` | `SlotsSound` (`BusTypeOK`, `OneOwner`), `Delivered` (`NoEventMissed`, `NoneAfterRemoval`) | |
| `guard` | `BaselineSafe` (`TypeOK`, `EachBaselineOnce`, `ArmedKeepsBaseline`) | |
| `rules` | `CodecSound` (`RoundTrips`, `NoSilentTruncation`, `DeviceAgrees`), `ConstraintsExact` (`AcceptedWriteKeepsOrder`, `RepairIsAccepted`), `ConfigSound` (`AcceptedIsUsable`, `ConfiguredIsBound`), `CommandsAsAsked` (`TurnOnCovers`, `OffOvertakesAll`) | |

`dispatcher` has three requests of two priorities, one key, a bucket of two and a
half frames that refills half a frame per unit, two slots, and a clock that stops at
2. Two of the requests wait for up to 2, the third for 1 or not at all, so an
impatient one meets patient ones in its entry and in its deadline. Three requests
are the fewest for which one waits while two are open, and for which a waiting pair
with one key stands beside another; the bucket and the slots run out at different
times, so each of them is the limit in some behaviours; a request of the third kind
can time out while others wait.

`client` has two callers, one request, two sets of credentials and the delays 1,
4 and 9: two callers are needed for a disconnect that meets a connect, and the
backoff needs two doublings to reach its cap.

`session` has two devices that share a key, as with credentials that are not
bound to a device, an expected device or none, two key ids of which one cannot be
resolved for one of the devices, two connections, two signed frames and two of
ours: enough for a frame of the other device, a frame of the earlier connection,
and frames that are repeated or overtake each other.

`transport` has a queue of two, three frames that fit and one that is too long,
so that the queue is full while one is being written. One connection is all there
is: a transport is not reused.

`manager` has a writable and a read-only datapoint, a value that is out of range,
one application thread that makes two requests (staging and subscribing need no
request and interleave with it), a subscriber of all names, two connections and
one frame on its way. The two valid values are interchangeable. With a second
thread and one connection there are 5.2 million states and no violation either.

`poller` has a periodic and a once point, an interval of 1 beside the default of 2,
a keepalive of 1, ticks up to 2 late and two calls of the application: intervals
that are missed once and twice, and both ways to be silent. `logs` has pages and a
ring of two records, three records a boot and three boots: the ring turns, and a
page is cut, on as many connections as one likes. `events` has three subscriptions,
four handlers and three events. `guard` has two objects, which may hold each other's
baselines, and two baselines of up to two datapoints. `rules` has integers of two to
four bits and every number around their limits; floats that are three quarters apart
and end at 60, so that doubles fall between them, halfway and beyond; limits that
are no floats (4, 8) or absent; both infinities and NaN; durations that wrap the
counter of steps; and `raw()` with each of the six priorities.

Deadlock is not checked where the system may stop: a transport that is closed, a
session after its last connection, a `read_all()` that has returned, a bus that
is destroyed.

These instances suffice because every behaviour of interest involves at most
two callers, three requests or two connections; the theorems remove the bound
for the safety properties.

### Fairness

`Dispatcher!FairSpec`: the clock advances and the owner keeps calling `tick()`,
which is the contract of `tick()`; the client fulfils it while the transport is
open (`arm_tick()`), and what happens otherwise is the finding of `client_lost`.
Nothing is assumed of the device or the connection.

`Client!FairSpec`: each wait that has a timer ends. An attempt is bounded by the
connect timeout in every phase, the handshake by `handshake_timeout` (the
`tick()` that aborts the session), a close by Beast's handshake timeout, which
also covers closing, the backoff by its timer, and a request by its deadline
while the transport is open. Callers, device and network owe nothing.

`Session!FairSpec`: time passes, an open connection is ticked (`arm_tick()`), and
a `close()` ends, by the same timeout of the stream. The peer owes nothing.

`Transport!FairSpec`: each step of the setup and a close end, since the resolver,
the socket and Beast's handshakes have timers. Nothing is assumed of reading and
writing on an open connection.

`Poller!FairSpec`: time passes, the client's timer comes (`arm_tick()`), the IO thread
runs what is posted, and the dispatcher of a running session sends and completes
what it was given; the last is what `EveryHandlerCalled` shows, and that reads are
not for ever timed out in the queue is an assumption on the window, which opens as
requests are answered or time out. A session that is not running owes nothing, and no
attempt to connect has to succeed.

`Logs!FairSpec`: a running session completes a request, an attempt to connect and its
handshake end one way or the other (`OwnerAnswered`, `HandshakeEnds`), and the calling
thread goes on. A closed session owes nothing. `ReadAllReturns` therefore has an
exception, `Stranded`: the page was asked for while there was no connection, and is
with the closed session or was lost with it. That is the finding of `client_lost`, seen
from `read_all()`. A device that records for ever is not assumed to stop; the bound on
its records does that.

### Disagreements

Two runs end in a counterexample. Each compares the code with what the
repository says of it; `PROJECT.json` quotes the lines.

| Run | The code | The repository says |
|---|---|---|
| `dispatcher_reentry` | a handler that submits from within the queue loop makes it erase another request, whose handler is not called | handlers may submit from within; called exactly once |
| `client_lost` | a dial that fails leaves its session in place; a request submitted then, while Disconnected, is given to it and destroyed with it by the next `connect()`, its handler uncalled | called exactly once |

The trace of `client_lost` is connect, failed dial, submit, connect. The same happens
to a request that is submitted while the client is Reconnecting, when the automatic
attempt resets the closed session; `Poller` and `Logs` have that case.

The models follow the code in further places where it departs from its own
words or from what one would expect; they are not runs of their own.

- `dispatcher.cpp:68`: a request that coalesces extends the deadline of the one
  that waits, so a caller may wait longer than the timeout it asked for
  (`dispatcher.hpp:50`: "Total budget from submit()"). `TimeoutsExact` says for how long.
- `client.cpp:208`: nothing ever enters `ClientState::Closing`, and the refusal at
  lines 219-223 is dead code. A `connect()` that meets a `disconnect()` in progress
  is told that it is connected, with the connection that is being closed.
- `client.cpp:236`: `validate()` or `make_ssl_context()` failing in a reconnect
  leaves the client Reconnecting without a timer (`Example.cpp:54`: "reconnects
  handled by the library").
- `client.cpp:240`: a first `connect()` whose `make_ssl_context()` fails leaves the
  configuration locked, and `set_tls()` is refused with "TLS cannot be changed
  while connected".
- `security.cpp:218`: `set_expected_device_id()` ignores the lock and takes effect
  at the next reconnect.
- `session.cpp:377`: a first signed frame other than `ota_check` is checked for
  replay twice and dropped by the second check.
- `session.cpp:496`: an `ota_check` that comes after another signed frame is not
  answered (`ota_policy.hpp:4`: "the controller MUST respond").
- `session.cpp:223`: a frame that is not a JSON object and was read when the
  connection ended makes a closed session report a failure, before "ignore after
  close".
- `wss_transport.cpp:187`: `cancel()` does not stop a resolver whose success is
  queued; the attempt goes on and may become an open connection that nobody owns
  (`text_transport.hpp:74`: "Aborts an attempt in progress"). The owner hears
  nothing of it (`KeepsPromise`).
- `wss_transport.cpp:388`: a write that succeeded just before `finish()` emptied
  the queue takes the front of an empty deque. `QueueSound` says that only `finish()` can
  have emptied it; the access itself is undefined behaviour in the model.
- `manager.cpp:448`: `commit()` discards what was staged while its write was under
  way, although the device confirmed only what was written ("Discard only after device
  confirmation"). It is the one exception `StagedUntilConfirmed` makes (`late`).
- `poller.cpp:55`: a reset of the grid clears the in-flight marks with reads
  outstanding, so a name may be in several reads (`poller.hpp:10`: "does not pile
  anything up"); `PileUpBounded` says in how many. `poller.cpp:241`: an interval of
  zero, which `every()` accepts, divides by zero.
- `client.cpp:142` and `246`: a read that the poller has posted when the connection ends
  is given to the closed session and dies with it; its entry stays marked until the
  next connection resets the grid. `InFlightIsReal` holds from that reset on.
- `canonical.cpp:50`: a float that is not finite passes `validate()`, if the datapoint has
  no limit on that side or, for NaN, whatever its limits; its frame throws when it is
  signed. That is on the IO thread, in a handler that was posted (`client.cpp:142`), and
  nobody catches it. `fountainer-cli` makes such a value of `nan` or `inf`
  (`std::stod()`). `DeviceAgrees` names it as the one value neither refused nor sent.
- `codec.cpp:21`: the client writes a `U64` as 16 hexadecimal digits without a prefix,
  the firmware reads it with `strtoull` of base 0, as octal or decimal. No `U64` in the
  catalog is writable.
- `codec.cpp:173`: the firmware compares with floats, `tools/fake_device.py` with doubles;
  a test against the latter refuses limits the device takes.
- `config.cpp:35`: `load_config()` accepts files that `configure()` then refuses: one
  without a fountain section (`test/test_config.cpp:270` expects it to be accepted), and one
  that says `use_mtls: false` and names a certificate without its key, since `configure()`
  does not ask for `use_mtls`. `AcceptedIsUsable` says which are left.
- `commands.hpp:70`: `raw()` takes any priority, so a raw command may tie with an Off, or
  queue behind polling, also if the command it sends is an Off.
- `commands.cpp:84`: beyond 2^32 - 1 steps the number of steps wraps around and the pump
  runs for a shorter time than asked for.
- `logs.cpp:131`: `read_all()` does not compare the boot of its batches; after a
  reboot it goes on at the number it had reached in the old log.

## Proofs

`DispatcherProofs` assumes only that the set of requests is finite and that
rates, limits and times are natural numbers (`DispatcherAssumption`).
`HeldOrCalled` counts how often a handler is held and called and is not
inductive. The invariant `IInv` says it without counting (`OnceEach`: for each
request exactly one of four situations) and adds what the steps need:

- `IdsIssued`: an id in the map was issued on this connection, so the ids of new
  frames are fresh and `emplace()` overwrites or drops nothing;
- `NothingOpenWhileClosed`: the map is empty when the ids start over;
- `SequencesIssued`: waiting entries differ in `sequence`, so `Before` is a total
  order, the ids assigned by one drain are distinct, and a new entry is new.

The hard step is a tick. `TickFromEffect` describes it as a partition of the
queue into late, sent, failed and remaining entries and of the map into late and
remaining ones; `TickUnheld`, `TickWaiting` and `TickOpen` follow a handler
through it. From the invariant follow `TypeCorrect`, `ExactlyOnce` and
`Implements` (each step, seen through `status`, is a step of `CallOnce`).

A second invariant, `LInv`, is inductive relative to the first and holds the
books. It strengthens the checked properties by

- `BucketPaid`: the bucket is paid up to its last refill, which is what `RateBound`
  weakens to the present;
- `WireIssued`: a frame on the wire has an id of this connection and there is none
  without a connection, so an id that is used again after a reconnect meets no old
  answer;
- `DueCovered` and `DeadlineOwed`: the deadline of an entry is the latest of what its
  callers were promised, no earlier and no later, also after requests were attached
  to it;
- `DeadlinesAhead`: after a tick every deadline is ahead. With `DeadlineOwed` this gives
  `NoneOverdue`, which is about the callers' own times: whoever is held beyond its
  time shares its entry with a caller whose time is not up.

`TickPays` shows that a drain pays for what it sends, `Balanced` and `TickBalances`
that the four parts of queue and map add up in the metrics. From `IInv` and `LInv`
together (`LedgerInvariance`) follow `BooksAlwaysBalance`, `ResponsesMeet`,
`TimeoutsAreExact` and `UrgentGoesFirst`.

`ClientProofs` assumes that the delays are natural numbers with
`1 <= initial_delay <= max_delay`, which `config.cpp` enforces. Its invariant is
the conjunction of the checked invariants with `DialsClean` (an attempt starts
without a failure on record, so that a failed dial is not taken for an
authentication failure) and `LockedWhileActive`. `BeginConnectKeepsInv` and
`ConnectionLostKeepsInv` treat the two functions that several handlers share.
`Consistency`, `StrikesSpared`, `CredentialsFixed` and `ReliesOnLink` follow from
it; `DisconnectIsFinal` is a fact about single steps.

`TransportProofs` assumes that the queue has room for a frame
(`TransportAssumption`). The safety invariants are not inductive together; what
they lack is

- `InStages`: the setup is one operation at a time and nothing else is in
  progress beside it, also after a `cancel()` that came too late, so the next
  operation never meets one of its kind; a close is started on an open connection
  only; `write_active_` says whether a write is in progress;
- `AnswersOwed`: the completion is there exactly while the answer is outstanding,
  and the close handler only for a connection that was handed over and has not
  ended.

The queue is treated as a set of distinct frames (`Appended`, `Popped`). From the
invariant follow `QueueIsSound` and `OneOfAKind`; `StepTells` lists what a step can
tell the owner, and `ImplementsConnection` is the refinement.

`SessionProofs` assumes no more than that keys, ids and nonces are what they are
called (`SessionAssumption`); `Resolve` and `DeviceKey` are arbitrary and may
disagree. The invariant has to say where things come from:

- `FramesSigned`: what a device signed, it signed under the context recorded with
  it. With equality of MACs this makes a frame that verifies a frame signed under
  the session's own context (`Verified`), whatever its carrier claims;
- `ContextCurrent`: that context belongs to this connection, and from the accepted
  hello on to a device that may be connected;
- `HandedForConnection`: frames handed on carry the nonce of their connection, and
  `last` bounds the numbers of the current one. Equal frames then come from one
  connection, and there the numbers increase: `NotReplayed` (`NoReplay`) is a consequence;
- `SentInOrder`, `VerdictsFit`, `ClosedTogether`: what was signed since hello, and
  which verdicts and which transport go with which state.

`ManagerProofs` assumes that the catalog and the set of callbacks are finite and
that `Absent` is no value (`ManagerAssumption`). An update makes calls due that
are carried out later, without the mutex, while subscriptions come and go. What
ties them to the cache is

- `DueIsNews`: a call still due tells the value the cache has, and each callback is
  told of a name by one call. Together with `ChangesChain` this gives
  `SubscriberKnowsCache` at the moment the call is made;
- `CompletionLast`: the completion comes after the calls, to a thread that waits;
- `WireNeedsConnection`: no frame of a lost connection is left when the next one
  is made, so what is received is of the connection that exists.

`DueAfter` describes the calls of one update in whatever order. `CacheIsHonest` and
`ChangesAreTold` follow.

`StagingKept` needs to know what a commit wrote, which `StagingInv` says: what is staged
while a commit waits, or once it was applied, is in its copy, or its name is in `late`
(`CopyIsStaged`). For that a call must end with the answer to its own request: requests
that wait have numbers of their own (`RequestsNumbered`), and an answer that says
"applied", on the wire or about to complete a call, repeats the values of that request
(`AnswersFit`, `CompletionFits`). There is one lemma for each part of a step
(`DeviceStaging`, `ReceiveStaging`, `MakeCallStaging`, `AskStaging`, `CallsEndStaging`).

`PollerProofs` assumes a finite catalog and intervals that are not zero
(`PollerAssumption`; with zero the code divides by it). Neither property is
inductive. The two parts of `IInv` that they need are

- `ReadsCounted`: a name is in at most `ReadsAllowed` reads, posted or given to a session
  (`Outstanding`): one without a connection, and on a connection one for each reset of
  the grid and one that may have come over from the connection before; and in fewer
  while it is not marked and no reset is due. A tick takes names that are not marked,
  and takes each of them once, or resets the grid first: either way the bound still
  holds after it;
- `OnGrid`: a deadline is on its grid and at most an interval ahead also while the
  poller rests or is paused, where `StaysOnGrid` says nothing.

The lemmas are of three kinds. The arithmetic modulo an interval that is a variable
(`RestUnique`, `SameRest`, `RestOfNext`) leads to `NextDueOnGrid`: the jump over
missed cycles lands on the grid, ahead, by at most an interval. `BeforeInjective` and
`ChunksDivide` show that the chunks partition the due names into requests that are
not too long. `ReadsAdded`, `ReadTaken`, `ReadQueued`, `ReadRemoved` and
`ReadSent` count the reads of a name when a tick posts some, when a posted one runs
and is queued, when one is completed, and when one is sent. `ReadsAlwaysBounded` and
`GridAlwaysKept` follow.

The theorems about `Events`, in `ClientProofs`, assume that its bounds are natural
numbers (`EventsAssumption`); `BusInv` is the invariant. `NoEventMissed` speaks of the
moments between two events; `InStep` says what a handler has got in the middle of
a delivery, and `CallsLeft` that whoever is still to be called was there when the
event was published and did not unsubscribe before. `FreshTokens` makes the token
of `attach()` new. `OneMore` is the lemma about sequences: one more event continues
the run. `SlotsAlwaysSound` and `AlwaysDelivered` follow.

`LogsProofs` assumes a page and a ring with room for a record. `NoneSkipped` needs to
know of a batch under way that it has everything between `since` and its last record
(`BatchSound`), while the ring turns and is cleared under it (`RingTurns`: what is
gone stays gone), and that `read_all()` asks on from the last record it has
(`Collected`). `BatchFits` joins the two. `NothingEverLost` follows, for the records of one
boot: of gaps across a reboot it says nothing, and of what is acknowledged it assumes
that the application passes the `boot_id` of a log it has fetched. As an empty batch means
that nothing is left up to `next_seq`, `ReadsToTheEnd` follows too.

`RestoreGuardProofs` assumes only that `Absent` is no value. `EachBaselineOnce` counts;
`HeldIffArmed` says the same with quantifiers. `ObjectsCaptured` says what is left in
an object that is not armed any more, and `CallsSound` what the calls rely on that
wait for the device while others run: the place a capture goes to is empty, and the
baseline being written is in no armed guard. `HandBack` treats the common end of
restore, dismissal and destructor. `BaselineAlwaysSafe` follows.

The theorems about `Rules`, in `ManagerProofs`, assume that the constants are
numbers and texts, that `NaN` and `Unknown` are not, and that widths are positive
(`CodecAssumption`, `CommandsAssumption`, `RulesAssumption`), and that doubles go
further than integers (`WidthAssumption`). `Looked` says what an input can be, with
more freedom than the enumeration of the run: any limits, any settings, any
configuration file. What is shown of it holds for every such input.

- `CommandsAlwaysAsAsked`: `StepsCover` is the rounding up to steps, of any length, in a
  counter of any width, for every duration: never too long, and not too short while
  the counter can hold it.
- `ConstraintsAlwaysExact`: `CrossExact` compares the check with the firmware's rules
  for settings of which any part is unknown.
- `ConfigAlwaysSound`: an accepted file with good files can be used exactly if it has a
  fountain section and no certificate is named in vain (`ConfigUsable`). A file
  without the section is accepted without a device id, but names no key either, so
  `configure()` refuses it and no client is made that is not bound.
- `CodecAlwaysExact`: `Rounds` is the rounding of `nearbyint()`, `NearestMultiple` that of the
  cast to float, of which a float is a fixed point (`FloatForm`), and `DecodedForm` says
  what a decoded value is. From them follow that no integer is truncated, that client and
  device agree on every type and limit, also on limits that are no floats, that only a
  float that is not finite can make the signature throw, and that values of all types
  but `U64` come back as they were.

Only model-checked:

- the liveness properties (`EveryHandlerCalled`, `EveryoneAnswered`, `HandshakeEnds`,
  `OwnerAnswered`, `KeepsAlive`, `EveryPointRead`, `ReadAllReturns`), since the prover
  has no rule for fairness;
- that a `U64`, which is written and read digit by digit, comes back as it was
  (`RoundTrips`, part of `CodecSound`): what a fold over a sequence of any length
  computes is induction over data.

## Not modelled

- The algorithms of the cryptography, JSON and canonical encoding, the wire format,
  logging, error texts. They are conversions and output the properties do not
  tell apart.
- The generated catalog, a table of 107 descriptors; `Rules` lets a descriptor be
  anything instead.
- `Client::Builder` stores what it is given; unlike the configuration file it does
  not check the delays, which `Client` assumes to be in order. The destructor of
  `Client` after its disconnect stops the IO thread.
- `SecurityConfiguration` has no mutex; the model runs its setters between
  handlers and so does not show the data race between them and a `connect()` of
  another thread. `stats.keepalives` of the poller is raised without its lock.
- Network configuration and saving in `MaintenanceService`: sequences of writes
  without a state of their own.
- The command line tool (apart from `configure()` and `parse_assignment()`),
  examples and tools, which call the library and print. `tools/fake_device.py` is
  where the models take the behaviour of the device from.

## Plan

1. `Dispatcher`, `CallOnce`, `DispatcherReentry` and their proofs - done.
2. `Client` and its proofs - done.
3. `Session`, `Link`, their proofs, and the link between `Session` and `Client` -
   done.
4. `Transport`, `Connection` and their proofs - done.
5. `Manager`, `Poller`, `Logs`, `Events`, `RestoreGuard`, and the pure functions
   in `Rules` - modelled and checked.
6. Proofs of the remaining invariants and action properties of `Dispatcher`, of
   `Manager`, `Logs`, `Events` and `RestoreGuard` - done.
7. Proofs about `Poller` and the pure functions of `Rules` - done.
