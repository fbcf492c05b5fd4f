------------------------------- MODULE Poller -------------------------------
(***************************************************************************)
(* DatapointPoller (src/datapoints/poller.cpp): one schedule for all       *)
(* datapoints, driven by the client's timer while it is Ready, and what it *)
(* needs of the client and the session: being ticked, reads that are       *)
(* posted, then queued in whatever session there is by then, sent later    *)
(* and completed in any order, and the time of the last frame sent.        *)
(*                                                                         *)
(* The IO thread runs what it was given first in, first out.  What a tick  *)
(* posts therefore runs before the next tick, whose timer is armed after   *)
(* it, and before anything that takes a round trip to the peer; but the    *)
(* end of the connection, and a connect() after it, may be queued before.  *)
(*                                                                         *)
(* Points in time are kept relative to the present: the next_due of an     *)
(* entry is the time until it is due, negative when it is late, and silent *)
(* is the time since last_tx.  So time has no end and needs no bound.      *)
(* The counters of PollStats are left out.                                 *)
(*                                                                         *)
(* A definition marked "Fault" is what the one below it would be with a    *)
(* plausible mistake in the code; it is not part of the model.             *)
(***************************************************************************)
EXTENDS Integers, Sequences, SequencesExt, FiniteSets

CONSTANTS
    Points,         \* the catalog; a name is its place in the order of names
    PollClass,      \* PollClass[p]: "Disabled", "OnConnect" or "Periodic"
    ClassInterval,  \* the interval of class_intervals
    Intervals,      \* intervals the application asks for
    Keepalive,      \* the keepalive interval, 0 without
    PerRequest,     \* kMaxNamesPerRequest
    MaxLag,         \* bound: how late the client's timer may be
    MaxChanges      \* bound: calls of the application

\* every(0) and set_class_interval(_, 0) are accepted and make tick() divide
\* by zero; here they are not used.
ASSUME PollerAssumption ==
    /\ Points \subseteq Nat /\ IsFiniteSet(Points)
    /\ PollClass \in [Points -> {"Disabled", "OnConnect", "Periodic"}]
    /\ Intervals \subseteq Nat \ {0} /\ ClassInterval \in Nat \ {0}
    /\ Keepalive \in Nat /\ PerRequest \in Nat \ {0}
    /\ MaxLag \in Nat /\ MaxChanges \in Nat

VARIABLES
    running, paused, raster_dirty,
    entries,        \* from the polled names to their Entry
    session,        \* the client's session: none, a fresh one, running, closed
    posted,         \* polls that were posted to the IO thread, oldest first
    reads,          \* polls the session's dispatcher has, oldest first
    keepalive,      \* how many keepalives are posted, queued and sent
    silent,         \* time since the session sent a frame, up to Keepalive
    changes,        \* calls of the application so far
    resets,         \* resets of the grid on this connection, and one more if
                    \* reads came over to it
    grid            \* grid[p]: the distance of p's grid from the present

vars == <<running, paused, raster_dirty, entries, session, posted, reads, keepalive,
          silent, changes, resets, grid>>
lifecycle == <<running, paused>>
connection == <<session, posted, reads, keepalive, silent>>
history == <<resets, grid>>

\* Is the client Ready, with its timer armed?
ready == session = "running"
Polling == ready /\ running /\ ~paused
Periodic == {p \in DOMAIN entries : ~entries[p].once}

Init ==
    /\ running = FALSE /\ paused = FALSE /\ raster_dirty = TRUE
    /\ entries = <<>>
    /\ session = "none"
    /\ posted = <<>> /\ reads = <<>>
    /\ keepalive = [posted |-> 0, queued |-> 0, sent |-> 0]
    /\ silent = 0
    /\ changes = 0
    /\ resets = 0
    /\ grid = [p \in Points |-> 0]

-----------------------------------------------------------------------------
(* Configuration and lifecycle, called by the application.                 *)

\* entries[name]: the entry there is, or a new one.
EntryOf(p) ==
    IF p \in DOMAIN entries THEN entries[p]
    ELSE [interval |-> 0, next_due |-> 0, in_flight |-> FALSE, once |-> FALSE,
          once_done |-> FALSE]

\* add() and add_once()
Repeated(p, interval) == [EntryOf(p) EXCEPT !.interval = interval, !.once = FALSE]
Once(p) == [EntryOf(p) EXCEPT !.once = TRUE, !.once_done = FALSE]

Change ==
    /\ changes < MaxChanges
    /\ changes' = changes + 1

SetEntries(new) ==
    /\ Change
    /\ entries' = [p \in DOMAIN entries \cup DOMAIN new |->
                      IF p \in DOMAIN new THEN new[p] ELSE entries[p]]
    /\ raster_dirty' = TRUE
    /\ UNCHANGED <<connection, history>>

\* every(), for one name and, as it calls add() for each, for several.
Every(p, interval) ==
    /\ SetEntries([x \in {p} |-> Repeated(x, interval)])
    /\ UNCHANGED lifecycle

\* once()
AddOnce(p) ==
    /\ SetEntries([x \in {p} |-> Once(x)])
    /\ UNCHANGED lifecycle

\* disable()
Disable(p) ==
    /\ Change
    /\ p \in DOMAIN entries
    /\ entries' = [x \in DOMAIN entries \ {p} |-> entries[x]]
    /\ UNCHANGED <<lifecycle, raster_dirty, connection, history>>

\* start_defaults(): every name whose class is not Disabled, then start().
StartDefaults ==
    /\ SetEntries([p \in {x \in Points : PollClass[x] # "Disabled"} |->
                      IF PollClass[p] = "OnConnect" THEN Once(p)
                      ELSE Repeated(p, ClassInterval)])
    /\ running' = TRUE /\ paused' = FALSE

Start ==
    /\ Change
    /\ running' = TRUE /\ paused' = FALSE /\ raster_dirty' = TRUE
    /\ UNCHANGED <<entries, connection, history>>

Pause ==
    /\ Change
    /\ paused' = TRUE
    /\ UNCHANGED <<running, raster_dirty, entries, connection, history>>

Resume ==
    /\ Change
    /\ paused' = FALSE /\ raster_dirty' = TRUE
    /\ UNCHANGED <<running, entries, connection, history>>

\* stop(), also called by request_disconnect() of the client.
Stop ==
    /\ Change
    /\ running' = FALSE
    /\ UNCHANGED <<paused, raster_dirty, entries, connection, history>>

-----------------------------------------------------------------------------
(* The tick of the client's timer.                                         *)

\* reset_raster()
ResetRaster ==
    [p \in DOMAIN entries |->
        [entries[p] EXCEPT !.next_due = 0, !.in_flight = FALSE,
                           !.once_done = @ /\ ~entries[p].once]]

\* Is an entry to be read now?
Due(e) == ~e.in_flight /\ IF e.once THEN ~e.once_done ELSE e.next_due <= 0

\* Fault: the grid starts again at the present.
FromNow(e) == e.interval

\* The deadline after the present, on the grid; missed ones are skipped.
NextDue(e) ==
    IF e.next_due + e.interval > 0 THEN e.next_due + e.interval
    ELSE e.next_due + ((-e.next_due) \div e.interval + 1) * e.interval

Ticked(e) ==
    [e EXCEPT !.in_flight = @ \/ Due(e),
              !.once_done = @ \/ (e.once /\ Due(e)),
              !.next_due = IF e.once \/ @ > 0 THEN @ ELSE NextDue(e)]

\* The due names before p: they were found in the order of the map.
Before(due, p) == Cardinality({q \in due : q < p})

\* The reads of the due names: PerRequest names each, in order, the rest last.
Chunks(due) ==
    [i \in 1..((Cardinality(due) + PerRequest - 1) \div PerRequest) |->
        [names |-> {p \in due : Before(due, p) \div PerRequest = i - 1},
         sent |-> FALSE]]

\* Fault: a poller with entries is taken to be sending.
NothingToPoll == Keepalive > 0 /\ silent >= Keepalive /\ entries = <<>>

\* "the session has been silent for too long"
SilentTooLong == Keepalive > 0 /\ silent >= Keepalive

NothingPosted == posted = <<>> /\ keepalive.posted = 0

\* tick() of a poller that runs.  Its reads are posted (client.cpp:142).
Tick ==
    /\ Polling
    /\ NothingPosted
    /\ LET current == IF raster_dirty THEN ResetRaster ELSE entries
           due == {p \in DOMAIN current : Due(current[p])}
       IN  /\ entries' = [p \in DOMAIN current |-> Ticked(current[p])]
           /\ posted' = Chunks(due)
           /\ keepalive' = [keepalive EXCEPT !.posted =
                               IF due = {} /\ SilentTooLong THEN 1 ELSE 0]
    /\ raster_dirty' = FALSE
    /\ resets' = IF raster_dirty THEN resets + 1 ELSE resets
    /\ grid' = IF raster_dirty THEN [p \in Points |-> 0] ELSE grid
    /\ UNCHANGED <<lifecycle, session, reads, silent, changes>>

-----------------------------------------------------------------------------
(* The session and time.                                                   *)

\* Fault: a failure leaves the names marked.
FreedIfAnswered(es, names, answered) ==
    [p \in DOMAIN es |-> [es[p] EXCEPT !.in_flight = @ /\ ~(answered /\ p \in names)]]

\* Fault: the completion does not find the entries.
FreedNever(es, names, answered) == es

\* The completion of a poll: the names that are still polled are free again.
Freed(es, names, answered) ==
    [p \in DOMAIN es |-> [es[p] EXCEPT !.in_flight = @ /\ p \notin names]]

\* A posted poll runs.  It fails without a session and goes to the dispatcher
\* of any other, also of one that is closed or not running yet.
RunPosted ==
    /\ posted # <<>>
    /\ posted' = Tail(posted)
    /\ \/ /\ session = "none"
          /\ entries' = Freed(entries, Head(posted).names, FALSE)
          /\ UNCHANGED reads
       \/ /\ session # "none"
          /\ reads' = Append(reads, Head(posted))
          /\ UNCHANGED entries
    /\ UNCHANGED <<lifecycle, raster_dirty, session, keepalive, silent, changes, history>>

\* A posted keepalive runs.  The dispatcher attaches it to one that it has not
\* sent yet.
RunKeepalive ==
    /\ keepalive.posted = 1
    /\ keepalive' = [keepalive EXCEPT !.posted = 0,
                                     !.queued = IF session = "none" THEN @ ELSE 1]
    /\ UNCHANGED <<lifecycle, raster_dirty, entries, session, posted, reads, silent,
                   changes, history>>

\* The dispatcher sends a read: polls in their order, a keepalive, which is
\* of priority Background, after them.
Unsent == {i \in DOMAIN reads : ~reads[i].sent}
NextToSend == {i \in Unsent : \A j \in Unsent : i <= j}

SendPoll ==
    /\ ready
    /\ \E i \in NextToSend : reads' = [reads EXCEPT ![i].sent = TRUE]
    /\ silent' = 0
    /\ UNCHANGED <<lifecycle, raster_dirty, entries, session, posted, keepalive, changes,
                   history>>

SendKeepalive ==
    /\ ready
    /\ keepalive.queued = 1 /\ Unsent = {}
    /\ keepalive' = [keepalive EXCEPT !.queued = 0, !.sent = @ + 1]
    /\ silent' = 0
    /\ UNCHANGED <<lifecycle, raster_dirty, entries, session, posted, reads, changes,
                   history>>

\* A request of someone else is sent.
SendOther ==
    /\ ready
    /\ silent # 0
    /\ silent' = 0
    /\ UNCHANGED <<lifecycle, raster_dirty, entries, session, posted, reads, keepalive,
                   changes, history>>

\* The poll at i is answered, or fails in the dispatcher: by its deadline,
\* which a session that is not ticked looks at when it is given a request.
Complete(i, answered) ==
    /\ answered => reads[i].sent
    /\ entries' = Freed(entries, reads[i].names, answered)
    /\ reads' = RemoveAt(reads, i)
    /\ UNCHANGED <<lifecycle, raster_dirty, session, posted, keepalive, silent, changes,
                   history>>

\* A keepalive is answered or fails; nobody waits for it.
CompleteKeepalive ==
    /\ \/ keepalive.sent > 0 /\ keepalive' = [keepalive EXCEPT !.sent = @ - 1]
       \/ keepalive.queued > 0 /\ keepalive' = [keepalive EXCEPT !.queued = 0]
    /\ UNCHANGED <<lifecycle, raster_dirty, entries, session, posted, reads, silent,
                   changes, history>>

\* begin_connect() of a client without a connection: session.reset() destroys
\* the session there was and what its dispatcher has, and calls nobody.  A
\* fresh session takes its place unless make_ssl_context() fails.
Redial ==
    /\ ~ready
    /\ session = "fresh" => NothingPosted
    /\ session' \in {"fresh", "none"}
    /\ reads' = <<>>
    /\ keepalive' = [keepalive EXCEPT !.queued = 0]
    /\ UNCHANGED <<lifecycle, raster_dirty, entries, posted, silent, changes, history>>

\* on_ready of the client, with on_reconnected().  Reads that the session has
\* by now are from ticks of the connection before.
BecomesReady ==
    /\ session = "fresh"
    /\ NothingPosted
    /\ session' = "running"
    /\ raster_dirty' = TRUE
    /\ resets' = IF reads = <<>> THEN 0 ELSE 1
    /\ UNCHANGED <<lifecycle, entries, posted, reads, keepalive, silent, changes, grid>>

\* The connection ends, running or in the handshake, and the dispatcher fails
\* every request it has; what is posted runs later.
ConnectionEnds ==
    /\ ready \/ (session = "fresh" /\ NothingPosted)
    /\ session' = "closed"
    /\ entries' = Freed(entries, UNION {r.names : r \in ToSet(reads)}, FALSE)
    /\ reads' = <<>>
    /\ keepalive' = [keepalive EXCEPT !.queued = 0, !.sent = 0]
    /\ silent' = 0
    /\ resets' = 0
    /\ UNCHANGED <<lifecycle, raster_dirty, posted, changes, grid>>

\* Time passes.  The timer of a poller that runs comes at most MaxLag late;
\* one that does not run starts a new grid before it looks at a deadline.
\* What is posted runs within a unit of time, and a keepalive that was sent
\* times out (default_request_timeout) long before the next one is due.
Pass ==
    /\ ready /\ NothingPosted
    /\ ~(keepalive.sent > 0 /\ silent + 1 = Keepalive)
    /\ silent' = IF silent < Keepalive THEN silent + 1 ELSE silent
    /\ \/ /\ Polling
          /\ ~raster_dirty /\ \A p \in Periodic : entries[p].next_due > -MaxLag
          /\ entries' = [p \in DOMAIN entries |->
                            IF entries[p].once THEN entries[p]
                            ELSE [entries[p] EXCEPT !.next_due = @ - 1]]
          /\ grid' = [p \in Points |->
                         IF p \in Periodic THEN (grid[p] - 1) % entries[p].interval ELSE 0]
       \/ /\ ~Polling
          /\ UNCHANGED <<entries, grid>>
    /\ UNCHANGED <<lifecycle, raster_dirty, session, posted, reads, keepalive, changes,
                   resets>>

Application ==
    \/ \E p \in Points : AddOnce(p) \/ Disable(p)
                                \/ \E interval \in Intervals : Every(p, interval)
    \/ StartDefaults \/ Start \/ Pause \/ Resume \/ Stop

Next ==
    \/ Application
    \/ Tick
    \/ RunPosted \/ RunKeepalive
    \/ SendPoll \/ SendKeepalive
    \/ \E i \in DOMAIN reads, answered \in BOOLEAN : Complete(i, answered)
    \/ CompleteKeepalive
    \/ SendOther
    \/ Redial
    \/ BecomesReady
    \/ ConnectionEnds
    \/ Pass

Spec == Init /\ [][Next]_vars

\* Time passes, the client's timer comes, the IO thread runs what is posted,
\* and the dispatcher of a running session, which is ticked, completes what
\* it was given (EveryHandlerCalled of Dispatcher).  A read may time out in
\* its queue, but not one after the other: the window opens as the requests
\* in it are answered or time out, and the oldest is sent.  A session that is
\* not running owes nothing.
FairSpec ==
    /\ Spec
    /\ WF_vars(Pass)
    /\ WF_vars(Tick)
    /\ WF_vars(RunPosted \/ RunKeepalive)
    /\ SF_vars(SendPoll \/ SendKeepalive)
    /\ WF_vars(ready /\ CompleteKeepalive)
    /\ WF_vars(ready /\ reads # <<>> /\ \E answered \in BOOLEAN : Complete(1, answered))

-----------------------------------------------------------------------------
(* Properties.                                                             *)

Entries == [interval : Intervals \cup {0, ClassInterval}, next_due : Int,
            in_flight : BOOLEAN, once : BOOLEAN, once_done : BOOLEAN]
Reads == {r \in [names : SUBSET Points, sent : BOOLEAN] :
             Cardinality(r.names) <= PerRequest}

\* The types of the poller's state; no read asks for more than PerRequest
\* names.
TypeOK ==
    /\ running \in BOOLEAN /\ paused \in BOOLEAN /\ raster_dirty \in BOOLEAN
    /\ DOMAIN entries \subseteq Points
    /\ entries \in [DOMAIN entries -> Entries]
    /\ session \in {"none", "fresh", "running", "closed"}
    /\ posted \in Seq(Reads)
    /\ reads \in Seq(Reads)
    /\ keepalive \in [posted : 0..1, queued : 0..1, sent : Nat]
    /\ silent \in 0..Keepalive
    /\ changes \in 0..MaxChanges
    /\ resets \in Nat
    /\ grid \in [Points -> Nat]

ReadsWith(rs, p) == {i \in DOMAIN rs : p \in rs[i].names}
ReadsOf(p) == Cardinality(ReadsWith(reads, p))
PostedOf(p) == Cardinality(ReadsWith(posted, p))

\* So many reads of p are posted or not completed.
Outstanding(p) == PostedOf(p) + ReadsOf(p)

\* A name marked as in flight is being read or about to be, on a connection
\* whose first tick has reset the grid.  A mark that outlived its read would
\* end the polling of that name without a trace, whatever was removed, added
\* or reset in between (the completion in tick(), reset_raster()).  Without a
\* connection it does outlive it: a read that was posted when the connection
\* ended goes to the closed session and dies with it (client.cpp:142, 246).
InFlightIsReal ==
    ready /\ ~raster_dirty =>
        \A p \in DOMAIN entries : entries[p].in_flight => Outstanding(p) > 0

\* How many reads of a name there may be at a time.  poller.hpp:10 says "does
\* not pile anything up", which would be one; the code allows one for each
\* reset of the grid on this connection, since reset_raster() clears the
\* marks, and one more that was posted on the connection before and went to
\* the fresh session.
ReadsAllowed == IF ready THEN resets ELSE 1

PileUpBounded == \A p \in Points : Outstanding(p) <= ReadsAllowed

\* The poller's account of its reads is right: a name is marked as in flight
\* only while it is read, and reads pile up by no more than the resets.
ReadsBounded ==
    /\ TypeOK
    /\ InFlightIsReal
    /\ PileUpBounded

\* "deadlines come from the planned time grid": however late the ticks are,
\* a deadline stays on the grid of its last reset (tick()).
StaysOnGrid ==
    Polling /\ ~raster_dirty =>
        \A p \in Periodic : entries[p].next_due % entries[p].interval = grid[p]

\* "missed cycles are skipped, not caught up": after a tick the next deadline
\* is ahead, by at most an interval.
DeadlinesAhead ==
    Tick => \A p \in Periodic : entries'[p].next_due \in 1..entries[p].interval

\* The time grid: late ticks skip cycles and never move the grid.
KeepsGrid == [][StaysOnGrid' /\ DeadlinesAhead]_vars

\* What makes them inductive: a posted read names no name twice; while the
\* grid is not to be reset, a name that is not marked is in fewer reads than
\* it may be; and the deadline of a periodic entry is on its grid, at most
\* an interval ahead, also while the poller rests.
ReadsCounted ==
    /\ \A p \in Points : PostedOf(p) <= 1
    /\ ready /\ ~raster_dirty =>
           /\ resets > 0
           /\ \A p \in DOMAIN entries :
                  entries[p].in_flight \/ Outstanding(p) < ReadsAllowed

OnGrid ==
    /\ \A p \in Periodic : entries[p].interval # 0
    /\ ~raster_dirty =>
           \A p \in Periodic :
               /\ entries[p].next_due <= entries[p].interval
               /\ entries[p].next_due % entries[p].interval = grid[p]

IInv ==
    /\ TypeOK
    /\ InFlightIsReal
    /\ PileUpBounded
    /\ ReadsCounted
    /\ OnGrid

\* A poller that goes on sends a frame before the session was silent for
\* long: a poll, or the keepalive (tick()).
KeepsAlive ==
    (Polling /\ Keepalive > 0 /\ silent = Keepalive) ~> (silent = 0 \/ ~Polling)

\* A name that is polled is read again and again, whatever became of the
\* reads before.
EveryPointRead ==
    \A p \in Points :
        (Polling /\ p \in Periodic) ~> (ReadsOf(p) > 0 \/ ~(Polling /\ p \in Periodic))
=============================================================================
