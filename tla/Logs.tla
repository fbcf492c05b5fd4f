-------------------------------- MODULE Logs --------------------------------
(***************************************************************************)
(* LogService (src/logs.cpp): a thread that fetches the whole log of the   *)
(* device page by page, another one that clears the log, and the log of    *)
(* the previous boot, which is fetched and then acknowledged.              *)
(*                                                                         *)
(* The device (tools/fake_device.py stands in for it) keeps its records in *)
(* a ring, numbers them from 1, and starts again when it boots.  A record  *)
(* is known by its boot and number; of its level it only matters whether   *)
(* minimum_level lets it pass.  The dispatcher of a session with a         *)
(* connection completes a request once, with its own response, a timeout   *)
(* or another error; of a session without one see Client.                  *)
(*                                                                         *)
(* A definition marked "Fault" is what the one below it would be with a    *)
(* plausible mistake in the code; it is not part of the model.             *)
(***************************************************************************)
EXTENDS Integers, Sequences

CONSTANTS
    Page,           \* the 64 records read_all() asks for
    Capacity,       \* records the ring holds
    MaxRecords,     \* bound: records of a boot
    MaxBoots        \* bound: boots

ASSUME LogsAssumption ==
    /\ Page \in Nat \ {0} /\ Capacity \in Nat \ {0}
    /\ MaxRecords \in Nat /\ MaxBoots \in Nat \ {0}

VARIABLES
    boot,           \* boot_id of the device
    passes,         \* passes[s]: does record s of this boot pass the filter?
    kept,           \* the number of the oldest record still there
    previous,       \* is the log of the boot before available?
    session,        \* the client's session: none, a fresh one, running, closed
    caller,         \* where the thread in read_all() is
    since,          \* page.since_sequence
    retried,        \* has this page been asked for twice?
    batch,          \* the batch on its way, or None
    all,            \* the records collected
    fetched,        \* boots whose log the other thread fetched as previous
    acked           \* boots whose log was acknowledged and is gone

vars == <<boot, passes, kept, previous, session, caller, since, retried, batch,
          all, fetched, acked>>
device == <<boot, passes, kept, previous>>
reader == <<session, caller, since, retried, batch, all>>
other == <<fetched, acked>>

None == [none |-> TRUE]
NextSeq == Len(passes) + 1
LastOf(records) == records[Len(records)].s

Init ==
    /\ boot = 1
    /\ passes = <<>>
    /\ kept = 1
    /\ previous = FALSE
    /\ session = "none"
    /\ caller = "idle"
    /\ since = 0
    /\ retried = FALSE
    /\ batch = None
    /\ all = <<>>
    /\ fetched = {}
    /\ acked = {}

-----------------------------------------------------------------------------
(* The device.                                                             *)

\* A record is written; a full ring gives up its oldest one.
Record(filtered) ==
    /\ Len(passes) < MaxRecords
    /\ passes' = Append(passes, ~filtered)
    /\ kept' = IF NextSeq - kept >= Capacity THEN kept + 1 ELSE kept
    /\ UNCHANGED <<boot, previous, reader, other>>

\* read_all() is over, and what it has collected is dropped.
Over(how) ==
    /\ caller' = how
    /\ since' = 0 /\ retried' = FALSE /\ all' = <<>>

\* It returns an error.
Fail == Over("failed")

\* The connection ends, and the dispatcher fails the page it has.
CloseSession ==
    /\ session' = "closed"
    /\ \/ caller # "asked" /\ UNCHANGED <<caller, since, retried, all>>
       \/ caller = "asked" /\ Fail
    /\ batch' = None

\* A reboot: the log so far becomes the previous one, and a connection is
\* lost.  It is made again between two pages or not.
Reboot ==
    /\ boot < MaxBoots
    /\ boot' = boot + 1
    /\ previous' = TRUE
    /\ passes' = <<>>
    /\ kept' = 1
    /\ \/ session = "running" /\ CloseSession
       \/ session # "running" /\ UNCHANGED reader
    /\ UNCHANGED other

\* The records after number `from` that pass.
RecordsAfter(from) ==
    {[boot |-> boot, s |-> s] :
        s \in {s \in 1..Len(passes) : s > from /\ s >= kept /\ passes[s]}}

\* The first n of them, oldest first.
FirstAfter(from, n) ==
    {records \in [1..n -> RecordsAfter(from)] :
        /\ \A i, j \in 1..n : i < j => records[i].s < records[j].s
        /\ \A r \in RecordsAfter(from), i \in 1..n :
               r.s < records[i].s => \E j \in 1..n : records[j] = r}

\* A LogBatch, as parse_batch() reads it: next_seq is about the ring.
LogBatch(records) == [boot_id |-> boot, next_seq |-> NextSeq, records |-> records]

\* log_batch: as many records as were asked for and the byte budget takes.
DeviceAnswers ==
    /\ session = "running" /\ caller = "asked" /\ batch = None
    /\ \E n \in 0..Page : \E records \in FirstAfter(since, n) :
           /\ n = 0 => RecordsAfter(since) = {}
           /\ batch' = LogBatch(records)
    /\ UNCHANGED <<device, session, caller, since, retried, all, other>>

-----------------------------------------------------------------------------
(* The client's session (Client has the whole of it).                      *)

\* begin_connect() of a client without a connection: session.reset() destroys
\* the closed session with the page its dispatcher has, whose handler is not
\* called, and the thread waits for ever.  A fresh session takes its place
\* unless make_ssl_context() fails.
Redial ==
    /\ session \in {"none", "closed"}
    /\ session' \in {"fresh", "none"}
    /\ \/ caller # "asked" /\ UNCHANGED <<caller, since, retried, all>>
       \/ caller = "asked" /\ Over("lost")
    /\ UNCHANGED <<device, batch, other>>

\* The attempt does not get through: nobody tells the session, which keeps
\* the page and is not ticked.
DialFails ==
    /\ session = "fresh"
    /\ session' = "closed"
    /\ UNCHANGED <<device, caller, since, retried, batch, all, other>>

\* The handshake is done, and the dispatcher sends what it has.
BecomesReady ==
    /\ session = "fresh"
    /\ session' = "running"
    /\ UNCHANGED <<device, caller, since, retried, batch, all, other>>

\* The connection ends, running or in the handshake.
ConnectionEnds ==
    /\ session \in {"fresh", "running"}
    /\ CloseSession
    /\ UNCHANGED <<device, other>>

-----------------------------------------------------------------------------
(* read_all()                                                              *)

\* async_read(): a log_read for the records after number `from`.  It goes to
\* the session there is, also to one that is closed.
AsyncRead(from) ==
    \/ /\ session # "none"
       /\ caller' = "asked" /\ since' = from
       /\ UNCHANGED <<retried, all>>
    \/ session = "none" /\ Fail

\* The first page, from options.since_sequence.
ReadAll(from) ==
    /\ caller = "idle"
    /\ AsyncRead(from)
    /\ UNCHANGED <<device, session, batch, other>>

\* Fault: a page is asked for until it comes.
AlwaysRetry == TRUE

\* "EXACTLY ONE retry per page"
MayRetry == ~retried

\* The request times out: asked for once more, then given up.  A response
\* that comes later reaches nobody.  A session that is not ticked looks at
\* its deadlines when it is given a request.
ReadTimesOut ==
    /\ caller = "asked"
    /\ batch' = None
    /\ \/ /\ MayRetry
          /\ caller' = "between" /\ retried' = TRUE
          /\ UNCHANGED <<since, all>>
       \/ /\ ~MayRetry
          /\ Fail
    /\ UNCHANGED <<device, session, other>>

\* Any other error ends it.
ReadFails ==
    /\ caller = "asked"
    /\ Fail
    /\ batch' = None
    /\ UNCHANGED <<device, session, other>>

\* Fault: the first short page ends it.
ShortPageEnds(b) == Len(b.records) < Page

\* "ring fully read", or an empty batch.
CaughtUp(b) == b.records # <<>> => LastOf(b.records) + 1 >= b.next_seq

\* Fault: the next page starts where the ring ends.
FromNextSeq(b) == b.next_seq - 1

\* "Continue from the LAST RECEIVED record"
ContinueFrom(b) == LastOf(b.records)

\* A batch arrives: its records are kept, and returned with those before, or
\* the next page is asked for.
TakeBatch ==
    /\ caller = "asked" /\ batch # None
    /\ all' = all \o batch.records
    /\ batch' = None
    /\ \/ /\ CaughtUp(batch)
          /\ caller' = "done"
          /\ since' = 0
       \/ /\ ~CaughtUp(batch)
          /\ caller' = "between"
          /\ since' = ContinueFrom(batch)
    /\ retried' = FALSE
    /\ UNCHANGED <<device, session, other>>

\* The loop goes on, with the next page or the same one again, perhaps on
\* another connection.
NextPage ==
    /\ caller = "between"
    /\ AsyncRead(since)
    /\ UNCHANGED <<device, session, batch, other>>

-----------------------------------------------------------------------------
(* The other thread.                                                       *)

\* clear_runtime(): write_log_command(1), once the device has applied it.
\* flush() and a command that is rejected change nothing here.
ClearRuntime ==
    /\ session = "running"
    /\ kept < NextSeq
    /\ kept' = NextSeq
    /\ UNCHANGED <<boot, passes, previous, reader, other>>

\* read_previous(): the batch tells the boot it is of.
ReadPrevious ==
    /\ session = "running"
    /\ previous
    /\ fetched' = fetched \cup {boot - 1}
    /\ UNCHANGED <<device, reader, acked>>

\* The boot_id in the body of log_ack_prev.
AckBody(boot_id) == boot_id

\* ack_previous().  It takes any boot_id; that the application passes only
\* that of a log it has fetched is assumed.  The device drops its previous
\* log if it is the one meant, and says whether it did.
AckPrevious(boot_id) ==
    /\ session = "running"
    /\ boot_id \in fetched
    /\ previous
    /\ \/ /\ AckBody(boot_id) = boot - 1
          /\ previous' = FALSE
          /\ acked' = acked \cup {boot - 1}
       \/ /\ AckBody(boot_id) # boot - 1
          /\ UNCHANGED <<previous, acked>>
    /\ UNCHANGED <<boot, passes, kept, reader, fetched>>

Next ==
    \/ \E filtered \in BOOLEAN : Record(filtered)
    \/ Reboot
    \/ DeviceAnswers
    \/ Redial
    \/ DialFails
    \/ BecomesReady
    \/ ConnectionEnds
    \/ \E from \in 0..1 : ReadAll(from)
    \/ ReadTimesOut
    \/ ReadFails
    \/ TakeBatch
    \/ NextPage
    \/ ClearRuntime
    \/ ReadPrevious
    \/ \E boot_id \in 1..MaxBoots : AckPrevious(boot_id)

Spec == Init /\ [][Next]_vars

\* A session that is running is ticked and completes its requests
\* (EveryHandlerCalled of Dispatcher), an attempt and its handshake end
\* (OwnerAnswered of Transport, HandshakeEnds of Session), and the thread
\* goes on.  A closed session owes nothing, and nobody has to call connect().
FairSpec ==
    /\ Spec
    /\ WF_vars(session = "running" /\ (TakeBatch \/ ReadTimesOut \/ ReadFails))
    /\ WF_vars(session = "fresh" /\ (DialFails \/ BecomesReady \/ ConnectionEnds))
    /\ WF_vars(NextPage)

-----------------------------------------------------------------------------
(* Properties.                                                             *)

Records == [boot : 1..MaxBoots, s : Nat]

\* The types of the state of the log service.
TypeOK ==
    /\ boot \in 1..MaxBoots
    /\ passes \in Seq(BOOLEAN)
    /\ kept \in Nat \ {0}
    /\ previous \in BOOLEAN
    /\ session \in {"none", "fresh", "running", "closed"}
    /\ caller \in {"idle", "asked", "between", "done", "failed", "lost"}
    /\ since \in Nat
    /\ retried \in BOOLEAN
    /\ batch \in {None} \cup [boot_id : 1..MaxBoots, next_seq : Nat, records : Seq(Records)]
    /\ batch # None => Len(batch.records) <= Page
    /\ all \in Seq(Records)
    /\ fetched \subseteq 1..MaxBoots /\ acked \subseteq 1..MaxBoots

\* No record is returned twice, and each is newer than the one before,
\* although batches are cut short, asked for twice and the ring turns
\* meanwhile (read_all()).
NewerEachTime ==
    \A i \in 1..(Len(all) - 1) : all[i].s < all[i + 1].s /\ all[i].boot <= all[i + 1].boot

\* A record of this boot that nobody can be told any more, or is not to be.
Gone(s) == ~passes[s] \/ s < kept

\* "the byte budget may have truncated the batch": a record missing between
\* two records of this boot did not pass the filter or was lost to the ring.
\* It says nothing across a reboot: the boot_id of the batches is not
\* compared, and of the new log the records up to `since` are passed over.
NoneSkipped ==
    \A i \in 1..(Len(all) - 1) :
        all[i].boot = boot =>
            \A s \in (all[i].s + 1)..(all[i + 1].s - 1) : Gone(s)

\* What read_all() returns reaches the end of the ring: it is not over at a
\* batch while the device had more to tell in the ring the batch is of.
EndsWithTheRing ==
    [][caller # "done" /\ caller' = "done" =>
          LET told == IF batch.records = <<>> THEN since ELSE LastOf(batch.records) IN
          \A s \in (told + 1)..(batch.next_seq - 1) : Gone(s)]_vars

\* A log of a previous boot that the device gave up was fetched before,
\* whatever booted between the fetching and the acknowledgement.
AckedWasFetched == acked \subseteq fetched

\* What read_all() puts together has each record once, in order, and of one
\* boot no gap of the client's making; and no log that nobody fetched is given
\* up by an application that acknowledges only what it has fetched.
NothingLost ==
    /\ TypeOK
    /\ NewerEachTime
    /\ NoneSkipped
    /\ AckedWasFetched

\* What makes it inductive: read_all() goes on after the last record it has;
\* a batch on its way is of this boot, in order, and has every record after
\* `since` up to its last one, or up to the end of the ring if it is empty,
\* that is not gone; and a previous log belongs to a boot before this one.
Collected ==
    /\ caller = "idle" => all = <<>>
    /\ caller \in {"asked", "between"} /\ all # <<>> => since = LastOf(all)
    /\ \A i \in DOMAIN all :
           all[i].boot <= boot /\ (all[i].boot = boot => all[i].s <= Len(passes))

EndOf(b) == IF b.records = <<>> THEN b.next_seq ELSE LastOf(b.records)

BatchSound ==
    batch # None =>
        /\ caller = "asked" /\ session = "running"
        /\ batch.next_seq <= NextSeq
        /\ \A i \in DOMAIN batch.records :
               /\ batch.records[i].boot = boot
               /\ batch.records[i].s \in (since + 1)..Len(passes)
               /\ \A j \in DOMAIN batch.records :
                      i < j => batch.records[i].s < batch.records[j].s
        /\ \A s \in (since + 1)..(EndOf(batch) - 1) :
               Gone(s) \/ \E i \in DOMAIN batch.records : batch.records[i].s = s

IInv ==
    /\ TypeOK
    /\ NewerEachTime
    /\ NoneSkipped
    /\ AckedWasFetched
    /\ Collected
    /\ BatchSound
    /\ previous => boot > 1

\* A page was asked for without a connection: it is with a closed session,
\* which is not ticked, or was destroyed with it (client.cpp:144, 246; NoRequestLost
\* of Client says that this should not be).
Stranded == caller = "lost" \/ (caller = "asked" /\ session = "closed")

\* read_all() returns, unless one of its pages was asked for without a
\* connection: a device that stops writing is caught up with, one that does
\* not answer is given up, and a page asked for on a connection is completed
\* whatever becomes of it (the loop of read_all()).
ReadAllReturns ==
    /\ (caller = "asked" /\ session = "running") ~> (caller \in {"between", "done", "failed"})
    /\ (caller \in {"asked", "between"}) ~> (caller \in {"done", "failed"} \/ Stranded)
=============================================================================
