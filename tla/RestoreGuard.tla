---------------------------- MODULE RestoreGuard ----------------------------
(***************************************************************************)
(* DatapointRestoreGuard (src/datapoints/restore_guard.cpp): a guard reads *)
(* a baseline, may be moved, and hands the baseline back to the device     *)
(* once, by restore(), by its destructor, or because another guard is      *)
(* moved into it, unless it was dismissed.  The owner writes datapoints in *)
(* between, as write_examples() of Example.cpp does.                       *)
(*                                                                         *)
(* The guards belong to one thread, which waits in read_names() and        *)
(* write() of the manager; a write is applied, rejected, or fails without  *)
(* the caller knowing whether it was applied.                              *)
(*                                                                         *)
(* A definition marked "Fault" is what the one below it would be with a    *)
(* plausible mistake in the code; it is not part of the model.             *)
(***************************************************************************)
EXTENDS Integers, FiniteSets

CONSTANTS
    Names,          \* read-write datapoints
    Values,         \* their values
    Absent,         \* no value
    Guards,         \* places that can hold a guard object
    MaxCaptures     \* bound: baselines captured

ASSUME GuardAssumption ==
    /\ Absent \notin Values
    /\ MaxCaptures \in Nat

VARIABLES
    device,         \* device[n]: the value at the device
    guard,          \* guard[g]: the object in g, NoGuard without one
    taking,         \* the capture() in progress: where it returns to, or none
    assigning,      \* the move assignment in progress, or none
    pending,        \* the baseline whose write is waited for, 0 without one
    captured,       \* captured[b]: what baseline b was when it was read
    outcome         \* outcome[b]: what became of baseline b

vars == <<device, guard, taking, assigning, pending, captured, outcome>>

Snapshots == [Names -> Values \cup {Absent}]
Nothing == [n \in Names |-> Absent]
EntriesOf(dp) == {n \in Names : dp[n] # Absent}
NoGuard == [armed |-> FALSE, baseline |-> Nothing, of |-> 0]
Baselines == 1..MaxCaptures
Fresh == {b \in Baselines : outcome[b] = "none"}
None == {}

\* The owner waits in no call.
Free == taking = None /\ assigning = None /\ pending = 0

Init ==
    /\ device \in [Names -> Values]
    /\ guard = [g \in Guards |-> NoGuard]
    /\ taking = None
    /\ assigning = None
    /\ pending = 0
    /\ captured = [b \in Baselines |-> Nothing]
    /\ outcome = [b \in Baselines |-> "none"]

-----------------------------------------------------------------------------
\* The test writes of the owner.
TestWrite(n, v) ==
    /\ Free
    /\ device[n] # v
    /\ device' = [device EXCEPT ![n] = v]
    /\ UNCHANGED <<guard, taking, assigning, pending, captured, outcome>>

\* capture() and capture_all_writable(), up to the read: at least one name,
\* all of them read-write.
Capture(g, names) ==
    /\ Free /\ Fresh # {}
    /\ names # {} /\ guard[g] = NoGuard
    /\ taking' = {[into |-> g, names |-> names]}
    /\ UNCHANGED <<device, guard, assigning, pending, captured, outcome>>

\* The read of capture() fails: there is no guard.
CaptureFails ==
    /\ taking # None
    /\ taking' = None
    /\ UNCHANGED <<device, guard, assigning, pending, captured, outcome>>

\* It succeeds: the guard is armed with what the device has told, which may
\* be less than was asked for.
Captured(b, known) ==
    \E call \in taking :
        /\ b \in Fresh /\ known \subseteq call.names
        /\ \A c \in Fresh : b <= c
        /\ LET baseline == [n \in Names |-> IF n \in known THEN device[n] ELSE Absent]
           IN  /\ captured' = [captured EXCEPT ![b] = baseline]
               /\ guard' = [guard EXCEPT ![call.into] =
                               [armed |-> TRUE, baseline |-> baseline, of |-> b]]
        /\ outcome' = [outcome EXCEPT ![b] = "held"]
        /\ taking' = None
        /\ UNCHANGED <<device, assigning, pending>>

\* armed_ = false, the first statement of restore()
Disarmed(object) == [object EXCEPT !.armed = FALSE]

\* restore(): the write of the baseline of g starts, because the owner asked
\* for it or by itself.  An empty baseline, such as that of a guard that was
\* moved from, is refused before it is sent (DatapointWriteSet::validate()).
StartRestore(g, asked) ==
    LET empty == guard[g].baseline = Nothing IN
    /\ pending' = IF empty THEN 0 ELSE guard[g].of
    /\ outcome' = [outcome EXCEPT ![guard[g].of] =
                      IF empty THEN IF guard[g].armed THEN "failed" ELSE @
                      ELSE IF asked \/ @ = "held" THEN "writing" ELSE "again"]

\* An explicit restore(), of a guard that is armed or not.
Restore(g) ==
    /\ Free /\ guard[g] # NoGuard
    /\ StartRestore(g, TRUE)
    /\ guard' = [guard EXCEPT ![g] = Disarmed(@)]
    /\ UNCHANGED <<device, taking, assigning, captured>>

\* The destructor: restores if still armed.
Destroy(g) ==
    /\ Free /\ guard[g] # NoGuard
    /\ \/ guard[g].armed /\ StartRestore(g, FALSE)
       \/ ~guard[g].armed /\ UNCHANGED <<pending, outcome>>
    /\ guard' = [guard EXCEPT ![g] = NoGuard]
    /\ UNCHANGED <<device, taking, assigning, captured>>

\* dismiss()
Dismiss(g) ==
    /\ Free /\ guard[g].armed
    /\ guard' = [guard EXCEPT ![g] = Disarmed(@)]
    /\ outcome' = [outcome EXCEPT ![guard[g].of] = "dismissed"]
    /\ UNCHANGED <<device, taking, assigning, pending, captured>>

\* What a move leaves behind: no baseline and not armed.
MovedFrom(object) == [object EXCEPT !.baseline = Nothing, !.armed = FALSE]

\* What the target of a move holds.
MovedTo(object, old) == object

Moved(g, h) ==
    [guard EXCEPT ![h] = MovedTo(guard[g], @), ![g] = MovedFrom(@)]

\* The move constructor.
MoveConstruct(g, h) ==
    /\ Free /\ guard[g] # NoGuard /\ guard[h] = NoGuard
    /\ guard' = Moved(g, h)
    /\ UNCHANGED <<device, taking, assigning, pending, captured, outcome>>

\* Fault: the assignment forgets the baseline it overwrites.
NothingToRestore(h) == FALSE

\* if (armed_) restore();
FirstRestores(h) == guard[h].armed

\* The move assignment of the guard in g to the one in h, which restores its
\* own baseline first and waits for that.
MoveAssign(g, h) ==
    /\ Free /\ g # h
    /\ guard[g] # NoGuard /\ guard[h] # NoGuard
    /\ \/ /\ FirstRestores(h)
          /\ StartRestore(h, FALSE)
          /\ guard' = [guard EXCEPT ![h] = Disarmed(@)]
          /\ assigning' = {[from |-> g, to |-> h]}
       \/ /\ ~FirstRestores(h)
          /\ guard' = Moved(g, h)
          /\ UNCHANGED <<assigning, pending, outcome>>
    /\ UNCHANGED <<device, taking, captured>>

\* The write of a restore returns, applied at the device or not.
WriteReturns(told, applied) ==
    /\ pending # 0
    /\ pending' = 0
    /\ outcome' = [outcome EXCEPT ![pending] = told]
    /\ device' = IF ~applied THEN device
                 ELSE [n \in Names |-> IF n \in EntriesOf(captured[pending])
                                       THEN captured[pending][n] ELSE device[n]]
    /\ UNCHANGED <<guard, taking, assigning, captured>>

\* The rest of a move assignment, after the write.
TakeOver ==
    /\ pending = 0
    /\ \E a \in assigning : guard' = Moved(a.from, a.to)
    /\ assigning' = None
    /\ UNCHANGED <<device, taking, pending, captured, outcome>>

Next ==
    \/ \E n \in Names, v \in Values : TestWrite(n, v)
    \/ \E g \in Guards, names \in SUBSET Names : Capture(g, names)
    \/ CaptureFails
    \/ \E b \in Baselines, known \in SUBSET Names : Captured(b, known)
    \/ \E g \in Guards : Restore(g) \/ Destroy(g) \/ Dismiss(g)
    \/ \E g, h \in Guards : MoveConstruct(g, h) \/ MoveAssign(g, h)
    \/ WriteReturns("applied", TRUE)
    \/ WriteReturns("rejected", FALSE)
    \/ \E applied \in BOOLEAN : WriteReturns("failed", applied)
    \/ TakeOver

Spec == Init /\ [][Next]_vars

-----------------------------------------------------------------------------
(* Properties.                                                             *)

\* The types of the guards' state; no baseline is written a second time
\* unless the owner asks for it.
TypeOK ==
    /\ device \in [Names -> Values]
    /\ guard \in [Guards -> [armed : BOOLEAN, baseline : Snapshots,
                             of : 0..MaxCaptures]]
    /\ taking \subseteq [into : Guards, names : SUBSET Names]
    /\ assigning \subseteq [from : Guards, to : Guards]
    /\ pending \in 0..MaxCaptures
    /\ captured \in [Baselines -> Snapshots]
    /\ outcome \in [Baselines -> {"none", "held", "writing", "dismissed",
                                  "applied", "rejected", "failed"}]

\* A captured baseline is armed in exactly one guard until it is handed back
\* to the device or dismissed, and in none afterwards: no move, destructor
\* or failed write loses one (restore_guard.hpp: "Without an explicit
\* restore() the destructor restores; dismiss() ends without a restore").
EachBaselineOnce ==
    \A b \in Baselines :
        Cardinality({g \in Guards : guard[g].armed /\ guard[g].of = b})
            = IF outcome[b] = "held" THEN 1 ELSE 0

\* An armed guard holds the baseline as it was captured, however often it
\* was moved.
ArmedKeepsBaseline ==
    \A g \in Guards : guard[g].armed => guard[g].baseline = captured[guard[g].of]

\* EachBaselineOnce without counting, and what makes it inductive.
HeldIffArmed ==
    /\ \A b \in Baselines : outcome[b] = "held" <=>
          \E g \in Guards : guard[g].armed /\ guard[g].of = b
    /\ \A g, h \in Guards : guard[g].armed /\ guard[h].armed
                            /\ guard[g].of = guard[h].of => g = h

\* A guard object is of a baseline that was captured, and holds it unaltered
\* or nothing; what is left in it when it is not armed is no longer owed to
\* the device.
ObjectsCaptured ==
    \A g \in Guards : guard[g] # NoGuard =>
        /\ guard[g].of # 0
        /\ outcome[guard[g].of] # "none"
        /\ guard[g].baseline \in {Nothing, captured[guard[g].of]}
        /\ ~guard[g].armed /\ guard[g].baseline # Nothing =>
               outcome[guard[g].of] # "held"

\* What the calls that wait rely on: the place that capture() returns into
\* is empty, the baseline being written is in no armed guard, and the
\* target of a move assignment has handed its own baseline back.
CallsSound ==
    /\ taking # None => pending = 0 /\ assigning = None
    /\ \A t \in taking : guard[t.into] = NoGuard
    /\ pending # 0 => outcome[pending] = "writing"
    /\ \A a \in assigning : /\ a.from # a.to /\ ~guard[a.to].armed
                             /\ guard[a.from] # NoGuard /\ guard[a.to] # NoGuard

IInv ==
    /\ TypeOK
    /\ HeldIffArmed
    /\ ArmedKeepsBaseline
    /\ ObjectsCaptured
    /\ CallsSound

\* A baseline is restored once or dismissed, and unaltered.
BaselineSafe ==
    /\ TypeOK
    /\ EachBaselineOnce
    /\ ArmedKeepsBaseline
=============================================================================
