------------------------------- MODULE Events -------------------------------
(***************************************************************************)
(* EventBus (src/events.cpp) and Subscription (events.hpp): one of its     *)
(* lists of handlers, the seven being alike.  The IO thread publishes;     *)
(* Subscription objects are made, moved and destroyed on any thread, also  *)
(* by a handler that runs, and may outlive the bus.                        *)
(*                                                                         *)
(* A definition marked "Fault" is what the one below it would be with a    *)
(* plausible mistake in the code; it is not part of the model.             *)
(***************************************************************************)
EXTENDS Integers, Sequences

CONSTANTS
    Objects,        \* variables of type Subscription
    MaxTokens,      \* bound: handlers attached
    MaxEvents       \* bound: events published

ASSUME EventsAssumption == MaxTokens \in Nat /\ MaxEvents \in Nat

VARIABLES
    alive,          \* does the bus exist?
    slots,          \* the tokens of slots_
    next_token,     \* next_token_
    holds,          \* holds[o]: the token o unsubscribes, 0 without one
    snapshot,       \* handlers of its copy that emit() has still to call
    published,      \* events published so far, the one being delivered last
    got,            \* got[t]: the events handler t was called with
    attached,       \* attached[t]: what was published before t was attached
    removed         \* removed[t]: what was published when t unsubscribed

bus == <<alive, slots, next_token, holds, snapshot, published, got, attached, removed>>
delivery == <<snapshot, published, got>>

Tokens == 1..MaxTokens
Still == MaxEvents + 1      \* removed[t] of a handler that did not unsubscribe

BusInit ==
    /\ alive = TRUE
    /\ slots = {}
    /\ next_token = 0
    /\ holds = [o \in Objects |-> 0]
    /\ snapshot = {}
    /\ published = 0
    /\ got = [t \in Tokens |-> <<>>]
    /\ attached = [t \in Tokens |-> 0]
    /\ removed = [t \in Tokens |-> Still]

-----------------------------------------------------------------------------
(* Subscription.                                                           *)

\* remove(), if the bus still exists.
Removed(token) == slots \ {token}

\* reset(): the handler is removed, once.
Unsubscribe(token) ==
    /\ slots' = Removed(token)
    /\ removed' = [t \in Tokens |->
                      IF t = token /\ removed[t] = Still THEN published ELSE removed[t]]

\* The destructor, and reset().
Reset(o) ==
    /\ holds[o] # 0
    /\ Unsubscribe(holds[o])
    /\ holds' = [holds EXCEPT ![o] = 0]
    /\ UNCHANGED <<alive, next_token, delivery, attached>>

\* Fault: the source keeps its token.
Copied(from, to) == [holds EXCEPT ![to] = holds[from]]

\* std::exchange(other.unsubscribe_, nullptr)
Moved(from, to) == [holds EXCEPT ![to] = holds[from], ![from] = 0]

\* The move constructor, into a variable that holds nothing, and the move
\* assignment, which resets the one that is overwritten first.
Move(from, to) ==
    /\ from # to
    /\ holds[from] # 0
    /\ Unsubscribe(holds[to])
    /\ holds' = Moved(from, to)
    /\ UNCHANGED <<alive, next_token, delivery, attached>>

\* ++next_token_
NextToken == next_token + 1

\* attach(): add(), and the token goes into a variable.
Attach(o) ==
    /\ alive
    /\ next_token < MaxTokens
    /\ holds[o] = 0
    /\ next_token' = next_token + 1
    /\ slots' = slots \cup {NextToken}
    /\ holds' = [holds EXCEPT ![o] = NextToken]
    /\ attached' = [attached EXCEPT ![NextToken] = published]
    /\ UNCHANGED <<alive, delivery, removed>>

-----------------------------------------------------------------------------
(* EventBus.                                                               *)

\* publish(), and the copy of the handlers that emit() makes under its lock.
Publish ==
    /\ alive
    /\ snapshot = {}
    /\ published < MaxEvents
    /\ published' = published + 1
    /\ snapshot' = slots
    /\ UNCHANGED <<alive, slots, next_token, holds, got, attached, removed>>

\* Fault: the list has become shorter and one handler is passed over.
PassedOver(t) ==
    LET rest == snapshot \ {t} IN
    IF t \in slots THEN rest ELSE {u \in rest : \E v \in rest : v < u}

\* The rest of the loop after the call of t.
Remaining(t) == snapshot \ {t}

\* The next call of emit(), in the order of the map: by token.
CallHandler ==
    \E t \in snapshot :
        /\ \A u \in snapshot : t <= u
        /\ got' = [got EXCEPT ![t] = Append(@, published)]
        /\ snapshot' = Remaining(t)
        /\ UNCHANGED <<alive, slots, next_token, holds, published, attached, removed>>

\* The destructor of the client; its IO thread has ended.
DestroyBus ==
    /\ alive
    /\ snapshot = {}
    /\ alive' = FALSE
    /\ slots' = {}
    /\ UNCHANGED <<next_token, holds, delivery, attached, removed>>

BusNext ==
    \/ \E o \in Objects : Attach(o) \/ Reset(o)
    \/ \E from, to \in Objects : Move(from, to)
    \/ Publish
    \/ CallHandler
    \/ DestroyBus

BusSpec == BusInit /\ [][BusNext]_bus

-----------------------------------------------------------------------------
(* Properties.                                                             *)

\* The types of the state of the bus and its subscriptions.
BusTypeOK ==
    /\ alive \in BOOLEAN
    /\ slots \subseteq Tokens
    /\ next_token \in 0..MaxTokens
    /\ holds \in [Objects -> 0..MaxTokens]
    /\ snapshot \subseteq Tokens
    /\ published \in 0..MaxEvents
    /\ got \in [Tokens -> Seq(1..MaxEvents)]
    /\ attached \in [Tokens -> 0..MaxEvents]
    /\ removed \in [Tokens -> 0..Still]

\* Every handler in the list belongs to one Subscription that will remove it,
\* and no two share one, however they were moved and in whatever order they
\* and the bus were destroyed.
OneOwner ==
    /\ \A a, b \in Objects : holds[a] = holds[b] /\ holds[a] # 0 => a = b
    /\ alive => slots = {holds[o] : o \in Objects} \ {0}

\* The list of handlers and the subscriptions belong together.
SlotsSound ==
    /\ BusTypeOK
    /\ OneOwner

\* The events after number a, up to number b.
EventsBetween(a, b) == [i \in 1..(b - a) |-> a + i]

\* Between two events a handler has been called once, in their order, with
\* every event published since it was attached: nobody else's coming and
\* going during a delivery costs it an event (emit()).
NoEventMissed ==
    snapshot = {} => \A t \in slots : got[t] = EventsBetween(attached[t], published)

\* A handler that unsubscribed, from wherever, is not called with anything
\* published later; only the delivery that was under way may still reach it.
NoneAfterRemoval == \A t \in Tokens : \A i \in DOMAIN got[t] : got[t][i] <= removed[t]

\* A handler gets the events of the time it was subscribed, all of them and
\* no later ones.
Delivered == NoEventMissed /\ NoneAfterRemoval

\* What makes them inductive: a token not given out yet has no history; a
\* handler in the list has got everything up to the delivery under way, and
\* that one too unless it is still to be called; and whoever is still to be
\* called was there when the event was published.
FreshTokens ==
    /\ slots \subseteq 1..next_token
    /\ \A o \in Objects : holds[o] <= next_token
    /\ \A t \in Tokens : t > next_token => got[t] = <<>> /\ removed[t] = Still

InStep ==
    \A t \in slots :
        /\ removed[t] = Still
        /\ attached[t] <= published
        /\ got[t] = EventsBetween(attached[t],
                                  IF t \in snapshot THEN published - 1 ELSE published)

CallsLeft == \A t \in snapshot : t <= next_token /\ attached[t] < published
                                 /\ published <= removed[t]

PublishedOnly == \A t \in Tokens : \A i \in DOMAIN got[t] : got[t][i] <= published

BusInv ==
    /\ BusTypeOK
    /\ OneOwner
    /\ FreshTokens
    /\ InStep
    /\ CallsLeft
    /\ PublishedOnly
    /\ NoneAfterRemoval
=============================================================================
