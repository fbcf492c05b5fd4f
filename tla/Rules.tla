------------------------------- MODULE Rules --------------------------------
(***************************************************************************)
(* The pure functions of the framework, each compared with what it is for, *)
(* over all small inputs: the codec, the cross-field constraints, the      *)
(* configuration and the commands.  The state is the input looked at.      *)
(***************************************************************************)
EXTENDS Codec, Constraints, Config, Commands, FiniteSets

Doubles == -Infinity..Infinity \cup {NaN}

CONSTANTS
    Numbers,        \* JSON numbers
    Limits,         \* limits of descriptors
    Texts,          \* strings
    Levels,         \* values of the constrained fields
    Seconds         \* durations commands are asked for

\* Unknown is no number; the last is a fact of arithmetic.
ASSUME RulesAssumption ==
    /\ Numbers \subseteq Doubles /\ Limits \subseteq Doubles
    /\ Texts \subseteq Seq(HexDigits \cup {Minus, Letter})
    /\ Levels \subseteq Int /\ Unknown \notin Int
    /\ MinOnTimeLimit \in Int /\ ReportLimit \in Int
    /\ Seconds \subseteq Int
    /\ 2 ^ StepsBits \in Nat \ {0}

VARIABLE input

JsonValues ==
    [is : {"bool"}, v : BOOLEAN] \cup [is : {"number"}, v : Numbers]
    \cup [is : {"string"}, v : Texts] \cup [is : {"null"}]

\* The catalog: no U64 is writable (generated.hpp).
Descriptors ==
    {d \in [type : Types, writable : BOOLEAN, min : Limits, max : Limits] :
        d.type = "U64" => ~d.writable}

\* The settings of a device that are in order, apart from those in `group`,
\* which are as in `settings`.
Pressures == {"AlertLow", "Min", "Max", "AlertHigh"}
Times == Fields \ Pressures
Orderly(group, settings) ==
    [f \in Fields |-> CASE f \in group -> settings[f]
                       [] f \notin group /\ f = "Min" -> 2
                       [] f \notin group /\ f = "Max" -> 3
                       [] f \notin group /\ f = "AlertHigh" -> 4
                       [] f \notin group /\ f = "MaxOn" -> MinOnTimeLimit
                       [] OTHER -> 1]

\* A configuration file with nothing wrong, and no key that has a default.
Plain == [k \in {"host", "port", "ca", "cert", "key", "verify_peer", "use_mtls",
                 "verify_hostname", "connect_timeout", "initial", "max", "idle",
                 "device_id", "kid", "hmac", "handshake"} |-> NoKey]
Good == [k \in DOMAIN Plain \cup {"fountain", "steps_known", "texts_valid"} |->
            CASE k \in {"fountain", "steps_known", "texts_valid"} -> TRUE
              [] k \in {"ca", "cert", "key", "hmac"} -> "good"
              [] k = "host" -> "ip"
              [] k = "device_id" -> "fnt"
              [] OTHER -> Plain[k]]

RulesInit == input = [about |-> "nothing"]

\* A value as it comes from the wire, or from a caller.
LookAtValue ==
    \E descriptor \in Descriptors, json \in JsonValues :
        input' = [about |-> "value", descriptor |-> descriptor, json |-> json]

\* A write of some pressures, or of some times, to a device whose settings
\* are cached, but for those in `uncached`.
LookAtWrite(group, written) ==
    \E settings \in [group -> Levels], changes \in [written -> Levels \cup {Unknown}] :
        \E uncached \in SUBSET written :
            input' = [about |-> "write", device |-> Orderly(group, settings),
                      changes |-> changes, uncached |-> uncached]

\* A configuration file, with any credentials or any times.
LookAtCredentials ==
    \E ca, cert, key, hmac \in Files, id \in {NoKey, "fnt"} :
        \E peer, mtls \in {NoKey, FALSE}, fountain \in BOOLEAN :
            input' = [about |-> "config",
                      json |-> [Good EXCEPT !["ca"] = ca, !["cert"] = cert,
                                            !["key"] = key, !["hmac"] = hmac,
                                            !["device_id"] = id, !["use_mtls"] = mtls,
                                            !["verify_peer"] = peer,
                                            !["fountain"] = fountain]]
LookAtTimes ==
    \E initial, max \in {NoKey, 0, 1, 30, 31}, connect, handshake \in {NoKey, 0},
       idle \in {NoKey, -1} :
        \E port \in {NoKey, -1, 0, 2 ^ 16}, name \in {NoKey, "true", "off", "other"},
           host \in {NoKey, "ip", "name"}, known, valid \in BOOLEAN :
            input' = [about |-> "config",
                      json |-> [Good EXCEPT !["initial"] = initial, !["max"] = max,
                                            !["connect_timeout"] = connect,
                                            !["handshake"] = handshake, !["idle"] = idle,
                                            !["port"] = port, !["host"] = host,
                                            !["verify_hostname"] = name,
                                            !["steps_known"] = known,
                                            !["texts_valid"] = valid]]

\* A command, with the text, state or duration it is asked for.
LookAtCommand(op, arguments) ==
    \E argument \in arguments, enabled \in BOOLEAN, priority \in Priorities :
        input' = [about |-> "command", op |-> op, argument |-> argument,
                  enabled |-> enabled, priority |-> priority]

Look ==
    /\ input.about = "nothing"
    /\ \/ LookAtValue
       \/ LookAtWrite(Pressures, {"Min", "Max"})
       \/ LookAtWrite(Times, {"MinOn", "MaxOn"})
       \/ LookAtCredentials
       \/ LookAtTimes
       \/ LookAtCommand("raw", {"", "restart"})
       \/ LookAtCommand("set_state", {"On", "Off", "Auto", "Manual"})
       \/ LookAtCommand("restart_pump", {""})
       \/ LookAtCommand("reboot", {""})
       \/ LookAtCommand("turn_on_for", Seconds)
       \/ LookAtCommand("inject_watchdog_fault", Seconds)
       \/ LookAtCommand("force_poor_link", Seconds)

RulesSpec == RulesInit /\ [][Look]_input

\* What Look can have put into input, and more: any limits, any settings, any
\* file.  The proofs use no more than this.
Looked ==
    \/ input.about = "nothing"
    \/ /\ input.about = "value"
       /\ input.descriptor.type \in Types
       /\ {input.descriptor.min, input.descriptor.max} \subseteq Doubles
       /\ input.descriptor.type = "U64" => ~input.descriptor.writable
       /\ input.json \in JsonValues
    \/ /\ input.about = "write"
       /\ input.device \in [Fields -> Int]
       /\ \A f \in DOMAIN input.changes : input.changes[f] \in Int \cup {Unknown}
    \/ /\ input.about = "config"
       /\ input.json["fountain"] \in BOOLEAN
    \/ /\ input.about = "command"
       /\ input.op \in {"raw", "set_state", "restart_pump", "reboot", "turn_on_for",
                        "inject_watchdog_fault", "force_poor_link"}
       /\ input.op = "turn_on_for" => input.argument \in Int
       /\ input.priority \in Priorities

-----------------------------------------------------------------------------
(* The codec.                                                              *)

Decoded == ValueFromJson(input.descriptor.type, input.json)

\* Whatever is decoded, and can be put on the wire, is the same after it was
\* written there and decoded again (value_to_json(), value_from_json()).
RoundTrips ==
    input.about = "value" /\ Decoded.ok =>
        LET wire == ValueToJson(input.descriptor.type, Decoded.value) IN
        Signable(wire) => ValueFromJson(input.descriptor.type, wire) = Decoded

\* "without silent truncation": a number that is accepted for an integer type
\* is at most one half away from what it became (narrow()).
NoSilentTruncation ==
    input.about = "value" /\ input.json.is = "number" /\ Decoded.ok
        /\ input.descriptor.type \in Narrowed =>
            4 * Decoded.value.v - input.json.v \in -2..2

\* The firmware's check of a dp_write, for one name; it holds the limits as
\* floats.  There is no U64 that it would have to read.
DeviceAccepts(descriptor, json) ==
    /\ descriptor.writable
    /\ CASE descriptor.type = "Bool" -> json.is = "bool"
         [] descriptor.type = "Str" -> json.is = "string" /\ Len(json.v) < StringMax + 1
         [] OTHER -> /\ json.is = "number"
                     /\ descriptor.min = NaN \/ json.v >= Float(descriptor.min)
                     /\ descriptor.max = NaN \/ json.v <= Float(descriptor.max)

\* The client sends what the device will take, and refuses nothing that it
\* would take: parse_assignment(), set(), validate() and the encoding agree
\* with the firmware on every type and at every limit, also at one that is no
\* float.  The one value that is neither refused nor sent is a float that is
\* not finite and not beyond a limit: validate() lets it pass, and the
\* signature of the frame throws, on the IO thread, where nobody catches it.
DeviceAgrees ==
    input.about = "value" /\ Decoded.ok =>
        LET descriptor == input.descriptor
            wire == ValueToJson(descriptor.type, Decoded.value)
            outcome == Written(descriptor, input.json)
        IN  /\ outcome = "sent" <=> Signable(wire) /\ DeviceAccepts(descriptor, wire)
            /\ outcome = "throws" => descriptor.type = "F32" /\ ~Finite(Decoded.value.v)

\* The codec loses nothing, changes nothing and agrees with the device.
CodecSound ==
    /\ RoundTrips
    /\ NoSilentTruncation
    /\ DeviceAgrees

\* The codec loses nothing, changes nothing and agrees with the device; of the
\* 64-bit numbers, which are written digit by digit, this leaves out that they
\* can be read again.
CodecExact ==
    /\ input.about = "value" /\ input.descriptor.type # "U64" => RoundTrips
    /\ NoSilentTruncation
    /\ DeviceAgrees

-----------------------------------------------------------------------------
(* The cross-field constraints.                                            *)

Planned(f) == f \in DOMAIN input.changes /\ input.changes[f] # Unknown

\* The settings of the device after the write.
After == [f \in Fields |-> IF Planned(f) THEN input.changes[f] ELSE input.device[f]]

\* The rules as the firmware states them.
InOrder(d) ==
    /\ d["AlertLow"] < d["Min"] /\ d["Min"] < d["Max"] /\ d["Max"] < d["AlertHigh"]
    /\ d["MaxOn"] >= MinOnTimeLimit
    /\ d["MinOn"] < d["MaxOn"] /\ d["DryRun"] < d["MaxOn"]
    /\ d["Report"] \in 1..ReportLimit

Verdict ==
    ValidateConstraints(
        [f \in Fields |-> IF Planned(f) THEN input.changes[f] ELSE Unknown],
        [f \in Fields |-> IF f \in input.uncached THEN Unknown ELSE input.device[f]])

\* A write that passes leaves the device with settings in order, provided the
\* client knows the ones it does not write (check_cross_constraints()).
AcceptedWriteKeepsOrder ==
    input.about = "write" /\ Verdict = "ok"
        /\ (\A f \in input.uncached : Planned(f)) => InOrder(After)

\* A write that would leave the settings in order passes, however little is
\* cached, so that settings out of order can be repaired.
RepairIsAccepted ==
    input.about = "write" /\ InOrder(After) => Verdict = "ok"

\* check_cross_constraints() is exact: it refuses what would put known
\* settings out of order, and nothing that puts them in order.
ConstraintsExact == AcceptedWriteKeepsOrder /\ RepairIsAccepted

-----------------------------------------------------------------------------
(* The configuration.                                                      *)

\* Which of the configurations that load_config() accepts can be used, if the
\* files that are there are what they should be: configure() and connect() do
\* not refuse those that have a fountain section and, if they name a
\* certificate, have it and its key.  load_config() accepts more: a file
\* without a fountain section, for which there is no key to authenticate with,
\* and one that says not to use mutual TLS and names a certificate without a
\* key, since configure() does not ask for use_mtls.
AcceptedIsUsable ==
    input.about = "config" /\ Accepted(input.json) =>
        LET c == Loaded(input.json) IN
        {c.ca, c.cert, c.key, c.hmac} \subseteq {"", "missing", "good"} =>
            (Configured(input.json) <=>
                c.enabled /\ (c.cert # "" => Exists(c.cert) /\ Exists(c.key)))

\* A client that a file was accepted for knows its device: it authenticates
\* with a key and expects an identity, and the peer is verified unless the
\* file says otherwise.
ConfiguredIsBound ==
    input.about = "config" /\ Accepted(input.json) /\ Configured(input.json) =>
        LET client == Client(input.json) IN
        /\ client.expected_device_id # "" /\ client.kid # "" /\ client.key = "good"
        /\ client.tls.peer_verified = Value(input.json, "verify_peer", TRUE)
        /\ client.tls.peer_verified => client.tls.ca = "good" \/ client.tls.ca = "bad"

\* An accepted configuration with a fountain section can be used, but for a
\* certificate that is named in vain, and binds the client to its device.
ConfigSound == AcceptedIsUsable /\ ConfiguredIsBound

-----------------------------------------------------------------------------
(* The commands.                                                           *)

Sent == Submit(input.op, input.argument, input.enabled, input.priority)

\* The pump is never switched on for longer than was asked for, rounded up to
\* a step, and for no less as long as the number of steps can be told to the
\* device.  Beyond that the number wraps around and the time is cut short
\* (async_turn_on_for()).
TurnOnCovers ==
    input.about = "command" /\ input.op = "turn_on_for" =>
        IF input.argument <= 0 THEN ~Sent.submitted
        ELSE /\ (Sent.steps - 1) * TurnOnStep < input.argument
             /\ input.argument <= TurnOnStep * (2 ^ StepsBits - 1) =>
                    Sent.steps * TurnOnStep >= input.argument

\* "An Off ... must never queue behind polling": no command of any service goes
\* before an Off, and all that have a name of their own go after it and before
\* polling.  A raw() goes where its caller wants, also beside an Off or behind
\* polling (async_set_state(), async_raw(), with UrgentFirst of Dispatcher).
OffOvertakesAll ==
    input.about = "command" /\ Sent.submitted =>
        /\ SetState("Off").priority <= Sent.priority
        /\ input.op # "raw" =>
               \/ Sent = SetState("Off")
               \/ SetState("Off").priority < Sent.priority /\ Sent.priority < Polling

\* Commands reach the dispatcher as they were asked for: with the duration
\* covered, and an Off before every other command that has a name.
CommandsAsAsked == TurnOnCovers /\ OffOvertakesAll
=============================================================================
