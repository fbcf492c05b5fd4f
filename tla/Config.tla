------------------------------- MODULE Config -------------------------------
(***************************************************************************)
(* From a configuration file to a client that may connect: load_config()   *)
(* and its validate() (src/config.cpp), configure() of fountainer-cli, and *)
(* the credentials and SecurityConfiguration of src/security.cpp.          *)
(*                                                                         *)
(* A file is known by what becomes of its path: "" is no path, "missing"   *)
(* does not exist, "unreadable" exists, "bad" can be read but is no key,   *)
(* "good" is what it should be.  json is a function from the keys of the   *)
(* file to values, NoKey where a key is not there; of texts that are only *)
(* looked up (path, logging level, types of the sequence) it tells whether *)
(* they are known.                                                         *)
(*                                                                         *)
(* A definition marked "Fault" is what the one below it would be with a    *)
(* plausible mistake in the code; it is not part of the model.             *)
(***************************************************************************)
EXTENDS Integers

CONSTANT NoKey

Files == {"", "missing", "unreadable", "bad", "good"}
Exists(file) == file \in {"unreadable", "bad", "good"}
Readable(file) == file \in {"bad", "good"}

Value(json, key, default) == IF json[key] = NoKey THEN default ELSE json[key]

\* load_config(), up to validate(): a section that is there may leave keys
\* out, and one that is not there leaves the defaults of the structs.
Loaded(json) ==
    [host |-> Value(json, "host", ""),
     port |-> Value(json, "port", 4443),
     ca |-> Value(json, "ca", ""),
     cert |-> Value(json, "cert", ""),
     key |-> Value(json, "key", ""),
     verify_peer |-> Value(json, "verify_peer", TRUE),
     use_mtls |-> Value(json, "use_mtls", TRUE),
     verify_hostname |->
        LET raw == Value(json, "verify_hostname", "auto")
        IN  IF raw \in {"auto", "on", "off", "other"} THEN raw
            ELSE IF raw = "true" THEN "on" ELSE "off",
     connect_timeout |-> Value(json, "connect_timeout", 10),
     initial |-> Value(json, "initial", 1),
     max |-> Value(json, "max", 30),
     idle |-> Value(json, "idle", 60),
     enabled |-> json["fountain"],
     device_id |-> IF json["fountain"] THEN Value(json, "device_id", "") ELSE "",
     kid |-> IF json["fountain"] THEN Value(json, "kid", "1") ELSE "1",
     hmac |-> IF json["fountain"] THEN Value(json, "hmac", "") ELSE "",
     handshake |-> IF json["fountain"] THEN Value(json, "handshake", 15) ELSE 15,
     steps_known |-> json["steps_known"],
     texts_valid |-> json["texts_valid"]]

\* validate(): the files of mutual TLS.
MtlsFiles(c) == c.use_mtls => Exists(c.cert) /\ Exists(c.key)

\* validate(): the delays between two attempts.
DelaysInOrder(c) == c.initial > 0 /\ c.max >= c.initial

\* Fault: the key file will do.
KeyFileOnly(c) == c.enabled => Exists(c.hmac) /\ c.kid # ""

\* validate(): the fountain section.
FountainSection(c) ==
    c.enabled =>
        /\ c.device_id # "" /\ c.kid # ""
        /\ Exists(c.hmac)
        /\ c.handshake > 0
        /\ c.steps_known

\* load_config() returns; otherwise it throws.
Accepted(json) ==
    LET c == Loaded(json) IN
    /\ c.port \in 0..(2 ^ 16 - 1)
    /\ c.host # "" /\ c.port # 0 /\ c.texts_valid
    /\ c.verify_peer => Exists(c.ca)
    /\ MtlsFiles(c)
    /\ c.verify_hostname \in {"auto", "on", "off"}
    /\ c.connect_timeout > 0
    /\ DelaysInOrder(c)
    /\ c.idle >= 0
    /\ FountainSection(c)

-----------------------------------------------------------------------------
(* Credentials.                                                            *)

\* TlsCredentials::mutual_tls() and set_unsafe_options(), as configure()
\* calls them: whether mutual TLS is wanted is not asked.
Tls(c) ==
    [ca |-> c.ca, cert |-> c.cert, key |-> c.key, peer_verified |-> c.verify_peer,
     policy |-> IF c.verify_hostname = "off" \/ (c.verify_hostname = "auto" /\ c.host = "ip")
                THEN "chain" ELSE "dns"]

\* TlsCredentials::validate(), uses_mutual_tls()
TlsValid(tls) ==
    /\ tls.peer_verified => Readable(tls.ca)
    /\ tls.cert # "" => Readable(tls.cert) /\ Readable(tls.key)

\* decode_hex_key(): 64 hexadecimal digits, with space between them or not.
DecodesHexKey(file) == file = "good"

\* HmacCredentials::from_file(), from_hex()
HmacLoads(kid, file) == kid # "" /\ Readable(file) /\ DecodesHexKey(file)

\* configure(): the TLS credentials are set, then the key, then the options.
\* SecurityConfiguration::validate(), asked at each connect(), wants both.
Configured(json) ==
    LET c == Loaded(json) IN TlsValid(Tls(c)) /\ HmacLoads(c.kid, c.hmac)

Client(json) ==
    LET c == Loaded(json)
    IN  [tls |-> Tls(c), expected_device_id |-> c.device_id, kid |-> c.kid,
         key |-> c.hmac, initial_delay |-> c.initial, max_delay |-> c.max]
=============================================================================
