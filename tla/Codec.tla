------------------------------- MODULE Codec --------------------------------
(***************************************************************************)
(* The datapoint codec (src/datapoints/codec.cpp): wire JSON to typed      *)
(* values and back, range checks, and the text of an assignment given to   *)
(* fountainer-cli.                                                         *)
(*                                                                         *)
(* A double is a whole number of quarters, which has the halves that       *)
(* rounding must decide; Infinity and its negative, beyond all others; or  *)
(* NaN.  A float is a multiple of Grain quarters, up to FloatMax.  Text is *)
(* a sequence of hexadecimal digits, Minus and Letter; the integer types   *)
(* have the widths Bits gives them.                                        *)
(*                                                                         *)
(* A definition marked "Fault" is what the one below it would be with a    *)
(* plausible mistake in the code; it is not part of the model.             *)
(***************************************************************************)
EXTENDS Integers, Sequences, SequencesExt

CONSTANTS
    Bits,           \* Bits[type]: the width of an integer type
    StringMax,      \* kDatapointStringMax
    Minus, Letter,  \* characters that are no hexadecimal digit
    NaN,            \* the double that is no number
    Infinity,       \* the greatest double
    Grain,          \* the distance of two floats
    FloatMax        \* the greatest finite float

SignedTypes == {"I8", "I16", "I32"}
Narrowed == SignedTypes \cup {"U8", "Enum", "U16", "U32"}
Types == Narrowed \cup {"Bool", "U64", "F32", "Str"}

ASSUME CodecAssumption ==
    /\ Bits \in [Narrowed \cup {"U64"} -> Nat \ {0, 1}]
    /\ Bits["U64"] % 4 = 0
    /\ StringMax \in Nat
    /\ NaN \notin Int
    /\ Grain \in Nat \ {0}
    /\ Infinity \in Nat /\ FloatMax \in 0..(Infinity - 1)

Ok(v) == [ok |-> TRUE, value |-> v]
Error(code) == [ok |-> FALSE, code |-> code]

\* value_index_for(): the alternative of the variant.
ValueIndexFor(type) ==
    CASE type = "Bool" -> 0 [] type \in {"U8", "Enum"} -> 1
      [] type = "U16" -> 2 [] type = "U32" -> 3 [] type = "U64" -> 4
      [] type = "I8" -> 5 [] type = "I16" -> 6 [] type = "I32" -> 7
      [] type = "F32" -> 8 [] type = "Str" -> 9

\* A DatapointValue: the alternative that the C++ type given to narrow()
\* picks, and its content.
Boxed(index, v) == [index |-> index, v |-> v]
CppIndex(type) ==
    CASE type \in {"U8", "Enum"} -> 1 [] type = "U16" -> 2 [] type = "U32" -> 3
      [] type = "I8" -> 5 [] type = "I16" -> 6 [] type = "I32" -> 7

Lowest(type) == IF type \in SignedTypes THEN -(2 ^ (Bits[type] - 1)) ELSE 0
Highest(type) == IF type \in SignedTypes THEN 2 ^ (Bits[type] - 1) - 1 ELSE 2 ^ Bits[type] - 1

\* A double goes further than any of the integer types.
ASSUME WidthAssumption ==
    \A type \in Narrowed : -Infinity < 4 * Lowest(type) /\ 4 * Highest(type) < Infinity

\* std::isfinite()
Finite(x) == x # NaN /\ -Infinity < x /\ x < Infinity

\* How many times `unit` is nearest to x; halfway between two, the even one.
NearestCount(x, unit) ==
    LET floor == x \div unit
        part == x % unit
    IN  IF 2 * part < unit \/ (2 * part = unit /\ floor % 2 = 0)
        THEN floor ELSE floor + 1

\* std::nearbyint()
NearbyInt(quarters) == NearestCount(quarters, 4)

\* static_cast<float>(): to the nearest float, and to an infinity when there
\* is none.
Float(x) ==
    LET nearest == Grain * NearestCount(x, Grain)
    IN  IF ~Finite(x) THEN x
        ELSE IF nearest > FloatMax THEN Infinity
        ELSE IF nearest < -FloatMax THEN -Infinity
        ELSE nearest

\* narrow<T>()
Narrow(type, quarters) ==
    IF ~Finite(quarters) THEN Error("TypeMismatch")
    ELSE IF NearbyInt(quarters) < Lowest(type) \/ NearbyInt(quarters) > Highest(type)
         THEN Error("OutOfRange")
         ELSE Ok(Boxed(CppIndex(type), NearbyInt(quarters)))

\* strtoull() with base 16
NumberOf(digits) == FoldLeft(LAMBDA acc, d : acc * 16 + d, 0, digits)

HexDigits == 0..15
Modulus == 2 ^ Bits["U64"]

\* parse_u64(): strtoull() with base 16, which takes a sign and wraps a
\* negative number around.
ParseU64(text) ==
    LET negative == text # <<>> /\ Head(text) = Minus
        digits == IF negative THEN Tail(text) ELSE text
        number == NumberOf(digits)
    IN  IF digits = <<>> \/ ~(ToSet(digits) \subseteq HexDigits)
        THEN Error("TypeMismatch")
        ELSE IF number >= Modulus THEN Error("TypeMismatch")
             ELSE Ok(Boxed(4, IF negative THEN (Modulus - number) % Modulus ELSE number))

\* value_from_json()
ValueFromJson(type, json) ==
    CASE type = "Bool" /\ json.is = "bool" -> Ok(Boxed(0, json.v))
      [] type = "Str" /\ json.is = "string" -> Ok(Boxed(9, json.v))
      [] type = "U64" /\ json.is = "string" -> ParseU64(json.v)
      [] type \in Narrowed /\ json.is = "number" -> Narrow(type, json.v)
      [] type = "F32" /\ json.is = "number" -> Ok(Boxed(8, Float(json.v)))
      [] OTHER -> Error("TypeMismatch")

\* "%016llX"
HexOf(number) ==
    LET places == Bits["U64"] \div 4
    IN  [i \in 1..places |-> (number \div 16 ^ (places - i)) % 16]

\* value_to_json()
ValueToJson(type, value) ==
    CASE type = "U64" -> [is |-> "string", v |-> HexOf(value.v)]
      [] type = "Bool" -> [is |-> "bool", v |-> value.v]
      [] type = "Str" -> [is |-> "string", v |-> value.v]
      [] type = "F32" -> [is |-> "number", v |-> value.v]
      [] type \in Narrowed -> [is |-> "number", v |-> 4 * value.v]

\* canonical_number(), which sign() comes to: it throws for a number that is
\* not finite.
Signable(json) == json.is = "number" => Finite(json.v)

\* Fault: the limit as the catalog has it.
CatalogBound(limit) == limit

\* min_bound and max_bound: "The firmware holds min/max as FLOAT".
Bound(limit) == Float(limit)

\* Any comparison with NaN is false.
Beyond(number, descriptor) ==
    /\ number # NaN
    /\ \/ Bound(descriptor.min) # NaN /\ number < Bound(descriptor.min)
       \/ Bound(descriptor.max) # NaN /\ number > Bound(descriptor.max)

\* validate(): the limits are doubles, NaN without one.
Validate(descriptor, value) ==
    CASE value.index # ValueIndexFor(descriptor.type) -> Error("TypeMismatch")
      [] value.index = 9 ->
            IF Len(value.v) > StringMax THEN Error("ValueTooLong") ELSE Ok(value)
      [] value.index \in {0, 4} -> Ok(value)
      [] OTHER ->
            LET number == IF value.index = 8 THEN value.v ELSE 4 * value.v
            IN  IF Beyond(number, descriptor) THEN Error("OutOfRange") ELSE Ok(value)

\* DatapointWriteSet::set() and stage(): a known name that may be written, and
\* a value of its type.
MaySet(descriptor, value) ==
    descriptor.writable /\ value.index = ValueIndexFor(descriptor.type)

\* parse_assignment() of fountainer-cli.  json is what the text after "=" was
\* turned into for the type: whether it reads 1, true or on, the text itself,
\* or the number std::stod() makes of it, which may be NaN or an infinity.
ParseAssignment(descriptor, json) ==
    LET value == ValueFromJson(descriptor.type, json)
    IN  IF value.ok /\ ~MaySet(descriptor, value.value) THEN Error("ReadOnlyDatapoint")
        ELSE value

\* What becomes of an assignment that is written: it is refused before, the
\* signature of its frame throws, or it is sent.
Written(descriptor, json) ==
    LET assigned == ParseAssignment(descriptor, json)
    IN  IF ~assigned.ok \/ ~Validate(descriptor, assigned.value).ok THEN "refused"
        ELSE IF ~Signable(ValueToJson(descriptor.type, assigned.value)) THEN "throws"
        ELSE "sent"
=============================================================================
