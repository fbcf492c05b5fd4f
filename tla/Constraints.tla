---------------------------- MODULE Constraints -----------------------------
(***************************************************************************)
(* The cross-field rules of src/datapoints/constraints.cpp, checked before *)
(* a write.  A lookup is a function from the names below to numbers,       *)
(* Unknown where nothing is staged and nothing cached.                     *)
(*                                                                         *)
(* A definition marked "Fault" is what the one below it would be with a    *)
(* plausible mistake in the code; it is not part of the model.             *)
(***************************************************************************)
EXTENDS Integers

CONSTANTS
    Unknown,            \* std::nullopt
    MinOnTimeLimit,     \* the 10 of Fon_Max_On_Time
    ReportLimit         \* the 3600 of Fon_Report_Interval

Fields == {"AlertLow", "Min", "Max", "AlertHigh", "MaxOn", "MinOn", "DryRun", "Report"}

Known(v, fields) == \A f \in fields : v[f] # Unknown

\* if (a && b && !(*a < *b))
NotBelow(v, a, b) == Known(v, {a, b}) /\ ~(v[a] < v[b])

\* check_cross_constraints(): the field of the first rule that is broken, or
\* "ok".
CheckCrossConstraints(v) ==
    IF NotBelow(v, "Min", "Max") THEN "Max"
    ELSE IF NotBelow(v, "Max", "AlertHigh") THEN "AlertHigh"
    ELSE IF NotBelow(v, "AlertLow", "Min") THEN "AlertLow"
    ELSE IF Known(v, {"MaxOn"}) /\ v["MaxOn"] < MinOnTimeLimit THEN "MaxOn"
    ELSE IF NotBelow(v, "MinOn", "MaxOn") THEN "MinOn"
    ELSE IF NotBelow(v, "DryRun", "MaxOn") THEN "DryRun"
    ELSE IF Known(v, {"Report"}) /\ (v["Report"] < 1 \/ v["Report"] > ReportLimit)
         THEN "Report"
    ELSE "ok"

\* Fault: the cache comes first.
CacheFirst(changes, cached) ==
    [f \in Fields |-> IF cached[f] # Unknown THEN cached[f] ELSE changes[f]]

\* The lookup of validate_staged() and validate_constraints(): planned
\* values, the rest from the cache.
Effective(changes, cached) ==
    [f \in Fields |-> IF changes[f] # Unknown THEN changes[f] ELSE cached[f]]

ValidateConstraints(changes, cached) == CheckCrossConstraints(Effective(changes, cached))
=============================================================================
