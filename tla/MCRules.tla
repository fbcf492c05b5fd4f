------------------------------ MODULE MCRules -------------------------------
(* Integer types of two to five bits, hexadecimal numbers of two digits.   *)
EXTENDS Rules

MCBits == [t \in Narrowed \cup {"U64"} |->
              CASE t \in {"U8", "I8", "Enum"} -> 2
                [] t \in {"U16", "I16"} -> 3
                [] t \in {"U32", "I32"} -> 4
                [] t = "U64" -> 8]

\* Floats are three quarters apart, up to 15; the limits are no floats.
MCNumbers == -40..70 \cup {NaN, 100, -100}
MCLimits == {NaN, 4, 8}

MCTexts ==
    {<<>>, <<Letter>>} \cup
    UNION {{<<d>>, <<Minus, d>>, <<d, 7>>, <<7, d>>, <<15, d>>, <<1, d, 0>>, <<d, Letter>>} :
              d \in {0, 1, 9, 10, 15}}

MCSeconds == -1..16 \cup {30, 31, 60}
=============================================================================
