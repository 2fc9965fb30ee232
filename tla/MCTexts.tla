--------------------------------- MODULE MCTexts ---------------------------------
(***************************************************************************)
(* Inputs of Texts for TLC: every duration text of up to five characters,  *)
(* every address text of two parts of up to two characters, and lines with *)
(* every pair of a measurement's and an alias's name of up to three        *)
(* characters, or with frames of each format and different readings.       *)
(***************************************************************************)
EXTENDS Texts

UpTo(chars, n) == UNION {[1..k -> chars] : k \in 0..n}

MCDurationTexts ==
    UpTo({"1", "9", "m", "s", "h", " ", "+"}, 5)
        \cup {<<"9", "9", "9", "9", "9", "h">>, <<"6", "5", "5", "3", "6">>, <<"6", "5", "5", "3", "5", "s">>}

MCMacTexts ==
    LET part == UpTo({"0", "9", "A", "f", "+", "g"}, 2)
    IN  {<<p, q>> : p \in part, q \in part} \cup {<<>>, <<<<"0", "0">>>>}
            \cup {<<<<"0", "A">>, p, <<"f", "f">>>> : p \in part}

\* What the sensors of a frame measured, in thousandths of the line's unit.
True == [f \in FieldNames |-> IF f = "pressure" THEN 101300 ELSE 2000]

Frame(mac, fmt, has) ==
    [mac |-> mac, format |-> fmt, has |-> has, time |-> 7,
     raw |-> [f \in FieldNames |-> Returned(fmt, f, True[f])], true |-> True]

AllReadings == FieldNames
SomeReadings ==
    {{}, AllReadings, {"acceleration_x", "acceleration_y"}} \cup {{f} : f \in AllReadings}
        \cup {AllReadings \ {f} : f \in AllReadings}

NameTexts == UpTo({"a", ",", "=", " ", "\\"}, 3)
Alias(mac, name) == <<mac, "=">> \o name
AliasLists ==
    {<<>>, <<Alias("t2", <<"b">>)>>, <<Alias("t1", <<"a">>), Alias("t1", <<"b">>)>>,
     <<Alias("t1", <<"b">>), Alias("t2", <<"c">>), Alias("t1", <<"a">>)>>,
     <<Alias("t1", <<"b">>), <<"t1", "b">>>>, <<<<"=", "b">>>>}

MCRequests ==
    {[measurement |-> n, aliases |-> <<Alias("t1", a)>>, frame |-> Frame("t1", "E1", {"co2", "pressure"})] :
        n \in NameTexts, a \in NameTexts}
    \cup
    {[measurement |-> <<"a">>, aliases |-> l, frame |-> Frame("t1", fmt, has)] :
        l \in AliasLists, fmt \in {"V5", "V6", "E1"}, has \in SomeReadings}
==================================================================================
