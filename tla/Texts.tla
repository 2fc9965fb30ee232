---------------------------------- MODULE Texts ----------------------------------
(***************************************************************************)
(* What goes into the program as text, and the lines that come out of it:  *)
(* one conversion of one input.  A duration and an address are parsed by   *)
(* clap while the options are read; a line is written for one frame of a   *)
(* tag, with the alias the options give it (write_measurement, app.rs).    *)
(***************************************************************************)
EXTENDS Durations, Names, Readings, LineProtocol

CONSTANTS
    DurationTexts,  \* arguments of --throttle
    MacTexts,       \* addresses in --alias, split at their colons
    Requests        \* [measurement, aliases, frame]: what a line is made from

\* Frames: what the sensors measured, and what the decoder returns for it.
Frames ==
    [mac : STRING, format : {"V5", "V6", "E1"}, has : SUBSET FieldNames, time : Nat,
     raw : [FieldNames -> Int], true : [FieldNames -> Int]]

\* An address or a number: text without special characters, no field's name.
Opaque(token) == token \notin {",", "=", " ", "\\"} \cup FieldNames

\* Names are read character by character, and no character is a field's name.
NoField(text) == \A i \in DOMAIN text : text[i] \notin FieldNames

ASSUME TextsAssumption ==
    /\ Word \in Nat \ {0} /\ Parts \in Nat
    /\ DurationTexts \subseteq Seq(STRING)
    /\ MacTexts \subseteq Seq(Seq(STRING))

ASSUME RequestAssumption ==
    \A r \in Requests :
        /\ r.measurement \in Seq(STRING) /\ NoField(r.measurement)
        /\ r.aliases \in Seq(Seq(STRING)) /\ \A i \in DOMAIN r.aliases : NoField(r.aliases[i])
        /\ r.frame \in Frames
        /\ Opaque(r.frame.mac) /\ Opaque(ToString(r.frame.time))
        /\ \A f \in r.frame.has :
              /\ r.frame.raw[f] = Returned(r.frame.format, f, r.frame.true[f])
              /\ Opaque(ToString(r.frame.true[f]))

VARIABLES input, output

vars == <<input, output>>

Nothing == [is |-> "nothing"]

Init ==
    /\ \/ input \in [what : {"duration"}, text : DurationTexts, checked : BOOLEAN]
       \/ input \in [what : {"address"}, parts : MacTexts]
       \/ input \in [what : {"line"}, from : Requests]
    /\ output = Nothing

ParseDuration ==
    /\ input.what = "duration"
    /\ output' = parse_duration(input.text, input.checked)

ParseAddress ==
    /\ input.what = "address"
    /\ output' = from_str(input.parts)

\* The name of the tag, and its line.
Aliases(r) == [i \in DOMAIN r.aliases |-> parse_alias(r.aliases[i])]
Accepted(r) == \A i \in DOMAIN r.aliases : Aliases(r)[i].is = "ok"
NameOf(r) == resolve_name(r.frame.mac, to_map(Aliases(r)))

\* One alias that does not parse, and the program does not start.
RefuseAlias ==
    /\ input.what = "line" /\ ~Accepted(input.from)
    /\ output' = [is |-> "err"]

write_measurement ==
    /\ input.what = "line" /\ Accepted(input.from)
    /\ output' = [is |-> "line", text |-> format(input.from.measurement, decode(input.from.frame),
                                                 NameOf(input.from))]

Next ==
    /\ output = Nothing
    /\ UNCHANGED input
    /\ ParseDuration \/ ParseAddress \/ RefuseAlias \/ write_measurement

Spec == Init /\ [][Next]_vars

----------------------------------------------------------------------------------
(* Durations. *)

Blank(s) == \A i \in DOMAIN s : IsBlank(s[i])

\* The units of the documentation and their milliseconds (throttle.rs:127-137).
Units == <<[text |-> <<"s">>, ms |-> 1000], [text |-> <<>>, ms |-> 1000],
           [text |-> <<"m">>, ms |-> 60000], [text |-> <<"h">>, ms |-> 3600000],
           [text |-> <<"m", "s">>, ms |-> 1]>>

\* The part of t between two cuts; a cut is the number of characters before it.
Part(t, a, b) == SubSeq(t, a + 1, b)

\* The cuts x[1] to x[4] make t read as blanks, a number, blanks, the unit x[5]
\* and blanks.
ReadsAt(t, x) ==
    /\ x[1] < x[2] /\ x[2] <= x[3] /\ x[3] <= x[4]
    /\ Blank(Part(t, 0, x[1])) /\ Blank(Part(t, x[2], x[3])) /\ Blank(Part(t, x[4], Len(t)))
    /\ ~IsBlank(t[x[1] + 1]) /\ ~IsBlank(t[x[2]])
    /\ IsU64(Part(t, x[1], x[2]))
    /\ Part(t, x[3], x[4]) = Units[x[5]].text

\* How a text reads: as <<number, milliseconds of the unit>>.
DurationReadings(t) ==
    LET cut == 0..Len(t)
    IN  {<<Value(Numeral(Part(t, x[1], x[2]))), Units[x[5]].ms>> :
            x \in {y \in cut \X cut \X cut \X cut \X DOMAIN Units : ReadsAt(t, y)}}

\* Seconds that a u64 cannot count: the product of hours or minutes overflows.
TooLong(r) == r[2] > 1000 /\ r[1] * (r[2] \div 1000) >= Word

\* A duration is what the documentation says, to the millisecond, and a text that
\* is none is refused; this leaves out hours and minutes that are too long
\* (throttle.rs:127-195).
DurationExact ==
    input.what = "duration" /\ output # Nothing =>
        LET readings == DurationReadings(input.text) IN
        IF readings = {} THEN output.is = "err"
        ELSE \A r \in readings : TooLong(r) \/ output = [is |-> "ok", ms |-> r[1] * r[2]]

\* With those: the result contains the parsed duration or an error, and never
\* another duration or a panic (throttle.rs:138-139).
DurationOrError ==
    input.what = "duration" /\ output # Nothing =>
        \/ output.is = "err"
        \/ \E r \in DurationReadings(input.text) : output = [is |-> "ok", ms |-> r[1] * r[2]]

----------------------------------------------------------------------------------
(* Addresses and names. *)

\* An address that was accepted is displayed as a text that is accepted for the
\* same address and no other, so an alias given with any spelling meets the
\* tag's own spelling (mac_address.rs:18-58, alias.rs:74-76).
AddressRoundTrip ==
    input.what = "address" /\ output.is = "ok" =>
        /\ \A i \in 1..Parts : output.mac[i] \in 0..255
        /\ from_str(Display(output.mac)) = output

----------------------------------------------------------------------------------
(* Lines. *)

\* How InfluxDB reads a line: a separator counts unless a backslash is before it.
Bare(line, c) == {i \in DOMAIN line : line[i] = c /\ (i = 1 \/ line[i - 1] # "\\")}
Unescaped(text) ==
    FlattenSeq([i \in DOMAIN text |->
        IF text[i] = "\\" /\ i < Len(text) /\ text[i + 1] \in {",", "=", " "} THEN <<>> ELSE <<text[i]>>])

\* A text no backslash of which stands before a special character or at the end.
Plain(text) ==
    \A i \in DOMAIN text : text[i] = "\\" => i < Len(text) /\ text[i + 1] \notin {",", "=", " "}

\* The name the options ask for: that of the last alias of the tag.
WantedName(r) ==
    LET own == {i \in DOMAIN r.aliases : r.aliases[i][1] = r.frame.mac}
    IN  IF own = {} THEN <<r.frame.mac>>
        ELSE SubSeq(r.aliases[Max(own)], 3, Len(r.aliases[Max(own)]))

\* A line reads back as the measurement's name, the tag and its alias, and one
\* pair for each reading of the frame, whatever separators the two names hold:
\* no name can end a tag, begin another or move the fields (influxdb.rs:67-230).
LineReadsBack ==
    output.is = "line" =>
        LET r      == input.from
            line   == output.text
            spaces == Bare(line, " ")
            fields == DOMAIN decode(r.frame).fields
        IN  Plain(r.measurement) /\ Plain(WantedName(r)) /\ fields # {} =>
            /\ Cardinality(spaces) = 2
            /\ SubSeq(line, Max(spaces) + 1, Len(line)) = <<ToString(r.frame.time)>>
            /\ LET head   == SubSeq(line, 1, Min(spaces) - 1)
                   tail   == SubSeq(line, Min(spaces) + 1, Max(spaces) - 1)
                   commas == Bare(head, ",")
               IN  /\ Cardinality(commas) = 2
                   /\ Cardinality(Bare(SubSeq(head, Min(commas), Len(head)), "=")) = 2
                   /\ Unescaped(SubSeq(head, 1, Min(commas) - 1)) = r.measurement
                   /\ SubSeq(head, Min(commas), Max(commas)) = <<",", "mac", "=", r.frame.mac, ",">>
                   /\ SubSeq(head, Max(commas) + 1, Max(commas) + 2) = <<"name", "=">>
                   /\ Unescaped(SubSeq(head, Max(commas) + 3, Len(head))) = WantedName(r)
                   /\ Len(tail) = 4 * Cardinality(fields) - 1
                   /\ \A i \in DOMAIN tail : (tail[i] = ",") <=> (i % 4 = 0)
                   /\ \A i \in DOMAIN tail : (tail[i] = "=") <=> (i % 4 = 2)
                   /\ {tail[4 * k - 3] : k \in 1..Cardinality(fields)} = fields

\* The value written for a field of a line, as its token.
WrittenValue(line, f) == line[(CHOOSE i \in DOMAIN line : line[i] = f /\ line[i + 1] = "=") + 2]

\* The formats agree.  The same air pressure, voltage or acceleration is written
\* as the same number whichever format it came in: V5 reports Pa, V6 and E1
\* report hPa, and both pass through Pa to kPa (scanner/mod.rs:204, 234;
\* influxdb.rs:23-27, 146).  And a V6 frame carries nothing that the E1 frame of
\* the same sensors lacks, so dropping it loses no field (measurement.rs:7-10,
\* app.rs:87-93).
FormatsAgree ==
    output.is = "line" =>
        LET frame == input.from.frame IN
        /\ \A f \in DOMAIN decode(frame).fields : WrittenValue(output.text, f) = ToString(frame.true[f])
        /\ frame.format = "V6" => Present(frame) \subseteq Present([frame EXCEPT !.format = "E1"])
==================================================================================
