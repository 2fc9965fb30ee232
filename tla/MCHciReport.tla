------------------------------ MODULE MCHciReport ------------------------------
(* Events for HciReport: reports encoded as the controller does, and the same  *)
(* bytes cut off or overwritten.                                               *)
EXTENDS HciReport, SequencesExt

Kinds == {2, 13}

Struct(t, body) == [type |-> t, body |-> body]
Flags == Struct(1, <<6>>)
RuuviV5 == Struct(255, <<153, 4, 5, 17>>)
RuuviOdd == Struct(255, <<153, 4, 9>>)
RuuviBare == Struct(255, <<153, 4>>)
OtherMaker == Struct(255, <<76, 0, 5>>)
NoMaker == Struct(255, <<153>>)
IdInside == Struct(22, <<153, 4, 5, 255>>)
Name(n) == Struct(9, [i \in 1..n |-> 82])

Structs == {Flags, RuuviV5, RuuviOdd, RuuviBare, OtherMaker, NoMaker, IdInside, Name(20)}
Ads(n) == UNION {[1..k -> Structs] : k \in 0..n}

Bytes(structs) ==
    FlattenSeq([i \in DOMAIN structs |->
                   <<Len(structs[i].body) + 1, structs[i].type>> \o structs[i].body])

\* With where each structure starts, and where the last one ends.
MakeReport(a, structs) ==
    [addr |-> <<a, 1, 2, 3, 4, 5>>, structs |-> structs,
     starts |-> [k \in 1..(Len(structs) + 1) |-> Len(Bytes(SubSeq(structs, 1, k - 1)))]]

\* The fields of a report, as the controller puts them after the report count.
Encode(kind, r) ==
    LET bytes == Bytes(r.structs) IN
    IF kind = 2
    THEN <<0, 0>> \o Reverse(r.addr) \o <<Len(bytes)>> \o bytes \o <<200>>
    ELSE <<0, 0, 0>> \o Reverse(r.addr) \o [i \in 1..14 |-> 1] \o <<Len(bytes)>> \o bytes

Event(kind, reports) ==
    LET body == FlattenSeq([i \in DOMAIN reports |-> Encode(kind, reports[i])])
    IN [data |-> <<4, 62, Len(body) + 2, kind, Len(reports)>> \o body,
        wellFormed |-> TRUE, reports |-> reports]

Single(n) == {Event(k, <<MakeReport(9, s)>>) : k \in Kinds, s \in Ads(n)}
Double ==
    {Event(k, <<MakeReport(9, s), MakeReport(8, t)>>) : k \in Kinds, s \in Ads(1), t \in Ads(1)}
None == {Event(k, <<>>) : k \in Kinds \cup {1}}

\* 31 bytes of data, with Ruuvi's structure at their end.
Full ==
    {Event(k, <<MakeReport(9, <<Name(29 - Len(Bytes(<<r>>))), r>>)>>) :
        k \in Kinds, r \in {RuuviV5, RuuviOdd, RuuviBare}}

Malformed(bytes) == [data |-> bytes, wellFormed |-> FALSE, reports |-> <<>>]
Cut(n) ==
    UNION {{Malformed(SubSeq(e.data, 1, k)) : k \in 0..(Len(e.data) - 1)} : e \in Single(n)}
Overwritten ==
    UNION {{Malformed([e.data EXCEPT ![i] = b]) : i \in DOMAIN e.data, b \in {0, 3, 153, 255}}
           \cup {Malformed([e.data EXCEPT ![i] = (@ + 1) % 256]) : i \in DOMAIN e.data} :
               e \in Single(1)}
Tiny == {Malformed(<<4, 62, 4, k, 153, 4>>) : k \in Kinds}

MCEvents == Single(2) \cup Full \cup Double \cup None \cup Cut(1) \cup Overwritten \cup Tiny

\* A long name before the manufacturer data, as extended advertising allows.
LongEvents == {Event(13, <<MakeReport(9, <<Name(n), RuuviV5>>)>>) : n \in 1..60}
===============================================================================
