------------------------------- MODULE HciReport -------------------------------
(***************************************************************************)
(* One HCI event from the kernel filter to the channel: the checks of the  *)
(* reader task, the two report layouts, the walk over the AD structures    *)
(* and the dispatch of decode_ruuvi_data (scanner/hci.rs, scanner/mod.rs). *)
(* A read outside a slice is a panic of the reader task, so every read is  *)
(* recorded together with the slice it goes to.                            *)
(***************************************************************************)
EXTENDS HciFormat, FiniteSets

CONSTANTS
    Events     \* events: the bytes, and what they encode if they are well formed

-------------------------------------------------------------------------------
(* The layouts, as offsets into the event. *)

LEGACY == [size |-> 14, addr |-> 7, len |-> 13]
EXTENDED == [size |-> 29, addr |-> 8, len |-> 28]

LayoutOf(kind) == IF kind = EVT_LE_ADVERTISING_REPORT THEN LEGACY ELSE EXTENDED

-------------------------------------------------------------------------------
(* What a controller puts into a well-formed event, as far as its first report. *)

\* AD structure k stands at r.starts[k] in the advertising data, which begins at
\* base; the next one follows it.
EncodesStruct(p, base, r, k) ==
    LET s  == r.structs[k]
        at == base + r.starts[k]
    IN  /\ Byte(p, at) = Len(s.body) + 1
        /\ Byte(p, at + 1) = s.type
        /\ \A i \in 1..Len(s.body) : Byte(p, at + 1 + i) = s.body[i]
        /\ r.starts[k + 1] = r.starts[k] + 2 + Len(s.body)

\* The address is stored with its last byte first.
EncodesReport(p, l, r) ==
    LET len == Byte(p, l.len)
        n   == Len(r.structs)
    IN  /\ l.size + len <= Len(p)
        /\ r.addr \in [1..6 -> 0..255]
        /\ \A i \in 1..6 : Byte(p, l.addr + 6 - i) = r.addr[i]
        /\ r.structs \in Seq([type : 0..255, body : Seq(0..255)])
        /\ r.starts \in [1..(n + 1) -> 0..len] /\ r.starts[1] = 0 /\ r.starts[n + 1] = len
        /\ \A k \in 1..n : EncodesStruct(p, l.size, r, k)

\* The event's length, its kind, the number of its reports, and the first one.
Encodes(p, reports) ==
    /\ Len(p) >= 5
    /\ Byte(p, 0) = HCI_EVENT_PKT /\ Byte(p, 1) = EVT_LE_META_EVENT
    /\ Byte(p, 2) = Len(p) - 3
    /\ Byte(p, 4) = Len(reports)
    /\ IF reports = <<>> THEN Len(p) = 5
       ELSE /\ Byte(p, 3) \in {EVT_LE_ADVERTISING_REPORT, EVT_LE_EXTENDED_ADVERTISING_REPORT}
            /\ Len(reports) > 0
            /\ Len(p) >= LayoutOf(Byte(p, 3)).size
            /\ EncodesReport(p, LayoutOf(Byte(p, 3)), reports[1])

ASSUME EventAssumption ==
    \A e \in Events :
        /\ e.data \in Seq(0..255) /\ e.wellFormed \in BOOLEAN
        /\ e.wellFormed => Encodes(e.data, e.reports)

VARIABLES
    verbose,   \* the verbose argument of start_scan
    event,     \* the event being handled
    phase,     \* where the reader is
    ad,        \* start and end of the advertising data slice in the event
    offset,    \* position of the walk in that slice
    found,     \* address and payload handed to decode_ruuvi_data
    outcome,   \* what became of the event
    escaped    \* the reads that went outside their slice

vars == <<verbose, event, phase, ad, offset, found, outcome, escaped>>

data == event.data

-------------------------------------------------------------------------------
(* Reading.  A byte that does not exist is no byte. *)

NoByte == 256
At(i) == IF i < Len(data) THEN Byte(data, i) ELSE NoByte

\* Indices are read from the slice of the event from lo to hi.
Reads(indices, lo, hi) == escaped' = escaped \cup {i \in indices : i < lo \/ i >= hi}

InEvent(indices) == Reads(indices, 0, Len(data))
InAd(indices) == Reads({ad.from + i : i \in indices}, ad.from, ad.to)

AdAt(i) == At(ad.from + i)
AdLen == ad.to - ad.from

-------------------------------------------------------------------------------
(* The report's header. *)

Layout == LayoutOf(At(3))

Address(l) == [i \in 1..6 |-> At(l.addr + 6 - i)]

DataLen == At(Layout.len)

-------------------------------------------------------------------------------
NoData == [from |-> 0, to |-> 0]
Nothing == [addr |-> <<>>, payload |-> <<>>]

Init ==
    /\ verbose \in BOOLEAN
    /\ event \in Events
    /\ phase = "kernel"
    /\ ad = NoData /\ offset = 0
    /\ found = Nothing
    /\ outcome = "pending"
    /\ escaped = {}

Finish(result) == phase' = "done" /\ outcome' = result

\* The kernel filter, which computes Matches (HciBpf).
FilterDrops ==
    /\ phase = "kernel" /\ ~Matches(data)
    /\ Finish("filtered")
    /\ UNCHANGED <<verbose, event, ad, offset, found, escaped>>

FilterAccepts ==
    /\ phase = "kernel" /\ Matches(data)
    /\ phase' = "dispatch"
    /\ UNCHANGED <<verbose, event, ad, offset, found, outcome, escaped>>

\* An event that was queued before the filter was attached to the socket, which
\* is bound and lets LE meta events through by then, is not filtered.
FilterMissed ==
    /\ phase = "kernel"
    /\ Len(data) >= 4 /\ At(0) = HCI_EVENT_PKT /\ At(1) = EVT_LE_META_EVENT
    /\ phase' = "dispatch"
    /\ UNCHANGED <<verbose, event, ad, offset, found, outcome, escaped>>

\* The reader's own checks of the event.
Relevant == IsReportEvent(data) /\ MightBeRuuvi(data)

Ignore ==
    /\ phase = "dispatch" /\ ~Relevant
    /\ InEvent({0, 1, 3})
    /\ Finish("none")
    /\ UNCHANGED <<verbose, event, ad, offset, found>>

Dispatch ==
    /\ phase = "dispatch" /\ Relevant
    /\ InEvent({0, 1, 3})
    /\ phase' = "header"
    /\ UNCHANGED <<verbose, event, ad, offset, found, outcome>>

\* "Advertising report too short": an error, for the legacy layout only.
TooShort == Layout = LEGACY /\ Len(data) < 12

HeaderTooShort ==
    /\ phase = "header" /\ TooShort
    /\ IF verbose THEN phase' = "deliver" /\ outcome' = "error" ELSE Finish("none")
    /\ UNCHANGED <<verbose, event, ad, offset, found, escaped>>

\* num_reports is there and not 0, and so are the header and the data.
HeaderFits == Len(data) > 4 /\ At(4) # 0 /\ Len(data) >= Layout.size
DataFits_Mutant == Len(data) + 1 >= Layout.size + DataLen
DataFits == Len(data) >= Layout.size + DataLen

HeaderRefused ==
    /\ phase = "header" /\ ~TooShort /\ ~(HeaderFits /\ DataFits)
    /\ InEvent((IF Len(data) > 4 THEN {4} ELSE {})
               \cup IF HeaderFits THEN Layout.addr..(Layout.addr + 5) \cup {Layout.len} ELSE {})
    /\ Finish("none")
    /\ UNCHANGED <<verbose, event, ad, offset, found>>

HeaderParsed ==
    /\ phase = "header" /\ ~TooShort /\ HeaderFits /\ DataFits
    /\ InEvent({4} \cup (Layout.addr..(Layout.addr + 5)) \cup {Layout.len}
               \cup (Layout.size..(Layout.size + DataLen - 1)))
    /\ found' = [addr |-> Address(Layout), payload |-> <<>>]
    /\ ad' = [from |-> Layout.size, to |-> Layout.size + DataLen]
    /\ offset' = 0
    /\ phase' = "walk"
    /\ UNCHANGED <<verbose, event, outcome>>

-------------------------------------------------------------------------------
(* parse_ruuvi_from_ad_data, one structure after the other. *)

AD_TYPE_MANUFACTURER_DATA == 255

StructLen == AdAt(offset)
InLoop == phase = "walk" /\ offset + 2 <= AdLen
StructFits_Mutant == StructLen # 0 /\ offset + StructLen <= AdLen
StructFits == StructLen # 0 /\ offset + 1 + StructLen <= AdLen
HasId == AdAt(offset + 1) = AD_TYPE_MANUFACTURER_DATA /\ StructLen >= 3
IsRuuvi == HasId /\ AdAt(offset + 2) = RUUVI_LO /\ AdAt(offset + 3) = RUUVI_HI

WalkEnds ==
    /\ phase = "walk" /\ offset + 2 > AdLen
    /\ Finish("none")
    /\ UNCHANGED <<verbose, event, ad, offset, found, escaped>>

WalkBreaks ==
    /\ InLoop /\ ~StructFits
    /\ InAd({offset})
    /\ Finish("none")
    /\ UNCHANGED <<verbose, event, ad, offset, found>>

WalkSkips_Mutant ==
    /\ InLoop /\ StructFits /\ ~IsRuuvi
    /\ InAd({offset, offset + 1} \cup IF HasId THEN {offset + 2, offset + 3} ELSE {})
    /\ offset' = offset + StructLen
    /\ UNCHANGED <<verbose, event, phase, ad, found, outcome>>
WalkSkips ==
    /\ InLoop /\ StructFits /\ ~IsRuuvi
    /\ InAd({offset, offset + 1} \cup IF HasId THEN {offset + 2, offset + 3} ELSE {})
    /\ offset' = offset + 1 + StructLen
    /\ UNCHANGED <<verbose, event, phase, ad, found, outcome>>

WalkFinds ==
    /\ InLoop /\ StructFits /\ IsRuuvi
    /\ InAd(offset..(offset + StructLen))
    /\ found' = [found EXCEPT !.payload =
                    [i \in 1..(StructLen - 3) |-> AdAt(offset + 3 + i)]]
    /\ phase' = "decode"
    /\ UNCHANGED <<verbose, event, ad, offset, outcome>>

-------------------------------------------------------------------------------
(* decode_ruuvi_data and the delivery. *)

Formats == {5, 6, 225}

\* A payload of a known format decodes, or its decoder reports an error.
Decodes ==
    /\ phase = "decode"
    /\ found.payload # <<>> /\ found.payload[1] \in Formats
    /\ phase' = "deliver" /\ outcome' = "measurement"
    /\ UNCHANGED <<verbose, event, ad, offset, found, escaped>>

DecodeFails ==
    /\ phase = "decode"
    /\ phase' = "deliver" /\ outcome' = "error"
    /\ UNCHANGED <<verbose, event, ad, offset, found, escaped>>

Deliver ==
    /\ phase = "deliver"
    /\ Finish(IF outcome = "error" /\ ~verbose THEN "none" ELSE outcome)
    /\ UNCHANGED <<verbose, event, ad, offset, found, escaped>>

Next ==
    \/ FilterDrops \/ FilterAccepts \/ FilterMissed
    \/ Ignore \/ Dispatch
    \/ HeaderTooShort \/ HeaderRefused \/ HeaderParsed
    \/ WalkEnds \/ WalkBreaks \/ WalkSkips \/ WalkFinds
    \/ Decodes \/ DecodeFails \/ Deliver

Spec == Init /\ [][Next]_vars

-------------------------------------------------------------------------------
(* What the handling of an event promises. *)

TypeOK ==
    /\ verbose \in BOOLEAN
    /\ data \in Seq(0..255)
    /\ phase \in {"kernel", "dispatch", "header", "walk", "decode", "deliver", "done"}
    /\ ad \in [from : Nat, to : Nat] /\ ad.from <= ad.to /\ offset \in 0..AdLen
    /\ outcome \in {"pending", "filtered", "none", "error", "measurement"}
    /\ outcome = "pending" <=> phase \notin {"deliver", "done"}

\* No read leaves its slice, whatever the bytes of the event are: the walk trusts
\* a structure's length only as far as the advertising data goes, and the reader
\* task is never ended by an out-of-range panic (hci.rs:738-853).
ReadsInside == escaped = {}

\* The structures of a report that hold manufacturer data with the Ruuvi id.
RuuviStructs(r) ==
    {i \in DOMAIN r.structs :
        LET s == r.structs[i] IN
        s.type = 255 /\ Len(s.body) >= 2 /\ s.body[1] = 153 /\ s.body[2] = 4}

Payload(r) ==
    LET first == CHOOSE i \in RuuviStructs(r) : \A j \in RuuviStructs(r) : i <= j
        body == r.structs[first].body
    IN SubSeq(body, 3, Len(body))

Holds(r) == RuuviStructs(r) # {}

\* What comes out for a well-formed event is what its first report says: the
\* payload of its first Ruuvi structure under its own address, or nothing if it
\* has none.  A payload that does not decode is reported only when verbose.  Other
\* manufacturers, short structures and the id inside another structure do not
\* confuse the walk (hci.rs:778, 824, 828-853, 950-960).
FirstReportDecoded ==
    phase = "done" /\ event.wellFormed /\ outcome # "filtered" =>
        IF event.reports = <<>> THEN outcome = "none"
        ELSE LET r == event.reports[1] IN
             IF Holds(r)
             THEN /\ found = [addr |-> r.addr, payload |-> Payload(r)]
                  /\ outcome \in {"measurement", IF verbose THEN "error" ELSE "none"}
             ELSE outcome = "none"

\* The kernel filter does not drop a report that the parser would have decoded,
\* as long as the report's data is at most the 31 bytes of a legacy
\* advertisement (hci.rs:340-344).
SHORT_AD == 31
FilterKeepsShortAds ==
    outcome = "filtered" /\ event.wellFormed /\ event.reports # <<>> =>
        ~(Holds(event.reports[1]) /\ At(Layout.len) <= SHORT_AD)

\* The range of candidate offsets covers both layouts (hci.rs:340-342): no report
\* the parser would have decoded is dropped.
FilterKeepsRuuvi ==
    outcome = "filtered" /\ event.wellFormed /\ event.reports # <<>> =>
        ~Holds(event.reports[1])
===============================================================================
