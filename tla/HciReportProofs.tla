---------------------------- MODULE HciReportProofs ----------------------------
(***************************************************************************)
(* No event makes the parser read outside a slice, whatever its bytes are. *)
(* The invariant adds to the types what the checks of the code establish:  *)
(* past the dispatch the event has its four header bytes, and during the   *)
(* walk the advertising data lies inside the event.                        *)
(*                                                                         *)
(* And from a well-formed event the parser takes what its first report     *)
(* says, however many AD structures the report has: the walk is always at  *)
(* the start of one, with no Ruuvi data in those before it.                *)
(***************************************************************************)
EXTENDS HciReport, TLAPS

HeaderThere == phase \in {"dispatch", "header"} => Len(data) >= 4
AdThere == phase \in {"walk", "decode"} => ad.to <= Len(data)

IInv == TypeOK /\ ReadsInside /\ HeaderThere /\ AdThere

-------------------------------------------------------------------------------
\* A read of the event yields a number, a byte or NoByte.
LEMMA ReadsNumbers ==
    ASSUME TypeOK
    PROVE  Len(data) \in Nat /\ \A i \in Nat : At(i) \in Nat
  <1>1. data \in Seq(0..255)
    BY DEF TypeOK
  <1>2. ASSUME NEW S, NEW p \in Seq(S)
        PROVE  Len(p) \in Nat /\ \A i \in 1..Len(p) : p[i] \in S
    BY <1>2
  <1>3. Len(data) \in Nat /\ \A i \in 1..Len(data) : data[i] \in 0..255
    BY <1>1, <1>2
  <1>4. ASSUME NEW i \in Nat PROVE At(i) \in Nat
    <2>1. CASE i < Len(data)
      <3>1. i + 1 \in 1..Len(data)
        BY <1>3, <2>1
      <3>2. data[i + 1] \in 0..255
        BY <1>3, <3>1
      <3>3. At(i) = data[i + 1]
        BY <2>1 DEF At, Byte
      <3>4. QED
        BY <3>2, <3>3
    <2>2. CASE ~(i < Len(data))
      BY <2>2 DEF At, NoByte
    <2>3. QED
      BY <2>1, <2>2
  <1>5. QED
    BY <1>3, <1>4

\* Both layouts have their address and length fields inside the header.
LEMMA LayoutFits ==
    /\ Layout.size \in Nat /\ Layout.addr \in Nat /\ Layout.len \in Nat
    /\ 4 < Layout.addr /\ Layout.addr + 6 <= Layout.size
    /\ 4 < Layout.len /\ Layout.len + 1 = Layout.size
  BY DEF Layout, LayoutOf, LEGACY, EXTENDED

\* Reads that stay in their slice leave nothing behind.
LEMMA StayInside ==
    ASSUME ReadsInside, NEW I, NEW lo, NEW hi, Reads(I, lo, hi),
           \A i \in I : ~(i < lo \/ i >= hi)
    PROVE  escaped' = {}
  BY DEF ReadsInside, Reads

\* The steps that neither read nor move the slice keep the invariant.
LEMMA QuietStep ==
    ASSUME IInv, UNCHANGED <<verbose, event, ad, offset, escaped>>,
           \/ phase' = "done" /\ outcome' \in {"filtered", "none", "error", "measurement"}
           \/ phase' = "deliver" /\ outcome' \in {"error", "measurement"}
           \/ /\ phase' \in {"dispatch", "header"} /\ Len(data) >= 4
              /\ outcome' = "pending"
    PROVE  IInv'
  <1>1. TypeOK'
    BY DEF IInv, TypeOK, AdLen, data
  <1>2. QED
    BY <1>1 DEF IInv, ReadsInside, HeaderThere, AdThere, data

-------------------------------------------------------------------------------
(* The steps that read. *)

LEMMA DispatchKeeps ==
    ASSUME IInv, Ignore \/ Dispatch
    PROVE  IInv'
  <1>1. Len(data) \in Nat /\ Len(data) >= 4
    BY ReadsNumbers DEF IInv, HeaderThere, Ignore, Dispatch
  <1>2. escaped' = {}
    <2>1. \A i \in {0, 1, 3} : ~(i < 0 \/ i >= Len(data))
      BY <1>1
    <2>2. QED
      BY <2>1, StayInside DEF IInv, Ignore, Dispatch, InEvent
  <1>3. QED
    BY <1>1, <1>2, QuietStep DEF IInv, ReadsInside, Ignore, Dispatch, Finish, TypeOK

LEMMA HeaderRefusedKeeps ==
    ASSUME IInv, HeaderRefused
    PROVE  IInv'
  <1>1. Len(data) \in Nat
    BY ReadsNumbers DEF IInv
  <1>2. escaped' = {}
    <2> DEFINE I == (IF Len(data) > 4 THEN {4} ELSE {})
                    \cup IF HeaderFits THEN Layout.addr..(Layout.addr + 5) \cup {Layout.len}
                                       ELSE {}
    <2>1. ASSUME NEW i \in I PROVE ~(i < 0 \/ i >= Len(data))
      <3>1. CASE i = 4 /\ Len(data) > 4
        BY <1>1, <3>1
      <3>2. CASE HeaderFits /\ i \in Layout.addr..(Layout.addr + 5) \cup {Layout.len}
        <4>1. Len(data) >= Layout.size
          BY <3>2 DEF HeaderFits
        <4>2. QED
          BY <1>1, <3>2, <4>1, LayoutFits
      <3>3. QED
        BY <2>1, <3>1, <3>2
    <2>2. Reads(I, 0, Len(data))
      BY DEF HeaderRefused, InEvent
    <2> HIDE DEF I
    <2>3. QED
      BY <2>1, <2>2, StayInside DEF IInv
  <1>3. QED
    BY <1>2, QuietStep DEF IInv, ReadsInside, HeaderRefused, Finish

LEMMA HeaderParsedKeeps ==
    ASSUME IInv, HeaderParsed
    PROVE  IInv'
  <1>1. Len(data) \in Nat /\ DataLen \in Nat
    BY ReadsNumbers, LayoutFits DEF IInv, DataLen
  <1>2. Len(data) >= Layout.size + DataLen
    BY DEF HeaderParsed, DataFits
  <1>3. escaped' = {}
    <2> DEFINE I == {4} \cup (Layout.addr..(Layout.addr + 5)) \cup {Layout.len}
                    \cup (Layout.size..(Layout.size + DataLen - 1))
    <2>1. ASSUME NEW i \in I PROVE ~(i < 0 \/ i >= Len(data))
      <3>1. /\ Layout.size \in Nat /\ Layout.addr \in Nat /\ Layout.len \in Nat
            /\ 4 < Layout.addr /\ Layout.addr + 6 <= Layout.size
            /\ 4 < Layout.len /\ Layout.len + 1 = Layout.size
        BY LayoutFits
      <3>2. CASE i = 4 \/ i = Layout.len
        BY <1>1, <1>2, <3>1, <3>2
      <3>3. CASE i \in Layout.addr..(Layout.addr + 5)
        BY <1>1, <1>2, <3>1, <3>3
      <3>4. CASE i \in Layout.size..(Layout.size + DataLen - 1)
        BY <1>1, <1>2, <3>1, <3>4
      <3>5. QED
        BY <2>1, <3>2, <3>3, <3>4
    <2>2. Reads(I, 0, Len(data))
      BY DEF HeaderParsed, InEvent
    <2> HIDE DEF I
    <2>3. QED
      BY <2>1, <2>2, StayInside DEF IInv
  <1>4. /\ ad' = [from |-> Layout.size, to |-> Layout.size + DataLen]
        /\ offset' = 0 /\ phase' = "walk" /\ outcome' = outcome
        /\ UNCHANGED <<verbose, event>>
    BY DEF HeaderParsed
  <1>5. TypeOK'
    <2>1. AdLen' \in Nat
      BY <1>1, <1>4, LayoutFits DEF AdLen
    <2>2. phase = "header"
      BY DEF HeaderParsed
    <2>3. ad' \in [from : Nat, to : Nat] /\ ad'.from <= ad'.to
      BY <1>1, <1>4, LayoutFits
    <2>4. QED
      BY <1>4, <2>1, <2>2, <2>3 DEF IInv, TypeOK, data
  <1>6. AdThere'
    BY <1>2, <1>4 DEF AdThere, data
  <1>7. QED
    BY <1>3, <1>4, <1>5, <1>6 DEF IInv, ReadsInside, HeaderThere

\* Offsets that stay in the advertising data do not escape.
LEMMA StayInAd ==
    ASSUME IInv, NEW I, I \subseteq Nat, InAd(I), \A i \in I : i < AdLen
    PROVE  escaped' = {}
  <1>1. ad.from \in Nat /\ ad.to \in Nat /\ AdLen = ad.to - ad.from
    BY DEF IInv, TypeOK, AdLen
  <1>2. ASSUME NEW i \in I
        PROVE  ~(ad.from + i < ad.from \/ ad.from + i >= ad.to)
    <2>1. i \in Nat /\ i < AdLen
      OBVIOUS
    <2>2. QED
      BY <1>1, <2>1
  <1>3. QED
    <2>1. \A j \in {ad.from + i : i \in I} : ~(j < ad.from \/ j >= ad.to)
      BY <1>2, Zenon
    <2>2. QED
      BY <2>1, StayInside DEF InAd, IInv

\* What the walk knows of the structure at its offset.
LEMMA StructureInside ==
    ASSUME IInv, InLoop
    PROVE  /\ offset \in Nat /\ AdLen \in Nat /\ StructLen \in Nat /\ offset + 1 < AdLen
           /\ StructFits => StructLen >= 1 /\ offset + 1 + StructLen <= AdLen
  <1>1. ad.from \in Nat /\ ad.to \in Nat /\ ad.from <= ad.to /\ offset \in 0..(ad.to - ad.from)
    BY DEF IInv, TypeOK, AdLen
  <1>2. StructLen \in Nat
    <2>1. ad.from + offset \in Nat
      BY <1>1
    <2>2. QED
      BY <2>1, ReadsNumbers DEF IInv, StructLen, AdAt
  <1>3. QED
    BY <1>1, <1>2 DEF InLoop, StructFits, AdLen

LEMMA WalkBreaksKeeps ==
    ASSUME IInv, WalkBreaks
    PROVE  IInv'
  <1>1. InLoop /\ InAd({offset})
    BY DEF WalkBreaks
  <1>2. escaped' = {}
    BY <1>1, StructureInside, StayInAd
  <1>3. QED
    BY <1>2, QuietStep DEF IInv, ReadsInside, WalkBreaks, Finish

LEMMA WalkSkipsKeeps ==
    ASSUME IInv, WalkSkips
    PROVE  IInv'
  <1>1. /\ InLoop /\ StructFits /\ offset' = offset + 1 + StructLen
        /\ UNCHANGED <<verbose, event, phase, ad, found, outcome>>
        /\ InAd({offset, offset + 1} \cup IF HasId THEN {offset + 2, offset + 3} ELSE {})
    BY DEF WalkSkips
  <1>2. /\ offset \in Nat /\ AdLen \in Nat /\ StructLen \in Nat /\ offset + 1 < AdLen
        /\ StructLen >= 1 /\ offset + 1 + StructLen <= AdLen
    BY <1>1, StructureInside
  <1>3. escaped' = {}
    <2> DEFINE I == {offset, offset + 1} \cup IF HasId THEN {offset + 2, offset + 3} ELSE {}
    <2>1. I \subseteq Nat /\ \A i \in I : i < AdLen
      <3>1. CASE HasId
        <4>1. StructLen >= 3
          BY <3>1 DEF HasId
        <4>2. QED
          BY <1>2, <3>1, <4>1
      <3>2. CASE ~HasId
        BY <1>2, <3>2
      <3>3. QED
        BY <3>1, <3>2
    <2> HIDE DEF I
    <2>2. InAd(I)
      BY <1>1 DEF I
    <2>3. QED
      BY <2>1, <2>2, StayInAd
  <1>4. offset' \in 0..AdLen
    BY <1>1, <1>2
  <1>5. QED
    BY <1>1, <1>3, <1>4 DEF IInv, TypeOK, ReadsInside, HeaderThere, AdThere, AdLen, data

LEMMA WalkFindsKeeps ==
    ASSUME IInv, WalkFinds
    PROVE  IInv'
  <1>1. /\ InLoop /\ StructFits /\ InAd(offset..(offset + StructLen))
        /\ phase' = "decode" /\ UNCHANGED <<verbose, event, ad, offset, outcome>>
    BY DEF WalkFinds
  <1>2. /\ offset \in Nat /\ AdLen \in Nat /\ StructLen \in Nat
        /\ offset + 1 + StructLen <= AdLen
    BY <1>1, StructureInside
  <1>3. escaped' = {}
    <2>1. offset..(offset + StructLen) \subseteq Nat
      BY <1>2
    <2>2. \A i \in offset..(offset + StructLen) : i < AdLen
      BY <1>2
    <2>3. QED
      BY <1>1, <2>1, <2>2, StayInAd
  <1>4. phase = "walk"
    BY <1>1 DEF InLoop
  <1>5. QED
    BY <1>1, <1>3, <1>4 DEF IInv, TypeOK, ReadsInside, HeaderThere, AdThere, AdLen, data

-------------------------------------------------------------------------------
LEMMA InitIInv == Init => IInv
  BY EventAssumption
     DEF Init, IInv, TypeOK, ReadsInside, HeaderThere, AdThere, NoData, AdLen, data

LEMMA NextIInv == IInv /\ [Next]_vars => IInv'
  <1> SUFFICES ASSUME IInv, [Next]_vars PROVE IInv'
    OBVIOUS
  <1>1. CASE FilterDrops \/ HeaderTooShort \/ WalkEnds
    BY <1>1, QuietStep DEF FilterDrops, HeaderTooShort, WalkEnds, Finish
  <1>2. CASE FilterAccepts \/ FilterMissed
    <2>1. Len(data) >= 4 /\ phase = "kernel"
      BY <1>2 DEF FilterAccepts, FilterMissed, Matches, IsReportEvent
    <2>2. QED
      BY <1>2, <2>1, QuietStep DEF FilterAccepts, FilterMissed, IInv, TypeOK
  <1>3. CASE Ignore \/ Dispatch
    BY <1>3, DispatchKeeps
  <1>4. CASE HeaderRefused
    BY <1>4, HeaderRefusedKeeps
  <1>5. CASE HeaderParsed
    BY <1>5, HeaderParsedKeeps
  <1>6. CASE WalkBreaks
    BY <1>6, WalkBreaksKeeps
  <1>7. CASE WalkSkips
    BY <1>7, WalkSkipsKeeps
  <1>8. CASE WalkFinds
    BY <1>8, WalkFindsKeeps
  <1>9. CASE Decodes \/ DecodeFails
    BY <1>9, QuietStep DEF Decodes, DecodeFails
  <1>10. CASE Deliver
    <2>1. outcome \in {"filtered", "none", "error", "measurement"}
      BY <1>10 DEF Deliver, IInv, TypeOK
    <2>2. QED
      BY <1>10, <2>1, QuietStep DEF Deliver, Finish
  <1>11. CASE UNCHANGED vars
    BY <1>11 DEF vars, IInv, TypeOK, ReadsInside, HeaderThere, AdThere, AdLen, data
  <1>12. QED
    BY <1>1, <1>2, <1>3, <1>4, <1>5, <1>6, <1>7, <1>8, <1>9, <1>10, <1>11 DEF Next

\* The parser reads inside its slices on every event, so no advertisement, well
\* formed or not, can end the reader task with an out-of-range panic.
THEOREM ParserStaysInside == Spec => []ReadsInside
  <1>1. IInv => ReadsInside
    BY DEF IInv
  <1>2. QED
    BY InitIInv, NextIInv, <1>1, PTL DEF Spec

\* Type correctness: the walk stays in the advertising data, and an event has an
\* outcome exactly when it has been handled.
THEOREM ParserTypeCorrect == Spec => []TypeOK
  <1>1. IInv => TypeOK
    BY DEF IInv
  <1>2. QED
    BY InitIInv, NextIInv, <1>1, PTL DEF Spec
-------------------------------------------------------------------------------
(* What the bytes of a well-formed event are. *)

WellFormed == event \in Events /\ event.wellFormed

First == event.reports[1]
Structs == 1..Len(First.structs)

\* Every byte of the event is one that can be read.
LEMMA BytesAt ==
    ASSUME TypeOK, NEW i \in Nat, i < Len(data)
    PROVE  At(i) = Byte(data, i) /\ At(i) \in 0..255
  <1>1. ASSUME NEW S, NEW p \in Seq(S)
        PROVE  Len(p) \in Nat /\ \A j \in 1..Len(p) : p[j] \in S
    BY <1>1
  <1>2. Len(data) \in Nat /\ \A j \in 1..Len(data) : data[j] \in 0..255
    BY <1>1 DEF TypeOK
  <1>3. data[i + 1] \in 0..255
    BY <1>2
  <1>4. QED
    BY <1>3 DEF At, Byte

\* The header of the first report.
LEMMA HeaderBytes ==
    ASSUME TypeOK, WellFormed, event.reports # <<>>
    PROVE  /\ Len(data) \in Nat /\ Len(data) >= 14
           /\ At(0) = 4 /\ At(1) = 62 /\ At(3) \in {2, 13} /\ At(4) # 0
           /\ Layout \in {LEGACY, EXTENDED}
           /\ DataLen \in Nat /\ Layout.size + DataLen <= Len(data)
           /\ IsReportEvent(data)
           /\ EncodesReport(data, Layout, First)
  <1>1. Encodes(data, event.reports)
    BY EventAssumption DEF WellFormed, data
  <1>2. Len(data) \in Nat
    BY DEF TypeOK
  <1>3. /\ Len(data) >= 5 /\ Byte(data, 0) = 4 /\ Byte(data, 1) = 62
        /\ Byte(data, 3) \in {2, 13} /\ Byte(data, 4) = Len(event.reports)
        /\ Len(event.reports) > 0
        /\ Len(data) >= LayoutOf(Byte(data, 3)).size
        /\ EncodesReport(data, LayoutOf(Byte(data, 3)), First)
    BY <1>1 DEF Encodes, First, HCI_EVENT_PKT, EVT_LE_META_EVENT, EVT_LE_ADVERTISING_REPORT,
                EVT_LE_EXTENDED_ADVERTISING_REPORT
  <1>4. /\ At(0) = Byte(data, 0) /\ At(1) = Byte(data, 1) /\ At(3) = Byte(data, 3)
        /\ At(4) = Byte(data, 4) /\ At(4) \in 0..255
    BY <1>2, <1>3, BytesAt, SMTT(30)
  <1>5. Layout = LayoutOf(Byte(data, 3)) /\ Layout \in {LEGACY, EXTENDED}
    BY <1>4 DEF Layout, LayoutOf
  <1>6. Len(data) >= Layout.size /\ Layout.size >= 14 /\ Layout.len \in Nat /\ Layout.len < Layout.size
    BY <1>3, <1>5 DEF LEGACY, EXTENDED
  <1>7. DataLen = Byte(data, Layout.len) /\ DataLen \in Nat
    <2>1. Layout.len < Len(data)
      BY <1>2, <1>6, LayoutFits
    <2>2. DataLen \in 0..255
      BY <1>6, <2>1, BytesAt DEF DataLen
    <2>3. DataLen \in Nat
      BY <2>2
    <2>4. QED
      BY <1>6, <2>1, <2>3, BytesAt DEF DataLen
  <1>8. Layout.size + DataLen <= Len(data)
    BY <1>3, <1>5, <1>7 DEF EncodesReport
  <1>9. IsReportEvent(data)
    BY <1>2, <1>3 DEF IsReportEvent, HCI_EVENT_PKT, EVT_LE_META_EVENT, EVT_LE_ADVERTISING_REPORT,
                      EVT_LE_EXTENDED_ADVERTISING_REPORT
  <1>10. Len(data) >= 14
    BY <1>2, <1>6, LayoutFits
  <1>11. At(4) # 0
    BY <1>3, <1>4
  <1>12. QED
    BY <1>2, <1>3, <1>4, <1>5, <1>7, <1>8, <1>9, <1>10, <1>11

\* The structures of the first report, and where they start.
LEMMA ReportStarts ==
    ASSUME TypeOK, WellFormed, event.reports # <<>>
    PROVE  /\ Len(First.structs) \in Nat
           /\ First.starts[1] = 0 /\ First.starts[Len(First.structs) + 1] = DataLen
           /\ \A k \in 1..(Len(First.structs) + 1) : First.starts[k] \in 0..DataLen
           /\ \A k \in Structs : First.structs[k].body \in Seq(0..255)
           /\ First.addr = Address(Layout)
  <1>1. EncodesReport(data, Layout, First)
    BY HeaderBytes
  <1>2. /\ Layout.size \in Nat /\ Layout.addr \in Nat /\ Layout.len \in Nat
        /\ 4 < Layout.addr /\ Layout.addr + 6 <= Len(data)
        /\ Layout.len < Len(data) /\ Len(data) \in Nat
    <2>1. Layout.size + DataLen <= Len(data) /\ DataLen \in Nat /\ Len(data) \in Nat
      BY HeaderBytes
    <2>2. /\ Layout.size \in Nat /\ Layout.addr \in Nat /\ Layout.len \in Nat
          /\ 4 < Layout.addr /\ Layout.addr + 6 <= Layout.size /\ Layout.len + 1 = Layout.size
      BY LayoutFits
    <2>3. Layout.size <= Len(data)
      BY <2>1, <2>2
    <2>4. QED
      BY <2>1, <2>2, <2>3
  <1>3. DataLen = Byte(data, Layout.len)
    BY <1>2, BytesAt DEF DataLen
  <1>4. /\ First.structs \in Seq([type : 0..255, body : Seq(0..255)])
        /\ First.starts \in [1..(Len(First.structs) + 1) -> 0..DataLen]
        /\ First.starts[1] = 0 /\ First.starts[Len(First.structs) + 1] = DataLen
        /\ First.addr \in [1..6 -> 0..255]
        /\ \A i \in 1..6 : Byte(data, Layout.addr + 6 - i) = First.addr[i]
    BY <1>1, <1>3 DEF EncodesReport
  <1>5. ASSUME NEW k \in Structs PROVE First.structs[k].body \in Seq(0..255)
    <2> DEFINE Structure == [type : 0..255, body : Seq(0..255)]
    <2>1. First.structs \in Seq(Structure)
      BY <1>4
    <2> HIDE DEF Structure
    <2>2. First.structs[k] \in Structure
      BY <2>1 DEF Structs
    <2>3. QED
      BY <2>2 DEF Structure
  <1>6. First.addr = Address(Layout)
    <2>1. ASSUME NEW i \in 1..6 PROVE At(Layout.addr + 6 - i) = First.addr[i]
      <3>1. Layout.addr + 6 - i \in Nat /\ Layout.addr + 6 - i < Len(data)
        BY <1>2
      <3>2. QED
        BY <1>4, <3>1, BytesAt
    <2>2. First.addr = [i \in 1..6 |-> First.addr[i]]
      BY <1>4
    <2>3. QED
      BY <2>1, <2>2 DEF Address
  <1>7. Len(First.structs) \in Nat
    BY <1>4
  <1>8. \A k \in 1..(Len(First.structs) + 1) : First.starts[k] \in 0..DataLen
    BY <1>4
  <1>9. First.starts[1] = 0 /\ First.starts[Len(First.structs) + 1] = DataLen
    BY <1>4
  <1> HIDE DEF First
  <1>10. QED
    BY <1>5, <1>6, <1>7, <1>8, <1>9

\* The bytes of one structure, and that the next one follows.
LEMMA StructBytes ==
    ASSUME TypeOK, WellFormed, event.reports # <<>>, NEW k \in Structs
    PROVE  LET s  == First.structs[k]
               at == Layout.size + First.starts[k]
           IN  /\ Len(s.body) \in Nat /\ First.starts[k] \in Nat
               /\ First.starts[k + 1] = First.starts[k] + 2 + Len(s.body)
               /\ First.starts[k + 1] <= DataLen
               /\ At(at) = Len(s.body) + 1 /\ At(at + 1) = s.type
               /\ \A i \in 1..Len(s.body) : At(at + 1 + i) = s.body[i]
  <1> DEFINE s  == First.structs[k]
             at == Layout.size + First.starts[k]
  <1>1. /\ Len(data) \in Nat /\ DataLen \in Nat /\ Layout.size + DataLen <= Len(data)
        /\ Layout.size \in Nat
    BY HeaderBytes, LayoutFits
  <1>2. EncodesStruct(data, Layout.size, First, k)
    BY HeaderBytes DEF EncodesReport, Structs
  <1>3. k \in 1..(Len(First.structs) + 1) /\ k + 1 \in 1..(Len(First.structs) + 1)
    BY ReportStarts DEF Structs
  <1>4. First.starts[k] \in 0..DataLen /\ First.starts[k + 1] \in 0..DataLen
    BY <1>3, ReportStarts
  <1>5. Len(s.body) \in Nat
    BY ReportStarts
  <1>6. /\ First.starts[k + 1] = First.starts[k] + 2 + Len(s.body)
        /\ Byte(data, at) = Len(s.body) + 1 /\ Byte(data, at + 1) = s.type
        /\ \A i \in 1..Len(s.body) : Byte(data, at + 1 + i) = s.body[i]
    BY <1>2 DEF EncodesStruct
  <1> HIDE DEF s
  <1>7. at \in Nat /\ at + 1 + Len(s.body) < Len(data)
    <2>1. First.starts[k] \in Nat /\ First.starts[k] + 2 + Len(s.body) <= DataLen
      BY <1>1, <1>4, <1>6
    <2>2. ASSUME NEW size \in Nat, NEW start \in Nat, NEW n \in Nat, NEW len \in Nat, NEW all \in Nat,
                 start + 2 + n <= len, size + len <= all
          PROVE  size + start \in Nat /\ size + start + 1 + n < all
      BY <2>2
    <2>3. QED
      BY <1>1, <1>5, <2>1, <2>2
  <1>8. At(at) = Byte(data, at) /\ At(at + 1) = Byte(data, at + 1)
    BY <1>1, <1>5, <1>7, BytesAt
  <1>9. ASSUME NEW i \in 1..Len(s.body) PROVE At(at + 1 + i) = s.body[i]
    <2>1. at + 1 + i \in Nat /\ at + 1 + i < Len(data)
      BY <1>1, <1>5, <1>7
    <2>2. QED
      BY <1>6, <2>1, BytesAt
  <1>10. QED
    BY <1>1, <1>4, <1>5, <1>6, <1>8, <1>9 DEF s

-------------------------------------------------------------------------------
(* The Ruuvi data in it. *)

\* Where a Ruuvi structure stands, there is the id.
LEMMA IdOfStruct ==
    ASSUME TypeOK, WellFormed, event.reports # <<>>, NEW k \in RuuviStructs(First)
    PROVE  LET i == Layout.size + First.starts[k] + 2
           IN  i \in 0..(Len(data) - 2) /\ IdAt(data, i) /\ i >= 16 /\ i + 2 <= Layout.size + DataLen
  <1> DEFINE body == First.structs[k].body
             i    == Layout.size + First.starts[k] + 2
  <1>1. k \in Structs /\ Len(body) >= 2 /\ body[1] = 153 /\ body[2] = 4
    <2>1. DOMAIN First.structs = Structs
      BY HeaderBytes DEF EncodesReport, Structs
    <2>2. QED
      BY <2>1 DEF RuuviStructs
  <1>2. /\ Len(body) \in Nat /\ First.starts[k] \in Nat
        /\ First.starts[k] + 2 + Len(body) <= DataLen
        /\ \A j \in 1..Len(body) : At(Layout.size + First.starts[k] + 1 + j) = body[j]
    <2>1. k \in Structs
      BY <1>1
    <2>2. QED
      BY <2>1, StructBytes
  <1> HIDE DEF body
  <1>3. /\ Len(data) \in Nat /\ DataLen \in Nat /\ Layout.size + DataLen <= Len(data)
        /\ Layout.size \in Nat
    BY HeaderBytes, LayoutFits
  <1>4. Layout.size >= 14
    BY HeaderBytes DEF LEGACY, EXTENDED
  <1>5. i \in Nat /\ i >= 16 /\ i + 2 <= Layout.size + DataLen /\ i + 2 <= Len(data)
    <2>1. First.starts[k] + 4 <= DataLen
      BY <1>1, <1>2, <1>3
    <2>2. i \in Nat /\ i >= 16
      <3>1. ASSUME NEW size \in Nat, NEW start \in Nat, size >= 14
            PROVE  size + start + 2 \in Nat /\ size + start + 2 >= 16
        BY <3>1
      <3>2. QED
        BY <1>2, <1>3, <1>4, <3>1
    <2>3. i + 2 <= Layout.size + DataLen
      BY <1>2, <1>3, <2>1, SMTT(30)
    <2>4. QED
      BY <1>3, <2>2, <2>3
  <1>6. At(i) = 153 /\ At(i + 1) = 4
    <2>1. 1 \in 1..Len(body) /\ 2 \in 1..Len(body)
      BY <1>1, <1>2
    <2>2. /\ At(Layout.size + First.starts[k] + 1 + 1) = body[1]
          /\ At(Layout.size + First.starts[k] + 1 + 2) = body[2]
      BY <1>2, <2>1
    <2>3. /\ Layout.size + First.starts[k] + 1 + 1 = i
          /\ Layout.size + First.starts[k] + 1 + 2 = i + 1
      BY <1>2, <1>3
    <2>4. QED
      BY <1>1, <2>2, <2>3
  <1>7. IdAt(data, i)
    <2>1. i < Len(data) /\ i + 1 < Len(data) /\ i + 1 \in Nat
      BY <1>3, <1>5
    <2>2. QED
      BY <1>5, <1>6, <2>1, BytesAt DEF IdAt, RUUVI_LO, RUUVI_HI
  <1>8. i \in 0..(Len(data) - 2)
    BY <1>3, <1>5
  <1>9. QED
    BY <1>5, <1>7, <1>8

\* The reader's checks let a report with Ruuvi data through, and no event
\* without a report.
LEMMA RelevantReports ==
    ASSUME TypeOK, WellFormed
    PROVE  /\ event.reports # <<>> /\ Holds(First) => Relevant
           /\ event.reports = <<>> => ~Relevant
  <1>1. ASSUME event.reports # <<>>, Holds(First)
        PROVE  Relevant
    <2>1. PICK k \in RuuviStructs(First) : TRUE
      BY <1>1 DEF Holds
    <2>2. IsReportEvent(data)
      BY <1>1, HeaderBytes
    <2>3. MightBeRuuvi(data)
      BY <1>1, IdOfStruct DEF MightBeRuuvi
    <2>4. QED
      BY <2>2, <2>3 DEF Relevant
  <1>2. ASSUME event.reports = <<>>
        PROVE  ~Relevant
    <2>1. Encodes(data, event.reports)
      BY EventAssumption DEF WellFormed, data
    <2>2. Len(data) = 5 /\ Byte(data, 0) = 4 /\ Byte(data, 1) = 62 /\ Byte(data, 2) = 2
          /\ Byte(data, 4) = 0
      <3>1. Len(data) = 5 /\ Byte(data, 2) = Len(data) - 3 /\ Byte(data, 4) = Len(event.reports)
            /\ Byte(data, 0) = 4 /\ Byte(data, 1) = 62
        BY <1>2, <2>1 DEF Encodes, HCI_EVENT_PKT, EVT_LE_META_EVENT
      <3>2. Len(event.reports) = 0
        BY <1>2
      <3>3. QED
        BY <3>1, <3>2
    <2>3. ASSUME NEW i \in 0..3 PROVE ~IdAt(data, i)
      <3>1. i = 0 \/ i = 1 \/ i = 2 \/ i = 3
        OBVIOUS
      <3>2. QED
        BY <2>2, <3>1 DEF IdAt, RUUVI_LO, RUUVI_HI
    <2>4. ~MightBeRuuvi(data)
      BY <2>2, <2>3 DEF MightBeRuuvi
    <2>5. QED
      BY <2>4 DEF Relevant
  <1>3. QED
    BY <1>1, <1>2

-------------------------------------------------------------------------------
(* The walk goes from structure to structure. *)

\* The walk is at the start of structure k, and there was no Ruuvi data so far.
AtStart(k) ==
    /\ offset = First.starts[k]
    /\ \A j \in 1..(k - 1) : j \notin RuuviStructs(First)

WalkFollows ==
    /\ event.reports # <<>>
    /\ ad = [from |-> Layout.size, to |-> Layout.size + DataLen]
    /\ found = [addr |-> First.addr, payload |-> <<>>]
    /\ \E k \in 1..(Len(First.structs) + 1) : AtStart(k)

FoundFirst ==
    /\ event.reports # <<>> /\ Holds(First)
    /\ found = [addr |-> First.addr, payload |-> Payload(First)]

Follows ==
    event.wellFormed =>
        /\ phase = "header" => event.reports # <<>>
        /\ phase = "walk" => WalkFollows
        /\ phase \in {"decode", "deliver"} => FoundFirst
        /\ phase = "deliver" => outcome \in {"measurement", "error"}
        /\ FirstReportDecoded

FilteredMismatch == outcome = "filtered" => ~Matches(data)

DecodeInv == IInv /\ event \in Events /\ Follows /\ FilteredMismatch

\* What the walk reads at the start of structure k.
LEMMA AtStruct ==
    ASSUME TypeOK, WellFormed, WalkFollows, NEW k \in Structs, AtStart(k)
    PROVE  /\ offset + 2 <= AdLen /\ StructFits
           /\ StructLen = Len(First.structs[k].body) + 1
           /\ offset + 1 + StructLen = First.starts[k + 1]
           /\ IsRuuvi <=> k \in RuuviStructs(First)
           /\ IsRuuvi => [i \in 1..(StructLen - 3) |-> AdAt(offset + 3 + i)]
                            = SubSeq(First.structs[k].body, 3, Len(First.structs[k].body))
  <1> DEFINE s == First.structs[k]
             n == Len(s.body)
             o == First.starts[k]
  <1>1. event.reports # <<>>
    BY DEF WalkFollows
  <1>2. /\ n \in Nat /\ o \in Nat
        /\ First.starts[k + 1] = o + 2 + n
        /\ First.starts[k + 1] <= DataLen
        /\ At(Layout.size + o) = n + 1 /\ At(Layout.size + o + 1) = s.type
        /\ \A i \in 1..n : At(Layout.size + o + 1 + i) = s.body[i]
    BY <1>1, StructBytes
  <1>3. offset = o /\ ad.from = Layout.size /\ ad.to = Layout.size + DataLen
    BY DEF WalkFollows, AtStart
  <1>4. Layout.size \in Nat /\ DataLen \in Nat
    BY <1>1, HeaderBytes, LayoutFits
  <1>5. AdLen = DataLen
    BY <1>3, <1>4 DEF AdLen
  <1> HIDE DEF s, n, o
  <1>6. StructLen = n + 1
    BY <1>2, <1>3 DEF StructLen, AdAt
  <1>7. offset + 2 <= AdLen /\ offset + 1 + StructLen = First.starts[k + 1]
    BY <1>2, <1>3, <1>4, <1>5, <1>6
  <1>8. StructFits
    BY <1>2, <1>3, <1>4, <1>5, <1>6, <1>7 DEF StructFits
  <1>9. AdAt(offset + 1) = s.type
    <2>1. ad.from + (offset + 1) = Layout.size + o + 1
      BY <1>2, <1>3, <1>4
    <2>2. QED
      BY <1>2, <2>1 DEF AdAt
  <1>10. ASSUME NEW i \in 1..n PROVE AdAt(offset + (1 + i)) = s.body[i]
    <2>1. ad.from + (offset + (1 + i)) = Layout.size + o + 1 + i
      BY <1>2, <1>3, <1>4
    <2>2. QED
      BY <1>2, <2>1 DEF AdAt
  <1>11. n >= 2 => AdAt(offset + 2) = s.body[1] /\ AdAt(offset + 3) = s.body[2]
    <2> SUFFICES ASSUME n >= 2 PROVE AdAt(offset + 2) = s.body[1] /\ AdAt(offset + 3) = s.body[2]
      OBVIOUS
    <2>1. 1 \in 1..n /\ 2 \in 1..n
      BY <1>2
    <2>2. AdAt(offset + (1 + 1)) = s.body[1] /\ AdAt(offset + (1 + 2)) = s.body[2]
      BY <1>10, <2>1
    <2>3. QED
      BY <2>2
  <1>12. IsRuuvi <=> k \in RuuviStructs(First)
    <2>1. k \in DOMAIN First.structs
      BY <1>1, HeaderBytes DEF EncodesReport, Structs
    <2>2. k \in RuuviStructs(First) <=> s.type = 255 /\ n >= 2 /\ s.body[1] = 153 /\ s.body[2] = 4
      BY <2>1 DEF RuuviStructs, s, n
    <2>3. HasId <=> s.type = 255 /\ n >= 2
      BY <1>2, <1>6, <1>9 DEF HasId, AD_TYPE_MANUFACTURER_DATA
    <2>4. QED
      BY <1>11, <2>2, <2>3 DEF IsRuuvi, RUUVI_LO, RUUVI_HI
  <1>13. ASSUME IsRuuvi
         PROVE  [i \in 1..(StructLen - 3) |-> AdAt(offset + 3 + i)] = SubSeq(s.body, 3, n)
    <2>1. n >= 2
      BY <1>2, <1>6, <1>13 DEF IsRuuvi, HasId
    <2>2. s.body \in Seq(0..255)
      BY <1>1, ReportStarts DEF s
    <2>3. SubSeq(s.body, 3, n) = [i \in 1..(n - 2) |-> s.body[i + 2]]
      BY <1>2, <2>1, <2>2 DEF n
    <2>4. ASSUME NEW i \in 1..(n - 2) PROVE AdAt(offset + 3 + i) = s.body[i + 2]
      <3>1. i + 2 \in 1..n /\ offset + (1 + (i + 2)) = offset + 3 + i
        BY <1>2, <1>3, <2>1
      <3>2. AdAt(offset + (1 + (i + 2))) = s.body[i + 2]
        BY <1>10, <3>1
      <3>3. QED
        BY <3>1, <3>2
    <2>5. StructLen - 3 = n - 2
      BY <1>2, <1>6
    <2>6. QED
      BY <2>3, <2>4, <2>5
  <1>14. QED
    BY <1>6, <1>7, <1>8, <1>12, <1>13 DEF s, n

-------------------------------------------------------------------------------
(* Every step keeps the parser on the report. *)

\* No step changes the event, nor what its bytes say.
LEMMA SameEvent ==
    ASSUME [Next]_vars
    PROVE  /\ event' = event /\ verbose' = verbose
           /\ data' = data /\ First' = First /\ Layout' = Layout /\ DataLen' = DataLen
  <1>1. event' = event /\ verbose' = verbose
    BY DEF Next, vars, FilterDrops, FilterAccepts, FilterMissed, Ignore, Dispatch, HeaderTooShort,
           HeaderRefused, HeaderParsed, WalkEnds, WalkBreaks, WalkSkips, WalkFinds, Decodes,
           DecodeFails, Deliver
  <1>2. QED
    BY <1>1 DEF data, First, Layout, DataLen, At

\* There is no Ruuvi data outside the structures.
LEMMA RuuviAreStructs ==
    ASSUME TypeOK, WellFormed, event.reports # <<>>
    PROVE  RuuviStructs(First) \subseteq Structs
  <1>1. DOMAIN First.structs = Structs
    BY HeaderBytes DEF EncodesReport, Structs
  <1>2. QED
    BY <1>1 DEF RuuviStructs

\* Steps that leave the handling of the event in a phase that promises nothing.
LEMMA EarlySteps ==
    ASSUME DecodeInv, FilterDrops \/ FilterAccepts \/ FilterMissed
    PROVE  Follows'
  <1>1. event' = event /\ (phase' = "dispatch" \/ (phase' = "done" /\ outcome' = "filtered"))
    BY DEF FilterDrops, FilterAccepts, FilterMissed, Finish
  <1>2. QED
    BY <1>1 DEF Follows, FirstReportDecoded

LEMMA DispatchFollows ==
    ASSUME DecodeInv, [Next]_vars, Ignore \/ Dispatch
    PROVE  Follows'
  <1> SUFFICES ASSUME event.wellFormed
               PROVE  Follows'
    BY SameEvent DEF Follows
  <1>1. TypeOK /\ WellFormed
    BY DEF DecodeInv, IInv, WellFormed
  <1>2. CASE Ignore
    <2>1. phase' = "done" /\ outcome' = "none" /\ ~Relevant /\ event' = event
      BY <1>2 DEF Ignore, Finish
    <2>2. event.reports = <<>> \/ ~Holds(First)
      BY <1>1, <2>1, RelevantReports
    <2>3. FirstReportDecoded'
      BY <2>1, <2>2 DEF FirstReportDecoded, First
    <2>4. QED
      BY <2>1, <2>3 DEF Follows
  <1>3. CASE Dispatch
    <2>1. phase' = "header" /\ Relevant /\ event' = event
      BY <1>3 DEF Dispatch
    <2>2. event.reports # <<>>
      BY <1>1, <2>1, RelevantReports
    <2>3. QED
      BY <2>1, <2>2 DEF Follows, FirstReportDecoded
  <1>4. QED
    BY <1>2, <1>3

\* The header of a well-formed event is long enough.
LEMMA HeaderFollows ==
    ASSUME DecodeInv, [Next]_vars, HeaderTooShort \/ HeaderRefused \/ HeaderParsed
    PROVE  Follows'
  <1> SUFFICES ASSUME event.wellFormed
               PROVE  Follows'
    BY SameEvent DEF Follows
  <1>1. TypeOK /\ WellFormed
    BY DEF DecodeInv, IInv, WellFormed
  <1>2. phase = "header"
    BY DEF HeaderTooShort, HeaderRefused, HeaderParsed
  <1>3. event.reports # <<>>
    BY <1>2 DEF DecodeInv, Follows
  <1>4. ~TooShort /\ HeaderFits /\ DataFits
    <2>1. /\ Len(data) \in Nat /\ Len(data) >= 14 /\ At(4) # 0
          /\ DataLen \in Nat /\ Layout.size + DataLen <= Len(data)
      BY <1>1, <1>3, HeaderBytes
    <2>2. Layout.size \in Nat
      BY LayoutFits
    <2>3. Layout.size <= Len(data)
      BY <2>1, <2>2
    <2>4. QED
      BY <2>1, <2>2, <2>3 DEF TooShort, HeaderFits, DataFits
  <1>5. /\ HeaderParsed
        /\ found' = [addr |-> Address(Layout), payload |-> <<>>]
        /\ ad' = [from |-> Layout.size, to |-> Layout.size + DataLen]
        /\ offset' = 0 /\ phase' = "walk"
    BY <1>4 DEF HeaderTooShort, HeaderRefused, HeaderParsed
  <1>6. /\ Len(First.structs) \in Nat /\ First.starts[1] = 0 /\ First.addr = Address(Layout)
    BY <1>1, <1>3, ReportStarts
  <1>7. 1 \in 1..(Len(First.structs) + 1) /\ AtStart(1)'
    BY <1>5, <1>6, SameEvent DEF AtStart
  <1>8. WalkFollows'
    BY <1>3, <1>5, <1>6, <1>7, SameEvent DEF WalkFollows
  <1>9. QED
    BY <1>5, <1>8 DEF Follows, FirstReportDecoded

\* At the end of the data all structures were passed; before it, one stands.
LEMMA WalkPosition ==
    ASSUME TypeOK, WellFormed, WalkFollows
    PROVE  /\ offset + 2 <= AdLen => \E k \in Structs : AtStart(k)
           /\ offset + 2 > AdLen => ~Holds(First)
  <1>1. event.reports # <<>>
    BY DEF WalkFollows
  <1>2. Len(First.structs) \in Nat /\ First.starts[Len(First.structs) + 1] = DataLen
    BY <1>1, ReportStarts
  <1>3. AdLen = DataLen /\ DataLen \in Nat
    <2>1. Layout.size \in Nat /\ DataLen \in Nat
      BY <1>1, HeaderBytes, LayoutFits
    <2>2. QED
      BY <2>1 DEF WalkFollows, AdLen
  <1>4. PICK k \in 1..(Len(First.structs) + 1) : AtStart(k)
    BY DEF WalkFollows
  <1>5. CASE k \in Structs
    <2>1. offset + 2 <= AdLen
      BY <1>5, <1>4, AtStruct
    <2>2. offset \in Nat
      BY <1>3 DEF TypeOK
    <2>3. QED
      BY <1>3, <1>4, <1>5, <2>1, <2>2
  <1>6. CASE k \notin Structs
    <2>1. k = Len(First.structs) + 1
      BY <1>2, <1>4, <1>6 DEF Structs
    <2>2. offset = DataLen
      BY <1>2, <1>4, <2>1 DEF AtStart
    <2>3. \A j \in Structs : j \notin RuuviStructs(First)
      BY <1>2, <1>4, <2>1 DEF AtStart, Structs
    <2>4. ~Holds(First)
      BY <1>1, <2>3, RuuviAreStructs DEF Holds
    <2>5. QED
      BY <1>3, <2>2, <2>4
  <1>7. QED
    BY <1>5, <1>6

\* The first Ruuvi structure is the one the walk stops at.
LEMMA PayloadOfFirst ==
    ASSUME TypeOK, WellFormed, event.reports # <<>>,
           NEW k \in RuuviStructs(First), \A j \in 1..(k - 1) : j \notin RuuviStructs(First)
    PROVE  Payload(First) = SubSeq(First.structs[k].body, 3, Len(First.structs[k].body))
  <1>1. RuuviStructs(First) \subseteq Structs /\ Len(First.structs) \in Nat
    BY RuuviAreStructs, ReportStarts
  <1>2. ASSUME NEW j \in RuuviStructs(First)
        PROVE  k <= j
    <2>1. j \in Nat /\ j >= 1 /\ k \in Nat
      BY <1>1 DEF Structs
    <2>2. QED
      BY <2>1
  <1>3. ASSUME NEW i \in RuuviStructs(First), \A j \in RuuviStructs(First) : i <= j
        PROVE  i = k
    <2>1. i \in Nat /\ k \in Nat
      BY <1>1 DEF Structs
    <2>2. QED
      BY <1>2, <1>3, <2>1
  <1>4. (CHOOSE i \in RuuviStructs(First) : \A j \in RuuviStructs(First) : i <= j) = k
    BY <1>2, <1>3
  <1>5. QED
    BY <1>4 DEF Payload

LEMMA WalkKeepsFollowing ==
    ASSUME DecodeInv, [Next]_vars, WalkEnds \/ WalkBreaks \/ WalkSkips \/ WalkFinds
    PROVE  Follows'
  <1> SUFFICES ASSUME event.wellFormed
               PROVE  Follows'
    BY SameEvent DEF Follows
  <1>1. TypeOK /\ WellFormed
    BY DEF DecodeInv, IInv, WellFormed
  <1>2. phase = "walk"
    BY DEF WalkEnds, WalkBreaks, WalkSkips, WalkFinds, InLoop
  <1>3. WalkFollows
    BY <1>2 DEF DecodeInv, Follows
  <1>4. event.reports # <<>>
    BY <1>3 DEF WalkFollows
  <1>5. CASE WalkEnds
    <2>1. phase' = "done" /\ outcome' = "none" /\ offset + 2 > AdLen
      BY <1>5 DEF WalkEnds, Finish
    <2>2. ~Holds(First)
      BY <1>1, <1>3, <2>1, WalkPosition
    <2>3. FirstReportDecoded'
      BY <1>4, <2>1, <2>2, SameEvent DEF FirstReportDecoded, First
    <2>4. QED
      BY <2>1, <2>3 DEF Follows
  <1>6. CASE InLoop
    <2>1. PICK k \in Structs : AtStart(k)
      BY <1>1, <1>3, <1>6, WalkPosition DEF InLoop
    <2>2. /\ StructFits /\ offset + 1 + StructLen = First.starts[k + 1]
          /\ IsRuuvi <=> k \in RuuviStructs(First)
          /\ IsRuuvi => [i \in 1..(StructLen - 3) |-> AdAt(offset + 3 + i)]
                           = SubSeq(First.structs[k].body, 3, Len(First.structs[k].body))
      BY <1>1, <1>3, <2>1, AtStruct
    <2>3. k \in Nat /\ k >= 1 /\ k + 1 \in 1..(Len(First.structs) + 1)
      BY <1>1, <1>4, ReportStarts DEF Structs
    <2>4. CASE WalkSkips
      <3>1. /\ offset' = First.starts[k + 1] /\ phase' = "walk" /\ ad' = ad /\ found' = found
            /\ k \notin RuuviStructs(First)
        BY <1>2, <2>2, <2>4 DEF WalkSkips
      <3>2. AtStart(k + 1)'
        BY <2>1, <2>3, <3>1, SameEvent DEF AtStart
      <3>3. WalkFollows'
        BY <1>3, <2>3, <3>1, <3>2, SameEvent DEF WalkFollows
      <3>4. QED
        BY <3>1, <3>3 DEF Follows, FirstReportDecoded
    <2>5. CASE WalkFinds
      <3>1. /\ k \in RuuviStructs(First) /\ phase' = "decode"
            /\ found' = [found EXCEPT !.payload =
                            SubSeq(First.structs[k].body, 3, Len(First.structs[k].body))]
        BY <2>2, <2>5 DEF WalkFinds
      <3>2. Payload(First) = SubSeq(First.structs[k].body, 3, Len(First.structs[k].body))
        BY <1>1, <1>4, <2>1, <3>1, PayloadOfFirst DEF AtStart
      <3>3. found' = [addr |-> First.addr, payload |-> Payload(First)]
        BY <1>3, <3>1, <3>2 DEF WalkFollows
      <3>4. Holds(First)
        BY <3>1 DEF Holds
      <3>5. FoundFirst'
        BY <1>4, <3>3, <3>4, SameEvent DEF FoundFirst
      <3>6. QED
        BY <3>1, <3>5 DEF Follows, FirstReportDecoded
    <2>6. ~WalkBreaks
      BY <2>2 DEF WalkBreaks
    <2>7. QED
      BY <1>5, <2>4, <2>5, <2>6
  <1>7. QED
    BY <1>5, <1>6 DEF WalkBreaks, WalkSkips, WalkFinds

LEMMA DeliveryFollows ==
    ASSUME DecodeInv, [Next]_vars, Decodes \/ DecodeFails \/ Deliver
    PROVE  Follows'
  <1> SUFFICES ASSUME event.wellFormed
               PROVE  Follows'
    BY SameEvent DEF Follows
  <1>1. FoundFirst /\ found' = found /\ FoundFirst'
    <2>1. phase \in {"decode", "deliver"} /\ found' = found
      BY DEF Decodes, DecodeFails, Deliver
    <2>2. FoundFirst
      BY <2>1 DEF DecodeInv, Follows
    <2>3. QED
      BY <2>1, <2>2, SameEvent DEF FoundFirst
  <1>2. CASE Decodes \/ DecodeFails
    <2>1. phase' = "deliver" /\ outcome' \in {"measurement", "error"}
      BY <1>2 DEF Decodes, DecodeFails
    <2>2. QED
      BY <1>1, <2>1 DEF Follows, FirstReportDecoded
  <1>3. CASE Deliver
    <2>1. /\ phase' = "done" /\ outcome \in {"measurement", "error"}
          /\ outcome' = IF outcome = "error" /\ ~verbose THEN "none" ELSE outcome
      BY <1>3 DEF Deliver, Finish, DecodeInv, Follows
    <2>2. outcome' \in {"measurement", IF verbose' THEN "error" ELSE "none"}
      BY <2>1, SameEvent
    <2>3. FirstReportDecoded'
      BY <1>1, <2>1, <2>2 DEF FirstReportDecoded, FoundFirst, First
    <2>4. QED
      BY <2>1, <2>3 DEF Follows
  <1>4. QED
    BY <1>2, <1>3

LEMMA NextDecodeInv == DecodeInv /\ [Next]_vars => DecodeInv'
  <1> SUFFICES ASSUME DecodeInv, [Next]_vars PROVE DecodeInv'
    OBVIOUS
  <1>1. IInv'
    BY NextIInv DEF DecodeInv
  <1>2. event' \in Events
    BY SameEvent DEF DecodeInv
  <1>3. FilteredMismatch'
    <2>1. CASE FilterDrops
      BY <2>1, SameEvent DEF FilterDrops, FilteredMismatch
    <2>2. CASE outcome' = outcome
      BY <2>2, SameEvent DEF DecodeInv, FilteredMismatch
    <2>3. CASE outcome' \in {"none", "error", "measurement"}
      BY <2>3 DEF FilteredMismatch
    <2>4. CASE Deliver
      <3>1. outcome' \in {"none", outcome}
        BY <2>4 DEF Deliver, Finish
      <3>2. QED
        BY <2>2, <2>3, <3>1
    <2>5. QED
      BY <2>1, <2>2, <2>3, <2>4
         DEF Next, vars, FilterAccepts, FilterMissed, Ignore, Dispatch, HeaderTooShort,
             HeaderRefused, HeaderParsed, WalkEnds, WalkBreaks, WalkSkips, WalkFinds, Decodes,
             DecodeFails, Finish
  <1>4. Follows'
    <2>1. CASE UNCHANGED vars
      <3>1. UNCHANGED <<phase, ad, offset, found, outcome>>
        BY <2>1 DEF vars
      <3>2. WalkFollows => WalkFollows'
        BY <3>1, SameEvent DEF WalkFollows, AtStart
      <3>3. FoundFirst => FoundFirst'
        BY <3>1, SameEvent DEF FoundFirst
      <3>4. FirstReportDecoded => FirstReportDecoded'
        BY <3>1, SameEvent DEF FirstReportDecoded
      <3>5. QED
        BY <3>1, <3>2, <3>3, <3>4, SameEvent DEF DecodeInv, Follows
    <2>2. QED
      BY <2>1, EarlySteps, DispatchFollows, HeaderFollows, WalkKeepsFollowing, DeliveryFollows DEF Next
  <1>5. QED
    BY <1>1, <1>2, <1>3, <1>4 DEF DecodeInv

LEMMA InitDecodeInv == Init => DecodeInv
  <1>1. Init => event \in Events /\ Follows /\ FilteredMismatch
    BY DEF Init, Follows, FilteredMismatch, FirstReportDecoded
  <1>2. QED
    BY <1>1, InitIInv DEF DecodeInv

\* Whatever a well-formed first report holds, and however many structures: its
\* first Ruuvi payload comes out under its own address, or nothing if it has
\* none (hci.rs:778, 824, 828-853, 950-960).
THEOREM FirstReportIsDecoded == Spec => []FirstReportDecoded
  <1>1. DecodeInv => FirstReportDecoded
    BY DEF DecodeInv, Follows, FirstReportDecoded
  <1>2. QED
    BY InitDecodeInv, NextDecodeInv, <1>1, PTL DEF Spec

-------------------------------------------------------------------------------
(* The kernel filter keeps what the parser would decode. *)

LEMMA ShortAdMatches ==
    ASSUME TypeOK, WellFormed, event.reports # <<>>, Holds(First), DataLen <= SHORT_AD,
           FIRST_OFFSET <= 16, 58 <= LAST_OFFSET
    PROVE  Matches(data)
  <1>1. PICK k \in RuuviStructs(First) : TRUE
    BY DEF Holds
  <1> DEFINE i == Layout.size + First.starts[k] + 2
  <1>2. i \in 0..(Len(data) - 2) /\ IdAt(data, i) /\ i >= 16 /\ i + 2 <= Layout.size + DataLen
    BY IdOfStruct
  <1>3. /\ DataLen \in Nat /\ Len(data) \in Nat /\ IsReportEvent(data)
        /\ Layout.size \in Nat /\ Layout.size <= 29
    BY HeaderBytes, LayoutFits DEF LEGACY, EXTENDED
  <1> HIDE DEF i
  <1>4. i \in Nat /\ i + 2 <= Len(data)
    BY <1>2, <1>3
  <1>5. i <= 58
    BY <1>2, <1>3, <1>4 DEF SHORT_AD
  <1>6. i \in FIRST_OFFSET..LAST_OFFSET
    BY <1>2, <1>4, <1>5, OffsetAssumption
  <1>7. QED
    BY <1>2, <1>3, <1>4, <1>6 DEF Matches

\* A range of candidate offsets that begins with the first place of the id in a
\* legacy report and ends with the last one in 31 bytes of extended data loses no
\* report with at most 31 bytes; 14 to 60 is such a range (hci.rs:340-344).
THEOREM ShortAdsAreKept ==
    ASSUME FIRST_OFFSET <= 16, 58 <= LAST_OFFSET
    PROVE  Spec => []FilterKeepsShortAds
  <1>1. DecodeInv => FilterKeepsShortAds
    <2> SUFFICES ASSUME DecodeInv, outcome = "filtered", event.wellFormed, event.reports # <<>>,
                        Holds(First), DataLen <= SHORT_AD
                 PROVE  FALSE
      BY DEF FilterKeepsShortAds, First, DataLen
    <2>1. Matches(data)
      BY ShortAdMatches DEF DecodeInv, IInv, WellFormed
    <2>2. QED
      BY <2>1 DEF DecodeInv, FilteredMismatch
  <1>2. QED
    BY InitDecodeInv, NextDecodeInv, <1>1, PTL DEF Spec

===============================================================================
