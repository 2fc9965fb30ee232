----------------------------- MODULE HciBpfProofs -----------------------------
(***************************************************************************)
(* The kernel filter is right for every range of candidate offsets whose   *)
(* jumps fit into a byte, and for every packet.  The invariant says, for   *)
(* each instruction, what the checks passed so far have established.       *)
(***************************************************************************)
EXTENDS HciBpf, TLAPS

\* The longest jump, from the packet type check to the reject instruction.
JumpsFit == reject_idx - 2 <= 255

\* What the header checks have established of packet p before instruction i.
HeaderSeen(p, i) ==
    /\ i >= 1 => Len(p) >= 1
    /\ i >= 2 => Byte(p, 0) = 4
    /\ i >= 3 => Len(p) >= 2
    /\ i >= 4 => Byte(p, 1) = 62
    /\ i >= 5 => Len(p) >= 4
    /\ i >= 6 => Byte(p, 3) # 2

\* What the accumulator holds before instruction i of the header.
HeaderAcc(p, a, i) ==
    /\ i = 1 => a = Byte(p, 0)
    /\ i = 3 => a = Byte(p, 1)
    /\ i \in {5, 6} => a = Byte(p, 3)

Word(p, k) == 256 * Byte(p, k) + Byte(p, k + 1)

\* The first c candidate offsets lie in the packet and do not hold the id.
NotFound(p, c) ==
    \A k \in FIRST_OFFSET..(FIRST_OFFSET + c - 1) : k + 2 <= Len(p) /\ ~IdAt(p, k)

AtHeader == pc \in 0..6 /\ HeaderSeen(pkt, pc) /\ HeaderAcc(pkt, acc, pc)
AtLoad(c) == pc = 7 + 2 * c /\ IsReportEvent(pkt) /\ NotFound(pkt, c)
AtCompare(c) ==
    /\ pc = 7 + 2 * c + 1 /\ IsReportEvent(pkt) /\ NotFound(pkt, c)
    /\ FIRST_OFFSET + c + 2 <= Len(pkt) /\ acc = Word(pkt, FIRST_OFFSET + c)
AtReject == pc = reject_idx /\ ~Matches(pkt)
AtAccept == pc = accept_idx /\ Matches(pkt)

Progress ==
    \/ AtHeader
    \/ \E c \in 0..(num_offsets - 1) : AtLoad(c) \/ AtCompare(c)
    \/ AtReject
    \/ AtAccept

IInv == TypeOK /\ VerdictCorrect /\ (verdict = "running" => Progress)

-------------------------------------------------------------------------------
(* The instructions, one lemma for each part of the program. *)

LEMMA Sizes ==
    /\ FIRST_OFFSET \in Nat /\ LAST_OFFSET \in Nat /\ num_offsets \in Nat \ {0}
    /\ reject_idx \in Nat /\ accept_idx = reject_idx + 1
    /\ reject_idx = 7 + 2 * num_offsets
  BY OffsetAssumption DEF num_offsets, reject_idx, accept_idx, checks_start

\* A forward jump that fits into a byte is not changed by the cut.
LEMMA JumpExact ==
    ASSUME JumpsFit, NEW i \in Nat, NEW t \in Nat, 1 <= i, i < t, t <= accept_idx,
           i = 1 => t <= reject_idx
    PROVE  Jump(i, t) = t - i - 1
  <1>1. t - i - 1 \in 0..255
    BY Sizes DEF JumpsFit
  <1>2. QED
    BY <1>1 DEF Jump

LEMMA HeaderInstr ==
    ASSUME JumpsFit
    PROVE  /\ Instr(0) = LoadByte(0)
           /\ Instr(1) = Equal(4, 0, reject_idx - 2)
           /\ Instr(2) = LoadByte(1)
           /\ Instr(3) = Equal(62, 0, reject_idx - 4)
           /\ Instr(4) = LoadByte(3)
           /\ Instr(5) = Equal(2, 1, 0)
           /\ Instr(6) = Equal(13, 0, reject_idx - 7)
  <1>1. /\ Jump(1, reject_idx) = reject_idx - 2 /\ Jump(3, reject_idx) = reject_idx - 4
        /\ Jump(5, checks_start) = 1 /\ Jump(6, checks_start) = 0
        /\ Jump(6, reject_idx) = reject_idx - 7
    <2>1. Jump(1, reject_idx) = reject_idx - 2
      BY JumpExact, Sizes
    <2>2. Jump(3, reject_idx) = reject_idx - 4
      BY JumpExact, Sizes
    <2>3. Jump(6, reject_idx) = reject_idx - 7
      BY JumpExact, Sizes
    <2>4. Jump(5, 7) = 1 /\ Jump(6, 7) = 0
      BY DEF Jump
    <2>5. QED
      BY <2>1, <2>2, <2>3, <2>4 DEF checks_start
  <1>2. QED
    BY <1>1 DEF Instr, Header, checks_start, HCI_EVENT_PKT, EVT_LE_META_EVENT,
                EVT_LE_ADVERTISING_REPORT, EVT_LE_EXTENDED_ADVERTISING_REPORT

LEMMA CheckInstr ==
    ASSUME JumpsFit, NEW c \in 0..(num_offsets - 1)
    PROVE  /\ Instr(7 + 2 * c) = LoadHalf(FIRST_OFFSET + c)
           /\ Instr(7 + 2 * c + 1)
                 = Equal(RUUVI_ID_BE, accept_idx - (7 + 2 * c + 1) - 1, 0)
  <1>1. /\ c \in Nat /\ 7 + 2 * c + 1 < reject_idx
        /\ 7 + 2 * c \in Nat /\ checks_start = 7
    BY Sizes DEF checks_start
  <1>2. (2 * c) \div 2 = c /\ (2 * c + 1) \div 2 = c
    BY <1>1
  <1>3. Instr(7 + 2 * c) = Check(c, 7 + 2 * c)
    <2>1. (7 + 2 * c) - 7 = 2 * c
      BY <1>1
    <2>2. QED
      BY <1>1, <1>2, <2>1, Sizes DEF Instr
  <1>4. Instr(7 + 2 * c + 1) = Check(c, 7 + 2 * c + 1)
    <2>1. (7 + 2 * c + 1) - 7 = 2 * c + 1
      BY <1>1
    <2>2. QED
      BY <1>1, <1>2, <2>1, Sizes DEF Instr
  <1>5. Jump(7 + 2 * c + 1, accept_idx) = accept_idx - (7 + 2 * c + 1) - 1
    BY <1>1, JumpExact, Sizes
  <1>6. QED
    BY <1>1, <1>3, <1>4, <1>5 DEF Check

LEMMA EndInstr == Instr(reject_idx) = Return(0) /\ Instr(accept_idx) = Return(MaxWord)
  BY Sizes DEF Instr, checks_start

-------------------------------------------------------------------------------
(* What the machine does with each kind of instruction. *)

LEMMA StepLoadByte ==
    ASSUME Next, NEW k, Instr(pc) = LoadByte(k)
    PROVE  /\ verdict = "running" /\ pkt' = pkt
           /\ \/ k + 1 > Len(pkt) /\ verdict' = "drop" /\ pc' = pc /\ acc' = acc
              \/ ~(k + 1 > Len(pkt)) /\ verdict' = verdict /\ pc' = pc + 1 /\ acc' = Byte(pkt, k)
  BY DEF Next, DoLoadByte, DoLoadHalf, DoEqual, DoReturn, Load, LoadByte

LEMMA StepLoadHalf ==
    ASSUME Next, NEW k, Instr(pc) = LoadHalf(k)
    PROVE  /\ verdict = "running" /\ pkt' = pkt
           /\ \/ k + 2 > Len(pkt) /\ verdict' = "drop" /\ pc' = pc /\ acc' = acc
              \/ ~(k + 2 > Len(pkt)) /\ verdict' = verdict /\ pc' = pc + 1 /\ acc' = Word(pkt, k)
  BY DEF Next, DoLoadByte, DoLoadHalf, DoEqual, DoReturn, Load, LoadHalf, Word

LEMMA StepEqual ==
    ASSUME Next, NEW k, NEW jt, NEW jf, Instr(pc) = Equal(k, jt, jf)
    PROVE  /\ verdict = "running" /\ pkt' = pkt /\ verdict' = verdict /\ acc' = acc
           /\ acc = k => pc' = pc + 1 + jt
           /\ acc # k => pc' = pc + 1 + jf
  BY DEF Next, DoLoadByte, DoLoadHalf, DoEqual, DoReturn, Load, Equal

LEMMA StepReturn ==
    ASSUME Next, NEW k, Instr(pc) = Return(k)
    PROVE  /\ pkt' = pkt /\ pc' = pc /\ acc' = acc
           /\ verdict' = IF k = 0 THEN "drop" ELSE "accept"
  BY DEF Next, DoLoadByte, DoLoadHalf, DoEqual, DoReturn, Load, Return

\* Bytes of the packet are numbers.
LEMMA PacketBytes ==
    ASSUME TypeOK
    PROVE  /\ Len(pkt) \in Nat
           /\ \A k \in 0..(Len(pkt) - 1) : Byte(pkt, k) \in 0..255
  <1>1. pkt \in Seq(0..255)
    BY DEF TypeOK
  <1>2. ASSUME NEW S, NEW p \in Seq(S)
        PROVE  Len(p) \in Nat /\ \A i \in 1..Len(p) : p[i] \in S
    BY <1>2
  <1>3. Len(pkt) \in Nat /\ \A i \in 1..Len(pkt) : pkt[i] \in 0..255
    BY <1>1, <1>2
  <1>4. ASSUME NEW k \in 0..(Len(pkt) - 1) PROVE pkt[k + 1] \in 0..255
    <2>1. k + 1 \in 1..Len(pkt)
      BY <1>3, <1>4
    <2>2. QED
      BY <1>3, <2>1
  <1>5. QED
    BY <1>3, <1>4 DEF Byte

LEMMA WordHoldsByte == MaxWord \in Nat /\ 255 <= MaxWord
  BY SMT DEF MaxWord

\* Two bytes make a half-word, and only the id's bytes make the id.
LEMMA TwoBytes ==
    ASSUME NEW lo \in 0..255, NEW hi \in 0..255
    PROVE  /\ 256 * lo + hi \in 0..MaxWord
           /\ 256 * lo + hi = RUUVI_ID_BE <=> lo = RUUVI_LO /\ hi = RUUVI_HI
  <1>1. 256 * lo + hi \in Int /\ 0 <= 256 * lo + hi /\ 256 * lo + hi <= 256 * 255 + 255
    BY SMT
  <1>2. 0 <= 256 * lo + hi /\ 256 * lo + hi <= MaxWord
    BY <1>1, Zenon DEF MaxWord
  <1>3. 256 * lo + hi \in 0..MaxWord
    BY <1>1, <1>2, WordHoldsByte, SMT
  <1>4. 256 * lo + hi = 256 * 153 + 4 <=> lo = 153 /\ hi = 4
    BY SMT
  <1>5. QED
    BY <1>3, <1>4, Zenon DEF RUUVI_ID_BE, RUUVI_LO, RUUVI_HI

\* The two loaded bytes are the id exactly if the word is its big-endian value.
LEMMA WordIsId ==
    ASSUME TypeOK, NEW k \in Nat, k + 2 <= Len(pkt)
    PROVE  /\ Word(pkt, k) \in 0..MaxWord
           /\ Word(pkt, k) = RUUVI_ID_BE <=> IdAt(pkt, k)
  <1>1. k \in 0..(Len(pkt) - 1) /\ k + 1 \in 0..(Len(pkt) - 1)
    BY PacketBytes
  <1>2. PICK lo \in 0..255 : Byte(pkt, k) = lo
    BY <1>1, PacketBytes
  <1>3. PICK hi \in 0..255 : Byte(pkt, k + 1) = hi
    BY <1>1, PacketBytes
  <1>4. Word(pkt, k) = 256 * lo + hi
    BY <1>2, <1>3 DEF Word
  <1>5. IdAt(pkt, k) <=> lo = RUUVI_LO /\ hi = RUUVI_HI
    BY <1>2, <1>3 DEF IdAt
  <1>6. QED
    <2>1. /\ 256 * lo + hi \in 0..MaxWord
          /\ 256 * lo + hi = RUUVI_ID_BE <=> lo = RUUVI_LO /\ hi = RUUVI_HI
      BY TwoBytes, ZenonT(60)
    <2>2. QED
      BY <1>4, <1>5, <2>1, Zenon

-------------------------------------------------------------------------------
(* Every instruction keeps the invariant. *)

\* Four ways to keep the invariant: the packet is dropped by a load, and the
\* machine goes on in the header, to a check, or to the reject instruction.
LEMMA Dropped ==
    ASSUME TypeOK, ~Matches(pkt), verdict' = "drop", pkt' = pkt, pc' = pc, acc' = acc
    PROVE  IInv'
  BY DEF IInv, TypeOK, VerdictCorrect

LEMMA ToHeader ==
    ASSUME TypeOK, verdict' = "running", pkt' = pkt, pc' \in 0..6, acc' \in 0..MaxWord,
           HeaderSeen(pkt, pc'), HeaderAcc(pkt, acc', pc')
    PROVE  IInv'
  <1>1. AtHeader'
    BY DEF AtHeader
  <1>2. TypeOK'
    BY Sizes DEF TypeOK
  <1>3. QED
    BY <1>1, <1>2 DEF IInv, VerdictCorrect, Progress

LEMMA ToLoad ==
    ASSUME TypeOK, NEW c \in 0..(num_offsets - 1), verdict' = "running", pkt' = pkt,
           pc' = 7 + 2 * c, acc' = acc, IsReportEvent(pkt), NotFound(pkt, c)
    PROVE  IInv'
  <1>1. AtLoad(c)'
    BY DEF AtLoad
  <1>2. TypeOK'
    BY Sizes DEF TypeOK
  <1>3. QED
    BY <1>1, <1>2 DEF IInv, VerdictCorrect, Progress

LEMMA ToCompare ==
    ASSUME TypeOK, NEW c \in 0..(num_offsets - 1), verdict' = "running", pkt' = pkt,
           pc' = 7 + 2 * c + 1, acc' = Word(pkt, FIRST_OFFSET + c), Word(pkt, FIRST_OFFSET + c) \in 0..MaxWord,
           IsReportEvent(pkt), NotFound(pkt, c), FIRST_OFFSET + c + 2 <= Len(pkt)
    PROVE  IInv'
  <1>1. AtCompare(c)'
    BY DEF AtCompare
  <1>2. TypeOK'
    BY Sizes DEF TypeOK
  <1>3. QED
    BY <1>1, <1>2 DEF IInv, VerdictCorrect, Progress

LEMMA ToEnd ==
    ASSUME TypeOK, verdict' = "running", pkt' = pkt, acc' = acc,
           \/ pc' = reject_idx /\ ~Matches(pkt)
           \/ pc' = accept_idx /\ Matches(pkt)
    PROVE  IInv'
  <1>1. AtReject' \/ AtAccept'
    BY DEF AtReject, AtAccept
  <1>2. TypeOK'
    BY Sizes DEF TypeOK
  <1>3. QED
    BY <1>1, <1>2 DEF IInv, VerdictCorrect, Progress

\* The header byte k is loaded before instruction pc + 1.
LEMMA HeaderLoadKeeps ==
    ASSUME TypeOK, AtHeader, Next, NEW k \in Nat, Instr(pc) = LoadByte(k),
           \/ pc = 0 /\ k = 0
           \/ pc = 2 /\ k = 1
           \/ pc = 4 /\ k = 3
    PROVE  IInv'
  <1>1. CASE k + 1 > Len(pkt)
    <2>1. verdict' = "drop" /\ pkt' = pkt /\ pc' = pc /\ acc' = acc
      BY <1>1, StepLoadByte
    <2>2. ~Matches(pkt)
      BY <1>1, PacketBytes DEF Matches, IsReportEvent
    <2>3. QED
      BY <2>1, <2>2, Dropped
  <1>2. CASE ~(k + 1 > Len(pkt))
    <2>1. verdict' = "running" /\ pkt' = pkt /\ pc' = pc + 1 /\ acc' = Byte(pkt, k)
      BY <1>2, StepLoadByte
    <2>2. Byte(pkt, k) \in 0..255 /\ Len(pkt) >= k + 1
      BY <1>2, PacketBytes
    <2>3. pc' \in 0..6
      BY <2>1
    <2>4. acc' \in 0..MaxWord
      <3>1. 0..255 \subseteq 0..MaxWord
        BY WordHoldsByte
      <3>2. Byte(pkt, k) \in 0..MaxWord
        BY <2>2, <3>1, ZenonT(60)
      <3>3. QED
        BY <2>1, <3>2, Zenon
    <2>5. HeaderSeen(pkt, pc') /\ HeaderAcc(pkt, acc', pc')
      BY <2>1, <2>2 DEF AtHeader, HeaderSeen, HeaderAcc
    <2>6. QED
      BY <2>1, <2>3, <2>4, <2>5, ToHeader
  <1>3. QED
    BY <1>1, <1>2

\* The packet type and the event code are compared.
LEMMA HeaderCompareKeeps ==
    ASSUME TypeOK, AtHeader, Next, NEW k \in Nat, Instr(pc) = Equal(k, 0, reject_idx - pc - 1),
           \/ pc = 1 /\ k = 4
           \/ pc = 3 /\ k = 62
    PROVE  IInv'
  <1>1. pkt' = pkt /\ verdict' = "running" /\ acc' = acc
    BY StepEqual
  <1>2. CASE acc = k
    <2>1. pc' = pc + 1 /\ pc' \in 0..6
      BY <1>2, StepEqual
    <2>2. HeaderSeen(pkt, pc') /\ HeaderAcc(pkt, acc', pc')
      BY <1>1, <1>2, <2>1 DEF AtHeader, HeaderSeen, HeaderAcc
    <2>3. QED
      BY <1>1, <2>1, <2>2, ToHeader DEF TypeOK
  <1>3. CASE acc # k
    <2>1. pc' = reject_idx
      BY <1>3, StepEqual, Sizes
    <2>2. ~Matches(pkt)
      BY <1>3 DEF AtHeader, HeaderAcc, Matches, IsReportEvent, HCI_EVENT_PKT, EVT_LE_META_EVENT
    <2>3. QED
      BY <1>1, <2>1, <2>2, ToEnd
  <1>4. QED
    BY <1>2, <1>3

\* The subevent is one of the two advertising reports, or the packet is rejected.
LEMMA SubeventKeeps ==
    ASSUME TypeOK, AtHeader, Next,
           \/ pc = 5 /\ Instr(pc) = Equal(2, 1, 0)
           \/ pc = 6 /\ Instr(pc) = Equal(13, 0, reject_idx - 7)
    PROVE  IInv'
  <1>1. pkt' = pkt /\ verdict' = "running" /\ acc' = acc
    BY StepEqual
  <1>2. CASE (pc = 5 /\ acc = 2) \/ (pc = 6 /\ acc = 13)
    <2>1. pc' = 7
      BY <1>2, StepEqual
    <2>2. IsReportEvent(pkt)
      BY <1>2 DEF AtHeader, HeaderSeen, HeaderAcc, IsReportEvent, HCI_EVENT_PKT,
                  EVT_LE_META_EVENT, EVT_LE_ADVERTISING_REPORT,
                  EVT_LE_EXTENDED_ADVERTISING_REPORT
    <2>3. NotFound(pkt, 0) /\ 0 \in 0..(num_offsets - 1)
      BY Sizes DEF NotFound
    <2>4. QED
      BY <1>1, <2>1, <2>2, <2>3, ToLoad
  <1>3. CASE pc = 5 /\ acc # 2
    <2>1. pc' = 6
      BY <1>3, StepEqual
    <2>2. HeaderSeen(pkt, pc') /\ HeaderAcc(pkt, acc', pc')
      BY <1>1, <1>3, <2>1 DEF AtHeader, HeaderSeen, HeaderAcc
    <2>3. QED
      BY <1>1, <2>1, <2>2, ToHeader DEF TypeOK
  <1>4. CASE pc = 6 /\ acc # 13
    <2>1. pc' = reject_idx
      BY <1>4, StepEqual, Sizes
    <2>2. ~Matches(pkt)
      BY <1>4 DEF AtHeader, HeaderSeen, HeaderAcc, Matches, IsReportEvent,
                  EVT_LE_ADVERTISING_REPORT, EVT_LE_EXTENDED_ADVERTISING_REPORT
    <2>3. QED
      BY <1>1, <2>1, <2>2, ToEnd
  <1>5. QED
    BY <1>2, <1>3, <1>4, Zenon

LEMMA HeaderKeeps ==
    ASSUME JumpsFit, TypeOK, AtHeader, Next
    PROVE  IInv'
  <1>1. CASE pc \in {0, 2, 4}
    <2>1. PICK k \in Nat : /\ Instr(pc) = LoadByte(k)
                           /\ \/ pc = 0 /\ k = 0
                              \/ pc = 2 /\ k = 1
                              \/ pc = 4 /\ k = 3
      <3>1. CASE pc = 0
        BY <3>1, HeaderInstr
      <3>2. CASE pc = 2
        BY <3>2, HeaderInstr
      <3>3. CASE pc = 4
        BY <3>3, HeaderInstr
      <3>4. QED
        BY <1>1, <3>1, <3>2, <3>3
    <2>2. QED
      BY <2>1, HeaderLoadKeeps
  <1>2. CASE pc \in {1, 3}
    <2>1. PICK k \in Nat : /\ Instr(pc) = Equal(k, 0, reject_idx - pc - 1)
                           /\ \/ pc = 1 /\ k = 4
                              \/ pc = 3 /\ k = 62
      <3>1. reject_idx - 1 - 1 = reject_idx - 2 /\ reject_idx - 3 - 1 = reject_idx - 4
        BY Sizes
      <3>2. CASE pc = 1
        BY <3>1, <3>2, HeaderInstr
      <3>3. CASE pc = 3
        BY <3>1, <3>3, HeaderInstr
      <3>4. QED
        BY <1>2, <3>2, <3>3
    <2>2. QED
      BY <2>1, HeaderCompareKeeps
  <1>3. CASE pc \in {5, 6}
    BY <1>3, HeaderInstr, SubeventKeeps
  <1>4. QED
    BY <1>1, <1>2, <1>3 DEF AtHeader

LEMMA LoadKeeps ==
    ASSUME JumpsFit, TypeOK, NEW c \in 0..(num_offsets - 1), AtLoad(c), Next
    PROVE  IInv'
  <1>1. c \in Nat /\ FIRST_OFFSET + c \in Nat
    BY Sizes
  <1>2. Instr(pc) = LoadHalf(FIRST_OFFSET + c)
    BY CheckInstr DEF AtLoad
  <1>3. CASE FIRST_OFFSET + c + 2 > Len(pkt)
    <2>1. verdict' = "drop" /\ pkt' = pkt /\ pc' = pc /\ acc' = acc
      BY <1>2, <1>3, StepLoadHalf
    <2>2. \A k \in FIRST_OFFSET..LAST_OFFSET : k + 2 <= Len(pkt) => k \in FIRST_OFFSET..(FIRST_OFFSET + c - 1)
      BY <1>1, <1>3, Sizes, PacketBytes
    <2>3. ~Matches(pkt)
      BY <2>2 DEF Matches, AtLoad, NotFound
    <2>4. QED
      BY <2>1, <2>3, Dropped
  <1>4. CASE ~(FIRST_OFFSET + c + 2 > Len(pkt))
    <2>1. verdict' = "running" /\ pkt' = pkt /\ pc' = pc + 1 /\ acc' = Word(pkt, FIRST_OFFSET + c)
      BY <1>2, <1>4, StepLoadHalf
    <2>2. FIRST_OFFSET + c + 2 <= Len(pkt)
      BY <1>1, <1>4, PacketBytes
    <2>3. Word(pkt, FIRST_OFFSET + c) \in 0..MaxWord
      BY <1>1, <2>2, WordIsId
    <2>4. QED
      BY <2>1, <2>2, <2>3, ToCompare DEF AtLoad
  <1>5. QED
    BY <1>3, <1>4

LEMMA CompareKeeps ==
    ASSUME JumpsFit, TypeOK, NEW c \in 0..(num_offsets - 1), AtCompare(c), Next
    PROVE  IInv'
  <1>1. c \in Nat /\ FIRST_OFFSET + c \in Nat /\ FIRST_OFFSET + c \in FIRST_OFFSET..LAST_OFFSET /\ pc = 7 + 2 * c + 1
    BY Sizes DEF num_offsets, AtCompare
  <1>2. Instr(pc) = Equal(RUUVI_ID_BE, accept_idx - pc - 1, 0)
    BY CheckInstr DEF AtCompare
  <1>3. pkt' = pkt /\ verdict' = "running" /\ acc' = acc
    BY <1>2, StepEqual
  <1>4. acc = RUUVI_ID_BE <=> IdAt(pkt, FIRST_OFFSET + c)
    BY <1>1, WordIsId DEF AtCompare
  <1>5. CASE acc = RUUVI_ID_BE
    <2>1. pc' = pc + 1 + (accept_idx - pc - 1)
      BY <1>2, <1>5, StepEqual
    <2>2. pc' = accept_idx
      BY <1>1, <2>1, Sizes
    <2>3. Matches(pkt)
      BY <1>1, <1>4, <1>5 DEF Matches, AtCompare
    <2>4. QED
      BY <1>3, <2>2, <2>3, ToEnd
  <1>6. CASE acc # RUUVI_ID_BE
    <2>1. pc' = 7 + 2 * (c + 1)
      <3>1. pc' = pc + 1 + 0
        BY <1>2, <1>6, StepEqual
      <3>2. QED
        BY <1>1, <3>1
    <2>2. IsReportEvent(pkt) /\ NotFound(pkt, c + 1)
      <3>1. \A k \in FIRST_OFFSET..(FIRST_OFFSET + (c + 1) - 1) : k \in FIRST_OFFSET..(FIRST_OFFSET + c - 1) \/ k = FIRST_OFFSET + c
        BY <1>1, Sizes
      <3>2. QED
        BY <1>4, <1>6, <3>1 DEF AtCompare, NotFound
    <2>3. CASE c + 1 \in 0..(num_offsets - 1)
      BY <1>3, <2>1, <2>2, <2>3, ToLoad
    <2>4. CASE c + 1 = num_offsets
      <3>1. pc' = reject_idx
        BY <1>1, <2>1, <2>4, Sizes
      <3>2. ~Matches(pkt)
        <4>1. FIRST_OFFSET + num_offsets - 1 = LAST_OFFSET
          BY Sizes DEF num_offsets
        <4>2. QED
          BY <2>2, <2>4, <4>1 DEF Matches, NotFound
      <3>3. QED
        BY <1>3, <3>1, <3>2, ToEnd
    <2>5. QED
      BY <1>1, <2>3, <2>4, Sizes
  <1>7. QED
    BY <1>5, <1>6

LEMMA EndKeeps ==
    ASSUME TypeOK, AtReject \/ AtAccept, Next
    PROVE  IInv'
  <1>1. CASE AtReject
    <2>1. verdict' = "drop" /\ UNCHANGED <<pkt, pc, acc>>
      BY <1>1, EndInstr, StepReturn DEF AtReject
    <2>2. QED
      BY <1>1, <2>1 DEF AtReject, IInv, TypeOK, VerdictCorrect, Matches, IsReportEvent, IdAt
  <1>2. CASE AtAccept
    <2>1. verdict' = "accept" /\ UNCHANGED <<pkt, pc, acc>>
      BY <1>2, EndInstr, StepReturn DEF AtAccept, MaxWord
    <2>2. QED
      BY <1>2, <2>1 DEF AtAccept, IInv, TypeOK, VerdictCorrect, Matches, IsReportEvent, IdAt
  <1>3. QED
    BY <1>1, <1>2

LEMMA InitIInv == Init => IInv
  BY PacketAssumption, Sizes
     DEF Init, IInv, TypeOK, VerdictCorrect, Progress, AtHeader, HeaderSeen, HeaderAcc, MaxWord

LEMMA NextIInv ==
    ASSUME JumpsFit
    PROVE  IInv /\ [Next]_vars => IInv'
  <1>1. ASSUME IInv, Next PROVE IInv'
    <2>1. verdict = "running"
      BY <1>1 DEF Next, DoLoadByte, DoLoadHalf, DoEqual, DoReturn, Load
    <2>2. QED
      BY <1>1, <2>1, HeaderKeeps, LoadKeeps, CompareKeeps, EndKeeps DEF IInv, Progress
  <1>2. ASSUME IInv, UNCHANGED vars PROVE IInv'
    BY <1>2 DEF vars, IInv, TypeOK, VerdictCorrect, Progress, AtHeader, HeaderSeen, HeaderAcc,
                AtLoad, AtCompare, AtReject, AtAccept, NotFound, Matches, IsReportEvent, IdAt,
                Byte, Word
  <1>3. QED
    BY <1>1, <1>2

\* The filter program accepts exactly the packets it is meant to accept, for
\* every packet and every range of offsets whose jumps fit into a byte (the
\* source's 14..60 do: the longest jump is 99).
THEOREM FilterCorrect ==
    ASSUME JumpsFit
    PROVE  Spec => []VerdictCorrect
  <1>1. IInv => VerdictCorrect
    BY DEF IInv
  <1>2. QED
    BY InitIInv, NextIInv, <1>1, PTL DEF Spec

\* The machine stays inside the program and its registers, on every packet.
THEOREM FilterTypeCorrect ==
    ASSUME JumpsFit
    PROVE  Spec => []TypeOK
  <1>1. IInv => TypeOK
    BY DEF IInv
  <1>2. QED
    BY InitIInv, NextIInv, <1>1, PTL DEF Spec
===============================================================================
