-------------------------------- MODULE HciBpf --------------------------------
(***************************************************************************)
(* The classic BPF program that set_bpf_ruuvi_filter (scanner/hci.rs)      *)
(* builds, and the machine of the kernel that runs it on a packet.  Jump   *)
(* offsets are bytes, relative to the instruction after the jump; a load   *)
(* outside the packet ends the program and drops the packet.               *)
(***************************************************************************)
EXTENDS HciFormat

CONSTANT Packets   \* the packets the filter is run on

ASSUME PacketAssumption == Packets \subseteq Seq(0..255)

VARIABLES pkt, pc, acc, verdict

vars == <<pkt, pc, acc, verdict>>

-------------------------------------------------------------------------------
(* The program. *)

num_offsets == LAST_OFFSET - FIRST_OFFSET + 1
checks_start == 7
reject_idx == checks_start + 2 * num_offsets
accept_idx == reject_idx + 1

MaxWord == 256 * 255 + 255   \* 0xFFFF, the value that accepts and the largest half-word

RUUVI_ID_BE == 256 * RUUVI_LO + RUUVI_HI

\* The patched offset of a jump from instruction i, "as u8".
Jump_Mutant(i, target) == (target - i) % 256
Jump(i, target) == (target - i - 1) % 256

LoadByte(k) == [op |-> "ldb", k |-> k, jt |-> 0, jf |-> 0]
LoadHalf(k) == [op |-> "ldh", k |-> k, jt |-> 0, jf |-> 0]
Equal(k, jt, jf) == [op |-> "jeq", k |-> k, jt |-> jt, jf |-> jf]
Return(k) == [op |-> "ret", k |-> k, jt |-> 0, jf |-> 0]

Header == <<
    LoadByte(0), Equal(HCI_EVENT_PKT, 0, Jump(1, reject_idx)),
    LoadByte(1), Equal(EVT_LE_META_EVENT, 0, Jump(3, reject_idx)),
    LoadByte(3),
    Equal(EVT_LE_ADVERTISING_REPORT, Jump(5, checks_start), 0),
    Equal(EVT_LE_EXTENDED_ADVERTISING_REPORT, Jump(6, checks_start), Jump(6, reject_idx)) >>

\* The two instructions of the check at candidate offset FIRST_OFFSET + c.
Check(c, i) ==
    IF i = checks_start + 2 * c THEN LoadHalf(FIRST_OFFSET + c)
                                ELSE Equal(RUUVI_ID_BE, Jump(i, accept_idx), 0)

\* Instruction i of the program.
Instr_Mutant(i) ==
    IF i < checks_start THEN Header[i + 1]
    ELSE IF i < reject_idx - 2 THEN Check((i - checks_start) \div 2, i)
    ELSE Return(IF i = accept_idx THEN MaxWord ELSE 0)
Instr(i) ==
    IF i < checks_start THEN Header[i + 1]
    ELSE IF i < reject_idx THEN Check((i - checks_start) \div 2, i)
    ELSE Return(IF i = accept_idx THEN MaxWord ELSE 0)

-------------------------------------------------------------------------------
(* The machine. *)

TypeOK ==
    /\ pkt \in Seq(0..255)
    /\ pc \in 0..accept_idx
    /\ acc \in 0..MaxWord
    /\ verdict \in {"running", "accept", "drop"}

Init ==
    /\ pkt \in Packets
    /\ pc = 0 /\ acc = 0 /\ verdict = "running"

Load(op, width, value) ==
    LET k == Instr(pc).k IN
    /\ verdict = "running" /\ Instr(pc).op = op
    /\ IF k + width > Len(pkt) THEN verdict' = "drop" /\ UNCHANGED <<pc, acc>>
                               ELSE acc' = value /\ pc' = pc + 1 /\ UNCHANGED verdict
    /\ UNCHANGED pkt

DoLoadByte == Load("ldb", 1, Byte(pkt, Instr(pc).k))

DoLoadHalf ==
    Load("ldh", 2, 256 * Byte(pkt, Instr(pc).k) + Byte(pkt, Instr(pc).k + 1))

DoEqual ==
    LET in == Instr(pc) IN
    /\ verdict = "running" /\ in.op = "jeq"
    /\ pc' = pc + 1 + (IF acc = in.k THEN in.jt ELSE in.jf)
    /\ UNCHANGED <<pkt, acc, verdict>>

DoReturn ==
    /\ verdict = "running" /\ Instr(pc).op = "ret"
    /\ verdict' = IF Instr(pc).k = 0 THEN "drop" ELSE "accept"
    /\ UNCHANGED <<pkt, pc, acc>>

Next == DoLoadByte \/ DoLoadHalf \/ DoEqual \/ DoReturn

Spec == Init /\ [][Next]_vars

-------------------------------------------------------------------------------
\* The program accepts exactly the advertising reports, legacy or extended, with
\* the Ruuvi id at a candidate offset; in particular every patched jump lands
\* where it should although its offset is cut to a byte (hci.rs:438-454).
VerdictCorrect == verdict # "running" => (verdict = "accept" <=> Matches(pkt))
===============================================================================
