------------------------------- MODULE HciFormat -------------------------------
(***************************************************************************)
(* The constants of scanner/hci.rs that the kernel filter and the parser   *)
(* share, and what the filter is meant to let through.  A packet is a      *)
(* sequence of bytes; Byte(p, i) is the byte at the source's offset i.     *)
(***************************************************************************)
EXTENDS Integers, Sequences

CONSTANTS FIRST_OFFSET, LAST_OFFSET   \* the candidate offsets of set_bpf_ruuvi_filter

ASSUME OffsetAssumption ==
    /\ FIRST_OFFSET \in Nat /\ LAST_OFFSET \in Nat
    /\ 4 <= FIRST_OFFSET /\ FIRST_OFFSET <= LAST_OFFSET

HCI_EVENT_PKT == 4
EVT_LE_META_EVENT == 62
EVT_LE_ADVERTISING_REPORT == 2
EVT_LE_EXTENDED_ADVERTISING_REPORT == 13
RUUVI_LO == 153
RUUVI_HI == 4

Byte(p, i) == p[i + 1]

\* The manufacturer id stands at offset i of p (low byte first).
IdAt(p, i) == Byte(p, i) = RUUVI_LO /\ Byte(p, i + 1) = RUUVI_HI

\* might_be_ruuvi: the id stands somewhere in p.
MightBeRuuvi(p) == \E i \in 0..(Len(p) - 2) : IdAt(p, i)

IsReportEvent(p) ==
    /\ Len(p) >= 4
    /\ Byte(p, 0) = HCI_EVENT_PKT
    /\ Byte(p, 1) = EVT_LE_META_EVENT
    /\ Byte(p, 3) \in {EVT_LE_ADVERTISING_REPORT, EVT_LE_EXTENDED_ADVERTISING_REPORT}

\* What the kernel filter is meant to accept: an advertising report with the id
\* at one of the candidate offsets.
Matches_Mutant(p) ==
    /\ IsReportEvent(p)
    /\ \E i \in FIRST_OFFSET..(LAST_OFFSET - 20) : i + 2 <= Len(p) /\ IdAt(p, i)
Matches(p) ==
    /\ IsReportEvent(p)
    /\ \E i \in FIRST_OFFSET..LAST_OFFSET : i + 2 <= Len(p) /\ IdAt(p, i)
===============================================================================
