------------------------------ MODULE MCHciSetup ------------------------------
(* Instances of HciSetup for TLC. *)
EXTENDS HciSetup

\* Another program that sends commands start_scan never sends.
Unrelated == {[set |-> "both", ocf |-> "other", enable |-> FALSE]}

\* Other programs that start and stop scanning, as bluetoothd does: an old one
\* with the legacy commands, and one with the extended commands.
Scanners == {ScanEnable("legacy", e) : e \in BOOLEAN} \cup {ScanEnable("extended", TRUE)}

Others == Unrelated \cup Scanners

\* No opcode, no status, no feature bits, or all of them.
MCEventSizes == {5, 6, 7, 9}
===============================================================================
