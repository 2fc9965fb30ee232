------------------------------- MODULE HciSetup -------------------------------
(***************************************************************************)
(* start_scan of the HCI backend (scanner/hci.rs) up to the point where it *)
(* spawns the reader: the system calls that prepare the two raw sockets,   *)
(* and the four commands it sends to the controller, each of which waits   *)
(* for its Command Complete event with a deadline.                         *)
(*                                                                         *)
(* The controller is shared.  It executes commands in the order in which   *)
(* they were sent and every opener of the device sees every completion, so *)
(* the command socket also receives what other programs caused.  A         *)
(* completion names the opcode of its command and not the parameters.      *)
(***************************************************************************)
EXTENDS Naturals, Sequences, FiniteSets

CONSTANTS
    OtherOps,     \* the commands another opener may send
    EventSizes,   \* how many bytes of a completion may reach the socket
    Timeout,      \* COMMAND_TIMEOUT_MS, in ticks
    QueueSize,    \* completions the command socket can hold
    MaxCommands   \* bound on the commands under way

ASSUME HciSetupAssumption ==
    /\ Timeout \in Nat \ {0} /\ QueueSize \in Nat \ {0} /\ MaxCommands \in Nat \ {0}
    /\ EventSizes \subseteq Nat

VARIABLES
    phase,          \* "open", "send", "wait", "wrap", then "scanning" or "failed"
    step,           \* the current command
    mode,           \* the command set start_scan uses
    left,           \* time until the deadline of read_command_complete, 0 outside it
    failure,        \* why start_scan returned an error
    cmd_fd,         \* completions waiting in the command socket
    commands,       \* commands on their way to the controller
    supported,      \* the controller has LE Extended Advertising
    extended_mode,  \* the controller has been put into extended mode
    scanning,       \* the controller is scanning
    confirmed,      \* history: own commands the controller has executed with success
    disturbed       \* history: another program has sent one of start_scan's commands

hostVars == <<phase, step, mode, left, failure>>
controllerVars == <<supported, extended_mode, scanning>>
historyVars == <<confirmed, disturbed>>
vars == <<hostVars, cmd_fd, commands, controllerVars, historyVars>>

\* A command: its set and its OCF, and the first parameter of a scan enable.
Sets == {"legacy", "extended"}
Features == [set |-> "both", ocf |-> "features", enable |-> FALSE]
Params(set) == [set |-> set, ocf |-> "params", enable |-> FALSE]
ScanEnable(set, enable) == [set |-> set, ocf |-> "enable", enable |-> enable]
Ops == {Features} \cup {Params(s) : s \in Sets} \cup {ScanEnable(s, e) : s \in Sets, e \in BOOLEAN}

\* Switching scanning on and off have one opcode: the parameters are not in it.
Opcode(op) == <<op.set, op.ocf>>

\* A command that switches scanning, sets its parameters or asks for the
\* features is one that start_scan could have sent.
ASSUME OtherOpsAssumption ==
    /\ OtherOps \subseteq [set : STRING, ocf : STRING, enable : BOOLEAN]
    /\ \A op \in OtherOps : op.ocf \in {"features", "params", "enable"} => op \in Ops

\* The commands of start_scan: first the feature query, then the three commands
\* of configure_legacy_le_scan or configure_extended_le_scan.
Script_Mutant == <<Features, Params(mode), ScanEnable(mode, TRUE)>>
Script == <<Features, ScanEnable(mode, FALSE), Params(mode), ScanEnable(mode, TRUE)>>

Statuses == {"ok", "disallowed", "unknown"}
Completion ==
    [opcode : {Opcode(op) : op \in Ops \cup OtherOps}, status : Statuses, extended : BOOLEAN,
     bytes : EventSizes]

TypeOK ==
    /\ phase \in {"open", "send", "wait", "wrap", "scanning", "failed"}
    /\ step \in 1..Len(Script)
    /\ mode \in Sets
    /\ left \in 0..Timeout
    /\ failure \in {"none", "syscall", "timeout", "truncated", "status"}
    /\ cmd_fd \in Seq(Completion) /\ Len(cmd_fd) <= QueueSize
    /\ commands \in Seq([op : Ops \cup OtherOps, own : 0..Len(Script)])
    /\ Len(commands) <= MaxCommands + Len(Script)
    /\ supported \in BOOLEAN /\ extended_mode \in BOOLEAN /\ scanning \in BOOLEAN
    /\ confirmed \subseteq 1..Len(Script)
    /\ disturbed \in BOOLEAN

\* The controller may already be scanning, or be in extended mode: another program
\* uses it, or an earlier run of this one, which never turns scanning off when it
\* ends.
Init ==
    /\ phase = "open" /\ step = 1
    /\ mode = "legacy"
    /\ left = 0
    /\ failure = "none"
    /\ cmd_fd = <<>> /\ commands = <<>>
    /\ supported \in BOOLEAN /\ scanning \in BOOLEAN
    /\ extended_mode \in {FALSE, supported}
    /\ confirmed = {} /\ disturbed = FALSE

-------------------------------------------------------------------------------
(* The program. *)

\* start_scan returns an error: cmd_fd is closed, and the deadline is gone.
Fail(why) ==
    /\ phase' = "failed"
    /\ failure' = why
    /\ cmd_fd' = <<>> /\ left' = 0
    /\ UNCHANGED <<step, mode, commands, controllerVars, historyVars>>

\* Both sockets are opened, bound and given their filters; nothing of another
\* program reaches cmd_fd before the last of these calls.
OpenSockets ==
    /\ phase = "open"
    /\ phase' = "send"
    /\ UNCHANGED <<step, mode, left, failure, cmd_fd, commands, controllerVars, historyVars>>

\* Any system call may fail: the socket calls, the write of a command, the poll
\* and the read that wait for its completion, and AsyncFd::new.
SysCallFails ==
    /\ phase \in {"open", "send", "wait", "wrap"}
    /\ Fail("syscall")

\* send_hci_command, and the deadline read_command_complete starts with.
SendCommand ==
    /\ phase = "send"
    /\ commands' = Append(commands, [op |-> Script[step], own |-> step])
    /\ phase' = "wait"
    /\ left' = Timeout
    /\ UNCHANGED <<step, mode, failure, cmd_fd, controllerVars, historyVars>>

\* read_command_complete takes an event while the deadline has not passed.
EventWaits == phase = "wait" /\ left > 0 /\ cmd_fd # <<>>
ReadEvent ==
    /\ EventWaits
    /\ cmd_fd' = Tail(cmd_fd)
    /\ UNCHANGED <<commands, controllerVars, historyVars>>

\* Byte 6 of a completion is the status, byte 8 the one with the feature bit.
HasOpcode(c) == c.bytes >= 6
HasStatus(c) == c.bytes > 6
SaysExtended(c) == c.bytes > 8 /\ c.extended

IsReply_Mutant(c) == TRUE
IsReply(c) == HasOpcode(c) /\ c.opcode = Opcode(Script[step])

SkipEvent_Mutant ==
    /\ ReadEvent
    /\ ~IsReply(Head(cmd_fd))
    /\ left' = Timeout
    /\ UNCHANGED <<phase, step, mode, failure>>

\* The completion of another command: the deadline stays where it was.
SkipEvent ==
    /\ ReadEvent
    /\ ~IsReply(Head(cmd_fd))
    /\ UNCHANGED hostVars

CommandOk ==
    LET c == Head(cmd_fd) IN
    /\ ReadEvent
    /\ IsReply(c) /\ HasStatus(c) /\ c.status = "ok"
    /\ mode' = IF step = 1 /\ SaysExtended(c) THEN "extended" ELSE mode
    /\ IF step = Len(Script) THEN phase' = "wrap" /\ step' = step
                             ELSE phase' = "send" /\ step' = step + 1
    /\ left' = 0
    /\ UNCHANGED failure

CommandTruncated ==
    /\ EventWaits
    /\ IsReply(Head(cmd_fd)) /\ ~HasStatus(Head(cmd_fd))
    /\ Fail("truncated")

CommandRefused ==
    /\ EventWaits
    /\ IsReply(Head(cmd_fd)) /\ HasStatus(Head(cmd_fd)) /\ Head(cmd_fd).status # "ok"
    /\ Fail("status")

TimedOut_Mutant ==
    /\ phase = "wait" /\ left = 0
    /\ phase' = "send"
    /\ UNCHANGED <<step, mode, left, failure, cmd_fd, commands, controllerVars, historyVars>>

TimedOut ==
    /\ phase = "wait" /\ left = 0
    /\ Fail("timeout")

\* AsyncFd::new, then the reader is spawned and start_scan returns Ok.
WrapOk ==
    /\ phase = "wrap"
    /\ phase' = "scanning"
    /\ UNCHANGED <<step, mode, left, failure, cmd_fd, commands, controllerVars, historyVars>>

-------------------------------------------------------------------------------
(* The controller, the other opener, and time. *)

\* It refuses extended commands that it does not know, legacy commands in
\* extended mode (hci.rs:670-672), and scan parameters while it scans (hci.rs:618).
Status(op) ==
    IF op.set = "extended" /\ ~supported THEN "unknown"
    ELSE IF (op.set = "legacy" /\ extended_mode) \/ (op.ocf = "params" /\ scanning) THEN "disallowed"
    ELSE "ok"

Executed(op) ==
    /\ scanning' = IF op.ocf = "enable" THEN op.enable ELSE scanning
    /\ extended_mode' = (extended_mode \/ op.set = "extended")

\* Every opener whose filter lets Command Complete events through receives the
\* completion, or as many bytes of it as arrive, unless its socket is full.
ControllerExecutes(n) ==
    LET c == Head(commands)
        s == Status(c.op) IN
    /\ commands # <<>>
    /\ commands' = Tail(commands)
    /\ IF s = "ok" THEN Executed(c.op) ELSE UNCHANGED <<scanning, extended_mode>>
    /\ confirmed' = IF s = "ok" /\ c.own # 0 THEN confirmed \cup {c.own} ELSE confirmed
    /\ cmd_fd' = IF phase \in {"open", "failed"} \/ Len(cmd_fd) = QueueSize THEN cmd_fd
                 ELSE Append(cmd_fd, [opcode |-> Opcode(c.op), status |-> s,
                                      extended |-> supported, bytes |-> n])
    /\ UNCHANGED <<hostVars, supported, disturbed>>

OtherSends(op) ==
    /\ Len(commands) < MaxCommands
    /\ commands' = Append(commands, [op |-> op, own |-> 0])
    /\ disturbed' = (disturbed \/ op \in Ops)
    /\ UNCHANGED <<hostVars, cmd_fd, controllerVars, confirmed>>

Tick ==
    /\ phase = "wait" /\ left > 0
    /\ left' = left - 1
    /\ UNCHANGED <<phase, step, mode, failure, cmd_fd, commands, controllerVars, historyVars>>

Returned == phase \in {"scanning", "failed"} /\ UNCHANGED vars

\* What start_scan does as long as the kernel does what it is asked for.
Program ==
    \/ OpenSockets \/ SendCommand \/ SkipEvent
    \/ CommandOk \/ CommandTruncated \/ CommandRefused \/ TimedOut \/ WrapOk

Next ==
    \/ Program \/ SysCallFails
    \/ \E n \in EventSizes : ControllerExecutes(n)
    \/ \E op \in OtherOps : OtherSends(op)
    \/ Tick
    \/ Returned

Spec == Init /\ [][Next]_vars

\* The program runs and time passes; the controller need not answer, and no
\* system call has to fail.
FairSpec == Spec /\ WF_vars(Program) /\ WF_vars(Tick)

-------------------------------------------------------------------------------
(* Properties. *)

\* start_scan gets past a command only if the controller has executed that very
\* command with success; completions of other openers do not count
\* (hci.rs:501-505, 558-562).
EveryCommandConfirmed ==
    /\ phase \in {"send", "wait"} => 1..(step - 1) \subseteq confirmed
    /\ phase \in {"wrap", "scanning"} => confirmed = 1..Len(Script)

\* The same, as long as no other program sends one of start_scan's commands:
\* completions of other commands are never taken for ours (hci.rs:504-505).
ConfirmedUndisturbed == ~disturbed => EveryCommandConfirmed

\* Whatever other programs switch on and off, start_scan never returns Ok with
\* scan parameters that are not its own (hci.rs:616-642).
ParamsInForce == phase = "scanning" => 3 \in confirmed

\* start_scan returns Ok only while the controller really scans, unless another
\* program switches scanning: the silent "no events ever arrive" failure cannot
\* happen (hci.rs:560-562).
OkMeansScanning == phase = "scanning" /\ ~disturbed => scanning

\* Without another opener that changes the scan, no command is refused, even if
\* the controller was already scanning (hci.rs:618-622), was put into extended mode
\* before (670-672), or knows no extended commands (589-593).  The one exception
\* is a controller that has them but whose answer to the query stops before the
\* byte that says so (600-603).
NeverRefused == ~disturbed /\ failure = "status" => supported /\ mode = "legacy" /\ step > 1

\* start_scan ends, however many completions of other commands keep coming and
\* whether or not the controller answers, also if no system call ever fails
\* (hci.rs:504, 507-516).
SetupEnds == <>(phase \in {"scanning", "failed"})
===============================================================================
