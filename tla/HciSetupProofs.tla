---------------------------- MODULE HciSetupProofs ----------------------------
(***************************************************************************)
(* Theorems about HciSetup for every timeout, socket size and set of       *)
(* commands that other programs send.  A completion names an opcode only,  *)
(* and scanning is switched off and on under the same one: the invariant   *)
(* says why start_scan nevertheless does not mix its own commands up.  At  *)
(* most one of them is under way, as a command or as a completion.         *)
(***************************************************************************)
EXTENDS HciSetup, SequenceTheorems, TLAPS

\* The opcodes of the commands that start_scan may send.
OwnOpcodes == {Opcode(op) : op \in Ops}

\* What the host and the controller agree on, whoever else sends.
Known ==
    /\ mode = "extended" => supported
    /\ extended_mode => supported
    /\ \A i \in DOMAIN cmd_fd : cmd_fd[i].extended = supported

\* The controller has extended advertising, but start_scan was not told.
Misjudged == supported /\ mode = "legacy" /\ step > 1

\* At most one own command is on its way to the controller: the current one,
\* which has neither been executed nor answered.
OneUnderWay ==
    /\ \A i, j \in DOMAIN commands : commands[i].own # 0 /\ commands[j].own # 0 => i = j
    /\ \A i \in DOMAIN commands :
          commands[i].own # 0 =>
              /\ phase \in {"wait", "failed"} /\ step \notin confirmed
              /\ commands[i].op = Script[step] /\ commands[i].own = step
              /\ \A j \in DOMAIN cmd_fd : cmd_fd[j].opcode \notin OwnOpcodes

\* At most one completion with an opcode of start_scan waits, that of the current
\* command, and its status is true.
OneAnswered ==
    /\ \A i, j \in DOMAIN cmd_fd :
          cmd_fd[i].opcode \in OwnOpcodes /\ cmd_fd[j].opcode \in OwnOpcodes => i = j
    /\ \A i \in DOMAIN cmd_fd :
          cmd_fd[i].opcode \in OwnOpcodes =>
              /\ phase = "wait"
              /\ IF cmd_fd[i].status = "ok" THEN step \in confirmed ELSE Misjudged

\* The controller has executed what start_scan got past, and no more than what
\* it sent; between the second and the fourth command it does not scan.
Progress ==
    /\ phase \in {"open", "send"} => confirmed = 1..(step - 1)
    /\ phase \in {"wait", "failed"} => 1..(step - 1) \subseteq confirmed /\ confirmed \subseteq 1..step
    /\ phase \in {"wrap", "scanning"} => step = 4 /\ confirmed = 1..4
    /\ 4 \in confirmed => scanning
    /\ 2 \in confirmed /\ 4 \notin confirmed => ~scanning

\* The commands of other programs are not ones that start_scan sends.
Unrelated == \A i \in DOMAIN commands : commands[i].own = 0 => commands[i].op \notin Ops

\* What holds without another program that sends such commands.
Undisturbed ==
    /\ Unrelated
    /\ OneUnderWay /\ OneAnswered /\ Progress
    /\ failure = "status" => Misjudged

SetupInv == Known /\ (~disturbed => Undisturbed)

\* How many commands are under way.
Room ==
    /\ phase = "open" => Len(commands) <= MaxCommands
    /\ phase = "send" => Len(commands) <= MaxCommands + step - 1
    /\ phase = "wait" => Len(commands) <= MaxCommands + step
    /\ Len(commands) <= MaxCommands + 4

\* If nobody else sets parameters, a completion that says so is about ours.
ParamsInv ==
    /\ \A i \in DOMAIN commands : commands[i].op.ocf = "params" => commands[i].own = 3
    /\ \A i \in DOMAIN cmd_fd :
          cmd_fd[i].opcode[2] = "params" /\ cmd_fd[i].status = "ok" => 3 \in confirmed
    /\ phase \in {"send", "wait"} /\ step > 3 => 3 \in confirmed
    /\ phase \in {"wrap", "scanning"} => 3 \in confirmed

------------------------------------------------------------------------------
(* The script, the opcodes, and the two moves of a queue. *)

LEMMA ScriptLength == Len(Script) = 4 /\ Len(Script)' = 4
  BY DEF Script

LEMMA InOps ==
    /\ Features \in Ops
    /\ \A s \in Sets : Params(s) \in Ops
    /\ \A s \in Sets, e \in BOOLEAN : ScanEnable(s, e) \in Ops
  <1>1. Features \in {Features}
    OBVIOUS
  <1>2. \A s \in Sets : Params(s) \in {Params(t) : t \in Sets}
    OBVIOUS
  <1>3. ASSUME NEW s \in Sets, NEW e \in BOOLEAN
        PROVE  ScanEnable(s, e) \in {ScanEnable(t, b) : t \in Sets, b \in BOOLEAN}
    OBVIOUS
  <1>4. QED
    BY <1>1, <1>2, <1>3 DEF Ops

LEMMA ScriptFacts ==
    ASSUME mode \in Sets
    PROVE  /\ DOMAIN Script = 1..4
           /\ Script[1] = Features /\ Script[2] = ScanEnable(mode, FALSE)
           /\ Script[3] = Params(mode) /\ Script[4] = ScanEnable(mode, TRUE)
           /\ \A k \in 1..4 : Script[k] \in Ops /\ (Script[k].ocf = "params" <=> k = 3)
  <1>1. /\ DOMAIN Script = 1..4
        /\ Script[1] = Features /\ Script[2] = ScanEnable(mode, FALSE)
        /\ Script[3] = Params(mode) /\ Script[4] = ScanEnable(mode, TRUE)
    BY DEF Script
  <1>2. Features \in Ops /\ Params(mode) \in Ops
        /\ ScanEnable(mode, FALSE) \in Ops /\ ScanEnable(mode, TRUE) \in Ops
    BY InOps
  <1>3. Features.ocf # "params" /\ Params(mode).ocf = "params"
        /\ \A e \in BOOLEAN : ScanEnable(mode, e).ocf # "params"
    BY DEF Features, Params, ScanEnable
  <1>4. \A k \in 1..4 : k = 1 \/ k = 2 \/ k = 3 \/ k = 4
    OBVIOUS
  <1>5. QED
    BY <1>1, <1>2, <1>3, <1>4

\* What a command of start_scan can be.
LEMMA OwnOps == \A op \in Ops : op.ocf \in {"features", "params", "enable"} /\ Opcode(op) \in OwnOpcodes
  <1>1. ASSUME NEW op \in Ops PROVE op.ocf \in {"features", "params", "enable"}
    BY DEF Ops, Features, Params, ScanEnable
  <1>2. QED
    BY <1>1 DEF OwnOpcodes

LEMMA OpTyped == \A op \in Ops \cup OtherOps : op.enable \in BOOLEAN
  <1>1. ASSUME NEW op \in Ops PROVE op.enable \in BOOLEAN
    <2>1. CASE op = Features
      <3>1. op.enable = FALSE
        BY <2>1 DEF Features
      <3>2. QED
        BY <3>1, Zenon
    <2>2. ASSUME NEW s \in Sets, op = Params(s) PROVE op.enable \in BOOLEAN
      <3>1. op.enable = FALSE
        BY <2>2 DEF Params
      <3>2. QED
        BY <3>1, Zenon
    <2>3. ASSUME NEW s \in Sets, NEW e \in BOOLEAN, op = ScanEnable(s, e) PROVE op.enable \in BOOLEAN
      <3>1. op.enable = e
        BY <2>3, Zenon DEF ScanEnable
      <3>2. QED
        BY <3>1, Zenon
    <2>4. QED
      BY <2>1, <2>2, <2>3 DEF Ops
  <1>2. ASSUME NEW op \in OtherOps PROVE op.enable \in BOOLEAN
    BY OtherOpsAssumption
  <1>3. QED
    BY <1>1, <1>2

\* Another program's command has an opcode of ours only if it is one of ours.
LEMMA OtherOpcode ==
    ASSUME NEW op \in OtherOps, op \notin Ops
    PROVE  /\ Opcode(op) \notin OwnOpcodes
           /\ op.ocf \notin {"features", "params", "enable"}
  <1>1. op.ocf \notin {"features", "params", "enable"}
    BY OtherOpsAssumption
  <1>2. ASSUME NEW o \in Ops, Opcode(op) = Opcode(o) PROVE FALSE
    <2>1. op.ocf = o.ocf
      BY <1>2 DEF Opcode
    <2>2. QED
      BY <1>1, <2>1, OwnOps
  <1>3. QED
    BY <1>1, <1>2 DEF OwnOpcodes

LEMMA TailFacts ==
    ASSUME NEW S, NEW q \in Seq(S), q # <<>>
    PROVE  /\ Head(q) = q[1] /\ 1 \in DOMAIN q /\ Tail(q) \in Seq(S) /\ Head(q) \in S
           /\ Len(Tail(q)) = Len(q) - 1
           /\ \A i \in DOMAIN Tail(q) : i \in Nat \ {0} /\ i + 1 \in DOMAIN q /\ Tail(q)[i] = q[i + 1]
  OBVIOUS

LEMMA AppendFacts ==
    ASSUME NEW S, NEW q \in Seq(S), NEW x \in S
    PROVE  /\ Append(q, x) \in Seq(S)
           /\ Len(Append(q, x)) = Len(q) + 1
           /\ \A i \in DOMAIN Append(q, x) :
                 \/ i \in DOMAIN q /\ Append(q, x)[i] = q[i]
                 \/ i = Len(q) + 1 /\ i \notin DOMAIN q /\ Append(q, x)[i] = x
           /\ DOMAIN q = 1..Len(q) /\ Len(q) \in Nat
  OBVIOUS

LEMMA EmptyQueue == \A S : <<>> \in Seq(S) /\ Len(<<>>) = 0 /\ DOMAIN <<>> = {}
  OBVIOUS

------------------------------------------------------------------------------
(* Types. *)

Command == [op : Ops \cup OtherOps, own : 0..4]

\* TypeOK without the flags and with Room.
SetupTyped ==
    /\ phase \in {"open", "send", "wait", "wrap", "scanning", "failed"}
    /\ step \in 1..4 /\ mode \in Sets /\ left \in 0..Timeout
    /\ failure \in {"none", "syscall", "timeout", "truncated", "status"}
    /\ cmd_fd \in Seq(Completion) /\ Len(cmd_fd) <= QueueSize
    /\ commands \in Seq(Command)
    /\ confirmed \subseteq 1..4
    /\ phase = "open" => step = 1
    /\ Room

Flags ==
    supported \in BOOLEAN /\ extended_mode \in BOOLEAN /\ scanning \in BOOLEAN /\ disturbed \in BOOLEAN

\* The steps that neither send nor execute a command.
Quiet ==
    \/ OpenSockets \/ SysCallFails \/ SkipEvent \/ CommandOk \/ CommandTruncated \/ CommandRefused
    \/ TimedOut \/ WrapOk \/ Tick \/ Returned \/ UNCHANGED vars

LEMMA StepCases ==
    ASSUME [Next]_vars
    PROVE  \/ Quiet \/ SendCommand
           \/ \E n \in EventSizes : ControllerExecutes(n)
           \/ \E op \in OtherOps : OtherSends(op)
  BY DEF Next, Program, Quiet

LEMMA QuietFacts ==
    ASSUME Quiet
    PROVE  UNCHANGED <<commands, supported, extended_mode, scanning, confirmed, disturbed>>
  BY DEF Quiet, OpenSockets, SysCallFails, SkipEvent, CommandOk, CommandTruncated, CommandRefused, Fail,
         ReadEvent, TimedOut, WrapOk, Tick, Returned, vars, controllerVars, historyVars

\* The ways in which start_scan fails.
Fails == \E why \in {"syscall", "timeout", "truncated", "status"} : Fail(why)

LEMMA QuietCases ==
    ASSUME Quiet
    PROVE  OpenSockets \/ Fails \/ SkipEvent \/ CommandOk \/ WrapOk \/ UNCHANGED <<phase, step, mode, failure, cmd_fd>>
  BY DEF Quiet, Fails, SysCallFails, CommandTruncated, CommandRefused, TimedOut, Tick, Returned, vars, hostVars

LEMMA FlagsStay ==
    ASSUME SetupTyped, Flags, [Next]_vars
    PROVE  Flags'
  <1>1. CASE Quiet
    BY <1>1, QuietFacts DEF Flags
  <1>2. CASE SendCommand
    BY <1>2 DEF SendCommand, Flags, controllerVars, historyVars
  <1>3. ASSUME NEW n \in EventSizes, ControllerExecutes(n)
        PROVE  Flags'
    <2>1. supported' = supported /\ disturbed' = disturbed
      BY <1>3 DEF ControllerExecutes
    <2>2. CASE UNCHANGED <<scanning, extended_mode>>
      BY <2>1, <2>2 DEF Flags
    <2>3. CASE Executed(Head(commands).op)
      <3>1. extended_mode' \in BOOLEAN
        BY <2>3, Zenon DEF Executed, Flags
      <3>2. commands \in Seq(Command) /\ commands # <<>>
        BY <1>3 DEF ControllerExecutes, SetupTyped
      <3>3. Head(commands) \in Command
        BY <3>2, TailFacts
      <3>4. Head(commands).op.enable \in BOOLEAN
        BY <3>3, OpTyped DEF Command
      <3>5. scanning' \in BOOLEAN
        BY <2>3, <3>4 DEF Executed, Flags
      <3>6. QED
        BY <2>1, <3>1, <3>5 DEF Flags
    <2>4. QED
      BY <1>3, <2>2, <2>3 DEF ControllerExecutes
  <1>4. ASSUME NEW op \in OtherOps, OtherSends(op)
        PROVE  Flags'
    <2>1. disturbed' \in BOOLEAN /\ UNCHANGED <<supported, extended_mode, scanning>>
      BY <1>4, Zenon DEF OtherSends, Flags, controllerVars
    <2>2. QED
      BY <2>1 DEF Flags
  <1>5. QED
    BY <1>1, <1>2, <1>3, <1>4, StepCases

LEMMA TypedIsTypeOK == SetupTyped /\ Flags => TypeOK
  BY ScriptLength DEF SetupTyped, Flags, TypeOK, Command, Room

LEMMA InitTyped == Init => SetupTyped /\ Flags
  <1>1. Timeout \in Nat /\ QueueSize \in Nat /\ MaxCommands \in Nat
    BY HciSetupAssumption
  <1>2. ASSUME Init PROVE SetupTyped
    BY <1>1, <1>2, EmptyQueue DEF Init, SetupTyped, Room, Sets
  <1>3. ASSUME Init PROVE Flags
    <2>1. supported \in BOOLEAN /\ scanning \in BOOLEAN /\ disturbed = FALSE
      BY <1>3 DEF Init
    <2>2. extended_mode \in BOOLEAN
      BY <1>3, <2>1, Zenon DEF Init
    <2>3. QED
      BY <2>1, <2>2 DEF Flags
  <1>4. QED
    BY <1>2, <1>3

\* What the head of the socket's queue is, and what a read leaves.
LEMMA ReadFacts ==
    ASSUME SetupTyped, cmd_fd # <<>>
    PROVE  /\ Head(cmd_fd) = cmd_fd[1] /\ 1 \in DOMAIN cmd_fd /\ Head(cmd_fd) \in Completion
           /\ Tail(cmd_fd) \in Seq(Completion) /\ Len(Tail(cmd_fd)) = Len(cmd_fd) - 1
           /\ \A i \in DOMAIN Tail(cmd_fd) :
                 i \in Nat \ {0} /\ i + 1 \in DOMAIN cmd_fd /\ Tail(cmd_fd)[i] = cmd_fd[i + 1]
  BY TailFacts DEF SetupTyped

\* An accepted command: what changes in the program.
LEMMA OkFacts ==
    ASSUME SetupTyped, CommandOk
    PROVE  /\ cmd_fd # <<>> /\ cmd_fd' = Tail(cmd_fd) /\ phase = "wait" /\ left' = 0
           /\ Head(cmd_fd).opcode = Opcode(Script[step]) /\ Head(cmd_fd).status = "ok"
           /\ \/ phase' = "wrap" /\ step' = step /\ step = 4
              \/ phase' = "send" /\ step' = step + 1 /\ step # 4
           /\ mode' = mode \/ (mode' = "extended" /\ step = 1 /\ Head(cmd_fd).extended)
           /\ failure' = failure
  BY ScriptLength DEF CommandOk, ReadEvent, EventWaits, IsReply, SaysExtended

\* The command at the head of the controller's queue, and its completion.
Reply(n) == [opcode |-> Opcode(commands[1].op), status |-> Status(commands[1].op),
             extended |-> supported, bytes |-> n]

LEMMA ExecuteFacts ==
    ASSUME SetupTyped, Flags, NEW n \in EventSizes, ControllerExecutes(n)
    PROVE  /\ 1 \in DOMAIN commands /\ commands[1] \in Command
           /\ commands' \in Seq(Command) /\ Len(commands') = Len(commands) - 1 /\ Len(commands) \in Nat
           /\ \A i \in DOMAIN commands' :
                 i \in Nat \ {0} /\ i + 1 \in DOMAIN commands /\ commands'[i] = commands[i + 1]
           /\ Reply(n) \in Completion
           /\ \/ cmd_fd' = cmd_fd
              \/ /\ cmd_fd' = Append(cmd_fd, Reply(n)) /\ Len(cmd_fd) # QueueSize
                 /\ phase \notin {"open", "failed"}
           /\ \/ /\ Status(commands[1].op) = "ok" /\ Executed(commands[1].op)
                 /\ confirmed' = IF commands[1].own # 0 THEN confirmed \cup {commands[1].own} ELSE confirmed
              \/ Status(commands[1].op) # "ok" /\ UNCHANGED <<scanning, extended_mode, confirmed>>
           /\ UNCHANGED <<phase, step, mode, left, failure, supported, disturbed>>
  <1>1. /\ 1 \in DOMAIN commands /\ Head(commands) = commands[1] /\ commands[1] \in Command
        /\ commands' \in Seq(Command) /\ Len(commands') = Len(commands) - 1 /\ Len(commands) \in Nat
        /\ \A i \in DOMAIN commands' :
              i \in Nat \ {0} /\ i + 1 \in DOMAIN commands /\ commands'[i] = commands[i + 1]
    BY TailFacts DEF ControllerExecutes, SetupTyped
  <1>2. Reply(n) \in Completion
    <2>1. commands[1].op \in Ops \cup OtherOps
      BY <1>1 DEF Command
    <2>2. Opcode(commands[1].op) \in {Opcode(op) : op \in Ops \cup OtherOps}
      BY <2>1
    <2>3. Status(commands[1].op) \in Statuses
      BY DEF Status, Statuses
    <2>4. supported \in BOOLEAN
      BY DEF Flags
    <2>5. QED
      BY <2>2, <2>3, <2>4 DEF Reply, Completion
  <1>3. \/ cmd_fd' = cmd_fd
        \/ /\ cmd_fd' = Append(cmd_fd, Reply(n)) /\ Len(cmd_fd) # QueueSize
           /\ phase \notin {"open", "failed"}
    BY <1>1 DEF ControllerExecutes, Reply
  <1>4. \/ /\ Status(commands[1].op) = "ok" /\ Executed(commands[1].op)
           /\ confirmed' = IF commands[1].own # 0 THEN confirmed \cup {commands[1].own} ELSE confirmed
        \/ Status(commands[1].op) # "ok" /\ UNCHANGED <<scanning, extended_mode, confirmed>>
    BY <1>1 DEF ControllerExecutes
  <1>5. UNCHANGED <<phase, step, mode, left, failure, supported, disturbed>>
    BY DEF ControllerExecutes, hostVars
  <1>6. QED
    BY <1>1, <1>2, <1>3, <1>4, <1>5

LEMMA SendFacts ==
    ASSUME SetupTyped, SendCommand
    PROVE  /\ step \in 1..4 /\ phase = "send" /\ phase' = "wait" /\ left' = Timeout
           /\ UNCHANGED <<step, mode, failure, cmd_fd, supported, extended_mode, scanning, confirmed, disturbed>>
           /\ commands' \in Seq(Command) /\ Len(commands') = Len(commands) + 1 /\ Len(commands) \in Nat
           /\ \A i \in DOMAIN commands' :
                 \/ i \in DOMAIN commands /\ commands'[i] = commands[i]
                 \/ i = Len(commands) + 1 /\ i \notin DOMAIN commands
                    /\ commands'[i] = [op |-> Script[step], own |-> step]
  <1>1. step \in 1..4 /\ [op |-> Script[step], own |-> step] \in Command
    BY ScriptFacts DEF SendCommand, SetupTyped, Command
  <1>2. commands \in Seq(Command)
    BY DEF SetupTyped
  <1>3. /\ phase = "send" /\ phase' = "wait" /\ left' = Timeout
        /\ UNCHANGED <<step, mode, failure, cmd_fd, supported, extended_mode, scanning, confirmed, disturbed>>
        /\ commands' = Append(commands, [op |-> Script[step], own |-> step])
    BY DEF SendCommand, controllerVars, historyVars
  <1>4. QED
    BY <1>1, <1>2, <1>3, AppendFacts

LEMMA OtherFacts ==
    ASSUME SetupTyped, NEW op \in OtherOps, OtherSends(op)
    PROVE  /\ UNCHANGED <<phase, step, mode, left, failure, cmd_fd, supported, extended_mode, scanning, confirmed>>
           /\ commands' \in Seq(Command) /\ Len(commands') = Len(commands) + 1 /\ Len(commands) \in Nat
           /\ Len(commands) < MaxCommands
           /\ \A i \in DOMAIN commands' :
                 \/ i \in DOMAIN commands /\ commands'[i] = commands[i]
                 \/ i \notin DOMAIN commands /\ commands'[i] = [op |-> op, own |-> 0]
  <1>1. [op |-> op, own |-> 0] \in Command
    BY DEF Command
  <1>2. commands \in Seq(Command)
    BY DEF SetupTyped
  <1>3. /\ UNCHANGED <<phase, step, mode, left, failure, cmd_fd, supported, extended_mode, scanning, confirmed>>
        /\ commands' = Append(commands, [op |-> op, own |-> 0]) /\ Len(commands) < MaxCommands
    BY DEF OtherSends, hostVars, controllerVars
  <1>4. QED
    BY <1>1, <1>2, <1>3, AppendFacts

LEMMA NextTyped ==
    ASSUME SetupTyped, Flags, [Next]_vars
    PROVE  SetupTyped'
  <1>1. /\ Timeout \in Nat \ {0} /\ QueueSize \in Nat \ {0} /\ MaxCommands \in Nat \ {0}
        /\ Len(commands) \in Nat /\ Len(cmd_fd) \in Nat
    BY HciSetupAssumption DEF SetupTyped
  <1>2. CASE Quiet
    <2>1. commands' = commands /\ confirmed' = confirmed
      BY <1>2, QuietFacts
    <2>2. CASE OpenSockets
      BY <1>1, <2>1, <2>2 DEF OpenSockets, SetupTyped, Room
    <2>3. CASE Fails
      BY <1>1, <2>1, <2>3, EmptyQueue DEF Fails, Fail, SetupTyped, Room
    <2>4. CASE SkipEvent
      <3>1. cmd_fd # <<>> /\ cmd_fd' = Tail(cmd_fd) /\ UNCHANGED <<phase, step, mode, left, failure>>
        BY <2>4 DEF SkipEvent, ReadEvent, EventWaits, hostVars
      <3>2. /\ Tail(cmd_fd) \in Seq(Completion) /\ Len(Tail(cmd_fd)) = Len(cmd_fd) - 1
            /\ Len(cmd_fd) <= QueueSize
        BY <3>1, ReadFacts DEF SetupTyped
      <3>3. cmd_fd' \in Seq(Completion) /\ Len(cmd_fd') <= QueueSize
        BY <1>1, <3>1, <3>2
      <3>4. QED
        BY <2>1, <3>1, <3>3 DEF SetupTyped, Room
    <2>5. CASE CommandOk
      <3>1. /\ Tail(cmd_fd) \in Seq(Completion) /\ Len(Tail(cmd_fd)) = Len(cmd_fd) - 1
            /\ Len(cmd_fd) <= QueueSize /\ cmd_fd' = Tail(cmd_fd)
        BY <2>5, OkFacts, ReadFacts DEF SetupTyped
      <3>2. cmd_fd' \in Seq(Completion) /\ Len(cmd_fd') <= QueueSize
        BY <1>1, <3>1
      <3>3. /\ left' = 0 /\ failure' = failure /\ phase = "wait"
            /\ \/ phase' = "wrap" /\ step' = step /\ step = 4
               \/ phase' = "send" /\ step' = step + 1 /\ step # 4
        BY <2>5, OkFacts, Zenon
      <3>4. mode' = mode \/ mode' = "extended"
        BY <2>5, OkFacts, Zenon
      <3>5. mode' \in Sets
        BY <3>4 DEF SetupTyped, Sets
      <3>6. step' \in 1..4 /\ left' \in 0..Timeout /\ phase' \in {"send", "wrap"}
        BY <1>1, <3>3 DEF SetupTyped
      <3>7. Room'
        BY <1>1, <2>1, <3>3 DEF SetupTyped, Room
      <3>8. QED
        BY <2>1, <3>2, <3>3, <3>5, <3>6, <3>7 DEF SetupTyped
    <2>6. CASE WrapOk
      BY <2>1, <2>6 DEF WrapOk, SetupTyped, Room
    <2>7. CASE Tick
      BY <1>1, <2>1, <2>7 DEF Tick, SetupTyped, Room
    <2>8. CASE Returned \/ UNCHANGED vars
      <3>1. UNCHANGED <<phase, step, mode, left, failure, cmd_fd>>
        BY <2>8 DEF Returned, vars, hostVars
      <3>2. QED
        BY <2>1, <3>1 DEF SetupTyped, Room
    <2>9. CASE SysCallFails \/ CommandTruncated \/ CommandRefused \/ TimedOut
      BY <2>3, <2>9 DEF SysCallFails, CommandTruncated, CommandRefused, TimedOut, Fails
    <2>10. QED
      BY <1>2, <2>2, <2>4, <2>5, <2>6, <2>7, <2>8, <2>9 DEF Quiet
  <1>3. CASE SendCommand
    <2>1. /\ step \in 1..4 /\ phase = "send" /\ phase' = "wait" /\ left' = Timeout
          /\ UNCHANGED <<step, mode, failure, cmd_fd, confirmed>>
          /\ commands' \in Seq(Command) /\ Len(commands') = Len(commands) + 1
      BY <1>3, SendFacts
    <2>2. QED
      BY <1>1, <2>1 DEF SetupTyped, Room
  <1>4. ASSUME NEW n \in EventSizes, ControllerExecutes(n)
        PROVE  SetupTyped'
    <2>1. cmd_fd' \in Seq(Completion) /\ Len(cmd_fd') <= QueueSize
      <3>1. cmd_fd \in Seq(Completion) /\ Len(cmd_fd) <= QueueSize
        BY DEF SetupTyped
      <3>2. /\ Reply(n) \in Completion
            /\ cmd_fd' = cmd_fd \/ (cmd_fd' = Append(cmd_fd, Reply(n)) /\ Len(cmd_fd) # QueueSize)
        BY <1>4, ExecuteFacts
      <3>3. CASE cmd_fd' = cmd_fd
        BY <3>1, <3>3
      <3>4. CASE cmd_fd' = Append(cmd_fd, Reply(n)) /\ Len(cmd_fd) # QueueSize
        <4>1. cmd_fd' \in Seq(Completion) /\ Len(cmd_fd') = Len(cmd_fd) + 1
          BY <3>1, <3>2, <3>4, AppendFacts
        <4>2. QED
          BY <1>1, <3>1, <3>4, <4>1
      <3>5. QED
        BY <3>2, <3>3, <3>4
    <2>2. confirmed' \subseteq 1..4
      <3>1. commands[1].own \in 0..4 /\ confirmed \subseteq 1..4
        BY <1>4, ExecuteFacts DEF Command, SetupTyped
      <3>2. confirmed' = confirmed \/ (confirmed' = confirmed \cup {commands[1].own} /\ commands[1].own # 0)
        BY <1>4, ExecuteFacts
      <3>3. ASSUME NEW k \in confirmed' PROVE k \in 1..4
        <4>1. CASE k \in confirmed
          BY <3>1, <4>1
        <4>2. CASE k = commands[1].own /\ commands[1].own # 0
          BY <3>1, <4>2
        <4>3. QED
          BY <3>2, <4>1, <4>2
      <3>4. QED
        BY <3>3
    <2>3. /\ commands' \in Seq(Command) /\ Len(commands') = Len(commands) - 1
          /\ UNCHANGED <<phase, step, mode, left, failure>>
      BY <1>4, ExecuteFacts
    <2>4. QED
      BY <1>1, <2>1, <2>2, <2>3 DEF SetupTyped, Room
  <1>5. ASSUME NEW op \in OtherOps, OtherSends(op)
        PROVE  SetupTyped'
    <2>1. /\ UNCHANGED <<phase, step, mode, left, failure, cmd_fd, confirmed>>
          /\ commands' \in Seq(Command) /\ Len(commands') = Len(commands) + 1
          /\ Len(commands) < MaxCommands
      BY <1>5, OtherFacts
    <2>2. QED
      BY <1>1, <2>1 DEF SetupTyped, Room
  <1>6. QED
    BY <1>2, <1>3, <1>4, <1>5, StepCases

LEMMA AlwaysTyped == Spec => [](SetupTyped /\ Flags)
  <1>1. SetupTyped /\ Flags /\ [Next]_vars => (SetupTyped /\ Flags)'
    BY NextTyped, FlagsStay
  <1>2. QED
    BY InitTyped, <1>1, PTL DEF Spec

\* Every variable keeps its type; at most the script's four commands are under
\* way beside the bounded ones of other programs (hci.rs:876-901).
THEOREM TypeCorrect == Spec => []TypeOK
  BY AlwaysTyped, TypedIsTypeOK, PTL

------------------------------------------------------------------------------
(* What the host and the controller agree on. *)

LEMMA KnownStep ==
    ASSUME SetupTyped, Flags, Known, [Next]_vars
    PROVE  Known'
  <1>1. CASE Quiet
    <2>1. supported' = supported /\ extended_mode' = extended_mode
      BY <1>1, QuietFacts
    <2>2. CASE OpenSockets \/ WrapOk \/ UNCHANGED <<phase, step, mode, failure, cmd_fd>>
      <3>1. mode' = mode /\ cmd_fd' = cmd_fd
        BY <2>2 DEF OpenSockets, WrapOk
      <3>2. QED
        BY <2>1, <3>1 DEF Known
    <2>3. CASE Fails
      <3>1. mode' = mode /\ cmd_fd' = <<>>
        BY <2>3 DEF Fails, Fail
      <3>2. QED
        BY <2>1, <3>1, EmptyQueue DEF Known
    <2>4. CASE SkipEvent
      <3>1. mode' = mode /\ cmd_fd' = Tail(cmd_fd) /\ cmd_fd # <<>>
        BY <2>4 DEF SkipEvent, ReadEvent, EventWaits, hostVars
      <3>2. QED
        BY <2>1, <3>1, ReadFacts DEF Known
    <2>5. CASE CommandOk
      <3>1. cmd_fd' = Tail(cmd_fd) /\ cmd_fd # <<>>
            /\ (mode' = mode \/ Head(cmd_fd).extended)
        BY <2>5, OkFacts, Zenon
      <3>2. \A i \in DOMAIN cmd_fd' : cmd_fd'[i].extended = supported'
        BY <2>1, <3>1, ReadFacts DEF Known
      <3>3. Head(cmd_fd).extended => supported'
        BY <2>1, <3>1, ReadFacts, Zenon DEF Known
      <3>4. mode' = "extended" => supported'
        BY <2>1, <3>1, <3>3, Zenon DEF Known
      <3>5. extended_mode' => supported'
        BY <2>1, Zenon DEF Known
      <3>6. QED
        BY <3>2, <3>4, <3>5, Zenon DEF Known
    <2>6. QED
      BY <1>1, <2>2, <2>3, <2>4, <2>5, QuietCases
  <1>2. CASE SendCommand
    BY <1>2, SendFacts DEF Known
  <1>3. ASSUME NEW n \in EventSizes, ControllerExecutes(n)
        PROVE  Known'
    <2>1. mode' = mode /\ supported' = supported
      BY <1>3, ExecuteFacts
    <2>2. \A i \in DOMAIN cmd_fd' : cmd_fd'[i].extended = supported'
      <3>1. CASE cmd_fd' = cmd_fd
        BY <2>1, <3>1 DEF Known
      <3>2. CASE cmd_fd' = Append(cmd_fd, Reply(n))
        <4>1. cmd_fd \in Seq(Completion) /\ Reply(n) \in Completion
          BY <1>3, ExecuteFacts DEF SetupTyped
        <4>2. Reply(n).extended = supported
          BY Zenon DEF Reply
        <4>3. \A i \in DOMAIN cmd_fd' : (i \in DOMAIN cmd_fd /\ cmd_fd'[i] = cmd_fd[i]) \/ cmd_fd'[i] = Reply(n)
          BY <3>2, <4>1, AppendFacts
        <4>4. QED
          BY <2>1, <4>2, <4>3 DEF Known
      <3>3. QED
        BY <1>3, <3>1, <3>2, ExecuteFacts
    <2>3. extended_mode' => supported'
      <3>1. CASE Status(commands[1].op) = "ok" /\ Executed(commands[1].op)
        <4>1. commands[1].op.set = "extended" => supported
          BY <3>1 DEF Status
        <4>2. extended_mode' = (extended_mode \/ commands[1].op.set = "extended")
          BY <3>1 DEF Executed
        <4>3. QED
          BY <2>1, <4>1, <4>2, Zenon DEF Known
      <3>2. CASE extended_mode' = extended_mode
        BY <2>1, <3>2, Zenon DEF Known
      <3>3. QED
        BY <1>3, <3>1, <3>2, ExecuteFacts
    <2>4. mode' = "extended" => supported'
      BY <2>1, Zenon DEF Known
    <2>5. QED
      BY <2>2, <2>3, <2>4, Zenon DEF Known
  <1>4. ASSUME NEW op \in OtherOps, OtherSends(op)
        PROVE  Known'
    BY <1>4, OtherFacts DEF Known
  <1>5. QED
    BY <1>1, <1>2, <1>3, <1>4, StepCases

------------------------------------------------------------------------------
(* One command at a time: the steps of the program. *)

LEMMA OwnOpcode == ASSUME SetupTyped PROVE Script[step] \in Ops /\ Opcode(Script[step]) \in OwnOpcodes
  BY ScriptFacts, OwnOps DEF SetupTyped

\* What the steps of the program alone leave unchanged.
QuietFrame == UNCHANGED <<commands, supported, scanning, confirmed>>

LEMMA UndisturbedSkip ==
    ASSUME SetupTyped, Undisturbed, SkipEvent, QuietFrame
    PROVE  Undisturbed'
  <1>1. cmd_fd' = Tail(cmd_fd) /\ cmd_fd # <<>> /\ UNCHANGED <<phase, step, mode, failure>>
    BY DEF SkipEvent, ReadEvent, EventWaits, hostVars
  <1>2. \A i \in DOMAIN cmd_fd' : i \in Nat \ {0} /\ i + 1 \in DOMAIN cmd_fd /\ cmd_fd'[i] = cmd_fd[i + 1]
    BY <1>1, ReadFacts
  <1>3. Unrelated' /\ Progress' /\ (failure' = "status" => Misjudged')
    BY <1>1 DEF QuietFrame, Undisturbed, Unrelated, Progress, Misjudged
  <1>4. OneUnderWay'
    <2>1. \A i \in DOMAIN commands : Script'[step'] = Script[step]
      BY <1>1 DEF Script
    <2>2. QED
      BY <1>1, <1>2, <2>1 DEF QuietFrame, Undisturbed, OneUnderWay
  <1>5. OneAnswered'
    BY <1>1, <1>2 DEF QuietFrame, Undisturbed, OneAnswered, Misjudged
  <1>6. QED
    BY <1>3, <1>4, <1>5 DEF Undisturbed

LEMMA UndisturbedQuiet ==
    ASSUME SetupTyped, Undisturbed, QuietFrame,
           cmd_fd' = cmd_fd, step' = step, mode' = mode, failure' = failure,
           \/ phase' = phase
           \/ phase = "open" /\ phase' = "send"
           \/ phase = "wrap" /\ phase' = "scanning"
    PROVE  Undisturbed'
  <1>1. Script' = Script
    BY DEF Script
  <1>2. Unrelated' /\ (failure' = "status" => Misjudged')
    BY DEF QuietFrame, Undisturbed, Unrelated, Misjudged
  <1>3. OneUnderWay'
    BY <1>1 DEF QuietFrame, Undisturbed, OneUnderWay
  <1>4. OneAnswered'
    BY DEF QuietFrame, Undisturbed, OneAnswered, Misjudged
  <1>5. Progress'
    BY DEF QuietFrame, Undisturbed, Progress
  <1>6. QED
    BY <1>2, <1>3, <1>4, <1>5 DEF Undisturbed

\* A command is refused only if start_scan misjudged the controller.
LEMMA RefusedFacts ==
    ASSUME SetupTyped, Undisturbed, CommandRefused
    PROVE  Misjudged'
  <1>1. /\ cmd_fd # <<>> /\ Head(cmd_fd).opcode = Opcode(Script[step]) /\ Head(cmd_fd).status # "ok"
        /\ UNCHANGED <<supported, mode, step>>
    BY DEF CommandRefused, EventWaits, IsReply, Fail, controllerVars
  <1>2. Head(cmd_fd) = cmd_fd[1] /\ 1 \in DOMAIN cmd_fd /\ cmd_fd[1].opcode \in OwnOpcodes
    BY <1>1, ReadFacts, OwnOpcode
  <1>3. QED
    BY <1>1, <1>2 DEF Undisturbed, OneAnswered, Misjudged

LEMMA UndisturbedFails ==
    ASSUME SetupTyped, Undisturbed, QuietFrame, Fails, failure' = "status" => Misjudged',
           phase \in {"open", "send", "wait", "wrap"}
    PROVE  Undisturbed'
  <1>1. phase' = "failed" /\ cmd_fd' = <<>> /\ step' = step /\ mode' = mode
    BY DEF Fails, Fail
  <1>2. Script' = Script
    BY <1>1 DEF Script
  <1>3. Unrelated' /\ OneAnswered'
    BY <1>1, EmptyQueue DEF QuietFrame, Undisturbed, Unrelated, OneAnswered
  <1>4. OneUnderWay'
    BY <1>1, <1>2, EmptyQueue DEF QuietFrame, Undisturbed, OneUnderWay
  <1>5. step \in 1..4
    BY DEF SetupTyped
  <1>6. Progress'
    BY <1>1, <1>5 DEF QuietFrame, Undisturbed, Progress
  <1>7. QED
    BY <1>3, <1>4, <1>6 DEF Undisturbed

\* start_scan goes on only after its own command: the completion it takes for the
\* current one cannot be that of another.
LEMMA UndisturbedOk ==
    ASSUME SetupTyped, Undisturbed, QuietFrame, CommandOk
    PROVE  Undisturbed'
  <1>1. /\ cmd_fd # <<>> /\ cmd_fd' = Tail(cmd_fd) /\ phase = "wait" /\ failure' = failure
        /\ Head(cmd_fd).opcode = Opcode(Script[step]) /\ Head(cmd_fd).status = "ok"
        /\ mode' = mode \/ step = 1
        /\ \/ phase' = "wrap" /\ step' = step /\ step = 4
           \/ phase' = "send" /\ step' = step + 1 /\ step # 4
    BY OkFacts, Zenon
  <1>2. /\ Head(cmd_fd) = cmd_fd[1] /\ 1 \in DOMAIN cmd_fd /\ cmd_fd[1].opcode \in OwnOpcodes
        /\ \A i \in DOMAIN cmd_fd' : i \in Nat \ {0} /\ i + 1 \in DOMAIN cmd_fd /\ cmd_fd'[i] = cmd_fd[i + 1]
    BY <1>1, ReadFacts, OwnOpcode
  <1>3. step \in confirmed /\ step \in 1..4
    BY <1>1, <1>2 DEF Undisturbed, OneAnswered, SetupTyped
  <1>4. \A i \in DOMAIN commands : commands[i].own = 0
    BY <1>2 DEF Undisturbed, OneUnderWay
  <1>5. \A i \in DOMAIN cmd_fd' : cmd_fd'[i].opcode \notin OwnOpcodes
    <2>1. ASSUME NEW i \in DOMAIN cmd_fd', cmd_fd'[i].opcode \in OwnOpcodes PROVE FALSE
      <3>1. i \in Nat \ {0} /\ i + 1 \in DOMAIN cmd_fd /\ cmd_fd[i + 1].opcode \in OwnOpcodes
        BY <1>2, <2>1
      <3>2. i + 1 = 1
        BY <1>2, <3>1 DEF Undisturbed, OneAnswered
      <3>3. QED
        BY <3>1, <3>2
    <2>2. QED
      BY <2>1
  <1>6. confirmed = 1..step
    <2>1. 1..(step - 1) \subseteq confirmed /\ confirmed \subseteq 1..step
      BY <1>1 DEF Undisturbed, Progress
    <2>2. ASSUME NEW k \in 1..step PROVE k \in confirmed
      <3>1. k = step \/ k \in 1..(step - 1)
        BY <1>3
      <3>2. QED
        BY <1>3, <2>1, <3>1
    <2>3. QED
      BY <2>1, <2>2
  <1>7. Progress'
    <2>1. (4 \in confirmed => scanning) /\ (2 \in confirmed /\ 4 \notin confirmed => ~scanning)
      BY Zenon DEF Undisturbed, Progress
    <2>2. /\ phase' \in {"open", "send"} => confirmed = 1..(step' - 1)
          /\ phase' \in {"wait", "failed"} => 1..(step' - 1) \subseteq confirmed /\ confirmed \subseteq 1..step'
          /\ phase' \in {"wrap", "scanning"} => step' = 4 /\ confirmed = 1..4
      BY <1>1, <1>3, <1>6
    <2>3. QED
      BY <2>1, <2>2, Zenon DEF QuietFrame, Progress
  <1>8. OneUnderWay' /\ OneAnswered' /\ Unrelated'
    BY <1>4, <1>5 DEF QuietFrame, OneUnderWay, OneAnswered, Unrelated, Undisturbed
  <1>9. failure' = "status" => Misjudged'
    BY <1>1, <1>3 DEF QuietFrame, Undisturbed, Misjudged
  <1>10. QED
    BY <1>7, <1>8, <1>9 DEF Undisturbed

\* A new command finds no other of start_scan under way, and none of its completions.
LEMMA UndisturbedSend ==
    ASSUME SetupTyped, Undisturbed, SendCommand
    PROVE  Undisturbed'
  <1>1. /\ step \in 1..4 /\ phase = "send" /\ phase' = "wait"
        /\ UNCHANGED <<step, mode, failure, cmd_fd, supported, scanning, confirmed>>
        /\ \A i \in DOMAIN commands' :
              \/ i \in DOMAIN commands /\ commands'[i] = commands[i]
              \/ i = Len(commands) + 1 /\ commands'[i] = [op |-> Script[step], own |-> step]
    BY SendFacts, Zenon
  <1>2. Script' = Script
    BY <1>1 DEF Script
  <1>3. \A i \in DOMAIN commands : commands[i].own = 0 /\ commands[i].op \notin Ops
    BY <1>1 DEF Undisturbed, OneUnderWay, Unrelated
  <1>4. \A i \in DOMAIN cmd_fd : cmd_fd[i].opcode \notin OwnOpcodes
    BY <1>1 DEF Undisturbed, OneAnswered
  <1>5. confirmed = 1..(step - 1)
    BY <1>1 DEF Undisturbed, Progress
  <1>6. Unrelated'
    BY <1>1, <1>3 DEF Unrelated
  <1>7. OneUnderWay'
    <2>1. \A i \in DOMAIN commands' :
             commands'[i].own # 0 => i = Len(commands) + 1 /\ commands'[i].op = Script[step] /\ commands'[i].own = step
      BY <1>1, <1>3
    <2>2. step \notin confirmed
      BY <1>1, <1>5
    <2>3. QED
      BY <1>1, <1>2, <1>4, <2>1, <2>2 DEF OneUnderWay
  <1>8. OneAnswered'
    BY <1>1, <1>4 DEF OneAnswered
  <1>9. Progress'
    <2>1. 1..(step - 1) \subseteq confirmed /\ confirmed \subseteq 1..step
      BY <1>1, <1>5
    <2>2. QED
      BY <1>1, <2>1 DEF Progress, Undisturbed
  <1>10. failure' = "status" => Misjudged'
    BY <1>1 DEF Undisturbed, Misjudged
  <1>11. QED
    BY <1>6, <1>7, <1>8, <1>9, <1>10 DEF Undisturbed

------------------------------------------------------------------------------
(* One command at a time: the steps of the controller and of other programs. *)

\* The controller accepts every command of start_scan, unless that one was not
\* told what the controller has.
LEMMA OwnAccepted ==
    ASSUME SetupTyped, Known, Undisturbed,
           NEW i \in DOMAIN commands, commands[i].own # 0,
           Status(commands[i].op) # "ok"
    PROVE  Misjudged
  <1>1. /\ commands[i].op = Script[step] /\ phase \in {"wait", "failed"} /\ step \notin confirmed
        /\ step \in 1..4 /\ mode \in Sets
    BY DEF Undisturbed, OneUnderWay, SetupTyped
  <1>2. CASE step = 1
    <2>1. Script[step].set = "both" /\ Script[step].ocf = "features"
      BY <1>1, <1>2, ScriptFacts DEF Features
    <2>2. QED
      BY <1>1, <2>1 DEF Status
  <1>3. CASE step # 1
    <2>1. Script[step].set = mode /\ (Script[step].ocf = "params" => step = 3)
      <3>1. step = 2 \/ step = 3 \/ step = 4
        BY <1>1, <1>3
      <3>2. QED
        BY <1>1, <3>1, ScriptFacts DEF ScanEnable, Params
    <2>2. ~(Script[step].set = "extended" /\ ~supported)
      BY <2>1 DEF Known
    <2>3. CASE Script[step].set = "legacy" /\ extended_mode
      <3>1. supported /\ mode = "legacy" /\ step > 1
        BY <1>1, <1>3, <2>1, <2>3 DEF Known
      <3>2. QED
        BY <3>1 DEF Misjudged
    <2>4. ~(Script[step].ocf = "params" /\ scanning)
      <3>1. SUFFICES ASSUME Script[step].ocf = "params" PROVE ~scanning
        OBVIOUS
      <3>2. step = 3
        BY <2>1, <3>1
      <3>3. 1..(step - 1) \subseteq confirmed /\ confirmed \subseteq 1..step
        BY <1>1 DEF Undisturbed, Progress
      <3>4. 2 \in confirmed /\ 4 \notin confirmed
        BY <3>2, <3>3
      <3>5. QED
        BY <3>4, Zenon DEF Undisturbed, Progress
    <2>5. QED
      BY <1>1, <2>2, <2>3, <2>4, Zenon DEF Status
  <1>4. QED
    BY <1>2, <1>3

\* The completion of an unrelated command disturbs nothing.
LEMMA UndisturbedForeign ==
    ASSUME SetupTyped, Flags, Known, Undisturbed,
           NEW n \in EventSizes, ControllerExecutes(n), commands[1].own = 0
    PROVE  Undisturbed'
  <1>1. /\ 1 \in DOMAIN commands /\ commands[1] \in Command
        /\ \A i \in DOMAIN commands' :
              i \in Nat \ {0} /\ i + 1 \in DOMAIN commands /\ commands'[i] = commands[i + 1]
        /\ UNCHANGED <<phase, step, mode, failure, supported>>
    BY ExecuteFacts, Zenon
  <1>2. commands[1].op \in OtherOps /\ commands[1].op \notin Ops
    BY <1>1 DEF Undisturbed, Unrelated, Command
  <1>3. Opcode(commands[1].op) \notin OwnOpcodes /\ commands[1].op.ocf # "enable"
    BY <1>2, OtherOpcode
  <1>4. confirmed' = confirmed /\ scanning' = scanning
    BY <1>3, ExecuteFacts DEF Executed
  <1>5. \A i \in DOMAIN cmd_fd' :
           (i \in DOMAIN cmd_fd /\ cmd_fd'[i] = cmd_fd[i]) \/ cmd_fd'[i].opcode \notin OwnOpcodes
    <2>1. CASE cmd_fd' = cmd_fd
      BY <2>1
    <2>2. CASE cmd_fd' = Append(cmd_fd, Reply(n))
      <3>1. cmd_fd \in Seq(Completion) /\ Reply(n) \in Completion
        BY ExecuteFacts DEF SetupTyped
      <3>2. \A i \in DOMAIN cmd_fd' : (i \in DOMAIN cmd_fd /\ cmd_fd'[i] = cmd_fd[i]) \/ cmd_fd'[i] = Reply(n)
        BY <2>2, <3>1, AppendFacts
      <3>3. Reply(n).opcode \notin OwnOpcodes
        BY <1>3 DEF Reply
      <3>4. QED
        BY <3>2, <3>3
    <2>3. QED
      BY <2>1, <2>2, ExecuteFacts
  <1>6. Script' = Script
    BY <1>1 DEF Script
  <1>7. Unrelated'
    BY <1>1 DEF Undisturbed, Unrelated
  <1>8. OneUnderWay'
    <2>1. \A i, j \in DOMAIN commands' : commands'[i].own # 0 /\ commands'[j].own # 0 => i = j
      <3>1. SUFFICES ASSUME NEW i \in DOMAIN commands', NEW j \in DOMAIN commands',
                            commands'[i].own # 0, commands'[j].own # 0
                     PROVE  i = j
        OBVIOUS
      <3>2. i + 1 = j + 1
        BY <1>1, <3>1 DEF Undisturbed, OneUnderWay
      <3>3. QED
        BY <1>1, <3>2
    <2>2. ASSUME NEW i \in DOMAIN commands', commands'[i].own # 0
          PROVE  /\ phase' \in {"wait", "failed"} /\ step' \notin confirmed'
                 /\ commands'[i].op = Script'[step'] /\ commands'[i].own = step'
                 /\ \A j \in DOMAIN cmd_fd' : cmd_fd'[j].opcode \notin OwnOpcodes
      <3>1. i + 1 \in DOMAIN commands /\ commands'[i] = commands[i + 1] /\ commands[i + 1].own # 0
        BY <1>1, <2>2
      <3>2. /\ phase \in {"wait", "failed"} /\ step \notin confirmed
            /\ commands[i + 1].op = Script[step] /\ commands[i + 1].own = step
            /\ \A j \in DOMAIN cmd_fd : cmd_fd[j].opcode \notin OwnOpcodes
        BY <3>1 DEF Undisturbed, OneUnderWay
      <3>3. QED
        BY <1>1, <1>4, <1>5, <1>6, <3>1, <3>2
    <2>3. QED
      BY <2>1, <2>2 DEF OneUnderWay
  <1>9. OneAnswered'
    BY <1>1, <1>4, <1>5 DEF Undisturbed, OneAnswered, Misjudged
  <1>10. Progress' /\ (failure' = "status" => Misjudged')
    BY <1>1, <1>4 DEF Undisturbed, Progress, Misjudged
  <1>11. QED
    BY <1>7, <1>8, <1>9, <1>10 DEF Undisturbed

\* After the current command of start_scan has been executed, none is under way,
\* and its completion is the only one of its kind.
LEMMA UndisturbedOwn ==
    ASSUME SetupTyped, Flags, Known, Undisturbed,
           NEW n \in EventSizes, ControllerExecutes(n), commands[1].own # 0
    PROVE  Undisturbed'
  <1>1. /\ 1 \in DOMAIN commands
        /\ \A i \in DOMAIN commands' :
              i \in Nat \ {0} /\ i + 1 \in DOMAIN commands /\ commands'[i] = commands[i + 1]
        /\ UNCHANGED <<phase, step, mode, failure, supported>>
    BY ExecuteFacts, Zenon
  <1>2. /\ phase \in {"wait", "failed"} /\ step \notin confirmed
        /\ commands[1].op = Script[step] /\ commands[1].own = step
        /\ \A j \in DOMAIN cmd_fd : cmd_fd[j].opcode \notin OwnOpcodes
    BY <1>1 DEF Undisturbed, OneUnderWay
  <1>3. step \in 1..4 /\ mode \in Sets
    BY DEF SetupTyped
  <1>4. \A i \in DOMAIN commands' : commands'[i].own = 0
    <2>1. SUFFICES ASSUME NEW i \in DOMAIN commands', commands'[i].own # 0 PROVE FALSE
      OBVIOUS
    <2>2. i \in Nat \ {0} /\ i + 1 \in DOMAIN commands /\ commands[i + 1].own # 0
      BY <1>1, <2>1
    <2>3. i + 1 = 1
      BY <1>1, <2>2 DEF Undisturbed, OneUnderWay
    <2>4. QED
      BY <2>2, <2>3
  <1>5. Unrelated'
    BY <1>1 DEF Undisturbed, Unrelated
  <1>6. OneUnderWay'
    BY <1>4 DEF OneUnderWay
  <1>7. 1..(step - 1) \subseteq confirmed /\ confirmed \subseteq 1..step
    BY <1>2 DEF Undisturbed, Progress
  <1>8. confirmed' = confirmed \/ confirmed' = confirmed \cup {step}
    BY <1>2, ExecuteFacts
  <1>9. Progress'
    <2>1. 1..(step - 1) \subseteq confirmed' /\ confirmed' \subseteq 1..step
      <3>1. step \in 1..step /\ step \notin 1..(step - 1)
        BY <1>3
      <3>2. QED
        BY <1>7, <1>8, <3>1
    <2>2. (4 \in confirmed' => scanning') /\ (2 \in confirmed' /\ 4 \notin confirmed' => ~scanning')
      <3>1. (4 \in confirmed => scanning) /\ (2 \in confirmed /\ 4 \notin confirmed => ~scanning)
        BY Zenon DEF Undisturbed, Progress
      <3>2. CASE confirmed' = confirmed /\ scanning' = scanning
        BY <3>1, <3>2, Zenon
      <3>3. CASE confirmed' = confirmed \cup {step}
                 /\ scanning' = IF Script[step].ocf = "enable" THEN Script[step].enable ELSE scanning
        <4>1. CASE step = 2
          <5>1. scanning' = FALSE
            BY <1>3, <3>3, <4>1, ScriptFacts DEF ScanEnable
          <5>2. 4 \notin confirmed'
            BY <1>7, <3>3, <4>1
          <5>3. QED
            BY <5>1, <5>2, Zenon
        <4>2. CASE step = 4
          <5>1. scanning' = TRUE
            BY <1>3, <3>3, <4>2, ScriptFacts DEF ScanEnable
          <5>2. 4 \in confirmed'
            BY <3>3, <4>2
          <5>3. QED
            BY <5>1, <5>2, Zenon
        <4>3. CASE step \in {1, 3}
          <5>1. Script[step].ocf # "enable"
            BY <1>3, <4>3, ScriptFacts DEF Features, Params
          <5>2. scanning' = scanning
            BY <3>3, <5>1, Zenon
          <5>3. (4 \in confirmed' <=> 4 \in confirmed) /\ (2 \in confirmed' <=> 2 \in confirmed)
            BY <3>3, <4>3
          <5>4. QED
            BY <3>1, <5>2, <5>3, Zenon
        <4>4. QED
          BY <1>3, <4>1, <4>2, <4>3
      <3>4. \/ confirmed' = confirmed /\ scanning' = scanning
            \/ /\ confirmed' = confirmed \cup {step}
               /\ scanning' = IF Script[step].ocf = "enable" THEN Script[step].enable ELSE scanning
        <4>1. \/ confirmed' = confirmed /\ scanning' = scanning
              \/ Executed(commands[1].op)
                 /\ confirmed' = IF commands[1].own # 0 THEN confirmed \cup {commands[1].own} ELSE confirmed
          BY ExecuteFacts, Zenon
        <4>2. QED
          BY <1>2, <4>1, Zenon DEF Executed
      <3>5. QED
        BY <3>2, <3>3, <3>4
    <2>3. QED
      BY <1>1, <1>2, <2>1, <2>2, Zenon DEF Progress
  <1>10. OneAnswered'
    <2>1. CASE cmd_fd' = cmd_fd
      BY <1>2, <2>1 DEF OneAnswered
    <2>2. CASE cmd_fd' = Append(cmd_fd, Reply(n)) /\ phase # "failed"
      <3>1. cmd_fd \in Seq(Completion) /\ Reply(n) \in Completion
        BY ExecuteFacts DEF SetupTyped
      <3>2. \A i \in DOMAIN cmd_fd' :
               (i \in DOMAIN cmd_fd /\ cmd_fd'[i] = cmd_fd[i]) \/ (i = Len(cmd_fd) + 1 /\ cmd_fd'[i] = Reply(n))
        BY <2>2, <3>1, AppendFacts
      <3>3. \A i \in DOMAIN cmd_fd' :
               cmd_fd'[i].opcode \in OwnOpcodes => i = Len(cmd_fd) + 1 /\ cmd_fd'[i] = Reply(n)
        BY <1>2, <3>2
      <3>4. phase' = "wait"
        BY <1>1, <1>2, <2>2
      <3>5. IF Reply(n).status = "ok" THEN step' \in confirmed' ELSE Misjudged'
        <4>1. Reply(n).status = Status(commands[1].op)
          BY DEF Reply
        <4>2. CASE Status(commands[1].op) = "ok"
          <5>1. confirmed' = confirmed \cup {step}
            BY <1>2, <4>2, ExecuteFacts
          <5>2. QED
            BY <1>1, <4>1, <4>2, <5>1
        <4>3. CASE Status(commands[1].op) # "ok"
          <5>1. Misjudged
            BY <1>1, <4>3, OwnAccepted
          <5>2. QED
            BY <1>1, <4>1, <4>3, <5>1 DEF Misjudged
        <4>4. QED
          BY <4>2, <4>3
      <3>6. QED
        BY <3>3, <3>4, <3>5, Zenon DEF OneAnswered
    <2>3. QED
      BY <2>1, <2>2, ExecuteFacts
  <1>11. failure' = "status" => Misjudged'
    BY <1>1 DEF Undisturbed, Misjudged
  <1>12. QED
    BY <1>5, <1>6, <1>9, <1>10, <1>11 DEF Undisturbed

LEMMA UndisturbedOther ==
    ASSUME SetupTyped, Undisturbed, NEW op \in OtherOps, OtherSends(op), op \notin Ops
    PROVE  Undisturbed'
  <1>1. /\ UNCHANGED <<phase, step, mode, failure, cmd_fd, supported, scanning, confirmed>>
        /\ \A i \in DOMAIN commands' :
              \/ i \in DOMAIN commands /\ commands'[i] = commands[i]
              \/ commands'[i] = [op |-> op, own |-> 0]
    BY OtherFacts, Zenon
  <1>2. Script' = Script
    BY <1>1 DEF Script
  <1>3. \A i \in DOMAIN commands' :
           \/ i \in DOMAIN commands /\ commands'[i] = commands[i]
           \/ commands'[i].own = 0 /\ commands'[i].op \notin Ops
    BY <1>1
  <1>4. Unrelated'
    BY <1>3 DEF Undisturbed, Unrelated
  <1>5. OneUnderWay'
    BY <1>1, <1>2, <1>3 DEF Undisturbed, OneUnderWay
  <1>6. OneAnswered' /\ Progress' /\ (failure' = "status" => Misjudged')
    BY <1>1 DEF Undisturbed, OneAnswered, Progress, Misjudged
  <1>7. QED
    BY <1>4, <1>5, <1>6 DEF Undisturbed

LEMMA UndisturbedStep ==
    ASSUME SetupTyped, Flags, Known, Undisturbed, ~disturbed', [Next]_vars
    PROVE  Undisturbed'
  <1>1. CASE Quiet
    <2>1. QuietFrame
      BY <1>1, QuietFacts DEF QuietFrame
    <2>2. CASE SysCallFails \/ CommandTruncated \/ CommandRefused \/ TimedOut
      <3>1. Fails /\ phase \in {"open", "send", "wait", "wrap"}
        BY <2>2 DEF SysCallFails, CommandTruncated, CommandRefused, TimedOut, EventWaits, Fails
      <3>2. CASE CommandRefused
        BY <2>1, <3>1, <3>2, RefusedFacts, UndisturbedFails
      <3>3. CASE failure' # "status"
        BY <2>1, <3>1, <3>3, UndisturbedFails
      <3>4. QED
        BY <2>2, <3>2, <3>3 DEF SysCallFails, CommandTruncated, TimedOut, Fail
    <2>3. CASE OpenSockets \/ WrapOk \/ Tick \/ Returned \/ UNCHANGED vars
      <3>1. /\ cmd_fd' = cmd_fd /\ step' = step /\ mode' = mode /\ failure' = failure
            /\ \/ phase' = phase
               \/ phase = "open" /\ phase' = "send"
               \/ phase = "wrap" /\ phase' = "scanning"
        BY <2>3 DEF OpenSockets, WrapOk, Tick, Returned, vars, hostVars
      <3>2. QED
        BY <2>1, <3>1, UndisturbedQuiet
    <2>4. CASE SkipEvent
      BY <2>1, <2>4, UndisturbedSkip
    <2>5. CASE CommandOk
      BY <2>1, <2>5, UndisturbedOk
    <2>6. QED
      BY <1>1, <2>2, <2>3, <2>4, <2>5 DEF Quiet
  <1>2. CASE SendCommand
    BY <1>2, UndisturbedSend
  <1>3. ASSUME NEW n \in EventSizes, ControllerExecutes(n)
        PROVE  Undisturbed'
    BY <1>3, UndisturbedForeign, UndisturbedOwn
  <1>4. ASSUME NEW op \in OtherOps, OtherSends(op)
        PROVE  Undisturbed'
    <2>1. op \notin Ops
      BY <1>4, Zenon DEF OtherSends
    <2>2. QED
      BY <1>4, <2>1, UndisturbedOther
  <1>5. QED
    BY <1>1, <1>2, <1>3, <1>4, StepCases

LEMMA DisturbedStays == ASSUME [Next]_vars, disturbed PROVE disturbed'
  <1>1. CASE Quiet
    BY <1>1, QuietFacts, Zenon
  <1>2. CASE SendCommand
    <2>1. disturbed' = disturbed
      BY <1>2 DEF SendCommand, historyVars
    <2>2. QED
      BY <2>1, Zenon
  <1>3. ASSUME NEW n \in EventSizes, ControllerExecutes(n)
        PROVE  disturbed'
    <2>1. disturbed' = disturbed
      BY <1>3 DEF ControllerExecutes
    <2>2. QED
      BY <2>1, Zenon
  <1>4. ASSUME NEW op \in OtherOps, OtherSends(op)
        PROVE  disturbed'
    BY <1>4, Zenon DEF OtherSends
  <1>5. QED
    BY <1>1, <1>2, <1>3, <1>4, StepCases

LEMMA InitSetup == Init => SetupInv
  <1>1. SUFFICES ASSUME Init PROVE SetupInv
    OBVIOUS
  <1>2. /\ phase = "open" /\ step = 1 /\ mode = "legacy" /\ failure = "none"
        /\ cmd_fd = <<>> /\ commands = <<>> /\ confirmed = {}
    BY <1>1 DEF Init
  <1>3. extended_mode => supported
    BY <1>1, Zenon DEF Init
  <1>4. Known
    BY <1>2, <1>3, EmptyQueue DEF Known
  <1>5. Undisturbed
    BY <1>2, EmptyQueue DEF Undisturbed, Unrelated, OneUnderWay, OneAnswered, Progress
  <1>6. QED
    BY <1>4, <1>5 DEF SetupInv

LEMMA SetupInvariant == Spec => [](SetupTyped /\ SetupInv)
  <1>1. ASSUME SetupTyped, Flags, SetupInv, [Next]_vars
        PROVE  SetupInv'
    <2>1. Known'
      BY <1>1, KnownStep DEF SetupInv
    <2>2. ASSUME ~disturbed' PROVE Undisturbed'
      <3>1. ~disturbed
        BY <1>1, <2>2, DisturbedStays
      <3>2. QED
        BY <1>1, <2>2, <3>1, UndisturbedStep DEF SetupInv
    <2>3. QED
      BY <2>1, <2>2, Zenon DEF SetupInv
  <1>2. SetupTyped /\ Flags /\ SetupInv /\ [Next]_vars => SetupInv'
    BY <1>1
  <1>3. QED
    BY InitSetup, <1>2, AlwaysTyped, PTL DEF Spec

\* For every number of other programs' commands and every socket size: as long as
\* they send none of start_scan's own commands, start_scan gets past a command
\* only after the controller has executed that very command, although a completion
\* names an opcode that two of its commands share (hci.rs:504-505, 547-552).
THEOREM CommandsConfirmed == Spec => []ConfirmedUndisturbed
  <1>1. SetupTyped /\ SetupInv => ConfirmedUndisturbed
    <2>1. SUFFICES ASSUME SetupTyped, SetupInv, ~disturbed PROVE EveryCommandConfirmed
      BY DEF ConfirmedUndisturbed
    <2>2. Progress
      BY <2>1 DEF SetupInv, Undisturbed
    <2>3. QED
      BY <2>2, ScriptLength DEF Progress, EveryCommandConfirmed
  <1>2. QED
    BY SetupInvariant, <1>1, PTL

\* Then Ok also means that the controller scans at that moment (hci.rs:560-562).
THEOREM OkScans == Spec => []OkMeansScanning
  <1>1. SetupInv => OkMeansScanning
    <2>1. SUFFICES ASSUME SetupInv, phase = "scanning", ~disturbed PROVE scanning
      BY DEF OkMeansScanning
    <2>2. Progress
      BY <2>1 DEF SetupInv, Undisturbed
    <2>3. confirmed = 1..4
      BY <2>1, <2>2 DEF Progress
    <2>4. 4 \in confirmed
      BY <2>3
    <2>5. QED
      BY <2>2, <2>4, Zenon DEF Progress
  <1>2. QED
    BY SetupInvariant, <1>1, PTL

\* And no command is refused, whether or not the controller was scanning before,
\* had been put into extended mode, or knows extended commands at all, unless its
\* answer to the feature query was cut short (hci.rs:589-603, 618-622, 670-672).
THEOREM NotRefused == Spec => []NeverRefused
  <1>1. SetupInv => NeverRefused
    BY DEF SetupInv, Undisturbed, Misjudged, NeverRefused
  <1>2. QED
    BY SetupInvariant, <1>1, PTL

------------------------------------------------------------------------------
(* Other programs may switch scanning, but set no parameters. *)

NoForeignParams == \A op \in OtherOps : op.ocf # "params"

LEMMA SocketFacts ==
    ASSUME SetupTyped, Quiet
    PROVE  \A i \in DOMAIN cmd_fd' : \E j \in DOMAIN cmd_fd : cmd_fd'[i] = cmd_fd[j]
  <1>1. CASE cmd_fd' = cmd_fd
    BY <1>1
  <1>2. CASE cmd_fd' = <<>>
    BY <1>2, EmptyQueue
  <1>3. CASE cmd_fd # <<>> /\ cmd_fd' = Tail(cmd_fd)
    BY <1>3, ReadFacts
  <1>4. QED
    BY <1>1, <1>2, <1>3, QuietCases
       DEF OpenSockets, Fails, Fail, SkipEvent, CommandOk, ReadEvent, EventWaits, WrapOk

LEMMA QuietParams ==
    ASSUME SetupTyped, ParamsInv, Quiet
    PROVE  ParamsInv'
  <1>1. commands' = commands /\ confirmed' = confirmed
    BY QuietFacts
  <1>2. \A i \in DOMAIN cmd_fd' :
           cmd_fd'[i].opcode[2] = "params" /\ cmd_fd'[i].status = "ok" => 3 \in confirmed
    BY SocketFacts DEF ParamsInv
  <1>3. /\ phase' \in {"send", "wait"} /\ step' > 3 => 3 \in confirmed
        /\ phase' \in {"wrap", "scanning"} => 3 \in confirmed
    <2>1. CASE OpenSockets
      BY <2>1 DEF OpenSockets, SetupTyped
    <2>2. CASE Fails
      BY <2>2 DEF Fails, Fail
    <2>3. CASE UNCHANGED <<phase, step, mode, failure>>
      BY <2>3 DEF ParamsInv
    <2>4. CASE CommandOk
      <3>1. /\ cmd_fd # <<>> /\ phase = "wait" /\ Head(cmd_fd).status = "ok"
            /\ Head(cmd_fd).opcode = Opcode(Script[step])
            /\ \/ phase' = "wrap" /\ step' = step /\ step = 4
               \/ phase' = "send" /\ step' = step + 1 /\ step # 4
        BY <2>4, OkFacts, Zenon
      <3>2. Head(cmd_fd) = cmd_fd[1] /\ 1 \in DOMAIN cmd_fd /\ step \in 1..4
        BY <3>1, ReadFacts DEF SetupTyped
      <3>3. CASE step = 3
        <4>1. cmd_fd[1].opcode[2] = "params"
          BY <3>1, <3>2, <3>3, ScriptFacts DEF Opcode, SetupTyped
        <4>2. QED
          BY <3>1, <3>2, <4>1 DEF ParamsInv
      <3>4. CASE step = 4
        BY <3>1, <3>4 DEF ParamsInv
      <3>5. CASE step < 3
        BY <3>1, <3>2, <3>5
      <3>6. QED
        BY <3>2, <3>3, <3>4, <3>5
    <2>5. CASE WrapOk
      BY <2>5 DEF WrapOk, ParamsInv
    <2>6. QED
      BY <2>1, <2>2, <2>3, <2>4, <2>5, QuietCases DEF SkipEvent, hostVars
  <1>4. QED
    BY <1>1, <1>2, <1>3 DEF ParamsInv

LEMMA ParamsStep ==
    ASSUME NoForeignParams, SetupTyped, Flags, ParamsInv, [Next]_vars
    PROVE  ParamsInv'
  <1>1. CASE Quiet
    BY <1>1, QuietParams
  <1>2. CASE SendCommand
    <2>1. Script[step].ocf = "params" => step = 3
      BY <1>2, SendFacts, ScriptFacts DEF SetupTyped
    <2>2. \A i \in DOMAIN commands' : commands'[i].op.ocf = "params" => commands'[i].own = 3
      BY <1>2, <2>1, SendFacts DEF ParamsInv
    <2>3. QED
      BY <1>2, <2>2, SendFacts DEF ParamsInv
  <1>3. ASSUME NEW n \in EventSizes, ControllerExecutes(n)
        PROVE  ParamsInv'
    <2>1. /\ 1 \in DOMAIN commands
          /\ \A i \in DOMAIN commands' : i + 1 \in DOMAIN commands /\ commands'[i] = commands[i + 1]
          /\ phase' = phase /\ step' = step
      BY <1>3, ExecuteFacts
    <2>2. confirmed \subseteq confirmed'
          /\ (Status(commands[1].op) = "ok" /\ commands[1].own # 0 => commands[1].own \in confirmed')
      BY <1>3, ExecuteFacts
    <2>3. Reply(n).opcode[2] = "params" /\ Reply(n).status = "ok" => 3 \in confirmed'
      BY <2>1, <2>2 DEF Reply, Opcode, ParamsInv
    <2>4. \A i \in DOMAIN cmd_fd' : (i \in DOMAIN cmd_fd /\ cmd_fd'[i] = cmd_fd[i]) \/ cmd_fd'[i] = Reply(n)
      <3>1. /\ cmd_fd \in Seq(Completion) /\ Reply(n) \in Completion
            /\ cmd_fd' = cmd_fd \/ cmd_fd' = Append(cmd_fd, Reply(n))
        BY <1>3, ExecuteFacts DEF SetupTyped
      <3>2. QED
        BY <3>1, AppendFacts
    <2>5. \A i \in DOMAIN cmd_fd' :
             cmd_fd'[i].opcode[2] = "params" /\ cmd_fd'[i].status = "ok" => 3 \in confirmed'
      BY <2>2, <2>3, <2>4 DEF ParamsInv
    <2>6. QED
      BY <2>1, <2>2, <2>5 DEF ParamsInv
  <1>4. ASSUME NEW op \in OtherOps, OtherSends(op)
        PROVE  ParamsInv'
    BY <1>4, OtherFacts DEF ParamsInv, NoForeignParams
  <1>5. QED
    BY <1>1, <1>2, <1>3, <1>4, StepCases

LEMMA InitParams == Init => ParamsInv
  <1>1. ASSUME Init
        PROVE  phase = "open" /\ commands = <<>> /\ cmd_fd = <<>>
    BY <1>1 DEF Init
  <1>2. QED
    BY <1>1, EmptyQueue DEF ParamsInv

\* Whatever other programs switch on and off at any time, and however often a
\* foreign completion is taken for an own one, start_scan returns Ok only after the
\* controller has taken its scan parameters (hci.rs:550-552, 616-642).
THEOREM ParamsAreOurs ==
    ASSUME NoForeignParams
    PROVE  Spec => []ParamsInForce
  <1>1. SetupTyped /\ Flags /\ ParamsInv /\ [Next]_vars => ParamsInv'
    BY ParamsStep
  <1>2. ParamsInv => ParamsInForce
    BY DEF ParamsInv, ParamsInForce
  <1>3. QED
    BY AlwaysTyped, InitParams, <1>1, <1>2, PTL DEF Spec
==============================================================================
