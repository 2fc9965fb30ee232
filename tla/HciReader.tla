------------------------------ MODULE HciReader ------------------------------
(***************************************************************************)
(* The task that start_scan of src/scanner/hci.rs spawns: it waits for the *)
(* socket to become readable, reads it dry, and sends what it decodes.     *)
(*                                                                         *)
(* Three actors.  The kernel queues packets at any moment and raises an    *)
(* edge (epoll is edge-triggered).  Tokio's driver turns an edge into a    *)
(* cached readiness, but only while the single thread is not running the   *)
(* task, i.e. at the task's two awaits, "wait" and "send"; the receiver    *)
(* runs at the same places.  The task trusts the cached readiness until a  *)
(* read would block.                                                       *)
(***************************************************************************)
EXTENDS Naturals, Sequences

CONSTANTS
    Kinds,          \* what arrives: "ruuvi", "corrupt" (does not decode), "other"
    Capacity,       \* MEASUREMENT_CHANNEL_BUFFER_SIZE
    SocketBuffer,   \* packets the kernel queues for the socket
    MaxPackets,     \* bound on the packets that arrive
    MaxErrors       \* bound on the socket's errors

ASSUME HciReaderAssumption ==
    /\ Kinds \subseteq {"ruuvi", "corrupt", "other"}
    /\ Capacity \in Nat \ {0} /\ SocketBuffer \in Nat \ {0}
    /\ MaxPackets \in Nat /\ MaxErrors \in Nat

VARIABLES
    verbose,
    \* the kernel's side of the socket
    sockbuf,        \* queued packets
    failing,        \* an error is pending for the next read
    closed,         \* every read returns 0
    edge,           \* an event the driver has not collected
    arrived, errors,
    \* tokio's side
    ready,          \* the cached readiness
    renewed,        \* the driver set it again after the guard was taken
    \* the task
    pc,             \* "start", "wait", "read", "blocked", "send" or "ended"
    hand, queue,
    log, taken      \* history: the packets read, the results received

kernelVars == <<sockbuf, failing, closed, edge, arrived, errors>>
tokioVars == <<ready, renewed>>
taskVars == <<pc, hand, queue, log, taken>>
vars == <<verbose, kernelVars, tokioVars, taskVars>>

Packet == [id : 1..MaxPackets, kind : Kinds]

TypeOK ==
    /\ verbose \in BOOLEAN
    /\ sockbuf \in Seq(Packet) /\ Len(sockbuf) <= SocketBuffer
    /\ failing \in BOOLEAN /\ closed \in BOOLEAN /\ edge \in BOOLEAN
    /\ arrived \in 0..MaxPackets /\ errors \in 0..MaxErrors
    /\ ready \in BOOLEAN /\ renewed \in BOOLEAN
    /\ pc \in {"start", "wait", "read", "blocked", "send", "ended"}
    /\ hand \in {<<>>} \cup {<<p>> : p \in Packet}
    /\ hand # <<>> <=> pc = "send"
    /\ queue \in Seq(Packet) /\ Len(queue) <= Capacity
    /\ log \in Seq(Packet) /\ taken \in Seq(Packet)

Init ==
    /\ verbose \in BOOLEAN
    /\ sockbuf = <<>> /\ failing = FALSE /\ closed = FALSE /\ edge = FALSE
    /\ arrived = 0 /\ errors = 0
    /\ ready = FALSE /\ renewed = FALSE
    /\ pc = "start"
    /\ hand = <<>> /\ queue = <<>>
    /\ log = <<>> /\ taken = <<>>

------------------------------------------------------------------------------
(* The kernel. *)

\* A packet the filters let through; one that finds the buffer full is lost.
Arrive(k) ==
    /\ arrived < MaxPackets /\ ~closed
    /\ arrived' = arrived + 1
    /\ IF Len(sockbuf) < SocketBuffer
         THEN sockbuf' = Append(sockbuf, [id |-> arrived + 1, kind |-> k]) /\ edge' = TRUE
         ELSE UNCHANGED <<sockbuf, edge>>
    /\ UNCHANGED <<verbose, failing, closed, errors, tokioVars, taskVars>>

\* The next read fails, once.
SocketFails ==
    /\ errors < MaxErrors
    /\ errors' = errors + 1
    /\ failing' = TRUE /\ edge' = TRUE
    /\ UNCHANGED <<verbose, sockbuf, closed, arrived, tokioVars, taskVars>>

\* From now on every read is an end of file.
SocketCloses ==
    /\ ~closed
    /\ closed' = TRUE /\ edge' = TRUE
    /\ UNCHANGED <<verbose, sockbuf, failing, arrived, errors, tokioVars, taskVars>>

------------------------------------------------------------------------------
(* Tokio. *)

\* The thread is free while the task waits, and after it has ended.
AtAwait == pc \in {"wait", "send", "ended"}

\* The driver collects the event; registering the socket in AsyncFd::new
\* collects one for what is already queued.
Driver ==
    /\ AtAwait /\ edge
    /\ edge' = FALSE
    /\ ready' = TRUE /\ renewed' = TRUE
    /\ UNCHANGED <<verbose, sockbuf, failing, closed, arrived, errors, taskVars>>

\* The run loop receives a result.
Take ==
    /\ AtAwait /\ queue # <<>>
    /\ queue' = Tail(queue)
    /\ taken' = Append(taken, Head(queue))
    /\ UNCHANGED <<verbose, kernelVars, tokioVars, pc, hand, log>>

------------------------------------------------------------------------------
(* The task. *)

Spawn ==
    /\ pc = "start"
    /\ pc' = "wait"
    /\ UNCHANGED <<verbose, kernelVars, tokioVars, hand, queue, log, taken>>

\* readable().await returns a guard at once while the readiness is cached.
Readable ==
    /\ pc = "wait" /\ ready
    /\ pc' = "read"
    /\ renewed' = FALSE
    /\ UNCHANGED <<verbose, kernelVars, ready, hand, queue, log, taken>>

\* readable().await fails: the runtime is going away.
ReadableFails ==
    /\ pc = "wait"
    /\ pc' = "ended"
    /\ UNCHANGED <<verbose, kernelVars, tokioVars, hand, queue, log, taken>>

\* What becomes a result, and which results are sent.
Reported(p) == p.kind = "ruuvi" \/ (p.kind = "corrupt" /\ verbose)

Data == pc = "read" /\ ~failing /\ ~closed /\ sockbuf # <<>>

\* One packet is read, decoded and, when there is a result, sent.
ReadPacket ==
    LET p == Head(sockbuf) IN
    /\ Data
    /\ sockbuf' = Tail(sockbuf)
    /\ log' = Append(log, p)
    /\ IF Reported(p) THEN hand' = <<p>> /\ pc' = "send" ELSE UNCHANGED <<hand, pc>>
    /\ UNCHANGED <<verbose, failing, closed, edge, arrived, errors, tokioVars, queue, taken>>

\* try_io sees WouldBlock; packets may still arrive before it clears the flag.
ReadWouldBlock ==
    /\ pc = "read" /\ ~failing /\ ~closed /\ sockbuf = <<>>
    /\ pc' = "blocked"
    /\ UNCHANGED <<verbose, kernelVars, tokioVars, hand, queue, log, taken>>

ClearReady_Mutant ==
    /\ pc = "blocked"
    /\ pc' = "wait"
    /\ UNCHANGED <<verbose, kernelVars, tokioVars, hand, queue, log, taken>>

\* A readiness that was set again since the guard was taken is kept.
ClearReady ==
    /\ pc = "blocked"
    /\ ready' = renewed
    /\ pc' = "wait"
    /\ UNCHANGED <<verbose, kernelVars, renewed, hand, queue, log, taken>>

ReadFails_Mutant ==
    /\ pc = "read" /\ failing
    /\ failing' = FALSE
    /\ ready' = renewed
    /\ pc' = "wait"
    /\ UNCHANGED <<verbose, sockbuf, closed, edge, arrived, errors, renewed, hand, queue, log, taken>>

\* A read error leaves the inner loop; the readiness stays.
ReadFails ==
    /\ pc = "read" /\ failing
    /\ failing' = FALSE
    /\ pc' = "wait"
    /\ UNCHANGED <<verbose, sockbuf, closed, edge, arrived, errors, tokioVars, hand, queue, log, taken>>

\* So does an end of file.
ReadEof ==
    /\ pc = "read" /\ ~failing /\ closed
    /\ pc' = "wait"
    /\ UNCHANGED <<verbose, kernelVars, tokioVars, hand, queue, log, taken>>

Send_Mutant ==
    /\ pc = "send"
    /\ queue' = IF Len(queue) < Capacity THEN queue \o hand ELSE queue
    /\ hand' = <<>>
    /\ pc' = "read"
    /\ UNCHANGED <<verbose, kernelVars, tokioVars, log, taken>>

SendNow_Mutant ==
    /\ pc = "send"
    /\ queue' = queue \o hand
    /\ hand' = <<>>
    /\ pc' = "read"
    /\ UNCHANGED <<verbose, kernelVars, tokioVars, log, taken>>

SendThenWait_Mutant ==
    /\ pc = "send"
    /\ Len(queue) < Capacity
    /\ queue' = queue \o hand
    /\ hand' = <<>>
    /\ ready' = renewed
    /\ pc' = "wait"
    /\ UNCHANGED <<verbose, kernelVars, renewed, log, taken>>

\* tx.send(result).await, and back into the inner loop with the old guard.
Send ==
    /\ pc = "send"
    /\ Len(queue) < Capacity
    /\ queue' = queue \o hand
    /\ hand' = <<>>
    /\ pc' = "read"
    /\ UNCHANGED <<verbose, kernelVars, tokioVars, log, taken>>

Kernel == (\E k \in Kinds : Arrive(k)) \/ SocketFails \/ SocketCloses

Poll == Readable \/ ReadPacket \/ ReadWouldBlock \/ ClearReady \/ ReadFails \/ ReadEof \/ Send

Next == Kernel \/ Driver \/ Take \/ Spawn \/ ReadableFails \/ Poll

Spec == Init /\ [][Next]_vars

\* The runtime polls a woken task, and lets the driver and the receiver run
\* again and again even if the task always has something to do (tokio's budget
\* makes its awaits yield).  Nothing makes packets arrive or the socket fail.
Fairness ==
    /\ WF_vars(Spawn) /\ WF_vars(Poll)
    /\ SF_vars(Driver) /\ SF_vars(Take)

FairSpec == Spec /\ Fairness

------------------------------------------------------------------------------
(* Properties. *)

\* The task never waits for an event that has already been delivered: when it
\* waits without readiness, whatever a read would return has an edge pending,
\* also a packet that arrived between the read that would have blocked and the
\* clearing of the flag (hci.rs:907-931).
NoLostWakeup ==
    pc = "wait" /\ ~ready /\ (sockbuf # <<>> \/ failing \/ closed) => edge

\* Nothing is lost, doubled or reordered between the read and the receiver: what
\* was and will be received is what was read and has a result, in the order in
\* which the packets arrived.  A full channel holds the task up instead
\* (hci.rs:950-960).
ReadIsReceivedInOrder ==
    LET sent == taken \o queue \o hand IN
    /\ {sent[i] : i \in DOMAIN sent} = {p \in {log[i] : i \in DOMAIN log} : Reported(p)}
    /\ \A i, j \in DOMAIN sent : i < j => sent[i].id < sent[j].id

\* Every packet the kernel has queued is read in the end, a read error on the
\* way notwithstanding, unless the socket closes or the task ends; it is at
\* the head of the queue at last (hci.rs:912-932).
QueuedIsRead ==
    \A n \in 1..MaxPackets :
        (\E i \in DOMAIN sockbuf : sockbuf[i].id = n)
            ~> (\E i \in DOMAIN log : log[i].id = n) \/ closed \/ pc = "ended"

\* Once nothing arrives any more the task sleeps: it does not read again and
\* again what has nothing to give (hci.rs:867-868).  A closed socket is the
\* exception: it stays readable, and the task reads it for ever.
FallsAsleep ==
    <>[]((pc = "wait" /\ ~ready) \/ closed \/ pc = "ended")

------------------------------------------------------------------------------
\* The task is a scanner's task as the run loop expects it (hci.rs:896-964).
Scanner == INSTANCE ScanTask WITH
    Results <- Packet,
    task <- IF pc = "start" THEN "none" ELSE IF pc = "ended" THEN "ended" ELSE "running"

ImplementsScanTask == Scanner!Spec
===============================================================================
