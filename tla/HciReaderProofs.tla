--------------------------- MODULE HciReaderProofs ---------------------------
(***************************************************************************)
(* Theorems about HciReader for every bound and every buffer size.  The    *)
(* inductive invariant adds to NoLostWakeup what the task knows at its     *)
(* other places: while it reads, the cached readiness is still set, and    *)
(* when it is about to clear it, nothing has come that an edge or a        *)
(* renewed readiness does not stand for.  The order of the results follows *)
(* from the numbers of the packets: those in the socket are later than all *)
(* that were read.                                                         *)
(***************************************************************************)
EXTENDS HciReader, TLAPS

\* Something a read would return.
Pending == sockbuf # <<>> \/ failing \/ closed

ReadyWhileReading == pc \in {"read", "blocked", "send"} => ready

\* At the two places where the driver cannot run.
EdgeForPending ==
    /\ pc = "start" /\ Pending => edge
    /\ pc = "blocked" /\ ~renewed /\ Pending => edge

------------------------------------------------------------------------------
(* Type correctness. *)

LEMMA InitType == Init => TypeOK
  <1>1. <<>> \in Seq(Packet) /\ Len(<<>>) = 0
    OBVIOUS
  <1>2. 0 \in 0..MaxPackets /\ 0 \in 0..MaxErrors /\ 0 <= SocketBuffer /\ 0 <= Capacity
    BY HciReaderAssumption
  <1>3. QED
    BY <1>1, <1>2 DEF Init, TypeOK

LEMMA KernelType ==
    ASSUME TypeOK, Kernel
    PROVE  TypeOK'
  <1>1. ASSUME NEW k \in Kinds, Arrive(k)
        PROVE  TypeOK'
    <2>1. [id |-> arrived + 1, kind |-> k] \in Packet
      BY <1>1, HciReaderAssumption DEF TypeOK, Arrive, Packet
    <2>2. sockbuf' \in Seq(Packet) /\ Len(sockbuf') <= SocketBuffer /\ edge' \in BOOLEAN
      <3>1. CASE Len(sockbuf) < SocketBuffer
        <4>1. sockbuf' = Append(sockbuf, [id |-> arrived + 1, kind |-> k]) /\ edge' = TRUE
          BY <1>1, <3>1 DEF Arrive
        <4>2. QED
          BY <2>1, <3>1, <4>1, HciReaderAssumption DEF TypeOK
      <3>2. CASE ~(Len(sockbuf) < SocketBuffer)
        BY <1>1, <3>2 DEF TypeOK, Arrive
      <3>3. QED
        BY <3>1, <3>2
    <2>3. arrived' \in 0..MaxPackets
      BY <1>1, HciReaderAssumption DEF TypeOK, Arrive
    <2>4. QED
      BY <1>1, <2>2, <2>3 DEF TypeOK, Arrive, tokioVars, taskVars
  <1>2. ASSUME SocketFails
        PROVE  TypeOK'
    BY <1>2, HciReaderAssumption DEF TypeOK, SocketFails, tokioVars, taskVars
  <1>3. ASSUME SocketCloses
        PROVE  TypeOK'
    BY <1>3 DEF TypeOK, SocketCloses, tokioVars, taskVars
  <1>4. QED
    BY <1>1, <1>2, <1>3 DEF Kernel

LEMMA TakeType ==
    ASSUME TypeOK, Take
    PROVE  TypeOK'
  <1>1. Head(queue) \in Packet /\ Tail(queue) \in Seq(Packet) /\ Len(Tail(queue)) <= Capacity
    BY HciReaderAssumption DEF TypeOK, Take
  <1>2. taken' \in Seq(Packet)
    BY <1>1 DEF TypeOK, Take
  <1>3. QED
    BY <1>1, <1>2 DEF TypeOK, Take, kernelVars, tokioVars

LEMMA ReadPacketType ==
    ASSUME TypeOK, ReadPacket
    PROVE  TypeOK'
  <1>1. Head(sockbuf) \in Packet /\ Tail(sockbuf) \in Seq(Packet) /\ Len(Tail(sockbuf)) <= SocketBuffer
    BY HciReaderAssumption DEF TypeOK, ReadPacket, Data
  <1>2. log' \in Seq(Packet)
    BY <1>1 DEF TypeOK, ReadPacket
  <1>3. hand = <<>>
    BY DEF TypeOK, ReadPacket, Data
  <1>4. /\ hand' \in {<<>>} \cup {<<p>> : p \in Packet}
        /\ hand' # <<>> <=> pc' = "send"
        /\ pc' \in {"read", "send"}
    <2>1. CASE Reported(Head(sockbuf))
      <3>1. hand' = <<Head(sockbuf)>> /\ pc' = "send"
        BY <2>1 DEF ReadPacket
      <3>2. QED
        BY <1>1, <3>1
    <2>2. CASE ~Reported(Head(sockbuf))
      <3>1. hand' = <<>> /\ pc' = "read"
        BY <1>3, <2>2 DEF ReadPacket, Data
      <3>2. QED
        BY <3>1
    <2>3. QED
      BY <2>1, <2>2
  <1>5. QED
    BY <1>1, <1>2, <1>4 DEF TypeOK, ReadPacket, tokioVars

LEMMA SendType ==
    ASSUME TypeOK, Send
    PROVE  TypeOK'
  <1>1. PICK p \in Packet : hand = <<p>>
    BY DEF TypeOK, Send
  <1>2. queue' \in Seq(Packet) /\ Len(queue') <= Capacity
    BY <1>1, HciReaderAssumption DEF TypeOK, Send
  <1>3. QED
    BY <1>2 DEF TypeOK, Send, kernelVars, tokioVars

LEMMA NextType ==
    ASSUME TypeOK, [Next]_vars
    PROVE  TypeOK'
  <1>1. CASE Kernel
    BY <1>1, KernelType
  <1>2. CASE Driver
    BY <1>2 DEF TypeOK, Driver, taskVars
  <1>3. CASE Take
    BY <1>3, TakeType
  <1>4. CASE ReadPacket
    BY <1>4, ReadPacketType
  <1>5. CASE Send
    BY <1>5, SendType
  <1>6. CASE Spawn \/ Readable \/ ReadableFails
    BY <1>6 DEF TypeOK, Spawn, Readable, ReadableFails, kernelVars, tokioVars
  <1>7. CASE ReadWouldBlock \/ ClearReady
    BY <1>7 DEF TypeOK, ReadWouldBlock, ClearReady, kernelVars, tokioVars
  <1>8. CASE ReadFails \/ ReadEof
    BY <1>8 DEF TypeOK, ReadFails, ReadEof, kernelVars, tokioVars
  <1>9. CASE UNCHANGED vars
    BY <1>9 DEF TypeOK, vars, kernelVars, tokioVars, taskVars
  <1>10. QED
    BY <1>1, <1>2, <1>3, <1>4, <1>5, <1>6, <1>7, <1>8, <1>9 DEF Next, Poll

\* The model's variables keep their types: the task holds a result exactly while
\* it sends, and neither buffer grows over its size (hci.rs:894-964).
THEOREM TypeCorrect == Spec => []TypeOK
  <1>1. Init => TypeOK
    BY InitType
  <1>2. TypeOK /\ [Next]_vars => TypeOK'
    BY NextType
  <1>3. QED
    BY <1>1, <1>2, PTL DEF Spec

------------------------------------------------------------------------------
(* No lost wakeup. *)

WakeupInv == NoLostWakeup /\ ReadyWhileReading /\ EdgeForPending

LEMMA InitWakeup == Init => WakeupInv
  BY DEF Init, WakeupInv, NoLostWakeup, ReadyWhileReading, EdgeForPending, Pending

\* What arrives is announced by an edge, unless the buffer was already full.
LEMMA KernelWakeup ==
    ASSUME TypeOK, WakeupInv, Kernel
    PROVE  WakeupInv'
  <1> USE DEF WakeupInv, NoLostWakeup, ReadyWhileReading, EdgeForPending, Pending
  <1>1. ASSUME NEW k \in Kinds, Arrive(k)
        PROVE  WakeupInv'
    BY <1>1 DEF Arrive, tokioVars, taskVars
  <1>2. CASE SocketFails
    BY <1>2 DEF SocketFails, tokioVars, taskVars
  <1>3. CASE SocketCloses
    BY <1>3 DEF SocketCloses, tokioVars, taskVars
  <1>4. QED
    BY <1>1, <1>2, <1>3 DEF Kernel

LEMMA NextWakeup ==
    ASSUME TypeOK, WakeupInv, [Next]_vars
    PROVE  WakeupInv'
  <1> USE DEF WakeupInv, NoLostWakeup, ReadyWhileReading, EdgeForPending, Pending
  <1>1. CASE Kernel
    BY <1>1, KernelWakeup
  <1>2. CASE Driver
    BY <1>2 DEF Driver, AtAwait, taskVars
  <1>3. CASE Take
    BY <1>3 DEF Take, kernelVars, tokioVars
  <1>4. CASE Spawn
    BY <1>4 DEF Spawn, kernelVars, tokioVars
  <1>5. CASE Readable \/ ReadableFails
    BY <1>5 DEF Readable, ReadableFails, kernelVars, tokioVars
  <1>6. CASE ReadPacket
    BY <1>6 DEF ReadPacket, Data, tokioVars
  <1>7. CASE ReadWouldBlock
    BY <1>7 DEF ReadWouldBlock, kernelVars, tokioVars
  <1>8. CASE ClearReady
    BY <1>8 DEF ClearReady, kernelVars
  <1>9. CASE ReadFails \/ ReadEof
    BY <1>9 DEF ReadFails, ReadEof, kernelVars, tokioVars
  <1>10. CASE Send
    BY <1>10 DEF Send, kernelVars, tokioVars
  <1>11. CASE UNCHANGED vars
    BY <1>11 DEF vars, kernelVars, tokioVars, taskVars
  <1>12. QED
    BY <1>1, <1>2, <1>3, <1>4, <1>5, <1>6, <1>7, <1>8, <1>9, <1>10, <1>11 DEF Next, Poll

\* Whatever the kernel and the driver do and in whichever order, the task never
\* sleeps on a socket that has something for it (hci.rs:907-931).
THEOREM WakeupsAreNotLost == Spec => []NoLostWakeup
  <1>1. Init => TypeOK /\ WakeupInv
    BY InitType, InitWakeup
  <1>2. TypeOK /\ WakeupInv /\ [Next]_vars => (TypeOK /\ WakeupInv)'
    BY NextType, NextWakeup
  <1>3. WakeupInv => NoLostWakeup
    BY DEF WakeupInv
  <1>4. QED
    BY <1>1, <1>2, <1>3, PTL DEF Spec

------------------------------------------------------------------------------
(* The task is a scanner's task. *)

LEMMA ScannerStep ==
    ASSUME TypeOK, [Next]_vars
    PROVE  [Scanner!Next]_(Scanner!scanVars)
  <1> USE DEF Scanner!scanVars
  <1>1. CASE Spawn
    <2>1. Scanner!Start
      BY <1>1 DEF Spawn, Scanner!Start
    <2>2. QED
      BY <2>1 DEF Scanner!Next
  <1>2. CASE ReadPacket
    <2>1. hand = <<>> /\ Head(sockbuf) \in Packet
      BY <1>2 DEF TypeOK, ReadPacket, Data
    <2>2. CASE Reported(Head(sockbuf))
      <3>1. Scanner!Produce(Head(sockbuf))
        BY <1>2, <2>1, <2>2 DEF ReadPacket, Data, Scanner!Produce
      <3>2. QED
        BY <2>1, <3>1 DEF Scanner!Next
    <2>3. CASE ~Reported(Head(sockbuf))
      BY <1>2, <2>3 DEF ReadPacket
    <2>4. QED
      BY <2>2, <2>3
  <1>3. CASE Send
    <2>1. Scanner!Send
      BY <1>3 DEF TypeOK, Send, Scanner!Send
    <2>2. QED
      BY <2>1 DEF Scanner!Next
  <1>4. CASE ReadableFails
    <2>1. Scanner!End
      BY <1>4 DEF TypeOK, ReadableFails, Scanner!End
    <2>2. QED
      BY <2>1 DEF Scanner!Next
  <1>5. CASE Take
    <2>1. Scanner!Take
      BY <1>5 DEF Take, Scanner!Take
    <2>2. QED
      BY <2>1 DEF Scanner!Next
  <1>6. CASE Readable \/ ReadWouldBlock \/ ClearReady \/ ReadFails \/ ReadEof
    BY <1>6 DEF Readable, ReadWouldBlock, ClearReady, ReadFails, ReadEof
  <1>7. CASE Kernel \/ Driver \/ UNCHANGED vars
    BY <1>7 DEF Kernel, Arrive, SocketFails, SocketCloses, Driver, taskVars, vars
  <1>8. QED
    BY <1>1, <1>2, <1>3, <1>4, <1>5, <1>6, <1>7 DEF Next, Poll

\* The readiness loop does for the run loop what ScanTask promises: one result
\* at a time, in order, waiting while the channel is full (hci.rs:894-964).
THEOREM ReaderImplementsScanTask == Spec => ImplementsScanTask
  <1>1. Init => Scanner!Init
    BY DEF Init, Scanner!Init
  <1>2. TypeOK /\ [Next]_vars => [Scanner!Next]_(Scanner!scanVars)
    BY ScannerStep
  <1>3. QED
    BY TypeCorrect, <1>1, <1>2, PTL DEF Spec, ImplementsScanTask, Scanner!Spec
------------------------------------------------------------------------------
(* Results come in the order of arrival. *)

Sent == taken \o queue \o hand

Increasing(s) == \A i, j \in DOMAIN s : i < j => s[i].id < s[j].id

\* The results are the packets that were read, in their order.
SentFromLog ==
    /\ \A i \in DOMAIN Sent : Reported(Sent[i]) /\ \E j \in DOMAIN log : log[j] = Sent[i]
    /\ \A j \in DOMAIN log : Reported(log[j]) => \E i \in DOMAIN Sent : Sent[i] = log[j]
    /\ Increasing(Sent)

\* What waits in the socket came after everything that was read.
LaterInSocket ==
    /\ Increasing(sockbuf)
    /\ \A i \in DOMAIN log : log[i].id <= arrived
    /\ \A j \in DOMAIN sockbuf : sockbuf[j].id <= arrived
    /\ \A i \in DOMAIN log, j \in DOMAIN sockbuf : log[i].id < sockbuf[j].id

\* Moving a result from the queue to the receiver, or from the hand into the
\* queue, leaves the results as they are.
LEMMA MoveAlong ==
    ASSUME NEW S, NEW t \in Seq(S), NEW q \in Seq(S), NEW h \in Seq(S)
    PROVE  /\ q # <<>> => (Append(t, Head(q)) \o Tail(q)) \o h = (t \o q) \o h
           /\ (t \o (q \o h)) \o <<>> = (t \o q) \o h
           /\ t \o q \o h \in Seq(S)
  <1>1. ASSUME q # <<>>
        PROVE  Append(t, Head(q)) \o Tail(q) = t \o q
    BY <1>1
  <1>2. (t \o (q \o h)) \o <<>> = (t \o q) \o h
    OBVIOUS
  <1>3. t \o q \o h \in Seq(S)
    OBVIOUS
  <1>4. q # <<>> => (Append(t, Head(q)) \o Tail(q)) \o h = (t \o q) \o h
    <2> SUFFICES ASSUME q # <<>> PROVE (Append(t, Head(q)) \o Tail(q)) \o h = (t \o q) \o h
      OBVIOUS
    <2>1. Append(t, Head(q)) \o Tail(q) = t \o q
      BY <1>1
    <2>2. QED
      BY <2>1, Zenon
  <1>5. QED
    BY <1>2, <1>3, <1>4

LEMMA AppendFacts ==
    ASSUME NEW S, NEW s \in Seq(S), NEW e \in S
    PROVE  /\ s \o <<e>> = Append(s, e)
           /\ Len(s) \in Nat /\ DOMAIN s = 1..Len(s)
           /\ DOMAIN Append(s, e) = 1..(Len(s) + 1)
           /\ Append(s, e)[Len(s) + 1] = e
           /\ \A i \in DOMAIN s : Append(s, e)[i] = s[i] /\ s[i] \in S
  OBVIOUS

\* An element that is greater than all others goes to the end.
LEMMA IncreasingAppend ==
    ASSUME NEW s \in Seq(Packet), NEW e \in Packet, Increasing(s),
           \A i \in DOMAIN s : s[i].id < e.id
    PROVE  Increasing(Append(s, e))
  <1>1. /\ Len(s) \in Nat /\ DOMAIN s = 1..Len(s)
        /\ DOMAIN Append(s, e) = 1..(Len(s) + 1)
        /\ Append(s, e)[Len(s) + 1] = e
        /\ \A i \in DOMAIN s : Append(s, e)[i] = s[i]
    BY AppendFacts
  <1>2. QED
    BY <1>1 DEF Increasing
OrderInv == SentFromLog /\ LaterInSocket

LEMMA SentType ==
    ASSUME TypeOK
    PROVE  Sent \in Seq(Packet) /\ hand \in Seq(Packet)
  <1>1. CASE hand = <<>>
    BY <1>1, MoveAlong DEF TypeOK, Sent
  <1>2. ASSUME NEW p \in Packet, hand = <<p>>
        PROVE  Sent \in Seq(Packet) /\ hand \in Seq(Packet)
    <2>1. hand \in Seq(Packet)
      BY <1>2
    <2>2. QED
      BY <2>1, MoveAlong DEF TypeOK, Sent
  <1>3. QED
    BY <1>1, <1>2 DEF TypeOK

\* Receiving and sending leave the results as they are.
LEMMA SentMoves ==
    ASSUME TypeOK, Take \/ Send
    PROVE  Sent' = Sent
  <1>1. taken \in Seq(Packet) /\ queue \in Seq(Packet) /\ hand \in Seq(Packet)
    BY SentType DEF TypeOK
  <1>2. CASE Take
    BY <1>1, <1>2, MoveAlong DEF Take, Sent
  <1>3. CASE Send
    <2>1. taken' = taken /\ queue' = queue \o hand /\ hand' = <<>>
      BY <1>3 DEF Send
    <2>2. QED
      BY <1>1, <2>1, MoveAlong DEF Sent
  <1>4. QED
    BY <1>2, <1>3

\* Reading takes the first packet, which is later than all that were read.
LEMMA ReadOrder ==
    ASSUME TypeOK, OrderInv, ReadPacket
    PROVE  OrderInv'
  <1> DEFINE p == Head(sockbuf)
  <1>1. /\ sockbuf \in Seq(Packet) /\ sockbuf # <<>> /\ log \in Seq(Packet)
        /\ sockbuf' = Tail(sockbuf) /\ log' = Append(log, p)
        /\ UNCHANGED <<arrived, queue, taken, verbose>> /\ hand = <<>>
    BY DEF TypeOK, ReadPacket, Data
  <1>2. /\ p \in Packet /\ 1 \in DOMAIN sockbuf /\ sockbuf[1] = p /\ Len(sockbuf) \in Nat
        /\ \A j \in DOMAIN Tail(sockbuf) : j + 1 \in DOMAIN sockbuf /\ Tail(sockbuf)[j] = sockbuf[j + 1]
        /\ \A j \in DOMAIN Tail(sockbuf) : j \in Nat /\ j >= 1
    BY <1>1
  <1>3. /\ Len(log) \in Nat /\ DOMAIN log = 1..Len(log) /\ DOMAIN log' = 1..(Len(log) + 1)
        /\ log'[Len(log) + 1] = p
        /\ \A i \in DOMAIN log : log'[i] = log[i]
    BY <1>1, <1>2, AppendFacts
  <1>4. \A i \in DOMAIN log : log[i].id < p.id
    BY <1>2 DEF OrderInv, LaterInSocket
  <1> HIDE DEF p
  <1>5. LaterInSocket'
    <2>1. Increasing(sockbuf')
      BY <1>1, <1>2 DEF OrderInv, LaterInSocket, Increasing
    <2>2. p.id <= arrived
      BY <1>2 DEF OrderInv, LaterInSocket
    <2>3. \A j \in DOMAIN sockbuf' : sockbuf'[j].id <= arrived /\ p.id < sockbuf'[j].id
      <3>1. ASSUME NEW j \in DOMAIN Tail(sockbuf)
            PROVE  sockbuf[j + 1].id <= arrived /\ p.id < sockbuf[j + 1].id
        <4>1. j + 1 \in DOMAIN sockbuf /\ 1 < j + 1
          BY <1>2
        <4>2. QED
          BY <1>2, <4>1 DEF OrderInv, LaterInSocket, Increasing
      <3>2. QED
        BY <1>1, <1>2, <3>1
    <2>4. \A i \in DOMAIN log' : log'[i] = p \/ (i \in DOMAIN log /\ log'[i] = log[i])
      BY <1>3
    <2>5. \A i \in DOMAIN log, j \in DOMAIN sockbuf' : log[i].id < sockbuf'[j].id
      BY <1>1, <1>2 DEF OrderInv, LaterInSocket
    <2>6. QED
      BY <1>1, <2>1, <2>2, <2>3, <2>4, <2>5 DEF OrderInv, LaterInSocket
  <1>6. SentFromLog'
    <2>1. CASE Reported(p)
      <3>1. Sent' = Append(Sent, p)
        <4>1. hand' = <<p>>
          BY <2>1 DEF ReadPacket, p
        <4>2. taken \o queue \in Seq(Packet)
          BY DEF TypeOK
        <4>3. Sent' = (taken \o queue) \o <<p>> /\ Sent = taken \o queue
          BY <1>1, <4>1, <4>2 DEF Sent
        <4>4. QED
          BY <1>2, <4>2, <4>3, AppendFacts
      <3>2. /\ Len(Sent) \in Nat /\ DOMAIN Sent = 1..Len(Sent)
            /\ DOMAIN Sent' = 1..(Len(Sent) + 1) /\ Sent'[Len(Sent) + 1] = p
            /\ \A i \in DOMAIN Sent : Sent'[i] = Sent[i]
        BY <1>2, <3>1, SentType, AppendFacts
      <3>3. \A i \in DOMAIN Sent : Sent[i].id < p.id
        BY <1>4 DEF OrderInv, SentFromLog
      <3>4. Increasing(Sent')
        BY <1>2, <3>1, <3>3, SentType, IncreasingAppend DEF OrderInv, SentFromLog
      <3>5. ASSUME NEW i \in DOMAIN Sent'
            PROVE  Reported(Sent[i])' /\ \E j \in DOMAIN log' : log'[j] = Sent'[i]
        <4>1. CASE i \in DOMAIN Sent
          BY <1>1, <1>3, <3>2, <4>1 DEF OrderInv, SentFromLog, Reported
        <4>2. CASE i = Len(Sent) + 1
          <5>1. Sent'[i] = p /\ log'[Len(log) + 1] = p /\ Len(log) + 1 \in DOMAIN log'
            BY <1>3, <3>2, <4>2
          <5>2. Reported(Sent[i])'
            BY <1>1, <2>1, <5>1 DEF Reported
          <5>3. QED
            BY <5>1, <5>2
        <4>3. QED
          BY <3>2, <3>5, <4>1, <4>2
      <3>6. ASSUME NEW j \in DOMAIN log', Reported(log[j])'
            PROVE  \E i \in DOMAIN Sent' : Sent'[i] = log'[j]
        <4>1. CASE j \in DOMAIN log
          BY <1>1, <1>3, <3>2, <3>6, <4>1 DEF OrderInv, SentFromLog, Reported
        <4>2. CASE j = Len(log) + 1
          BY <1>3, <3>2, <4>2
        <4>3. QED
          BY <1>3, <3>6, <4>1, <4>2
      <3>7. QED
        BY <3>4, <3>5, <3>6 DEF SentFromLog
    <2>2. CASE ~Reported(p)
      <3>1. Sent' = Sent
        BY <1>1, <2>2 DEF ReadPacket, Sent, p
      <3>2. QED
        BY <1>1, <1>3, <2>2, <3>1 DEF OrderInv, SentFromLog, Reported
    <2>3. QED
      BY <2>1, <2>2
  <1>7. QED
    BY <1>5, <1>6 DEF OrderInv

\* A packet that arrives has the next number.
LEMMA ArriveOrder ==
    ASSUME TypeOK, OrderInv, NEW k \in Kinds, Arrive(k)
    PROVE  OrderInv'
  <1> DEFINE p == [id |-> arrived + 1, kind |-> k]
  <1>1. p \in Packet /\ p.id = arrived + 1 /\ arrived \in Nat /\ arrived' = arrived + 1
    BY HciReaderAssumption DEF TypeOK, Arrive, Packet
  <1> HIDE DEF p
  <1>2. UNCHANGED <<verbose, hand, queue, log, taken>>
    BY DEF Arrive, taskVars
  <1>3. SentFromLog'
    BY <1>2 DEF OrderInv, SentFromLog, Sent, Reported, Increasing
  <1>4. /\ \A i \in DOMAIN log : log[i].id \in Nat
        /\ \A i \in DOMAIN sockbuf : sockbuf[i].id \in Nat
    <2>1. ASSUME NEW s \in Seq(Packet), NEW i \in DOMAIN s
          PROVE  s[i].id \in Nat
      <3>1. s[i] \in Packet
        BY <2>1
      <3>2. QED
        BY <3>1 DEF Packet
    <2>2. QED
      BY <2>1 DEF TypeOK
  <1>5. CASE sockbuf' = sockbuf
    BY <1>1, <1>2, <1>3, <1>4, <1>5 DEF OrderInv, LaterInSocket, Increasing
  <1>6. CASE sockbuf' = Append(sockbuf, p)
    <2>1. /\ Len(sockbuf) \in Nat /\ DOMAIN sockbuf = 1..Len(sockbuf)
          /\ DOMAIN sockbuf' = 1..(Len(sockbuf) + 1) /\ sockbuf'[Len(sockbuf) + 1] = p
          /\ \A i \in DOMAIN sockbuf : sockbuf'[i] = sockbuf[i]
      BY <1>1, <1>6, AppendFacts DEF TypeOK
    <2>2. \A i \in DOMAIN sockbuf' : (i \in DOMAIN sockbuf /\ sockbuf'[i] = sockbuf[i]) \/ sockbuf'[i] = p
      BY <2>1
    <2>3. Increasing(sockbuf')
      <3>1. \A i \in DOMAIN sockbuf : sockbuf[i].id < p.id
        BY <1>1, <1>4 DEF OrderInv, LaterInSocket
      <3>2. QED
        BY <1>1, <1>6, <3>1, IncreasingAppend DEF TypeOK, OrderInv, LaterInSocket
    <2>4. QED
      BY <1>1, <1>2, <1>3, <1>4, <2>2, <2>3 DEF OrderInv, LaterInSocket
  <1>7. QED
    BY <1>5, <1>6 DEF Arrive, p

LEMMA NextOrder ==
    ASSUME TypeOK, OrderInv, [Next]_vars
    PROVE  OrderInv'
  <1>1. ASSUME UNCHANGED <<verbose, sockbuf, arrived, log>>, Sent' = Sent
        PROVE  OrderInv'
    BY <1>1 DEF OrderInv, SentFromLog, LaterInSocket, Reported, Increasing
  <1>2. CASE Kernel
    <2>1. CASE SocketFails \/ SocketCloses
      BY <1>1, <2>1 DEF SocketFails, SocketCloses, taskVars, Sent
    <2>2. QED
      BY <1>2, <2>1, ArriveOrder DEF Kernel
  <1>3. CASE ReadPacket
    BY <1>3, ReadOrder
  <1>4. CASE Take \/ Send
    BY <1>1, <1>4, SentMoves DEF Take, Send, kernelVars
  <1>5. CASE Driver \/ Spawn \/ Readable \/ ReadableFails \/ ReadWouldBlock \/ ClearReady
             \/ ReadFails \/ ReadEof
    BY <1>1, <1>5 DEF Driver, Spawn, Readable, ReadableFails, ReadWouldBlock, ClearReady, ReadFails,
                      ReadEof, kernelVars, taskVars, Sent
  <1>6. CASE UNCHANGED vars
    BY <1>1, <1>6 DEF vars, kernelVars, taskVars, Sent
  <1>7. QED
    BY <1>2, <1>3, <1>4, <1>5, <1>6 DEF Next, Poll

LEMMA InitOrder == Init => OrderInv
  <1>1. ASSUME Init
        PROVE  Sent = <<>> /\ log = <<>> /\ sockbuf = <<>>
    BY <1>1 DEF Init, Sent
  <1>2. QED
    BY <1>1 DEF OrderInv, SentFromLog, LaterInSocket, Increasing

\* However long the run and whatever the channel's size, each packet that was read
\* and has a result is received once and in its turn (hci.rs:950-960).
THEOREM ResultsInOrder == Spec => []ReadIsReceivedInOrder
  <1>1. Init => TypeOK /\ OrderInv
    BY InitType, InitOrder
  <1>2. TypeOK /\ OrderInv /\ [Next]_vars => (TypeOK /\ OrderInv)'
    BY NextType, NextOrder
  <1>3. OrderInv => ReadIsReceivedInOrder
    <2> SUFFICES ASSUME SentFromLog
                 PROVE  ReadIsReceivedInOrder
      BY DEF OrderInv
    <2>1. {Sent[i] : i \in DOMAIN Sent} = {p \in {log[i] : i \in DOMAIN log} : Reported(p)}
      BY DEF SentFromLog
    <2>2. QED
      BY <2>1 DEF SentFromLog, Increasing, Sent, ReadIsReceivedInOrder
  <1>4. QED
    BY <1>1, <1>2, <1>3, PTL DEF Spec
===============================================================================
