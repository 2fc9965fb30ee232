---------------------------- MODULE RunLoopProofs ----------------------------
(***************************************************************************)
(* Theorems about RunLoop for every set of tags, interval, option and      *)
(* bound.  None of them follows from the throttle's own theorems: they     *)
(* relate its map and the loop's set of E1 tags to the history of what     *)
(* became of every result.  The inductive invariants say that both are     *)
(* made from that history and from nothing else.                           *)
(***************************************************************************)
EXTENDS RunLoop, SequenceTheorems, TLAPS

Judgement == [res : Results, fate : Fates, at : 0..MaxClock]

\* The types that the proofs need; what the throttle keeps for itself is not
\* among them.
LoopType ==
    /\ interval \in Nat /\ clock \in 0..MaxClock
    /\ hand \in {<<>>} \cup {<<r>> : r \in Results}
    /\ queue \in Seq(Results)
    /\ e1_devices \subseteq Mac
    /\ judged \in Seq(Judgement)

------------------------------------------------------------------------------
(* Facts about the pieces. *)

\* A measurement is no decode error, and has a tag and a format.
LEMMA MeasurementFields ==
    ASSUME NEW r \in Results, IsMeasurement(r)
    PROVE  r \in Measurement /\ r.mac \in Mac /\ r.fmt \in Formats
  BY DEF Results, IsMeasurement, Measurement, DecodeError

\* The cleanup takes entries away and changes none.
LEMMA KeptIsPart ==
    ASSUME NEW t
    PROVE  /\ DOMAIN T!Kept(t) \subseteq DOMAIN last_seen
           /\ \A x \in DOMAIN T!Kept(t) : T!Kept(t)[x] = last_seen[x]
  <1>1. DOMAIN T!Restrict(last_seen, T!Fresh(t)) = T!Fresh(t)
        /\ \A x \in T!Fresh(t) : T!Restrict(last_seen, T!Fresh(t))[x] = last_seen[x]
    BY DEF T!Restrict
  <1>2. T!Fresh(t) \subseteq DOMAIN last_seen
    BY DEF T!Fresh
  <1>3. T!Kept(t) = last_seen \/ T!Kept(t) = T!Restrict(last_seen, T!Fresh(t))
    BY DEF T!Kept, T!cleanup_stale
  <1>4. QED
    BY <1>1, <1>2, <1>3

\* Judging a result adds one entry to the history and keeps the others.
LEMMA JudgeAppends ==
    ASSUME LoopType, clock' \in 0..MaxClock,
           NEW r \in Results, NEW fate \in Fates, Judge(r, fate)
    PROVE  /\ judged' \in Seq(Judgement)
           /\ DOMAIN judged = 1..Len(judged) /\ Len(judged) \in Nat
           /\ DOMAIN judged' = 1..(Len(judged) + 1)
           /\ \A i \in DOMAIN judged : i \in DOMAIN judged' /\ judged'[i] = judged[i]
           /\ judged'[Len(judged) + 1].res = r
           /\ judged'[Len(judged) + 1].fate = fate
           /\ judged'[Len(judged) + 1].at = clock'
  <1>1. [res |-> r, fate |-> fate, at |-> clock'] \in Judgement
    BY DEF Judgement
  <1>2. QED
    BY <1>1 DEF LoopType, Judge

\* Receiving moves the queue on.
LEMMA ReceiveFacts ==
    ASSUME LoopType, Receive
    PROVE  /\ Head(queue) \in Results /\ queue' \in Seq(Results)
           /\ task' = task /\ hand' = hand /\ options' = options
           /\ exit_code = "running" /\ pc = "recv"
  BY DEF LoopType, Receive, Scanner!Take, Scanner!scanVars

\* What a call of the throttle does to the clock and to the interval.
LEMMA CheckFacts ==
    ASSUME LoopType, NEW d \in Delays, T!Check(d)
    PROVE  /\ clock + d \in 0..MaxClock /\ clock' = clock + d
           /\ interval' = interval
  BY RunLoopAssumption DEF LoopType, T!Check

------------------------------------------------------------------------------
(* Types. *)

\* What every iteration of the loop does, whatever it decides.
LEMMA LoopFacts ==
    ASSUME LoopType,
           ReceiveRedundant \/ ReceiveThrottled \/ ReceiveEmitted \/ ReceivePanics \/ ReceiveError
    PROVE  Receive /\ interval' = interval /\ clock' \in 0..MaxClock
  <1>1. CASE ReceiveRedundant \/ ReceiveError
    BY <1>1 DEF ReceiveRedundant, ReceiveError, throttleVars, LoopType
  <1>2. CASE ReceiveThrottled
    <2>1. PICK d \in Delays : T!Suppress(Head(queue).mac, d)
      BY <1>2 DEF ReceiveThrottled
    <2>2. QED
      BY <1>2, <2>1, CheckFacts DEF ReceiveThrottled, ReceiveKept, T!Suppress
  <1>3. CASE ReceiveEmitted
    <2>1. CASE options.throttle
      <3>1. PICK d \in Delays : T!Emit(Head(queue).mac, d)
        BY <1>3, <2>1 DEF ReceiveEmitted
      <3>2. QED
        BY <1>3, <3>1, CheckFacts DEF ReceiveEmitted, ReceiveKept, T!Emit
    <2>2. CASE ~options.throttle
      BY <1>3, <2>2 DEF ReceiveEmitted, ReceiveKept, throttleVars, LoopType
    <2>3. QED
      BY <2>1, <2>2
  <1>4. CASE ReceivePanics
    BY <1>4 DEF ReceivePanics, ReceiveKept, T!CleanupPanics, LoopType
  <1>5. QED
    BY <1>1, <1>2, <1>3, <1>4

\* Each iteration judges the head of the queue, except the one that panics.
LEMMA LoopJudges ==
    ASSUME LoopType,
           ReceiveRedundant \/ ReceiveThrottled \/ ReceiveEmitted \/ ReceiveError
    PROVE  \E fate \in Fates : Judge(Head(queue), fate)
  BY DEF ReceiveRedundant, ReceiveThrottled, ReceiveEmitted, ReceiveError, Fates

LEMMA LoopE1 ==
    ASSUME LoopType, ReceiveThrottled \/ ReceiveEmitted \/ ReceivePanics
    PROVE  /\ Head(queue) \in Results /\ IsMeasurement(Head(queue)) /\ ~IsRedundantV6(Head(queue))
           /\ Head(queue).mac \in Mac
           /\ e1_devices' = AfterE1(Head(queue))
           /\ e1_devices' \subseteq Mac
  <1>1. ReceiveKept
    BY DEF ReceiveThrottled, ReceiveEmitted, ReceivePanics
  <1>2. Head(queue) \in Results /\ IsMeasurement(Head(queue))
    BY <1>1, ReceiveFacts DEF ReceiveKept
  <1>3. Head(queue).mac \in Mac
    BY <1>2, MeasurementFields
  <1>4. QED
    BY <1>1, <1>2, <1>3 DEF ReceiveKept, AfterE1, LoopType

LEMMA InitType == Init => LoopType
  <1>1. <<>> \in Seq(Results) /\ <<>> \in Seq(Judgement) /\ 0 \in 0..MaxClock
    BY RunLoopAssumption
  <1>2. ASSUME Init
        PROVE  /\ interval \in Nat /\ clock = 0 /\ hand = <<>> /\ queue = <<>>
               /\ e1_devices = {} /\ judged = <<>>
    BY <1>2, RunLoopAssumption DEF Init, T!Init, Scanner!Init
  <1>3. QED
    BY <1>1, <1>2 DEF LoopType

LEMMA NextType ==
    ASSUME LoopType, [Next]_vars
    PROVE  LoopType'
  <1>1. CASE ReceiveRedundant \/ ReceiveThrottled \/ ReceiveEmitted \/ ReceivePanics \/ ReceiveError
    <2>1. Receive /\ interval' = interval /\ clock' \in 0..MaxClock
      BY <1>1, LoopFacts
    <2>2. hand' = hand /\ queue' \in Seq(Results) /\ Head(queue) \in Results
      BY <2>1, ReceiveFacts
    <2>3. judged' \in Seq(Judgement)
      <3>1. CASE ReceivePanics
        BY <3>1 DEF ReceivePanics, LoopType
      <3>2. CASE ~ReceivePanics
        <4>1. PICK fate \in Fates : Judge(Head(queue), fate)
          BY <1>1, <3>2, LoopJudges
        <4>2. QED
          BY <2>1, <2>2, <4>1, JudgeAppends
      <3>3. QED
        BY <3>1, <3>2
    <2>4. e1_devices' \subseteq Mac
      <3>1. CASE ReceiveRedundant \/ ReceiveError
        BY <3>1 DEF ReceiveRedundant, ReceiveError, LoopType
      <3>2. CASE ReceiveThrottled \/ ReceiveEmitted \/ ReceivePanics
        BY <3>2, LoopE1
      <3>3. QED
        BY <1>1, <3>1, <3>2
    <2>5. QED
      BY <2>1, <2>2, <2>3, <2>4 DEF LoopType
  <1>2. ASSUME NEW r \in Results, Decode(r)
        PROVE  LoopType'
    BY <1>2 DEF LoopType, Decode, Scanner!Produce, loopVars, throttleVars
  <1>3. CASE Send
    <2>1. PICK r \in Results : hand = <<r>>
      BY <1>3 DEF LoopType, Send, Scanner!Send
    <2>2. queue' \in Seq(Results) /\ hand' = <<>>
      BY <1>3, <2>1 DEF LoopType, Send, Scanner!Send
    <2>3. QED
      BY <1>3, <2>2 DEF LoopType, Send, loopVars, throttleVars
  <1>4. CASE StartScanOk \/ ScannerEnds
    BY <1>4 DEF LoopType, StartScanOk, ScannerEnds, Scanner!Start, Scanner!End, loopVars, throttleVars
  <1>5. CASE StartScanFails \/ RecvClosed \/ WriteReturns \/ WriteFails
    BY <1>5 DEF LoopType, StartScanFails, RecvClosed, WriteReturns, WriteFails, throttleVars, givenVars
  <1>6. CASE Tick
    <2>1. clock' \in 0..MaxClock /\ interval' = interval
      BY <1>6, RunLoopAssumption DEF LoopType, Tick, T!Tick
    <2>2. QED
      BY <1>6, <2>1 DEF LoopType, Tick, givenVars
  <1>7. CASE UNCHANGED vars
    BY <1>7 DEF LoopType, vars, throttleVars, givenVars
  <1>8. ASSUME NEW f \in Formats, NEW m \in Mac, Decode([fmt |-> f, mac |-> m, stamp |-> clock])
        PROVE  LoopType'
    <2>1. [fmt |-> f, mac |-> m, stamp |-> clock] \in Results
      BY DEF LoopType, Results, Measurement
    <2>2. QED
      BY <1>2, <1>8, <2>1
  <1>9. CASE Decode(DecodeError)
    BY <1>2, <1>9 DEF Results
  <1>10. QED
    BY <1>1, <1>3, <1>4, <1>5, <1>6, <1>7, <1>8, <1>9 DEF Next, Loop, Ended

LEMMA LoopTyped == Spec => []LoopType
  <1>1. Init => LoopType
    BY InitType
  <1>2. LoopType /\ [Next]_vars => LoopType'
    BY NextType
  <1>3. QED
    BY <1>1, <1>2, PTL DEF Spec

------------------------------------------------------------------------------
(* A clean exit leaves nothing behind. *)

\* Only a running task holds a result.
HandOfRunning == task # "running" => hand = <<>>

DrainInv == HandOfRunning /\ CleanExitDrained

LEMMA DrainStep ==
    ASSUME LoopType, DrainInv, [Next]_vars
    PROVE  DrainInv'
  <1> USE DEF DrainInv, HandOfRunning, CleanExitDrained
  <1>1. CASE ReceiveRedundant \/ ReceiveThrottled \/ ReceiveEmitted \/ ReceivePanics \/ ReceiveError
    <2>1. task' = task /\ hand' = hand /\ exit_code = "running"
      BY <1>1, LoopFacts, ReceiveFacts
    <2>2. exit_code' \in {"running", "panic"}
      BY <1>1, <2>1 DEF ReceiveRedundant, ReceiveThrottled, ReceiveEmitted, ReceivePanics, ReceiveError
    <2>3. QED
      BY <2>1, <2>2
  <1>2. ASSUME NEW r, Decode(r)
        PROVE  DrainInv'
    BY <1>2 DEF Decode, Schedulable, Scanner!Produce, loopVars
  <1>3. CASE Send
    BY <1>3 DEF Send, Schedulable, Scanner!Send, loopVars
  <1>4. CASE StartScanOk \/ ScannerEnds
    BY <1>4 DEF StartScanOk, ScannerEnds, Schedulable, Scanner!Start, Scanner!End, loopVars
  <1>5. CASE RecvClosed
    BY <1>5 DEF RecvClosed, givenVars
  <1>6. CASE StartScanFails \/ WriteReturns \/ WriteFails \/ Tick
    BY <1>6 DEF StartScanFails, WriteReturns, WriteFails, Tick, givenVars
  <1>7. CASE UNCHANGED vars
    BY <1>7 DEF vars, givenVars
  <1>8. QED
    BY <1>1, <1>2, <1>3, <1>4, <1>5, <1>6, <1>7 DEF Next, Loop, Ended

\* The program exits with success only when every result its scanner produced has
\* been received and every line that was begun is written (app.rs:138, 162).
THEOREM CleanExit == Spec => []CleanExitDrained
  <1>1. Init => DrainInv
    BY DEF Init, Scanner!Init, DrainInv, HandOfRunning, CleanExitDrained
  <1>2. LoopType /\ DrainInv /\ [Next]_vars => DrainInv'
    BY DrainStep
  <1>3. DrainInv => CleanExitDrained
    BY DEF DrainInv
  <1>4. QED
    BY LoopTyped, <1>1, <1>2, <1>3, PTL DEF Spec

------------------------------------------------------------------------------
(* The loop's memory is made from the history. *)

\* A tag is in e1_devices exactly if an E1 frame of it has been judged, until a
\* panic takes the frame along that was just recorded.
E1Recorded ==
    exit_code = "running" =>
        \A m \in Mac :
            m \in e1_devices <=>
                \E i \in DOMAIN judged : judged[i].res.fmt = "E1" /\ judged[i].res.mac = m

\* Every entry of the throttle's map is the time of a write.
EntriesAreWrites ==
    \A m \in DOMAIN last_seen :
        \E i \in DOMAIN judged :
            /\ judged[i].fate = "emit" /\ IsMeasurement(judged[i].res)
            /\ judged[i].res.mac = m /\ judged[i].at = last_seen[m]

MemoryInv == E1Recorded /\ EntriesAreWrites

LEMMA E1Step ==
    ASSUME LoopType, E1Recorded,
           ReceiveRedundant \/ ReceiveThrottled \/ ReceiveEmitted \/ ReceiveError
    PROVE  E1Recorded'
  <1> DEFINE r == Head(queue)
             n == Len(judged) + 1
  <1>1. Receive /\ clock' \in 0..MaxClock /\ r \in Results /\ exit_code = "running"
    BY LoopFacts, ReceiveFacts
  <1>2. PICK fate \in Fates : Judge(r, fate)
    BY LoopJudges
  <1>3. /\ DOMAIN judged = 1..Len(judged) /\ Len(judged) \in Nat /\ DOMAIN judged' = 1..n
        /\ \A i \in DOMAIN judged : judged'[i] = judged[i]
        /\ judged'[n].res = r
    BY <1>1, <1>2, JudgeAppends
  <1>4. ASSUME NEW m \in Mac
        PROVE  (\E i \in DOMAIN judged' : judged'[i].res.fmt = "E1" /\ judged'[i].res.mac = m)
               <=> \/ \E i \in DOMAIN judged : judged[i].res.fmt = "E1" /\ judged[i].res.mac = m
                   \/ r.fmt = "E1" /\ r.mac = m
    BY <1>3
  <1>5. \A m \in Mac : m \in e1_devices' <=> m \in e1_devices \/ (r.fmt = "E1" /\ r.mac = m)
    <2>1. CASE ReceiveRedundant \/ ReceiveError
      <3>1. r.fmt # "E1" /\ e1_devices' = e1_devices
        BY <2>1 DEF ReceiveRedundant, ReceiveError, IsRedundantV6, IsMeasurement
      <3>2. QED
        BY <3>1
    <2>2. CASE ReceiveThrottled \/ ReceiveEmitted
      BY <2>2, LoopE1 DEF AfterE1
    <2>3. QED
      BY <2>1, <2>2
  <1>6. QED
    BY <1>1, <1>4, <1>5 DEF E1Recorded

\* An entry that stays, or one that was just made by a write.
LEMMA EntriesStep ==
    ASSUME LoopType, EntriesAreWrites,
           ReceiveRedundant \/ ReceiveThrottled \/ ReceiveEmitted \/ ReceiveError
    PROVE  EntriesAreWrites'
  <1> DEFINE r == Head(queue)
             n == Len(judged) + 1
  <1>1. Receive /\ clock' \in 0..MaxClock /\ r \in Results
    BY LoopFacts, ReceiveFacts
  <1>2. PICK fate \in Fates : Judge(r, fate)
    BY LoopJudges
  <1>3. \A i \in DOMAIN judged : i \in DOMAIN judged' /\ judged'[i] = judged[i]
    BY <1>1, <1>2, JudgeAppends
  <1>4. ASSUME NEW m \in DOMAIN last_seen', m \in DOMAIN last_seen, last_seen'[m] = last_seen[m]
        PROVE  \E i \in DOMAIN judged' :
                  /\ judged'[i].fate = "emit" /\ IsMeasurement(judged'[i].res)
                  /\ judged'[i].res.mac = m /\ judged'[i].at = last_seen'[m]
    BY <1>3, <1>4 DEF EntriesAreWrites
  <1>5. CASE last_seen' = last_seen
    BY <1>4, <1>5 DEF EntriesAreWrites
  <1>6. CASE ReceiveThrottled
    <2>1. last_seen' = T!Kept(clock)
      BY <1>6 DEF ReceiveThrottled, T!Suppress
    <2>2. QED
      BY <1>4, <2>1, KeptIsPart DEF EntriesAreWrites
  <1>7. CASE ReceiveEmitted /\ options.throttle
    <2>1. PICK d \in Delays : T!Emit(r.mac, d)
      BY <1>7 DEF ReceiveEmitted
    <2>2. last_seen' = T!Insert(T!Kept(clock), r.mac, clock + d) /\ clock' = clock + d
      BY <2>1 DEF T!Emit, T!Check
    <2>3. /\ DOMAIN last_seen' = DOMAIN T!Kept(clock) \cup {r.mac}
          /\ last_seen'[r.mac] = clock'
          /\ \A m \in DOMAIN T!Kept(clock) : m # r.mac => last_seen'[m] = last_seen[m]
      BY <2>2, KeptIsPart DEF T!Insert
    <2>4. Judge(r, "emit") /\ IsMeasurement(r)
      BY <1>7 DEF ReceiveEmitted, ReceiveKept
    <2>5. /\ n \in DOMAIN judged'
          /\ judged'[n].res = r /\ judged'[n].fate = "emit" /\ judged'[n].at = clock'
      BY <1>1, <2>4, JudgeAppends DEF Fates
    <2>6. ASSUME NEW m \in DOMAIN last_seen'
          PROVE  \E i \in DOMAIN judged' :
                    /\ judged'[i].fate = "emit" /\ IsMeasurement(judged'[i].res)
                    /\ judged'[i].res.mac = m /\ judged'[i].at = last_seen'[m]
      <3>1. CASE m = r.mac
        BY <2>3, <2>4, <2>5, <3>1
      <3>2. CASE m # r.mac
        BY <1>4, <2>3, <3>2, KeptIsPart
      <3>3. QED
        BY <3>1, <3>2
    <2>7. QED
      BY <2>6 DEF EntriesAreWrites
  <1>8. CASE ReceiveEmitted /\ ~options.throttle
    BY <1>5, <1>8 DEF ReceiveEmitted, throttleVars
  <1>9. CASE ReceiveRedundant \/ ReceiveError
    BY <1>5, <1>9 DEF ReceiveRedundant, ReceiveError, throttleVars
  <1>10. QED
    BY <1>6, <1>7, <1>8, <1>9

\* Every other step leaves the history and what is made from it alone.
LEMMA OtherSteps ==
    ASSUME [Next]_vars,
           ~(ReceiveRedundant \/ ReceiveThrottled \/ ReceiveEmitted \/ ReceiveError)
    PROVE  /\ judged' = judged /\ last_seen' = last_seen
           /\ options' = options /\ interval' = interval
           /\ exit_code' = "running" => e1_devices' = e1_devices /\ exit_code = "running"
  <1>1. CASE ReceivePanics
    BY <1>1 DEF ReceivePanics, ReceiveKept, Receive, T!CleanupPanics
  <1>2. ASSUME NEW r, Decode(r)
        PROVE  /\ judged' = judged /\ last_seen' = last_seen
               /\ options' = options /\ interval' = interval
               /\ exit_code' = "running" => e1_devices' = e1_devices /\ exit_code = "running"
    BY <1>2 DEF Decode, loopVars, throttleVars
  <1>3. CASE Send \/ ScannerEnds \/ StartScanOk
    BY <1>3 DEF Send, ScannerEnds, StartScanOk, loopVars, throttleVars
  <1>4. CASE StartScanFails \/ RecvClosed \/ WriteReturns \/ WriteFails
    BY <1>4 DEF StartScanFails, RecvClosed, WriteReturns, WriteFails, throttleVars, givenVars
  <1>5. CASE Tick
    BY <1>5 DEF Tick, T!Tick, givenVars
  <1>6. CASE UNCHANGED vars
    BY <1>6 DEF vars, throttleVars, givenVars
  <1>7. QED
    BY <1>1, <1>2, <1>3, <1>4, <1>5, <1>6 DEF Next, Loop, Ended

LEMMA MemoryStep ==
    ASSUME LoopType, MemoryInv, [Next]_vars
    PROVE  MemoryInv'
  <1>1. CASE ReceiveRedundant \/ ReceiveThrottled \/ ReceiveEmitted \/ ReceiveError
    BY <1>1, E1Step, EntriesStep DEF MemoryInv
  <1>2. CASE ~(ReceiveRedundant \/ ReceiveThrottled \/ ReceiveEmitted \/ ReceiveError)
    BY <1>2, OtherSteps DEF MemoryInv, E1Recorded, EntriesAreWrites
  <1>3. QED
    BY <1>1, <1>2

LEMMA InitMemory == Init => MemoryInv
  <1>1. ASSUME Init PROVE e1_devices = {} /\ judged = <<>> /\ DOMAIN last_seen = {}
    BY <1>1 DEF Init, T!Init
  <1>2. QED
    BY <1>1 DEF MemoryInv, E1Recorded, EntriesAreWrites

LEMMA MemoryIsHistory == Spec => []MemoryInv
  <1>1. LoopType /\ MemoryInv /\ [Next]_vars => MemoryInv'
    BY MemoryStep
  <1>2. QED
    BY LoopTyped, InitMemory, <1>1, PTL DEF Spec

------------------------------------------------------------------------------
(* What is dropped, and what is written. *)

LEMMA RedundantStep ==
    ASSUME LoopType, MemoryInv, RedundantV6NeverWritten, [Next]_vars
    PROVE  RedundantV6NeverWritten'
  <1> DEFINE r == Head(queue)
             n == Len(judged) + 1
  <1>1. CASE ReceiveRedundant \/ ReceiveThrottled \/ ReceiveEmitted \/ ReceiveError
    <2>1. Receive /\ clock' \in 0..MaxClock /\ r \in Results /\ exit_code = "running"
      BY <1>1, LoopFacts, ReceiveFacts
    <2>2. PICK fate \in Fates : Judge(r, fate)
      BY <1>1, LoopJudges
    <2>3. /\ DOMAIN judged = 1..Len(judged) /\ Len(judged) \in Nat /\ DOMAIN judged' = 1..n
          /\ \A i \in DOMAIN judged : judged'[i] = judged[i]
          /\ judged'[n].res = r /\ judged'[n].fate = fate
      BY <2>1, <2>2, JudgeAppends
    <2>4. ASSUME NEW i \in DOMAIN judged', NEW j \in DOMAIN judged', i < j,
                 IsMeasurement(judged'[i].res), IsMeasurement(judged'[j].res),
                 judged'[i].res.mac = judged'[j].res.mac,
                 judged'[i].res.fmt = "E1", judged'[j].res.fmt = "V6"
          PROVE  judged'[j].fate # "emit"
      <3>1. i \in DOMAIN judged /\ judged'[i] = judged[i]
        BY <2>3, <2>4
      <3>2. CASE j \in DOMAIN judged
        BY <2>3, <2>4, <3>1, <3>2 DEF RedundantV6NeverWritten, SameTag
      <3>3. CASE j = n
        <4>1. r.mac \in Mac
          BY <2>1, <2>3, <2>4, <3>3, MeasurementFields
        <4>2. IsRedundantV6(r)
          BY <2>1, <2>3, <2>4, <3>1, <3>3, <4>1 DEF MemoryInv, E1Recorded, IsRedundantV6
        <4>3. ~ReceiveEmitted /\ ~ReceiveThrottled
          BY <4>2 DEF ReceiveEmitted, ReceiveThrottled, ReceiveKept
        <4>4. Judge(r, "redundant") \/ Judge(r, "report") \/ Judge(r, "ignore")
          BY <1>1, <4>3 DEF ReceiveRedundant, ReceiveError
        <4>5. judged'[n].fate # "emit"
          BY <2>1, <4>4, JudgeAppends DEF Fates
        <4>6. QED
          BY <3>3, <4>5
      <3>4. QED
        BY <2>3, <3>2, <3>3
    <2>5. QED
      BY <2>4 DEF RedundantV6NeverWritten, SameTag
  <1>2. CASE ~(ReceiveRedundant \/ ReceiveThrottled \/ ReceiveEmitted \/ ReceiveError)
    <2>1. judged' = judged
      BY <1>2, OtherSteps
    <2>2. QED
      BY <2>1 DEF RedundantV6NeverWritten, SameTag
  <1>3. QED
    BY <1>1, <1>2

\* Once an E1 frame of a tag was received, even if it was throttled, none of the
\* tag's V6 frames is written any more (app.rs:87-105, 141-147).
THEOREM RedundantV6 == Spec => []RedundantV6NeverWritten
  <1>1. Init => RedundantV6NeverWritten
    <2>1. ASSUME Init PROVE judged = <<>>
      BY <2>1 DEF Init
    <2>2. QED
      BY <2>1 DEF RedundantV6NeverWritten
  <1>2. LoopType /\ MemoryInv /\ RedundantV6NeverWritten /\ [Next]_vars => RedundantV6NeverWritten'
    BY RedundantStep
  <1>3. QED
    BY LoopTyped, MemoryIsHistory, <1>1, <1>2, PTL DEF Spec

\* The reason of the result that was just judged.
LEMMA NewJustified ==
    ASSUME LoopType, MemoryInv,
           ReceiveRedundant \/ ReceiveThrottled \/ ReceiveEmitted \/ ReceiveError,
           NEW n, n = Len(judged) + 1
    PROVE  \/ judged'[n].fate \in {"emit", "report", "ignore"}
           \/ /\ judged'[n].res.fmt = "V6"
              /\ \E i \in 1..(n - 1) : SameTag(i, n)' /\ judged'[i].res.fmt = "E1"
           \/ /\ options'.throttle
              /\ \E i \in 1..(n - 1) :
                    SameTag(i, n)' /\ judged'[i].fate = "emit" /\ judged'[n].at - judged'[i].at < interval'
  <1> DEFINE r == Head(queue)
  <1>1. /\ Receive /\ clock' \in 0..MaxClock /\ interval' = interval
        /\ r \in Results /\ exit_code = "running" /\ options' = options
    BY LoopFacts, ReceiveFacts
  <1>2. DOMAIN judged = 1..(n - 1) /\ n \in Nat \ {0}
    BY DEF LoopType
  <1>3. CASE ReceiveEmitted \/ ReceiveError
    <2>1. Judge(r, "emit") \/ Judge(r, "report") \/ Judge(r, "ignore")
      BY <1>3 DEF ReceiveEmitted, ReceiveError
    <2>2. QED
      BY <1>1, <2>1, JudgeAppends DEF Fates
  <1>4. CASE ReceiveRedundant
    <2>1. Judge(r, "redundant") /\ IsMeasurement(r) /\ r.fmt = "V6" /\ r.mac \in e1_devices
      BY <1>4 DEF ReceiveRedundant, IsRedundantV6
    <2>2. PICK i \in DOMAIN judged : judged[i].res.fmt = "E1" /\ judged[i].res.mac = r.mac
      BY <1>1, <2>1 DEF MemoryInv, E1Recorded, LoopType
    <2>3. judged'[n].res = r /\ judged'[i] = judged[i]
      BY <1>1, <2>1, JudgeAppends DEF Fates
    <2>4. SameTag(i, n)' /\ judged'[i].res.fmt = "E1" /\ judged'[n].res.fmt = "V6"
      BY <2>1, <2>2, <2>3 DEF SameTag, IsMeasurement
    <2>5. QED
      BY <1>2, <2>2, <2>4
  <1>5. CASE ReceiveThrottled
    <2>1. PICK d \in Delays : T!Suppress(r.mac, d)
      BY <1>5 DEF ReceiveThrottled
    <2>2. /\ Judge(r, "throttled") /\ IsMeasurement(r) /\ options.throttle
          /\ clock' = clock + d
      BY <1>1, <1>5, <2>1, CheckFacts DEF ReceiveThrottled, ReceiveKept, T!Suppress
    <2>3. r.mac \in DOMAIN T!Kept(clock) /\ clock' - T!Kept(clock)[r.mac] < interval
      BY <2>1, <2>2 DEF T!Suppress, T!Blocked
    <2>4. r.mac \in DOMAIN last_seen /\ clock' - last_seen[r.mac] < interval
      BY <2>3, KeptIsPart
    <2>5. PICK i \in DOMAIN judged :
                /\ judged[i].fate = "emit" /\ IsMeasurement(judged[i].res)
                /\ judged[i].res.mac = r.mac /\ judged[i].at = last_seen[r.mac]
      BY <2>4 DEF MemoryInv, EntriesAreWrites
    <2>6. judged'[n].res = r /\ judged'[n].at = clock' /\ judged'[i] = judged[i]
      BY <1>1, <2>2, JudgeAppends DEF Fates
    <2>7. SameTag(i, n)' /\ judged'[i].fate = "emit" /\ judged'[n].at - judged'[i].at < interval'
      BY <1>1, <2>2, <2>4, <2>5, <2>6 DEF SameTag
    <2>8. QED
      BY <1>1, <1>2, <2>2, <2>5, <2>7
  <1>6. QED
    BY <1>3, <1>4, <1>5

LEMMA JustifiedStep ==
    ASSUME LoopType, MemoryInv, DropJustified, [Next]_vars
    PROVE  DropJustified'
  <1>1. CASE ReceiveRedundant \/ ReceiveThrottled \/ ReceiveEmitted \/ ReceiveError
    <2> DEFINE n == Len(judged) + 1
    <2>1. /\ Receive /\ clock' \in 0..MaxClock /\ interval' = interval
          /\ Head(queue) \in Results /\ options' = options
      BY <1>1, LoopFacts, ReceiveFacts
    <2>2. PICK fate \in Fates : Judge(Head(queue), fate)
      BY <1>1, LoopJudges
    <2>3. /\ DOMAIN judged = 1..Len(judged) /\ Len(judged) \in Nat /\ DOMAIN judged' = 1..n
          /\ \A i \in DOMAIN judged : judged'[i] = judged[i]
      BY <2>1, <2>2, JudgeAppends
    <2>4. ASSUME NEW j \in DOMAIN judged
          PROVE  \/ judged'[j].fate \in {"emit", "report", "ignore"}
                 \/ /\ judged'[j].res.fmt = "V6"
                    /\ \E i \in 1..(j - 1) : SameTag(i, j)' /\ judged'[i].res.fmt = "E1"
                 \/ /\ options'.throttle
                    /\ \E i \in 1..(j - 1) :
                          SameTag(i, j)' /\ judged'[i].fate = "emit" /\ judged'[j].at - judged'[i].at < interval'
      <3>1. judged'[j] = judged[j] /\ \A i \in 1..(j - 1) : judged'[i] = judged[i]
        BY <2>3
      <3>2. \A i \in 1..(j - 1) : SameTag(i, j)' <=> SameTag(i, j)
        BY <3>1 DEF SameTag
      <3>3. QED
        BY <2>1, <3>1, <3>2 DEF DropJustified
    <2>5. \A j \in DOMAIN judged' : j \in DOMAIN judged \/ j = n
      BY <2>3
    <2>6. QED
      BY <1>1, <2>4, <2>5, NewJustified DEF DropJustified
  <1>2. CASE ~(ReceiveRedundant \/ ReceiveThrottled \/ ReceiveEmitted \/ ReceiveError)
    <2>1. judged' = judged /\ options' = options /\ interval' = interval
      BY <1>2, OtherSteps
    <2>2. QED
      BY <2>1 DEF DropJustified, SameTag
  <1>3. QED
    BY <1>1, <1>2

\* No measurement is lost without a reason, whatever the loop, the throttle and
\* its cleanups did before: it was a V6 frame of a tag that had sent E1, or came
\* within an interval of one that was written (app.rs:138-153).
THEOREM DropsAreJustified == Spec => []DropJustified
  <1>1. Init => DropJustified
    <2>1. ASSUME Init PROVE judged = <<>>
      BY <2>1 DEF Init
    <2>2. QED
      BY <2>1 DEF DropJustified
  <1>2. LoopType /\ MemoryInv /\ DropJustified /\ [Next]_vars => DropJustified'
    BY JustifiedStep
  <1>3. QED
    BY LoopTyped, MemoryIsHistory, <1>1, <1>2, PTL DEF Spec

------------------------------------------------------------------------------
(* What is written is written at the interval's pace. *)

\* The throttle still has the entry of every write, or a later one, or the write
\* was an interval ago.
Remembered ==
    options.throttle =>
        \A i \in DOMAIN judged :
            judged[i].fate = "emit" /\ IsMeasurement(judged[i].res) =>
                \/ /\ judged[i].res.mac \in DOMAIN last_seen
                   /\ judged[i].at <= last_seen[judged[i].res.mac]
                \/ clock >= judged[i].at + interval

PaceInv == Remembered /\ WritesSpacedByInterval

LEMMA EntriesAreTimes ==
    ASSUME LoopType, EntriesAreWrites, NEW m \in DOMAIN last_seen
    PROVE  last_seen[m] \in Nat
  <1>1. PICK i \in DOMAIN judged : judged[i].at = last_seen[m]
    BY DEF EntriesAreWrites
  <1>2. judged[i] \in Judgement
    BY <1>1 DEF LoopType
  <1>3. judged[i].at \in Nat
    BY <1>2, RunLoopAssumption DEF Judgement
  <1>4. QED
    BY <1>1, <1>3

\* What the cleanup takes away is an interval old.
LEMMA CleanedIsOld ==
    ASSUME LoopType, EntriesAreWrites, NEW m \in DOMAIN last_seen
    PROVE  m \in DOMAIN T!Kept(clock) \/ clock >= last_seen[m] + interval
  <1>1. last_seen[m] \in Nat /\ clock \in Nat /\ interval \in Nat
    BY EntriesAreTimes, RunLoopAssumption DEF LoopType
  <1>2. T!Threshold >= interval /\ T!Threshold \in Nat
    <2>1. \A a \in Nat, b \in Nat \ {0} : a * b \in Nat /\ a * b >= a
      OBVIOUS
    <2>2. QED
      BY <1>1, <2>1, RunLoopAssumption DEF T!Threshold
  <1>3. m \in T!Fresh(clock) \/ clock >= last_seen[m] + interval
    BY <1>1, <1>2 DEF T!Fresh
  <1>4. DOMAIN T!Kept(clock) = DOMAIN last_seen \/ DOMAIN T!Kept(clock) = T!Fresh(clock)
    <2>1. DOMAIN T!Restrict(last_seen, T!Fresh(clock)) = T!Fresh(clock)
      BY DEF T!Restrict
    <2>2. QED
      BY <2>1 DEF T!Kept, T!cleanup_stale
  <1>5. QED
    BY <1>3, <1>4

\* When the throttle lets a tag through, its last write was an interval ago.
LEMMA EmitIsLate ==
    ASSUME LoopType, EntriesAreWrites, NEW m \in DOMAIN last_seen, NEW d \in Delays, T!Emit(m, d)
    PROVE  clock' >= last_seen[m] + interval
  <1>1. /\ last_seen[m] \in Nat /\ clock \in Nat /\ interval \in Nat /\ d \in Nat
        /\ clock' = clock + d
    BY EntriesAreTimes, CheckFacts, RunLoopAssumption DEF LoopType, T!Emit
  <1>2. CASE m \in DOMAIN T!Kept(clock)
    <2>1. T!Kept(clock)[m] = last_seen[m]
      BY <1>2, KeptIsPart
    <2>2. ~T!Blocked(T!Kept(clock), m, clock + d)
      BY DEF T!Emit
    <2>3. ~(clock + d - T!Kept(clock)[m] < interval)
      BY <1>1, <1>2, <2>1, <2>2 DEF T!Blocked
    <2>4. QED
      BY <1>1, <2>1, <2>3
  <1>3. CASE m \notin DOMAIN T!Kept(clock)
    BY <1>1, <1>3, CleanedIsOld
  <1>4. QED
    BY <1>2, <1>3

\* What one iteration does to an entry.
LEMMA EntriesAfter ==
    ASSUME LoopType, EntriesAreWrites, options.throttle,
           ReceiveRedundant \/ ReceiveThrottled \/ ReceiveEmitted \/ ReceiveError,
           NEW m \in DOMAIN last_seen
    PROVE  /\ clock' \in Nat /\ clock' >= clock
           /\ \/ m \in DOMAIN last_seen' /\ last_seen'[m] \in Nat /\ last_seen'[m] >= last_seen[m]
              \/ clock' >= last_seen[m] + interval
  <1>1. last_seen[m] \in Nat /\ clock \in Nat /\ Delays \subseteq Nat /\ interval \in Nat
    BY EntriesAreTimes, RunLoopAssumption DEF LoopType
  <1>2. CASE ReceiveRedundant \/ ReceiveError
    BY <1>1, <1>2 DEF ReceiveRedundant, ReceiveError, throttleVars
  <1>3. CASE ReceiveThrottled
    <2>1. PICK d \in Delays : clock' = clock + d /\ last_seen' = T!Kept(clock)
      BY <1>3, CheckFacts DEF ReceiveThrottled, T!Suppress
    <2>2. QED
      BY <1>1, <2>1, KeptIsPart, CleanedIsOld
  <1>4. CASE ReceiveEmitted
    <2>1. PICK d \in Delays : T!Emit(Head(queue).mac, d)
      BY <1>4 DEF ReceiveEmitted
    <2>2. clock' = clock + d /\ last_seen' = T!Insert(T!Kept(clock), Head(queue).mac, clock + d)
      BY <2>1, CheckFacts DEF T!Emit
    <2>3. CASE m = Head(queue).mac
      BY <1>1, <2>1, <2>2, <2>3, EmitIsLate
    <2>4. CASE m # Head(queue).mac
      <3>1. m \in DOMAIN T!Kept(clock) => m \in DOMAIN last_seen' /\ last_seen'[m] = last_seen[m]
        BY <2>2, <2>4, KeptIsPart DEF T!Insert
      <3>2. QED
        BY <1>1, <2>2, <3>1, CleanedIsOld
    <2>5. QED
      BY <2>3, <2>4
  <1>5. QED
    BY <1>2, <1>3, <1>4

\* The clock never goes back.
LEMMA ClockGoesOn ==
    ASSUME LoopType, [Next]_vars
    PROVE  clock' \in Nat /\ clock' >= clock
  <1>1. clock \in Nat /\ Delays \subseteq Nat
    BY RunLoopAssumption DEF LoopType
  <1>2. CASE ReceiveRedundant \/ ReceiveError
    BY <1>1, <1>2 DEF ReceiveRedundant, ReceiveError, throttleVars
  <1>3. CASE ReceiveThrottled
    <2>1. PICK d \in Delays : clock' = clock + d
      BY <1>3, CheckFacts DEF ReceiveThrottled, T!Suppress
    <2>2. QED
      BY <1>1, <2>1
  <1>4. CASE ReceiveEmitted
    <2>1. clock' = clock \/ \E d \in Delays : clock' = clock + d
      BY <1>4, CheckFacts DEF ReceiveEmitted, throttleVars, T!Emit
    <2>2. QED
      BY <1>1, <2>1
  <1>5. CASE ReceivePanics
    BY <1>1, <1>5 DEF ReceivePanics, T!CleanupPanics
  <1>6. ASSUME NEW r, Decode(r)
        PROVE  clock' \in Nat /\ clock' >= clock
    BY <1>1, <1>6 DEF Decode, loopVars, throttleVars
  <1>7. CASE Send \/ ScannerEnds \/ StartScanOk
    BY <1>1, <1>7 DEF Send, ScannerEnds, StartScanOk, loopVars, throttleVars
  <1>8. CASE StartScanFails \/ RecvClosed \/ WriteReturns \/ WriteFails
    BY <1>1, <1>8 DEF StartScanFails, RecvClosed, WriteReturns, WriteFails, throttleVars
  <1>9. CASE Tick
    BY <1>1, <1>9 DEF Tick, T!Tick
  <1>10. CASE UNCHANGED vars
    BY <1>1, <1>10 DEF vars, throttleVars
  <1>11. QED
    BY <1>2, <1>3, <1>4, <1>5, <1>6, <1>7, <1>8, <1>9, <1>10 DEF Next, Loop, Ended

\* An earlier write is still remembered after an iteration of the loop.
LEMMA OldRemembered ==
    ASSUME LoopType, EntriesAreWrites, Remembered, options.throttle,
           ReceiveRedundant \/ ReceiveThrottled \/ ReceiveEmitted \/ ReceiveError,
           NEW i \in DOMAIN judged, judged[i].fate = "emit", IsMeasurement(judged[i].res)
    PROVE  \/ /\ judged[i].res.mac \in DOMAIN last_seen'
              /\ judged[i].at <= last_seen'[judged[i].res.mac]
           \/ clock' >= judged[i].at + interval
  <1> DEFINE m == judged[i].res.mac
             a == judged[i].at
  <1>1. a \in Nat /\ clock \in Nat /\ interval \in Nat
    <2>1. judged[i] \in Judgement
      BY DEF LoopType
    <2>2. QED
      BY <2>1, RunLoopAssumption DEF Judgement, LoopType
  <1>2. clock' \in Nat /\ clock' >= clock
    BY ClockGoesOn DEF Next, Loop
  <1>3. CASE clock >= a + interval
    BY <1>1, <1>2, <1>3
  <1>4. CASE m \in DOMAIN last_seen /\ a <= last_seen[m]
    <2>1. last_seen[m] \in Nat
      BY <1>4, EntriesAreTimes
    <2>2. \/ m \in DOMAIN last_seen' /\ last_seen'[m] \in Nat /\ last_seen'[m] >= last_seen[m]
          \/ clock' >= last_seen[m] + interval
      BY <1>4, EntriesAfter
    <2>3. QED
      BY <1>1, <1>2, <1>4, <2>1, <2>2
  <1>5. QED
    BY <1>3, <1>4 DEF Remembered

\* A new write comes an interval after every earlier one of its tag.
LEMMA WriteIsLate ==
    ASSUME LoopType, EntriesAreWrites, Remembered, options.throttle, ReceiveEmitted,
           NEW i \in DOMAIN judged, judged[i].fate = "emit", IsMeasurement(judged[i].res),
           judged[i].res.mac = Head(queue).mac
    PROVE  clock' >= judged[i].at + interval
  <1> DEFINE m == judged[i].res.mac
             a == judged[i].at
  <1>1. a \in Nat /\ clock \in Nat /\ interval \in Nat
    <2>1. judged[i] \in Judgement
      BY DEF LoopType
    <2>2. QED
      BY <2>1, RunLoopAssumption DEF Judgement, LoopType
  <1>2. clock' \in Nat /\ clock' >= clock
    BY ClockGoesOn DEF Next, Loop
  <1>3. CASE clock >= a + interval
    BY <1>1, <1>2, <1>3
  <1>4. CASE m \in DOMAIN last_seen /\ a <= last_seen[m]
    <2>1. PICK d \in Delays : T!Emit(Head(queue).mac, d)
      BY DEF ReceiveEmitted
    <2>2. T!Emit(m, d)
      BY <2>1
    <2>3. clock' >= last_seen[m] + interval /\ last_seen[m] \in Nat
      BY <1>4, <2>2, EmitIsLate, EntriesAreTimes
    <2>4. QED
      BY <1>1, <1>2, <1>4, <2>3
  <1>5. QED
    BY <1>3, <1>4 DEF Remembered

LEMMA PaceStep ==
    ASSUME LoopType, MemoryInv, PaceInv, [Next]_vars
    PROVE  PaceInv'
  <1>1. CASE ReceiveRedundant \/ ReceiveThrottled \/ ReceiveEmitted \/ ReceiveError
    <2> DEFINE n == Len(judged) + 1
    <2>1. /\ Receive /\ clock' \in 0..MaxClock /\ interval' = interval
          /\ Head(queue) \in Results /\ options' = options
      BY <1>1, LoopFacts, ReceiveFacts
    <2>2. PICK fate \in Fates : Judge(Head(queue), fate)
      BY <1>1, LoopJudges
    <2>3. /\ DOMAIN judged = 1..Len(judged) /\ Len(judged) \in Nat /\ DOMAIN judged' = 1..n
          /\ \A i \in DOMAIN judged : i \in DOMAIN judged' /\ judged'[i] = judged[i]
          /\ judged'[n].res = Head(queue) /\ judged'[n].fate = fate /\ judged'[n].at = clock'
      BY <2>1, <2>2, JudgeAppends
    <2>4. judged'[n].fate = "emit" => ReceiveEmitted
      <3>1. CASE ReceiveRedundant \/ ReceiveThrottled \/ ReceiveError
        <4>1. \E f \in Fates \ {"emit"} : Judge(Head(queue), f)
          BY <3>1 DEF ReceiveRedundant, ReceiveThrottled, ReceiveError, Fates
        <4>2. judged'[n].fate # "emit"
          BY <2>1, <4>1, JudgeAppends
        <4>3. QED
          BY <4>2
      <3>2. QED
        BY <1>1, <3>1
    <2>5. Remembered'
      <3>1. ASSUME options.throttle, NEW i \in DOMAIN judged',
                   judged'[i].fate = "emit", IsMeasurement(judged'[i].res)
            PROVE  \/ /\ judged'[i].res.mac \in DOMAIN last_seen'
                      /\ judged'[i].at <= last_seen'[judged'[i].res.mac]
                   \/ clock' >= judged'[i].at + interval
        <4>1. CASE i \in DOMAIN judged
          BY <1>1, <2>3, <3>1, <4>1, OldRemembered DEF MemoryInv, PaceInv
        <4>2. CASE i = n
          <5>1. PICK d \in Delays : T!Emit(Head(queue).mac, d)
            BY <2>4, <3>1, <4>2 DEF ReceiveEmitted
          <5>2. clock' = clock + d /\ last_seen' = T!Insert(T!Kept(clock), Head(queue).mac, clock + d)
            BY <5>1, CheckFacts DEF T!Emit
          <5>3. Head(queue).mac \in DOMAIN last_seen' /\ last_seen'[Head(queue).mac] = clock'
            BY <5>2 DEF T!Insert
          <5>4. QED
            BY <2>1, <2>3, <4>2, <5>3
        <4>3. QED
          BY <2>3, <4>1, <4>2
      <3>2. QED
        BY <2>1, <3>1 DEF Remembered
    <2>6. WritesSpacedByInterval'
      <3>1. ASSUME options.throttle, NEW i \in DOMAIN judged', NEW j \in DOMAIN judged', i < j,
                   IsMeasurement(judged'[i].res), IsMeasurement(judged'[j].res),
                   judged'[i].res.mac = judged'[j].res.mac,
                   judged'[i].fate = "emit", judged'[j].fate = "emit"
            PROVE  judged'[j].at >= judged'[i].at + interval
        <4>1. i \in DOMAIN judged /\ judged'[i] = judged[i]
          BY <2>3, <3>1
        <4>2. CASE j \in DOMAIN judged
          BY <2>3, <3>1, <4>1, <4>2 DEF PaceInv, WritesSpacedByInterval, SameTag
        <4>3. CASE j = n
          BY <2>3, <2>4, <3>1, <4>1, <4>3, WriteIsLate DEF MemoryInv, PaceInv
        <4>4. QED
          BY <2>3, <4>2, <4>3
      <3>2. QED
        BY <2>1, <3>1 DEF WritesSpacedByInterval, SameTag
    <2>7. QED
      BY <2>5, <2>6 DEF PaceInv
  <1>2. CASE ~(ReceiveRedundant \/ ReceiveThrottled \/ ReceiveEmitted \/ ReceiveError)
    <2>1. judged' = judged /\ last_seen' = last_seen /\ options' = options /\ interval' = interval
      BY <1>2, OtherSteps
    <2>2. clock' \in Nat /\ clock' >= clock /\ clock \in Nat /\ interval \in Nat
      BY ClockGoesOn, RunLoopAssumption DEF LoopType
    <2>3. \A i \in DOMAIN judged : judged[i].at \in Nat
      <3>1. \A i \in DOMAIN judged : judged[i] \in Judgement
        BY DEF LoopType
      <3>2. QED
        BY <3>1, RunLoopAssumption DEF Judgement
    <2>4. Remembered'
      BY <2>1, <2>2, <2>3 DEF PaceInv, Remembered
    <2>5. WritesSpacedByInterval'
      BY <2>1 DEF PaceInv, WritesSpacedByInterval, SameTag
    <2>6. QED
      BY <2>4, <2>5 DEF PaceInv
  <1>3. QED
    BY <1>1, <1>2

\* With --throttle the written measurements of a tag are at least an interval apart,
\* for every interval and across every cleanup (app.rs:40, 147-153).
THEOREM WritesAreSpaced == Spec => []WritesSpacedByInterval
  <1>1. Init => PaceInv
    <2>1. ASSUME Init PROVE judged = <<>>
      BY <2>1 DEF Init
    <2>2. QED
      BY <2>1 DEF PaceInv, Remembered, WritesSpacedByInterval
  <1>2. LoopType /\ MemoryInv /\ PaceInv /\ [Next]_vars => PaceInv'
    BY PaceStep
  <1>3. PaceInv => WritesSpacedByInterval
    BY DEF PaceInv
  <1>4. QED
    BY LoopTyped, MemoryIsHistory, <1>1, <1>2, <1>3, PTL DEF Spec
------------------------------------------------------------------------------
(* The throttle inside the loop. *)

\* The throttle's theorems, about the loop's throttle.
TP == INSTANCE ThrottleProofs

LEMMA ThrottleConstants == TP!ThrottleAssumption
  BY RunLoopAssumption DEF TP!ThrottleAssumption, TP!IsFiniteSet, IsFiniteSet

\* TP speaks of the same throttle as T.
LEMMA SameThrottle ==
    /\ T!vars = TP!vars
    /\ T!Init <=> TP!Init
    /\ T!Next <=> TP!Next
    /\ T!TypeOK <=> TP!TypeOK
  <1>1. T!vars = TP!vars
    BY DEF T!vars, TP!vars
  <1>2. T!Init <=> TP!Init
    BY DEF T!Init, TP!Init
  <1>3. T!Next <=> TP!Next
    BY DEF T!Next, TP!Next, T!should_emit, TP!should_emit, T!Emit, TP!Emit,
           T!Suppress, TP!Suppress, T!CleanupPanics, TP!CleanupPanics, T!Tick, TP!Tick,
           T!Check, TP!Check, T!CheckDue, TP!CheckDue, T!NextCount, TP!NextCount,
           T!CleanupDue, TP!CleanupDue, T!Cardinality, TP!Cardinality,
           T!Kept, TP!Kept, T!cleanup_stale, TP!cleanup_stale, T!Fresh, TP!Fresh,
           T!Restrict, TP!Restrict, T!Insert, TP!Insert, T!Blocked, TP!Blocked,
           T!Threshold, TP!Threshold, T!ThresholdOverflows, TP!ThresholdOverflows
  <1>4. T!TypeOK <=> TP!TypeOK
    BY DEF T!TypeOK, TP!TypeOK, T!Stamps, TP!Stamps
  <1>5. QED
    BY <1>1, <1>2, <1>3, <1>4

\* The loop calls should_emit with a tag, one call at a time, and touches its
\* state in no other way.
LEMMA ThrottleStep ==
    ASSUME LoopType, [Next]_vars
    PROVE  [T!Next]_(T!vars)
  <1>1. CASE ReceiveRedundant \/ ReceiveError
    BY <1>1 DEF ReceiveRedundant, ReceiveError, throttleVars, T!vars
  <1>2. CASE ReceiveThrottled
    <2>1. PICK d \in Delays : T!Suppress(Head(queue).mac, d)
      BY <1>2 DEF ReceiveThrottled
    <2>2. QED
      BY <1>2, <2>1, LoopE1 DEF T!Next, T!should_emit
  <1>3. CASE ReceiveEmitted /\ options.throttle
    <2>1. PICK d \in Delays : T!Emit(Head(queue).mac, d)
      BY <1>3 DEF ReceiveEmitted
    <2>2. QED
      BY <1>3, <2>1, LoopE1 DEF T!Next, T!should_emit
  <1>4. CASE ReceiveEmitted /\ ~options.throttle
    BY <1>4 DEF ReceiveEmitted, throttleVars, T!vars
  <1>5. CASE ReceivePanics
    BY <1>5 DEF ReceivePanics, T!Next
  <1>6. ASSUME NEW r, Decode(r)
        PROVE  UNCHANGED T!vars
    BY <1>6 DEF Decode, loopVars, throttleVars, T!vars
  <1>7. CASE Send \/ ScannerEnds \/ StartScanOk
    BY <1>7 DEF Send, ScannerEnds, StartScanOk, loopVars, throttleVars, T!vars
  <1>8. CASE StartScanFails \/ RecvClosed \/ WriteReturns \/ WriteFails
    BY <1>8 DEF StartScanFails, RecvClosed, WriteReturns, WriteFails, throttleVars, T!vars
  <1>9. CASE Tick
    BY <1>9 DEF Tick, T!Next
  <1>10. CASE UNCHANGED vars
    BY <1>10 DEF vars, throttleVars, T!vars
  <1>11. QED
    BY <1>1, <1>2, <1>3, <1>4, <1>5, <1>6, <1>7, <1>8, <1>9, <1>10 DEF Next, Loop, Ended

\* Whatever the loop, its filter and the writes do in between, its throttle goes
\* through a behaviour of module Throttle (app.rs:130-153).
THEOREM LoopRunsThrottle == Spec => T!Spec
  <1>1. Init => T!Init
    BY DEF Init
  <1>2. LoopType /\ [Next]_vars => [T!Next]_(T!vars)
    BY ThrottleStep
  <1>3. QED
    BY LoopTyped, <1>1, <1>2, PTL DEF Spec, T!Spec

LEMMA LoopRunsTP == Spec => TP!Spec
  <1>1. T!Init => TP!Init
    BY SameThrottle
  <1>2. [T!Next]_(T!vars) => [TP!Next]_(TP!vars)
    BY SameThrottle DEF T!vars, TP!vars
  <1>3. QED
    BY LoopRunsThrottle, <1>1, <1>2, PTL DEF T!Spec, TP!Spec

\* With the loop around it the throttle still is a rate limiter: the refinement
\* of module Throttle composes with the loop (app.rs:138-153, throttle.rs:67-69).
THEOREM LoopLimitsRate == Spec => TP!ImplementsRateLimiter
  BY LoopRunsTP, ThrottleConstants, TP!ThrottleImplementsLimiter, PTL

LEMMA ThrottleTyped == Spec => []T!TypeOK
  <1>1. TP!TypeOK => T!TypeOK
    BY SameThrottle
  <1>2. QED
    BY LoopRunsTP, ThrottleConstants, TP!TypeCorrect, <1>1, PTL

------------------------------------------------------------------------------
(* The whole type invariant. *)

\* What LoopType leaves out: what the process and its task are at, and the
\* bound of the channel.
StageType ==
    /\ options \in Options
    /\ task \in {"none", "running", "ended"}
    /\ Len(queue) <= Capacity
    /\ pc \in {"start", "recv", "write"}
    /\ exit_code \in {"running", "success", "error", "panic"}

LEMMA StageStep ==
    ASSUME LoopType, StageType, [Next]_vars
    PROVE  StageType'
  <1>1. CASE ReceiveRedundant \/ ReceiveThrottled \/ ReceiveEmitted \/ ReceivePanics \/ ReceiveError
    <2>1. Receive
      BY <1>1, LoopFacts
    <2>2. options' = options /\ task' = task /\ exit_code = "running" /\ pc = "recv"
      BY <2>1, ReceiveFacts
    <2>3. Len(queue') <= Capacity
      <3>1. \A q \in Seq(Results) : q # <<>> => Len(Tail(q)) = Len(q) - 1 /\ Len(q) \in Nat
        OBVIOUS
      <3>2. queue \in Seq(Results) /\ queue # <<>> /\ queue' = Tail(queue)
        BY <2>1 DEF LoopType, Receive, Scanner!Take
      <3>3. QED
        BY <3>1, <3>2, RunLoopAssumption DEF StageType
    <2>4. pc' \in {"recv", "write"} /\ exit_code' \in {"running", "panic"}
      BY <1>1, <2>2 DEF ReceiveRedundant, ReceiveThrottled, ReceiveEmitted, ReceivePanics, ReceiveError
    <2>5. QED
      BY <2>2, <2>3, <2>4 DEF StageType
  <1>2. ASSUME NEW r, Decode(r)
        PROVE  StageType'
    BY <1>2 DEF StageType, Decode, Scanner!Produce, loopVars
  <1>3. CASE Send
    <2>1. PICK r \in Results : hand = <<r>>
      BY <1>3 DEF LoopType, Send, Scanner!Send
    <2>2. Len(queue') = Len(queue) + 1 /\ Len(queue) \in Nat
      BY <1>3, <2>1 DEF LoopType, Send, Scanner!Send
    <2>3. Len(queue') <= Capacity
      BY <1>3, <2>2, RunLoopAssumption DEF Send, Scanner!Send
    <2>4. QED
      BY <1>3, <2>3 DEF StageType, Send, Scanner!Send, loopVars
  <1>4. CASE StartScanOk \/ ScannerEnds
    BY <1>4 DEF StageType, StartScanOk, ScannerEnds, Scanner!Start, Scanner!End, loopVars
  <1>5. CASE StartScanFails \/ RecvClosed \/ WriteReturns \/ WriteFails
    BY <1>5 DEF StageType, StartScanFails, RecvClosed, WriteReturns, WriteFails, givenVars
  <1>6. CASE Tick
    BY <1>6 DEF StageType, Tick, givenVars
  <1>7. CASE UNCHANGED vars
    BY <1>7 DEF StageType, vars, givenVars
  <1>8. QED
    BY <1>1, <1>2, <1>3, <1>4, <1>5, <1>6, <1>7 DEF Next, Loop, Ended

\* Every variable keeps its type and the channel never holds more than Capacity
\* results (scanner/mod.rs; app.rs:130-162).
THEOREM LoopTypeCorrect == Spec => []TypeOK
  <1>1. Init => StageType
    BY RunLoopAssumption DEF Init, Scanner!Init, StageType
  <1>2. LoopType /\ StageType /\ [Next]_vars => StageType'
    BY StageStep
  <1>3. T!TypeOK /\ LoopType /\ StageType => TypeOK
    BY DEF LoopType, StageType, Judgement, TypeOK
  <1>4. QED
    BY LoopTyped, ThrottleTyped, <1>1, <1>2, <1>3, PTL DEF Spec

------------------------------------------------------------------------------
(* The scanner beside the loop, and how the process ends. *)

LEMMA ScannerStep ==
    ASSUME LoopType, [Next]_vars
    PROVE  [Scanner!Next]_(Scanner!scanVars)
  <1> USE DEF Scanner!Next, Scanner!scanVars
  <1>1. CASE ReceiveRedundant \/ ReceiveThrottled \/ ReceiveEmitted \/ ReceivePanics \/ ReceiveError
    <2>1. Receive
      BY <1>1, LoopFacts
    <2>2. QED
      BY <2>1 DEF Receive
  <1>2. ASSUME NEW r \in Results, Decode(r)
        PROVE  Scanner!Next
    BY <1>2 DEF Decode
  <1>3. ASSUME NEW f \in Formats, NEW m \in Mac, Decode([fmt |-> f, mac |-> m, stamp |-> clock])
        PROVE  Scanner!Next
    <2>1. [fmt |-> f, mac |-> m, stamp |-> clock] \in Results
      BY DEF LoopType, Results, Measurement
    <2>2. QED
      BY <1>2, <1>3, <2>1
  <1>4. CASE Decode(DecodeError)
    BY <1>2, <1>4 DEF Results
  <1>5. CASE Send \/ ScannerEnds \/ StartScanOk
    BY <1>5 DEF Send, ScannerEnds, StartScanOk
  <1>6. CASE StartScanFails \/ RecvClosed \/ WriteReturns \/ WriteFails \/ Tick
    BY <1>6 DEF StartScanFails, RecvClosed, WriteReturns, WriteFails, Tick, givenVars
  <1>7. CASE UNCHANGED vars
    BY <1>7 DEF vars, givenVars
  <1>8. QED
    BY <1>1, <1>3, <1>4, <1>5, <1>6, <1>7 DEF Next, Loop, Ended

\* What the two backends are proved to implement is what happens beside the loop:
\* results reach it in the order of their sending, none is lost or made up, and
\* the loop takes them from the channel only (scanner/mod.rs; app.rs:138).
THEOREM LoopRunsScanTask == Spec => Scanner!Spec
  <1>1. Init => Scanner!Init
    BY DEF Init
  <1>2. LoopType /\ [Next]_vars => [Scanner!Next]_(Scanner!scanVars)
    BY ScannerStep
  <1>3. QED
    BY LoopTyped, <1>1, <1>2, PTL DEF Spec, Scanner!Spec
===============================================================================
