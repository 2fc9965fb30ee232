-------------------------- MODULE BluerReaderProofs --------------------------
(***************************************************************************)
(* Theorems about BluerReader for every set of devices and every bound.    *)
(* First the types and the refinement of ScanTask, then the reports: what  *)
(* makes a report no older than its signal is that advertisements are only *)
(* ever replaced by later ones, at every place a number waits.             *)
(***************************************************************************)
EXTENDS BluerReader, SequenceTheorems, TLAPS

------------------------------------------------------------------------------
(* Type correctness. *)

LEMMA InitType == Init => TypeOK
  <1>1. /\ <<>> \in Seq(Signal) /\ <<>> \in Seq(Result) /\ Len(<<>>) = 0
        /\ SetupCalls \in Seq(Calls) /\ SetupCalls # <<>>
    BY DEF SetupCalls, Calls
  <1>2. (CHOOSE k \in Kinds : TRUE) \in Kinds /\ (CHOOSE d \in Devices : TRUE) \in Devices
    BY BluerReaderAssumption
  <1>3. 0 \in 0..MaxAds /\ 0 \in 0..MaxRemovals /\ 0 <= Capacity
    BY BluerReaderAssumption
  <1>4. QED
    <2>1. ASSUME Init
          PROVE  /\ ad \in [Devices -> 0..MaxAds] /\ kind \in [Devices -> Kinds]
                 /\ address \in Devices /\ begun \in 0..ads
      BY <1>2, <1>3, <2>1 DEF Init
    <2>2. ASSUME Init
          PROVE  /\ calls \in Seq(Calls) /\ (pc \in {"setup", "refused"} <=> calls # <<>>)
                 /\ queue \in Seq(Result) /\ Len(queue) <= Capacity /\ taken \in Seq(Result)
                 /\ signals \in Seq(Signal)
      BY <1>1, <1>3, <2>2 DEF Init
    <2>3. ASSUME Init
          PROVE  /\ pc = "setup" /\ reply = <<>> /\ hand = <<>> /\ cause \in 0..MaxAds
                 /\ ads \in 0..MaxAds /\ removals \in 0..MaxRemovals /\ handled \in Nat
                 /\ known \subseteq Devices
                 /\ verbose \in BOOLEAN /\ alive \in BOOLEAN /\ filtered \in BOOLEAN
      BY <1>3, <2>3 DEF Init
    <2>4. QED
      BY <2>1, <2>2, <2>3 DEF TypeOK

LEMMA AdvertiseType ==
    ASSUME TypeOK, NEW d \in Devices, NEW k \in Kinds, Advertise(d, k)
    PROVE  TypeOK'
  <1>1. ads + 1 \in 0..MaxAds /\ begun \in 0..ads'
    BY BluerReaderAssumption, SMTT(30) DEF TypeOK, Advertise
  <1>2. Added(d, ads + 1) \in Signal
    BY <1>1 DEF Added, Signal
  <1>3. signals' \in Seq(Signal)
    <2>1. signals' = signals \/ signals' = Append(signals, Added(d, ads + 1))
      BY DEF Advertise
    <2>2. Append(signals, Added(d, ads + 1)) \in Seq(Signal) /\ signals \in Seq(Signal)
      BY <1>2 DEF TypeOK
    <2>3. QED
      BY <2>1, <2>2
  <1>4. ad' \in [Devices -> 0..MaxAds] /\ kind' \in [Devices -> Kinds] /\ known' \subseteq Devices
    BY <1>1 DEF TypeOK, Advertise
  <1>5. QED
    BY <1>1, <1>3, <1>4 DEF TypeOK, Advertise, taskVars

LEMMA ForgetType ==
    ASSUME TypeOK, NEW d \in Devices, Forget(d)
    PROVE  TypeOK'
  <1>1. removals' \in 0..MaxRemovals /\ 0 \in 0..MaxAds
    <2>1. removals' = removals + 1 /\ removals < MaxRemovals
      BY DEF Forget
    <2>2. QED
      BY <2>1, BluerReaderAssumption DEF TypeOK
  <1>2. [what |-> "DeviceRemoved", dev |-> d, ad |-> 0] \in Signal
    BY <1>1 DEF Signal
  <1>3. signals' \in Seq(Signal)
    <2>1. signals' = signals \/ signals' = Append(signals, [what |-> "DeviceRemoved", dev |-> d, ad |-> 0])
      BY DEF Forget
    <2>2. /\ Append(signals, [what |-> "DeviceRemoved", dev |-> d, ad |-> 0]) \in Seq(Signal)
          /\ signals \in Seq(Signal)
      BY <1>2 DEF TypeOK
    <2>3. QED
      BY <2>1, <2>2
  <1>4. QED
    BY <1>1, <1>3 DEF TypeOK, Forget, taskVars

LEMMA ServeType ==
    ASSUME TypeOK, Serve
    PROVE  TypeOK'
  <1>1. [kind |-> kind[address], ad |-> ad[address]] \in Answer
    BY DEF TypeOK, Answer
  <1>2. [kind |-> "error", ad |-> 0] \in Answer
    BY BluerReaderAssumption DEF Answer
  <1>3. reply' \in {<<a>> : a \in Answer} /\ pc' = "fetch"
    BY <1>1, <1>2 DEF Serve
  <1>4. QED
    BY <1>3 DEF TypeOK, Serve, daemonVars

LEMMA SetupType ==
    ASSUME TypeOK, Setup
    PROVE  TypeOK'
  <1>1. CASE CallFails
    BY <1>1 DEF TypeOK, CallFails, daemonVars
  <1>2. CASE CallReturns
    <2>1. Tail(calls) \in Seq(Calls) /\ Len(Tail(calls)) = Len(calls) - 1
      BY <1>2 DEF TypeOK, CallReturns
    <2>3. Tail(calls) # <<>>
      BY <1>2, <2>1 DEF CallReturns
    <2>4. filtered' \in BOOLEAN
      BY <1>2 DEF TypeOK, CallReturns
    <2>2. QED
      BY <1>2, <2>1, <2>3, <2>4 DEF TypeOK, CallReturns
  <1>3. CASE Discover
    <2>1. PICK n \in 0..Cardinality(known) : \E order \in Injection(1..n, known) :
                signals' = [i \in 1..n |-> Added(order[i], ad[order[i]])]
      BY <1>3 DEF Discover
    <2>2. PICK order \in [1..n -> known] : signals' = [i \in 1..n |-> Added(order[i], ad[order[i]])]
      BY <2>1 DEF Injection
    <2>3. n \in Nat
      OBVIOUS
    <2>4. \A i \in 1..n : Added(order[i], ad[order[i]]) \in Signal
      BY <2>2 DEF TypeOK, Added, Signal
    <2>5. signals' \in Seq(Signal)
      BY <2>2, <2>3, <2>4
    <2>6. <<>> \in Seq(Calls) /\ begun' \in 0..ads'
      BY <1>3 DEF TypeOK, Discover
    <2>7. QED
      BY <1>3, <2>5, <2>6 DEF TypeOK, Discover
  <1>4. QED
    BY <1>1, <1>2, <1>3 DEF Setup

LEMMA NextSignalType ==
    ASSUME TypeOK, NextDevice \/ NextOther \/ StreamEnds
    PROVE  TypeOK'
  <1>1. CASE NextDevice
    <2>1. Head(signals) \in Signal /\ Tail(signals) \in Seq(Signal)
      BY <1>1 DEF TypeOK, NextDevice
    <2>2. address' \in Devices /\ cause' \in 0..MaxAds
      BY <1>1, <2>1 DEF NextDevice, Signal
    <2>3. QED
      BY <1>1, <2>1, <2>2 DEF TypeOK, NextDevice
  <1>2. CASE NextOther
    <2>1. Tail(signals) \in Seq(Signal)
      BY <1>2 DEF TypeOK, NextOther
    <2>2. QED
      BY <1>2, <2>1 DEF TypeOK, NextOther, taskVars
  <1>3. CASE StreamEnds
    BY <1>3 DEF TypeOK, StreamEnds, daemonVars
  <1>4. QED
    BY <1>1, <1>2, <1>3

\* What process_device sends is a result, and at most one.
LEMMA OutcomeType ==
    ASSUME TypeOK, Process
    PROVE  /\ Fetched \in Answer
           /\ Message(Fetched) \in Result
           /\ Outcome(Fetched) \in {<<>>, <<Message(Fetched)>>}
           /\ hand = <<>>
  <1>1. Fetched \in Answer
    BY DEF TypeOK, Process, Fetched
  <1>2. Message(Fetched) \in Result
    BY <1>1 DEF TypeOK, Message, Result, Answer
  <1>3. hand = <<>>
    BY DEF TypeOK, Process
  <1>4. QED
    BY <1>1, <1>2, <1>3 DEF Outcome

LEMMA ProcessType ==
    ASSUME TypeOK, Process
    PROVE  TypeOK'
  <1>1. /\ hand' \in {<<>>} \cup {<<r>> : r \in Result}
        /\ hand' # <<>> <=> pc' = "send"
        /\ pc' \in {"next", "send"}
    <2>1. CASE Outcome(Fetched) = <<>>
      BY <2>1 DEF Process
    <2>2. CASE Outcome(Fetched) # <<>>
      BY <2>2, OutcomeType DEF Process
    <2>3. QED
      BY <2>1, <2>2
  <1>2. QED
    BY <1>1 DEF TypeOK, Process, daemonVars

LEMMA SendType ==
    ASSUME TypeOK, Send
    PROVE  TypeOK'
  <1>1. PICK r \in Result : hand = <<r>>
    BY DEF TypeOK, Send
  <1>2. queue' \in Seq(Result) /\ Len(queue') <= Capacity
    BY <1>1, BluerReaderAssumption DEF TypeOK, Send
  <1>3. QED
    BY <1>2 DEF TypeOK, Send, daemonVars

LEMMA TakeType ==
    ASSUME TypeOK, Take
    PROVE  TypeOK'
  <1>1. /\ Head(queue) \in Result
        /\ Tail(queue) \in Seq(Result) /\ Len(Tail(queue)) <= Capacity
    BY BluerReaderAssumption DEF TypeOK, Take
  <1>2. taken' \in Seq(Result)
    BY <1>1 DEF TypeOK, Take
  <1>3. QED
    BY <1>1, <1>2 DEF TypeOK, Take, daemonVars

LEMMA NextType ==
    ASSUME TypeOK, [Next]_vars
    PROVE  TypeOK'
  <1>1. CASE Setup
    BY <1>1, SetupType
  <1>2. ASSUME NEW d \in Devices, Forget(d) \/ \E k \in Kinds : Advertise(d, k)
        PROVE  TypeOK'
    BY <1>2, ForgetType, AdvertiseType
  <1>3. CASE Die
    BY <1>3 DEF TypeOK, Die, taskVars
  <1>4. CASE Serve
    BY <1>4, ServeType
  <1>5. CASE Task
    BY <1>5, NextSignalType, ProcessType, SendType DEF Task
  <1>6. CASE Take
    BY <1>6, TakeType
  <1>7. CASE UNCHANGED vars
    BY <1>7 DEF TypeOK, vars, daemonVars, taskVars
  <1>8. QED
    BY <1>1, <1>2, <1>3, <1>4, <1>5, <1>6, <1>7 DEF Next, Daemon

\* The model's variables keep their types: the task holds a result exactly while
\* it sends, an answer only while it waits for one (bluer.rs:32-122).
THEOREM TypeCorrect == Spec => []TypeOK
  <1>1. Init => TypeOK
    BY InitType
  <1>2. TypeOK /\ [Next]_vars => TypeOK'
    BY NextType
  <1>3. QED
    BY <1>1, <1>2, PTL DEF Spec

------------------------------------------------------------------------------
(* The task is a scanner's task. *)

LEMMA ScannerStep ==
    ASSUME TypeOK, [Next]_vars
    PROVE  [Scanner!Next]_(Scanner!scanVars)
  <1> USE DEF Scanner!scanVars
  <1>1. CASE Discover
    <2>1. Scanner!Start
      BY <1>1 DEF Discover, Scanner!Start
    <2>2. QED
      BY <2>1 DEF Scanner!Next
  <1>2. CASE CallFails \/ CallReturns
    BY <1>2 DEF CallFails, CallReturns
  <1>3. CASE Process
    <2>1. CASE Outcome(Fetched) = <<>>
      BY <1>3, <2>1, OutcomeType DEF Process
    <2>2. CASE Outcome(Fetched) = <<Message(Fetched)>>
      <3>1. Scanner!Produce(Message(Fetched))
        BY <1>3, <2>2, OutcomeType DEF Process, Scanner!Produce
      <3>2. QED
        BY <1>3, <3>1, OutcomeType DEF Scanner!Next
    <2>3. QED
      BY <1>3, <2>1, <2>2, OutcomeType
  <1>4. CASE Send
    <2>1. Scanner!Send
      BY <1>4 DEF TypeOK, Send, Scanner!Send
    <2>2. QED
      BY <2>1 DEF Scanner!Next
  <1>5. CASE StreamEnds
    <2>1. Scanner!End
      BY <1>5 DEF TypeOK, StreamEnds, Scanner!End
    <2>2. QED
      BY <2>1 DEF Scanner!Next
  <1>6. CASE Take
    <2>1. Scanner!Take
      BY <1>6 DEF Take, Scanner!Take
    <2>2. QED
      BY <2>1 DEF Scanner!Next
  <1>7. CASE NextDevice \/ NextOther
    BY <1>7 DEF NextDevice, NextOther, taskVars
  <1>8. CASE Daemon \/ UNCHANGED vars
    BY <1>8 DEF Daemon, Forget, Advertise, Die, Serve, taskVars, vars
  <1>9. QED
    BY <1>1, <1>2, <1>3, <1>4, <1>5, <1>6, <1>7, <1>8 DEF Next, Setup, Task

\* The event loop does for the run loop what ScanTask promises, errors of
\* bluetoothd included: one result at a time, in order (bluer.rs:59-82).
THEOREM BluerImplementsScanTask == Spec => ImplementsScanTask
  <1>1. Init => Scanner!Init
    BY DEF Init, Scanner!Init
  <1>2. TypeOK /\ [Next]_vars => [Scanner!Next]_(Scanner!scanVars)
    BY ScannerStep
  <1>3. QED
    BY TypeCorrect, <1>1, <1>2, PTL DEF Spec, ImplementsScanTask, Scanner!Spec

------------------------------------------------------------------------------
(* The reports, wherever they are on their way. *)

\* The head of one sequence moves to the end of another.
LEMMA MoveHead ==
    ASSUME NEW S, NEW s \in Seq(S), NEW q \in Seq(S), q # <<>>
    PROVE  Append(s, Head(q)) \o Tail(q) = s \o q
  <1>1. /\ Append(s, Head(q)) \in Seq(S) /\ Tail(q) \in Seq(S)
        /\ Len(Append(s, Head(q))) = Len(s) + 1 /\ Len(Tail(q)) = Len(q) - 1
    OBVIOUS
  <1>2. Append(s, Head(q)) \o Tail(q) \in Seq(S) /\ s \o q \in Seq(S)
    BY <1>1
  <1>3. Len(Append(s, Head(q)) \o Tail(q)) = Len(s \o q)
    BY <1>1
  <1>4. ASSUME NEW i \in 1..Len(s \o q)
        PROVE  (Append(s, Head(q)) \o Tail(q))[i] = (s \o q)[i]
    <2>1. CASE i <= Len(s)
      BY <1>1, <2>1
    <2>2. CASE i = Len(s) + 1
      BY <1>1, <2>2
    <2>3. CASE i > Len(s) + 1
      BY <1>1, <2>3
    <2>4. QED
      BY <2>1, <2>2, <2>3
  <1>5. QED
    BY <1>2, <1>3, <1>4, SeqEqual

LEMMA HandType ==
    ASSUME TypeOK
    PROVE  hand \in Seq(Result)
  <1>1. CASE hand = <<>>
    BY <1>1
  <1>2. CASE hand # <<>>
    <2>1. PICK r \in Result : hand = <<r>>
      BY <1>2 DEF TypeOK
    <2>2. QED
      BY <2>1
  <1>3. QED
    BY <1>1, <1>2

LEMMA ReportsType ==
    ASSUME TypeOK
    PROVE  /\ Reports \in Seq(Result)
           /\ Len(Reports) = Len(taken) + Len(queue) + Len(hand)
  <1>1. hand \in Seq(Result)
    BY HandType
  <1>2. taken \o queue \in Seq(Result) /\ Len(taken \o queue) = Len(taken) + Len(queue)
    BY DEF TypeOK
  <1>3. QED
    BY <1>1, <1>2 DEF Reports, TypeOK

\* Sending and receiving move results; only process_device makes them.
LEMMA ReportsMove ==
    ASSUME TypeOK, Send \/ Take
    PROVE  Reports' = Reports
  <1>1. /\ taken \in Seq(Result) /\ queue \in Seq(Result) /\ hand \in Seq(Result)
        /\ <<>> \in Seq(Result)
    BY HandType DEF TypeOK
  <1>2. CASE Send
    <2>1. Reports' = (taken \o (queue \o hand)) \o <<>>
      BY <1>2 DEF Reports, Send
    <2>2. queue \o hand \in Seq(Result) /\ taken \o (queue \o hand) \in Seq(Result)
      BY <1>1
    <2>3. (taken \o (queue \o hand)) \o <<>> = taken \o (queue \o hand)
      BY <2>2, ConcatEmptySeq
    <2>4. taken \o (queue \o hand) = (taken \o queue) \o hand
      BY <1>1, ConcatAssociative
    <2>5. QED
      BY <2>1, <2>3, <2>4 DEF Reports
  <1>3. CASE Take
    <2>1. Append(taken, Head(queue)) \o Tail(queue) = taken \o queue
      BY <1>1, <1>3, MoveHead DEF Take
    <2>2. QED
      BY <1>3, <2>1 DEF Reports, Take
  <1>4. QED
    BY <1>2, <1>3

\* process_device appends what it found.
LEMMA ReportsGrow ==
    ASSUME TypeOK, Process
    PROVE  Reports' = Reports \o Outcome(Fetched)
  <1>1. taken \o queue \in Seq(Result) /\ hand = <<>>
    BY OutcomeType DEF TypeOK
  <1>2. Reports = taken \o queue
    BY <1>1, ConcatEmptySeq DEF Reports
  <1>3. QED
    BY <1>2 DEF Reports, Process

LEMMA ReportsStay ==
    ASSUME [Next]_vars, ~Process, ~Send, ~Take
    PROVE  Reports' = Reports
  <1>1. CASE Setup
    BY <1>1 DEF Setup, CallFails, CallReturns, Discover, Reports
  <1>2. CASE NextDevice \/ NextOther \/ StreamEnds
    BY <1>2 DEF NextDevice, NextOther, StreamEnds, taskVars, Reports
  <1>3. CASE Daemon \/ UNCHANGED vars
    BY <1>3 DEF Daemon, Forget, Advertise, Die, Serve, taskVars, vars, Reports
  <1>4. QED
    BY <1>1, <1>2, <1>3 DEF Next, Task

------------------------------------------------------------------------------
(* At most one result for a signal. *)

\* The signal in process_device still has its result to give.
SignalsCounted == Len(Reports) + (IF pc = "fetch" THEN 1 ELSE 0) <= handled

LEMMA CountedStep ==
    ASSUME TypeOK, SignalsCounted, [Next]_vars
    PROVE  SignalsCounted'
  <1>0. Len(Reports) \in Nat /\ handled \in Nat
    BY ReportsType DEF TypeOK
  <1>1. CASE Process
    <2>1. Len(Reports') = Len(Reports) \/ Len(Reports') = Len(Reports) + 1
      BY <1>1, ReportsGrow, ReportsType, OutcomeType
    <2>2. pc = "fetch" /\ pc' # "fetch" /\ handled' = handled
      BY <1>1 DEF Process
    <2>3. QED
      BY <1>0, <2>1, <2>2 DEF SignalsCounted
  <1>2. CASE Send \/ Take
    <2>1. Reports' = Reports
      BY <1>2, ReportsMove
    <2>2. (pc' = "fetch" => pc = "fetch") /\ handled' = handled
      BY <1>2 DEF Send, Take
    <2>3. QED
      BY <1>0, <2>1, <2>2 DEF SignalsCounted
  <1>3. CASE ~Process /\ ~Send /\ ~Take
    <2>1. Reports' = Reports
      BY <1>3, ReportsStay
    <2>2. CASE NextDevice
      <3>1. pc # "fetch" /\ handled' = handled + 1
        BY <2>2 DEF NextDevice
      <3>2. QED
        BY <1>0, <2>1, <3>1 DEF SignalsCounted
    <2>3. CASE ~NextDevice
      <3>1. handled' = handled /\ (pc' = "fetch" => pc = "fetch")
        BY <1>3, <2>3 DEF Next, Setup, CallFails, CallReturns, Discover, Task, NextOther, StreamEnds,
                          Daemon, Forget, Advertise, Die, Serve, taskVars, vars
      <3>2. QED
        BY <1>0, <2>1, <3>1 DEF SignalsCounted
    <2>4. QED
      BY <2>2, <2>3
  <1>4. QED
    BY <1>1, <1>2, <1>3

\* However signals, answers and errors interleave, a signal never leads to two
\* results: process_device and its caller do not both report it (bluer.rs:64-78).
THEOREM OneResult == Spec => []OneResultPerSignal
  <1>1. Init => SignalsCounted
    <2>1. ASSUME Init PROVE Reports = <<>> /\ pc = "setup" /\ handled = 0
      BY <2>1 DEF Init, Reports
    <2>2. QED
      BY <2>1 DEF SignalsCounted
  <1>2. TypeOK /\ SignalsCounted /\ [Next]_vars => SignalsCounted'
    BY CountedStep
  <1>3. TypeOK /\ SignalsCounted => OneResultPerSignal
    BY ReportsType DEF SignalsCounted, OneResultPerSignal, TypeOK
  <1>4. QED
    BY TypeCorrect, <1>1, <1>2, <1>3, PTL DEF Spec

------------------------------------------------------------------------------
(* No stale report. *)

\* bluetoothd numbers advertisements upwards; a signal, the signal being
\* processed and a report never point past the device's last advertisement.
UpToDate ==
    /\ \A d \in Devices : ad[d] <= ads
    /\ \A i \in DOMAIN signals : signals[i].what = "DeviceAdded" => signals[i].ad <= ad[signals[i].dev]
    /\ pc = "fetch" => cause <= ad[address]
    /\ \A i \in DOMAIN Reports : Reports[i].ok => Reports[i].ad <= ad[Reports[i].dev]

\* An answer on its way is at least as new as the signal and as every report of
\* its device.
FreshReply ==
    reply # <<>> /\ reply[1].kind # "error" =>
        /\ cause <= reply[1].ad /\ reply[1].ad <= ad[address]
        /\ \A i \in DOMAIN Reports :
              Reports[i].ok /\ Reports[i].dev = address => Reports[i].ad <= reply[1].ad

StaleInv == UpToDate /\ FreshReply /\ NoStaleReport

LEMMA InitStale == Init => StaleInv
  <1>1. ASSUME Init
        PROVE  /\ Reports = <<>> /\ signals = <<>> /\ reply = <<>> /\ pc = "setup"
               /\ ads = 0 /\ \A d \in Devices : ad[d] = 0
    BY <1>1 DEF Init, Reports
  <1>2. QED
    BY <1>1 DEF StaleInv, UpToDate, FreshReply, NoStaleReport

\* A new advertisement only raises the numbers that others are compared with.
LEMMA AdvertiseStale ==
    ASSUME TypeOK, StaleInv, NEW d \in Devices, NEW k \in Kinds, Advertise(d, k)
    PROVE  StaleInv'
  <1>1. Reports' = Reports /\ pc' = pc /\ address' = address /\ cause' = cause /\ reply' = reply
    BY DEF Advertise, taskVars, Reports
  <1>2. \A x \in Devices : ad[x] \in Nat /\ ad'[x] \in Nat /\ ad[x] <= ad'[x] /\ ad'[x] <= ads'
    <2>1. ads \in Nat /\ \A x \in Devices : ad[x] \in Nat /\ ad[x] <= ads
      BY BluerReaderAssumption DEF TypeOK, StaleInv, UpToDate
    <2>2. ads' = ads + 1 /\ ad' = [ad EXCEPT ![d] = ads + 1] /\ ad \in [Devices -> 0..MaxAds]
      BY DEF TypeOK, Advertise
    <2>3. \A x \in Devices : ad'[x] = IF x = d THEN ads + 1 ELSE ad[x]
      BY <2>2
    <2>4. QED
      BY <2>1, <2>2, <2>3
  <1>3. ad'[d] = ads + 1
    BY DEF TypeOK, Advertise
  <1>4. \A i \in DOMAIN Reports : Reports[i] \in Result
    BY ReportsType
  <1>5. \A i \in DOMAIN Reports' : Reports'[i].ok => Reports'[i].ad <= ad'[Reports'[i].dev]
    BY <1>1, <1>2, <1>4, BluerReaderAssumption DEF StaleInv, UpToDate, Result
  <1>6. \A i \in DOMAIN signals' : signals'[i].what = "DeviceAdded" => signals'[i].ad <= ad'[signals'[i].dev]
    <2>1. \A i \in DOMAIN signals :
             /\ signals[i] \in Signal
             /\ signals[i].what = "DeviceAdded" => signals[i].ad <= ad'[signals[i].dev]
      <3>1. \A i \in DOMAIN signals : signals[i] \in Signal
        BY DEF TypeOK
      <3>2. QED
        BY <1>2, <3>1, BluerReaderAssumption DEF StaleInv, UpToDate, Signal
    <2>2. CASE signals' = signals
      BY <2>1, <2>2
    <2>3. CASE signals' = Append(signals, Added(d, ads + 1))
      <3>1. Added(d, ads + 1).ad <= ad'[Added(d, ads + 1).dev]
        BY <1>2, <1>3 DEF Added
      <3>2. \A i \in DOMAIN signals' :
               signals'[i] = Added(d, ads + 1) \/ (i \in DOMAIN signals /\ signals'[i] = signals[i])
        BY <2>3 DEF TypeOK
      <3>3. QED
        BY <2>1, <3>1, <3>2
    <2>4. QED
      BY <2>2, <2>3 DEF Advertise
  <1>7. pc' = "fetch" => cause' <= ad'[address']
    BY <1>1, <1>2, BluerReaderAssumption DEF TypeOK, StaleInv, UpToDate
  <1>8. UpToDate'
    BY <1>2, <1>5, <1>6, <1>7 DEF UpToDate
  <1>9. FreshReply'
    <2>1. reply # <<>> => reply[1].ad \in 0..MaxAds
      BY DEF TypeOK, Answer
    <2>2. address \in Devices /\ ad[address] \in Nat /\ ad'[address] \in Nat /\ ad[address] <= ad'[address]
      BY <1>2 DEF TypeOK
    <2>3. ASSUME reply # <<>>, reply[1].kind # "error"
          PROVE  reply[1].ad <= ad'[address]
      <3>1. reply[1].ad \in Nat /\ reply[1].ad <= ad[address]
        BY <2>1, <2>3, BluerReaderAssumption DEF StaleInv, FreshReply
      <3>2. QED
        BY <2>2, <3>1
    <2>4. QED
      BY <1>1, <2>3 DEF StaleInv, FreshReply
  <1>10. NoStaleReport'
    BY <1>1 DEF StaleInv, NoStaleReport
  <1>11. QED
    BY <1>8, <1>9, <1>10 DEF StaleInv

\* The answer holds the device's last advertisement.
LEMMA ServeStale ==
    ASSUME TypeOK, StaleInv, Serve
    PROVE  StaleInv'
  <1>1. Reports' = Reports /\ UNCHANGED <<pc, address, cause, ad, ads, signals>> /\ pc = "fetch"
    BY DEF Serve, daemonVars, Reports
  <1>2. UpToDate' /\ NoStaleReport'
    BY <1>1 DEF StaleInv, UpToDate, NoStaleReport
  <1>3. reply'[1].kind # "error" => reply'[1].ad = ad[address]
    BY DEF Serve
  <1>4. ad[address] \in Nat
    BY BluerReaderAssumption DEF TypeOK
  <1>5. FreshReply'
    BY <1>1, <1>3, <1>4 DEF StaleInv, UpToDate, FreshReply
  <1>6. QED
    BY <1>2, <1>5 DEF StaleInv

\* The report that process_device makes is the newest of its device.
LEMMA ProcessStale ==
    ASSUME TypeOK, StaleInv, Process
    PROVE  StaleInv'
  <1>1. UNCHANGED <<address, cause, ad, ads, signals>> /\ reply' = <<>> /\ pc' # "fetch"
    BY DEF Process, daemonVars
  <1>2. FreshReply'
    BY <1>1 DEF FreshReply
  <1>3. CASE Outcome(Fetched) = <<>>
    <2>1. Reports' = Reports
      BY <1>3, ReportsGrow, ReportsType, ConcatEmptySeq
    <2>2. QED
      BY <1>1, <1>2, <2>1 DEF StaleInv, UpToDate, NoStaleReport
  <1>4. CASE Outcome(Fetched) = <<Message(Fetched)>>
    <2> DEFINE new == Message(Fetched)
    <2>1. Reports \in Seq(Result) /\ new \in Result /\ Reports' = Reports \o <<new>>
      BY <1>4, ReportsGrow, ReportsType, OutcomeType
    <2>2. \A i \in DOMAIN Reports' :
             \/ i \in DOMAIN Reports /\ Reports'[i] = Reports[i]
             \/ i = Len(Reports) + 1 /\ Reports'[i] = new
      BY <2>1
    <2>3. new.ok => /\ new.cause <= new.ad /\ new.ad <= ad[address] /\ new.dev = address
                    /\ \A i \in DOMAIN Reports :
                          Reports[i].ok /\ Reports[i].dev = address => Reports[i].ad <= new.ad
      BY DEF Process, Fetched, Message, StaleInv, FreshReply
    <2>4. UpToDate'
      BY <1>1, <2>2, <2>3 DEF StaleInv, UpToDate
    <2>5. \A i \in DOMAIN Reports' : Reports'[i].ok => Reports'[i].ad >= Reports'[i].cause
      <3>1. new.ad \in Nat /\ new.cause \in Nat
        BY <2>1, BluerReaderAssumption DEF Result
      <3>2. new.ok => new.ad >= new.cause
        BY <2>3, <3>1
      <3>3. QED
        BY <2>2, <3>2 DEF StaleInv, NoStaleReport
    <2>6. ASSUME NEW i \in DOMAIN Reports', NEW j \in DOMAIN Reports',
                 i < j, Reports'[i].dev = Reports'[j].dev, Reports'[i].ok, Reports'[j].ok
          PROVE  Reports'[i].ad <= Reports'[j].ad
      <3>1. DOMAIN Reports = 1..Len(Reports) /\ Len(Reports) \in Nat
        BY <2>1
      <3>2. i \in DOMAIN Reports /\ Reports'[i] = Reports[i]
        BY <2>2, <2>6, <3>1, <2>1
      <3>3. CASE j \in DOMAIN Reports /\ Reports'[j] = Reports[j]
        BY <2>6, <3>2, <3>3 DEF StaleInv, NoStaleReport
      <3>4. CASE Reports'[j] = new
        BY <2>3, <2>6, <3>2, <3>4
      <3>5. QED
        BY <2>2, <3>3, <3>4
    <2>7. NoStaleReport'
      BY <2>5, <2>6 DEF NoStaleReport
    <2>8. QED
      BY <1>2, <2>4, <2>7 DEF StaleInv
  <1>5. QED
    BY <1>3, <1>4, OutcomeType

\* Taking up a signal, or discovery's first signals.
LEMMA SignalStale ==
    ASSUME TypeOK, StaleInv, NextDevice \/ NextOther \/ Discover \/ (\E d \in Devices : Forget(d))
    PROVE  StaleInv'
  <1>1. Reports' = Reports /\ UNCHANGED <<ad, ads>>
    BY DEF NextDevice, NextOther, Discover, Forget, taskVars, Reports
  <1>2. NoStaleReport'
    BY <1>1 DEF StaleInv, NoStaleReport
  <1>3. CASE NextDevice \/ NextOther
    <2>1. signals \in Seq(Signal) /\ signals # <<>> /\ signals' = Tail(signals)
      BY <1>3 DEF TypeOK, NextDevice, NextOther
    <2>2. \A i \in DOMAIN signals' : i + 1 \in DOMAIN signals /\ signals'[i] = signals[i + 1]
      BY <2>1
    <2>3. 1 \in DOMAIN signals /\ Head(signals) = signals[1]
      BY <2>1
    <2>4. pc' = "fetch" => cause' <= ad'[address']
      BY <1>1, <1>3, <2>3 DEF NextDevice, NextOther, taskVars, StaleInv, UpToDate
    <2>5. UpToDate'
      BY <1>1, <2>2, <2>4 DEF StaleInv, UpToDate
    <2>6. reply' = <<>>
      BY <1>3 DEF TypeOK, NextDevice, NextOther, taskVars
    <2>7. QED
      BY <1>2, <2>5, <2>6 DEF StaleInv, FreshReply
  <1>4. CASE Discover
    <2>1. PICK n \in 0..Cardinality(known) : \E order \in Injection(1..n, known) :
                signals' = [i \in 1..n |-> Added(order[i], ad[order[i]])]
      BY <1>4 DEF Discover
    <2>2. PICK order \in [1..n -> known] : signals' = [i \in 1..n |-> Added(order[i], ad[order[i]])]
      BY <2>1 DEF Injection
    <2>3. \A i \in 1..n : ad[order[i]] \in Nat
      BY <2>2, BluerReaderAssumption DEF TypeOK
    <2>4. \A i \in DOMAIN signals' : signals'[i].ad <= ad[signals'[i].dev]
      BY <2>2, <2>3 DEF Added
    <2>5. pc' # "fetch" /\ reply' = <<>>
      BY <1>4 DEF Discover, TypeOK
    <2>6. UpToDate'
      BY <1>1, <2>4, <2>5 DEF StaleInv, UpToDate
    <2>7. QED
      BY <1>2, <2>5, <2>6 DEF StaleInv, FreshReply
  <1>5. ASSUME NEW d \in Devices, Forget(d)
        PROVE  StaleInv'
    <2> DEFINE new == [what |-> "DeviceRemoved", dev |-> d, ad |-> 0]
    <2>1. UNCHANGED <<pc, address, cause, reply>>
      BY <1>5 DEF Forget, taskVars
    <2>2. CASE signals' = signals
      BY <1>1, <1>2, <2>1, <2>2 DEF StaleInv, UpToDate, FreshReply
    <2>3. CASE signals' = Append(signals, new)
      <3>1. \A i \in DOMAIN signals' :
               signals'[i].what # "DeviceAdded" \/ (i \in DOMAIN signals /\ signals'[i] = signals[i])
        BY <2>3 DEF TypeOK
      <3>2. UpToDate'
        BY <1>1, <2>1, <3>1 DEF StaleInv, UpToDate
      <3>3. QED
        BY <1>1, <1>2, <2>1, <3>2 DEF StaleInv, FreshReply
    <2>4. QED
      BY <1>5, <2>2, <2>3 DEF Forget
  <1>6. QED
    BY <1>3, <1>4, <1>5

LEMMA NextStale ==
    ASSUME TypeOK, StaleInv, [Next]_vars
    PROVE  StaleInv'
  <1>1. ASSUME NEW d \in Devices, NEW k \in Kinds, Advertise(d, k)
        PROVE  StaleInv'
    BY <1>1, AdvertiseStale
  <1>2. CASE Serve
    BY <1>2, ServeStale
  <1>3. CASE Process
    BY <1>3, ProcessStale
  <1>4. CASE NextDevice \/ NextOther \/ Discover \/ (\E d \in Devices : Forget(d))
    BY <1>4, SignalStale
  <1>5. CASE Send \/ Take
    <2>1. Reports' = Reports
      BY <1>5, ReportsMove
    <2>2. /\ UNCHANGED <<ad, ads, signals, address, cause, reply>>
          /\ pc' = "fetch" => pc = "fetch"
      BY <1>5 DEF Send, Take, daemonVars
    <2>3. QED
      BY <2>1, <2>2 DEF StaleInv, UpToDate, FreshReply, NoStaleReport
  <1>6. CASE CallFails \/ CallReturns \/ StreamEnds \/ Die \/ UNCHANGED vars
    <2>1. /\ Reports' = Reports
          /\ UNCHANGED <<ad, ads, signals, address, cause, reply>>
          /\ pc' = "fetch" => pc = "fetch"
      BY <1>6 DEF CallFails, CallReturns, StreamEnds, Die, daemonVars, taskVars, vars, Reports
    <2>2. QED
      BY <2>1 DEF StaleInv, UpToDate, FreshReply, NoStaleReport
  <1>7. QED
    BY <1>1, <1>2, <1>3, <1>4, <1>5, <1>6 DEF Next, Setup, Task, Daemon

\* Whatever happens between a signal and the fetch of its data, a report is
\* never older than its signal, and a tag's reports never go back in time
\* (bluer.rs:63-65, 99).
THEOREM ReportsAreFresh == Spec => []NoStaleReport
  <1>1. Init => StaleInv
    BY InitStale
  <1>2. TypeOK /\ StaleInv /\ [Next]_vars => StaleInv'
    BY NextStale
  <1>3. StaleInv => NoStaleReport
    BY DEF StaleInv
  <1>4. QED
    BY TypeCorrect, <1>1, <1>2, <1>3, PTL DEF Spec
===============================================================================
