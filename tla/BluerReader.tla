----------------------------- MODULE BluerReader -----------------------------
(***************************************************************************)
(* The BlueZ backend (src/scanner/bluer.rs).  bluetoothd keeps the last    *)
(* advertisement of every device and signals each new one; the signal does *)
(* not carry it.  The task takes one signal at a time, asks bluetoothd for *)
(* the device's data, and decodes what the answer holds, while further     *)
(* advertisements come in, devices are forgotten, or bluetoothd dies.      *)
(*                                                                         *)
(* Advertisements are numbered; a result carries, as history, the number   *)
(* of the one it was decoded from and of the one whose signal led to it.   *)
(***************************************************************************)
EXTENDS Naturals, Sequences, FiniteSets, Functions

CONSTANTS
    Devices,
    Kinds,          \* of advertisements: "ruuvi", "corrupt" (does not decode), "foreign"
    Capacity,       \* MEASUREMENT_CHANNEL_BUFFER_SIZE
    MaxAds,         \* bound on the advertisements
    MaxRemovals     \* bound on the devices bluetoothd forgets

ASSUME BluerReaderAssumption ==
    /\ Kinds \subseteq {"ruuvi", "corrupt", "foreign"}
    /\ IsFiniteSet(Devices) /\ Devices # {} /\ Kinds # {}
    /\ Capacity \in Nat \ {0}
    /\ MaxAds \in Nat /\ MaxRemovals \in Nat

VARIABLES
    verbose,
    \* bluetoothd
    alive,          \* it runs
    known,          \* the devices it has objects for
    ad, kind,       \* number and kind of the last advertisement of a device
    ads, removals,
    filtered,       \* the discovery filter with duplicate_data is in force
    signals,        \* AdapterEvents not yet taken by the task
    \* start_scan and its task
    pc,             \* "setup", "refused", "next", "fetch", "send" or "ended"
    calls,          \* the calls of start_scan still to make
    address, cause, \* what process_device works on
    reply,          \* the answer on its way: <<>> or one
    hand, queue,
    taken, handled, \* history: the results received, the signals processed
    begun           \* history: advertisements before discovery began

daemonVars == <<alive, known, ad, kind, ads, removals, filtered, signals>>
taskVars == <<pc, calls, address, cause, reply, hand, queue, taken, handled, begun>>
vars == <<verbose, daemonVars, taskVars>>

Calls == {"session", "adapter", "powered", "filter", "discover"}

SetupCalls_Mutant == <<"session", "adapter", "powered", "discover">>

\* What start_scan awaits, in order; each call may fail.
SetupCalls == <<"session", "adapter", "powered", "filter", "discover">>

Signal == [what : {"DeviceAdded", "DeviceRemoved"}, dev : Devices, ad : 0..MaxAds]
Result == [ok : BOOLEAN, dev : Devices, ad : 0..MaxAds, cause : 0..MaxAds]
Answer == [kind : Kinds \cup {"error"}, ad : 0..MaxAds]

TypeOK ==
    /\ verbose \in BOOLEAN /\ alive \in BOOLEAN /\ filtered \in BOOLEAN
    /\ known \subseteq Devices
    /\ ad \in [Devices -> 0..MaxAds] /\ kind \in [Devices -> Kinds]
    /\ ads \in 0..MaxAds /\ begun \in 0..ads /\ removals \in 0..MaxRemovals
    /\ signals \in Seq(Signal)
    /\ pc \in {"setup", "refused", "next", "fetch", "send", "ended"}
    /\ calls \in Seq(Calls) /\ (pc \in {"setup", "refused"} <=> calls # <<>>)
    /\ address \in Devices /\ cause \in 0..MaxAds
    /\ reply \in {<<>>} \cup {<<a>> : a \in Answer} /\ (reply # <<>> => pc = "fetch")
    /\ hand \in {<<>>} \cup {<<r>> : r \in Result}
    /\ hand # <<>> <=> pc = "send"
    /\ queue \in Seq(Result) /\ Len(queue) <= Capacity
    /\ taken \in Seq(Result) /\ handled \in Nat

\* Devices advertise during setup as well, so discovery may find known ones.
Init ==
    /\ verbose \in BOOLEAN
    /\ alive = TRUE /\ filtered = FALSE
    /\ known = {}
    /\ ad = [d \in Devices |-> 0] /\ kind = [d \in Devices |-> CHOOSE k \in Kinds : TRUE]
    /\ ads = 0 /\ removals = 0 /\ signals = <<>>
    /\ pc = "setup" /\ calls = SetupCalls
    /\ address = CHOOSE d \in Devices : TRUE
    /\ cause = 0 /\ reply = <<>>
    /\ hand = <<>> /\ queue = <<>>
    /\ taken = <<>> /\ handled = 0 /\ begun = 0

Scanning == pc \notin {"setup", "refused", "ended"}

------------------------------------------------------------------------------
(* bluetoothd and the devices around it. *)

Added(d, n) == [what |-> "DeviceAdded", dev |-> d, ad |-> n]

\* With duplicate_data every advertisement of a device is signalled; without
\* it bluetoothd may keep quiet about one of a device it knows.
Signalled(d) == IF filtered \/ d \notin known THEN {TRUE} ELSE BOOLEAN

Advertise(d, k) ==
    /\ alive /\ ads < MaxAds
    /\ ads' = ads + 1
    /\ ad' = [ad EXCEPT ![d] = ads + 1]
    /\ kind' = [kind EXCEPT ![d] = k]
    /\ known' = known \cup {d}
    /\ \E s \in Signalled(d) :
          signals' = IF Scanning /\ s
                       THEN Append(signals, Added(d, ads + 1))
                       ELSE signals
    /\ UNCHANGED <<verbose, alive, removals, filtered, taskVars>>

\* A device that has been quiet for long is forgotten.
Forget(d) ==
    /\ alive /\ d \in known /\ removals < MaxRemovals
    /\ removals' = removals + 1
    /\ known' = known \ {d}
    /\ signals' = IF Scanning
                    THEN Append(signals, [what |-> "DeviceRemoved", dev |-> d, ad |-> 0])
                    ELSE signals
    /\ UNCHANGED <<verbose, alive, ad, kind, ads, filtered, taskVars>>

Die ==
    /\ alive
    /\ alive' = FALSE
    /\ known' = {}
    /\ UNCHANGED <<verbose, ad, kind, ads, removals, filtered, signals, taskVars>>

\* The property is read when the call is served, not when it was made.
Serve ==
    /\ pc = "fetch" /\ reply = <<>>
    /\ reply' = IF address \in known THEN <<[kind |-> kind[address], ad |-> ad[address]]>>
                                     ELSE <<[kind |-> "error", ad |-> 0]>>
    /\ UNCHANGED <<verbose, daemonVars, pc, calls, address, cause, hand, queue, taken, handled, begun>>

------------------------------------------------------------------------------
(* start_scan. *)

CallFails ==
    /\ pc = "setup"
    /\ pc' = "refused"
    /\ UNCHANGED <<verbose, daemonVars, calls, address, cause, reply, hand, queue, taken, handled, begun>>

\* A call before the last one; the fourth sets the filter.
CallReturns ==
    /\ pc = "setup" /\ alive /\ Len(calls) > 1
    /\ calls' = Tail(calls)
    /\ filtered' = (filtered \/ Head(calls) = "filter")
    /\ UNCHANGED <<verbose, alive, known, ad, kind, ads, removals, signals>>
    /\ UNCHANGED <<pc, address, cause, reply, hand, queue, taken, handled, begun>>

\* Discovery begins, perhaps with events for devices known before, in any order,
\* and the task is spawned.
Discover ==
    /\ pc = "setup" /\ alive /\ calls = <<"discover">>
    /\ calls' = <<>>
    /\ pc' = "next"
    /\ begun' = ads
    /\ \E n \in 0..Cardinality(known) : \E order \in Injection(1..n, known) :
          signals' = [i \in 1..n |-> Added(order[i], ad[order[i]])]
    /\ UNCHANGED <<verbose, alive, known, ad, kind, ads, removals, filtered>>
    /\ UNCHANGED <<address, cause, reply, hand, queue, taken, handled>>

------------------------------------------------------------------------------
(* The task: one event, process_device, and the result of it. *)

\* events.next().await; process_device asks for the manufacturer data.
NextDevice ==
    /\ pc = "next" /\ signals # <<>> /\ Head(signals).what = "DeviceAdded"
    /\ signals' = Tail(signals)
    /\ address' = Head(signals).dev /\ cause' = Head(signals).ad
    /\ pc' = "fetch"
    /\ handled' = handled + 1
    /\ UNCHANGED <<verbose, alive, known, ad, kind, ads, removals, filtered>>
    /\ UNCHANGED <<calls, reply, hand, queue, taken, begun>>

NextOther ==
    /\ pc = "next" /\ signals # <<>> /\ Head(signals).what # "DeviceAdded"
    /\ signals' = Tail(signals)
    /\ UNCHANGED <<verbose, alive, known, ad, kind, ads, removals, filtered, taskVars>>

StreamEnds ==
    /\ pc = "next" /\ signals = <<>> /\ ~alive
    /\ pc' = "ended"
    /\ UNCHANGED <<verbose, daemonVars, calls, address, cause, reply, hand, queue, taken, handled, begun>>

\* What process_device and its caller send for an answer: nothing for a device
\* that is no tag, an error only when verbose.
Message(a) == [ok |-> a.kind = "ruuvi", dev |-> address, ad |-> a.ad, cause |-> cause]

Outcome_Mutant(a) ==
    CASE a.kind = "ruuvi"                 -> <<Message(a)>>
      [] a.kind = "error" /\ verbose      -> <<Message(a)>>
      [] a.kind = "corrupt" /\ verbose    -> <<Message(a), Message(a)>>
      [] OTHER                            -> <<>>

Outcome(a) ==
    IF a.kind = "ruuvi" \/ (a.kind \in {"corrupt", "error"} /\ verbose) THEN <<Message(a)>> ELSE <<>>

\* The answer as the task uses it, and one that a cache would give.
Fetched_Mutant == LET old == {i \in DOMAIN taken : taken[i].dev = address /\ taken[i].ok}
                  IN  IF old = {} THEN reply[1]
                      ELSE [kind |-> "ruuvi", ad |-> taken[CHOOSE i \in old : \A j \in old : i >= j].ad]
Fetched == reply[1]

Process ==
    /\ pc = "fetch" /\ reply # <<>>
    /\ reply' = <<>>
    /\ hand' = Outcome(Fetched)
    /\ pc' = IF Outcome(Fetched) = <<>> THEN "next" ELSE "send"
    /\ UNCHANGED <<verbose, daemonVars, calls, address, cause, queue, taken, handled, begun>>

Send_Mutant ==
    /\ pc = "send"
    /\ queue' = queue \o hand
    /\ hand' = <<>>
    /\ pc' = "next"
    /\ UNCHANGED <<verbose, daemonVars, calls, address, cause, reply, taken, handled, begun>>

Send ==
    /\ pc = "send" /\ Len(queue) < Capacity
    /\ queue' = queue \o hand
    /\ hand' = <<>>
    /\ pc' = "next"
    /\ UNCHANGED <<verbose, daemonVars, calls, address, cause, reply, taken, handled, begun>>

\* The run loop receives a result.
Take ==
    /\ queue # <<>>
    /\ queue' = Tail(queue)
    /\ taken' = Append(taken, Head(queue))
    /\ UNCHANGED <<verbose, daemonVars, pc, calls, address, cause, reply, hand, handled, begun>>

Setup == CallFails \/ CallReturns \/ Discover
Task == NextDevice \/ NextOther \/ StreamEnds \/ Process \/ Send
Daemon == (\E d \in Devices : Forget(d) \/ \E k \in Kinds : Advertise(d, k)) \/ Die \/ Serve

Next == Setup \/ Task \/ Daemon \/ Take

Spec == Init /\ [][Next]_vars

\* The runtime polls both tasks, and a call to bluetoothd is answered, if only
\* by an error.  Nothing makes a device advertise.
FairSpec == Spec /\ WF_vars(Setup) /\ WF_vars(Task) /\ WF_vars(Serve) /\ WF_vars(Take)

------------------------------------------------------------------------------
(* Properties. *)

Reports == taken \o queue \o hand

\* What is reported for a signal is at least as new as the advertisement that
\* was signalled, and a device's reports never go back in time, although the
\* data is fetched after the signal (bluer.rs:63-65, 99).
NoStaleReport ==
    /\ \A i \in DOMAIN Reports : Reports[i].ok => Reports[i].ad >= Reports[i].cause
    /\ \A i, j \in DOMAIN Reports :
          i < j /\ Reports[i].dev = Reports[j].dev /\ Reports[i].ok /\ Reports[j].ok
              => Reports[i].ad <= Reports[j].ad

\* A signal leads to at most one result, error or measurement: process_device
\* and its caller do not both report it (bluer.rs:64-78, 110-119).
OneResultPerSignal == Len(Reports) <= handled

\* The last advertisement of a tag is received in the end, as long as
\* bluetoothd lives and knows the tag: fetching late may skip an
\* advertisement, but only for a later one (bluer.rs:37-48, 52-56).
LastAdvertisementReported ==
    \A d \in Devices :
        <>[](alive /\ Scanning /\ d \in known /\ kind[d] = "ruuvi" /\ ad[d] > begun
                => \E i \in DOMAIN taken : taken[i].dev = d /\ taken[i].ok /\ taken[i].ad = ad[d])

------------------------------------------------------------------------------
\* The task is a scanner's task as the run loop expects it (bluer.rs:32-83).
Scanner == INSTANCE ScanTask WITH
    Results <- Result,
    task <- IF pc \in {"setup", "refused"} THEN "none" ELSE IF pc = "ended" THEN "ended" ELSE "running"

ImplementsScanTask == Scanner!Spec
===============================================================================
