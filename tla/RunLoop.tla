------------------------------- MODULE RunLoop -------------------------------
(***************************************************************************)
(* The program from start_scan to its exit code: the scanner's task and   *)
(* the bounded channel (the actions of ScanTask), the loop of run_with_io  *)
(* (app.rs) with the E1/V6 filter and the throttle (module Throttle,       *)
(* instantiated), the blocking writes, and the exit codes of main.rs.      *)
(*                                                                         *)
(* Both tasks run on one thread (tokio's current_thread flavour): they     *)
(* interleave only where they wait, and nothing of the program runs while  *)
(* a write to stdout or stderr blocks.                                     *)
(***************************************************************************)
EXTENDS Naturals, Sequences, FiniteSets

CONSTANTS
    Mac, Intervals, Multiplier, CheckInterval, SizeThreshold, DurationMax,
    MaxClock, Delays,  \* as in Throttle
    Options,           \* combinations of --throttle and --verbose
    Formats,           \* the data formats the tags of this instance send
    Capacity,          \* MEASUREMENT_CHANNEL_BUFFER_SIZE
    MaxResults         \* bound on the results the scanner produces

ASSUME RunLoopAssumption ==
    /\ Options \subseteq [throttle : BOOLEAN, verbose : BOOLEAN]
    /\ Formats \subseteq {"V5", "V6", "E1"}
    /\ Capacity \in Nat \ {0} /\ MaxResults \in Nat
    /\ IsFiniteSet(Mac)
    /\ Intervals \subseteq Nat /\ Multiplier \in Nat \ {0}
    /\ CheckInterval \in Nat /\ SizeThreshold \in Nat
    /\ DurationMax \in Nat /\ MaxClock \in Nat
    /\ Delays \subseteq Nat

VARIABLES
    interval, last_seen, check_count, clock, answer, panicked, lastEmit, lastCheck,
    options,     \* whether --throttle and --verbose were given
    task, hand, queue,  \* as in ScanTask; the Sender lives as long as the task
    pc,          \* run_with_io is at "start" (start_scan), "recv" or "write"
    e1_devices,  \* HashSet of tags that have sent E1
    judged,      \* history: every received result, and what became of it
    exit_code    \* "running", or how the process ended

throttleVars ==
    <<interval, last_seen, check_count, clock, answer, panicked, lastEmit, lastCheck>>
givenVars == <<options, task, hand>>   \* what run_with_io leaves alone
vars == <<throttleVars, givenVars, queue, pc, e1_devices, judged, exit_code>>

T == INSTANCE Throttle

\* What the channel carries: a measurement, stamped when it was decoded, or a
\* decode error.
Measurement == [fmt : Formats, mac : Mac, stamp : 0..MaxClock]
DecodeError == [fmt |-> "error"]
Results == Measurement \cup {DecodeError}
Scanner == INSTANCE ScanTask

Fates == {"redundant", "throttled", "emit", "report", "ignore"}

TypeOK ==
    /\ T!TypeOK
    /\ options \in Options
    /\ task \in {"none", "running", "ended"}
    /\ hand \in {<<>>} \cup {<<r>> : r \in Results}
    /\ queue \in Seq(Results) /\ Len(queue) <= Capacity
    /\ pc \in {"start", "recv", "write"}
    /\ e1_devices \subseteq Mac
    /\ judged \in Seq([res : Results, fate : Fates, at : 0..MaxClock])
    /\ exit_code \in {"running", "success", "error", "panic"}

Init ==
    /\ T!Init
    /\ options \in Options
    /\ Scanner!Init
    /\ pc = "start"
    /\ e1_devices = {}
    /\ judged = <<>>
    /\ exit_code = "running"

Produced == Len(judged) + Len(queue) + Len(hand)

\* A task can be polled: the process lives and its thread is not in a write.
Schedulable == exit_code = "running" /\ pc # "write"

------------------------------------------------------------------------------
(* The scanner's side. *)

StartScanOk ==
    /\ exit_code = "running" /\ pc = "start"
    /\ Scanner!Start
    /\ pc' = "recv"
    /\ UNCHANGED <<throttleVars, options, e1_devices, judged, exit_code>>

StartScanFails ==
    /\ exit_code = "running" /\ pc = "start"
    /\ exit_code' = "error"
    /\ UNCHANGED <<throttleVars, givenVars, queue, pc, e1_devices, judged>>

loopVars == <<throttleVars, options, pc, e1_devices, judged, exit_code>>

\* The task has decoded an advertisement and starts to send the result.
Decode(r) ==
    /\ Schedulable /\ Produced < MaxResults
    /\ Scanner!Produce(r)
    /\ UNCHANGED loopVars

Send_Mutant ==
    /\ Schedulable /\ hand # <<>>
    /\ queue' = queue \o hand
    /\ hand' = <<>>
    /\ UNCHANGED <<task, loopVars>>

SendIfRoom_Mutant ==
    /\ Schedulable /\ hand # <<>>
    /\ queue' = IF Len(queue) < Capacity THEN queue \o hand ELSE queue
    /\ hand' = <<>>
    /\ UNCHANGED <<task, loopVars>>

Send == Schedulable /\ Scanner!Send /\ UNCHANGED loopVars

\* The task ends (event stream over, socket unusable) and drops the Sender.
ScannerEnds == Schedulable /\ Scanner!End /\ UNCHANGED loopVars

------------------------------------------------------------------------------
(* One iteration of the loop of run_with_io. *)

IsMeasurement(r) == r.fmt # "error"

IsRedundantV6(r) == r.fmt = "V6" /\ r.mac \in e1_devices

AfterE1_Mutant(r) ==
    IF r.fmt = "E1" /\ ~T!Blocked(last_seen, r.mac, clock) THEN e1_devices \cup {r.mac}
                                                           ELSE e1_devices
AfterE1(r) == IF r.fmt = "E1" THEN e1_devices \cup {r.mac} ELSE e1_devices

Judge(r, fate) == judged' = Append(judged, [res |-> r, fate |-> fate, at |-> clock'])

\* recv() yields the first result of the channel.
Receive ==
    /\ exit_code = "running" /\ pc = "recv"
    /\ Scanner!Take
    /\ UNCHANGED options

ReceiveRedundant_Mutant ==
    LET r == Head(queue) IN
    /\ Receive
    /\ IsMeasurement(r) /\ IsRedundantV6(r)
    /\ IF options.throttle THEN \E d \in Delays : T!should_emit(r.mac, d) ELSE UNCHANGED throttleVars
    /\ UNCHANGED <<pc, e1_devices, exit_code>>
    /\ Judge(r, "redundant")

ReceiveRedundant ==
    LET r == Head(queue) IN
    /\ Receive
    /\ IsMeasurement(r) /\ IsRedundantV6(r)
    /\ UNCHANGED <<throttleVars, pc, e1_devices, exit_code>>
    /\ Judge(r, "redundant")

\* A measurement that is_redundant_v6 lets through, which records E1 tags.
ReceiveKept ==
    LET r == Head(queue) IN
    /\ Receive
    /\ IsMeasurement(r) /\ ~IsRedundantV6(r)
    /\ e1_devices' = AfterE1(r)

ReceiveThrottled ==
    LET r == Head(queue) IN
    /\ ReceiveKept
    /\ options.throttle
    /\ \E d \in Delays : T!Suppress(r.mac, d)
    /\ Judge(r, "throttled")
    /\ UNCHANGED <<pc, exit_code>>

ReceiveEmitted ==
    LET r == Head(queue) IN
    /\ ReceiveKept
    /\ IF options.throttle THEN \E d \in Delays : T!Emit(r.mac, d) ELSE UNCHANGED throttleVars
    /\ pc' = "write"
    /\ Judge(r, "emit")
    /\ UNCHANGED exit_code

\* should_emit panics; the hook of main.rs ends the process.
ReceivePanics ==
    /\ ReceiveKept
    /\ options.throttle
    /\ T!CleanupPanics
    /\ exit_code' = "panic"
    /\ UNCHANGED <<pc, judged>>

ReceiveError ==
    /\ Receive
    /\ ~IsMeasurement(Head(queue))
    /\ UNCHANGED <<throttleVars, e1_devices, exit_code>>
    /\ IF options.verbose THEN pc' = "write" /\ Judge(Head(queue), "report")
                  ELSE pc' = pc /\ Judge(Head(queue), "ignore")

\* The Sender is gone: run_with_io returns Ok and main exits with 0.
RecvClosed_Mutant ==
    /\ exit_code = "running" /\ pc = "recv"
    /\ task = "ended"
    /\ exit_code' = "success"
    /\ UNCHANGED <<throttleVars, givenVars, queue, pc, e1_devices, judged>>

RecvClosed ==
    /\ exit_code = "running" /\ pc = "recv"
    /\ queue = <<>> /\ task = "ended"
    /\ exit_code' = "success"
    /\ UNCHANGED <<throttleVars, givenVars, queue, pc, e1_devices, judged>>

WriteReturns ==
    /\ exit_code = "running" /\ pc = "write"
    /\ pc' = "recv"
    /\ UNCHANGED <<throttleVars, givenVars, queue, e1_devices, judged, exit_code>>

\* writeln! fails: run_with_io returns the error and main exits with 1.
WriteFails ==
    /\ exit_code = "running" /\ pc = "write"
    /\ exit_code' = "error"
    /\ UNCHANGED <<throttleVars, givenVars, queue, pc, e1_devices, judged>>

Tick ==
    /\ exit_code = "running"
    /\ T!Tick
    /\ UNCHANGED <<givenVars, queue, pc, e1_devices, judged, exit_code>>

\* The process has ended: nothing more happens.
Ended == exit_code # "running" /\ UNCHANGED vars

Loop ==
    \/ ReceiveRedundant \/ ReceiveThrottled \/ ReceiveEmitted \/ ReceivePanics
    \/ ReceiveError \/ RecvClosed

Next ==
    \/ StartScanOk \/ StartScanFails
    \/ \E f \in Formats, m \in Mac : Decode([fmt |-> f, mac |-> m, stamp |-> clock])
    \/ Decode(DecodeError)
    \/ Send \/ ScannerEnds
    \/ Loop
    \/ WriteReturns \/ WriteFails
    \/ Tick \/ Ended

Spec == Init /\ [][Next]_vars

\* The runtime polls both tasks again and again, start_scan answers, and the
\* reader of stdout keeps reading, so a write ends.  Nothing says that tags
\* advertise, that the scanner ends, or that a write succeeds.
Fairness ==
    /\ WF_vars(StartScanOk \/ StartScanFails)
    /\ WF_vars(Send)
    /\ WF_vars(Loop)
    /\ WF_vars(WriteReturns \/ WriteFails)

FairSpec == Spec /\ Fairness

------------------------------------------------------------------------------
(* Properties. *)

SameTag(i, j) ==
    /\ IsMeasurement(judged[i].res) /\ IsMeasurement(judged[j].res)
    /\ judged[i].res.mac = judged[j].res.mac

\* Once a tag's E1 has been received, even one that was throttled, none of its
\* later V6 frames is written (app.rs:87-93; the filter runs before the
\* throttle, 141-147).
RedundantV6NeverWritten ==
    \A i, j \in DOMAIN judged :
        i < j /\ SameTag(i, j) /\ judged[i].res.fmt = "E1" /\ judged[j].res.fmt = "V6"
            => judged[j].fate # "emit"

\* No measurement is lost without a reason: one that is not written is a V6 of
\* a tag that has sent E1, or comes within an interval of a measurement of the
\* same tag that was written; so no throttle slot is spent on a dropped frame
\* (app.rs:138-153).
DropJustified ==
    \A j \in DOMAIN judged :
        \/ judged[j].fate \in {"emit", "report", "ignore"}
        \/ /\ judged[j].res.fmt = "V6"
           /\ \E i \in 1..(j - 1) : SameTag(i, j) /\ judged[i].res.fmt = "E1"
        \/ /\ options.throttle
           /\ \E i \in 1..(j - 1) :
                 SameTag(i, j) /\ judged[i].fate = "emit" /\ judged[j].at - judged[i].at < interval

\* The lines of one tag are written at least an interval apart, counted from when
\* the loop got to their measurements, although the throttle is asked only about
\* what the filter lets through and forgets in between (app.rs:40, 147-153).
WritesSpacedByInterval ==
    options.throttle =>
        \A i, j \in DOMAIN judged :
            i < j /\ SameTag(i, j) /\ judged[i].fate = "emit" /\ judged[j].fate = "emit"
                => judged[j].at >= judged[i].at + interval

\* A success exit leaves nothing behind: what the scanner sent before it ended
\* has all been received and every started line is complete (app.rs:138, 162).
CleanExitDrained ==
    exit_code = "success" => queue = <<>> /\ hand = <<>> /\ pc = "recv"

\* Every result the scanner has produced is eventually received and dealt with,
\* or the process ends: the full channel and the writes that block both tasks
\* never leave everyone waiting (app.rs:138-160, hci.rs:950-960).
EveryResultJudged ==
    \A k \in 1..MaxResults :
        Produced >= k ~> (Len(judged) >= k /\ pc # "write") \/ exit_code # "running"

\* Doc: "Throttle events per tag to at most one per interval" (app.rs:40): the
\* points written for a tag are an interval apart by their own timestamps.
PointsSpacedByInterval ==
    \A i, j \in DOMAIN judged :
        options.throttle /\ i < j /\ SameTag(i, j) /\ judged[i].fate = "emit" /\ judged[j].fate = "emit"
            => judged[j].res.stamp >= judged[i].res.stamp + interval
==============================================================================
