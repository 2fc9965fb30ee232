------------------------------- MODULE ScanTask -------------------------------
(***************************************************************************)
(* What the run loop relies on, whichever backend scans (scanner/mod.rs):  *)
(* start_scan spawns one task, which finds one result at a time, waits for *)
(* room in the bounded channel, and hands its results over in the order in *)
(* which it found them; when the task ends the receiver still gets what    *)
(* was sent before.                                                        *)
(***************************************************************************)
EXTENDS Naturals, Sequences

CONSTANTS Results,   \* what a task may find
          Capacity   \* MEASUREMENT_CHANNEL_BUFFER_SIZE

VARIABLES task,      \* "none" before start_scan returns, "running", "ended"
          hand,      \* the result the task is sending: <<>> or <<r>>
          queue      \* the channel

scanVars == <<task, hand, queue>>

Init == task = "none" /\ hand = <<>> /\ queue = <<>>

Start ==
    /\ task = "none"
    /\ task' = "running"
    /\ UNCHANGED <<hand, queue>>

Produce(r) ==
    /\ task = "running" /\ hand = <<>>
    /\ hand' = <<r>>
    /\ UNCHANGED <<task, queue>>

\* tx.send(result).await completes once the channel has room.
Send ==
    /\ hand # <<>>
    /\ Len(queue) < Capacity
    /\ queue' = queue \o hand
    /\ hand' = <<>>
    /\ UNCHANGED task

End ==
    /\ task = "running" /\ hand = <<>>
    /\ task' = "ended"
    /\ UNCHANGED <<hand, queue>>

Take ==
    /\ queue # <<>>
    /\ queue' = Tail(queue)
    /\ UNCHANGED <<task, hand>>

Next == Start \/ (\E r \in Results : Produce(r)) \/ Send \/ End \/ Take

Spec == Init /\ [][Next]_scanVars
===============================================================================
