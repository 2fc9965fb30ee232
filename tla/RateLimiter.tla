----------------------------- MODULE RateLimiter -----------------------------
(***************************************************************************)
(* What the throttle promises, with no map, no cleanup and no clock: every *)
(* tag has a remaining waiting time, an offered event is let through       *)
(* exactly when the tag has nothing left to wait, and letting it through   *)
(* makes the tag wait interval again (throttle.rs:13-14, 67-69).           *)
(***************************************************************************)
EXTENDS Naturals

CONSTANTS Mac,       \* the tags
          Intervals, \* the intervals a limiter may be set up with
          Steps      \* the amounts of time that may pass at once

VARIABLES interval,  \* minimum time between two events of one tag
          wait,      \* wait[m]: time until an event of m is let through again
          answer     \* <<m, let through>> right after an offer, else <<>>

vars == <<interval, wait, answer>>

\* The waiting times once d has passed.
After(d) == [m \in Mac |-> IF wait[m] > d THEN wait[m] - d ELSE 0]

Init ==
    /\ interval \in Intervals
    /\ wait = [m \in Mac |-> 0]
    /\ answer = <<>>

Elapse(d) ==
    /\ wait' = After(d)
    /\ answer' = <<>>
    /\ UNCHANGED interval

Pass(m, d) ==
    /\ After(d)[m] = 0
    /\ wait' = [After(d) EXCEPT ![m] = interval]
    /\ answer' = <<m, TRUE>>
    /\ UNCHANGED interval

Hold(m, d) ==
    /\ After(d)[m] > 0
    /\ wait' = After(d)
    /\ answer' = <<m, FALSE>>
    /\ UNCHANGED interval

Next == \E d \in Steps :
    \/ Elapse(d)
    \/ \E m \in Mac : Pass(m, d) \/ Hold(m, d)

Spec == Init /\ [][Next]_vars
==============================================================================
