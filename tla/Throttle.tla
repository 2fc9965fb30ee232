------------------------------- MODULE Throttle -------------------------------
(***************************************************************************)
(* The per-tag throttle of src/throttle.rs: a map from tags to the time of *)
(* their last emitted event, and a counter that triggers a cleanup of old  *)
(* entries.  Time is discrete; one call of should_emit reads the clock     *)
(* twice (once in cleanup_stale, once for the decision) and time may pass  *)
(* between the two reads.                                                  *)
(*                                                                         *)
(* lastEmit and lastCheck are history variables: what the map would be if  *)
(* nothing were ever cleaned up, and when the periodic check last ran.     *)
(* The operators named ..._Mutant are never used here; they are the wrong  *)
(* versions the properties are shown to reject.                            *)
(***************************************************************************)
EXTENDS Naturals, FiniteSets, Functions

CONSTANTS
    Mac,            \* the tags
    Intervals,      \* the intervals --throttle may be given
    Multiplier,     \* CLEANUP_THRESHOLD_MULTIPLIER
    CheckInterval,  \* CLEANUP_CHECK_INTERVAL
    SizeThreshold,  \* CLEANUP_SIZE_THRESHOLD
    DurationMax,    \* the largest Duration; multiplying beyond it panics
    MaxClock,       \* bound on the clock
    Delays          \* time that may pass between the two clock reads

ASSUME ThrottleAssumption ==
    /\ IsFiniteSet(Mac)
    /\ Intervals \subseteq Nat /\ Multiplier \in Nat \ {0}
    /\ CheckInterval \in Nat /\ SizeThreshold \in Nat
    /\ DurationMax \in Nat /\ MaxClock \in Nat
    /\ Delays \subseteq Nat

VARIABLES
    interval,       \* set up once by Throttle::new
    last_seen,      \* HashMap<MacAddress, Instant>, a partial function
    check_count,    \* calls since the last periodic check
    clock,          \* Instant::now()
    answer,         \* <<mac, emit>> right after a call, else <<>>
    panicked,       \* the call panicked (the process then exits with 2)
    lastEmit,       \* history: last TRUE answer of every tag
    lastCheck       \* history: when the periodic check last ran

vars == <<interval, last_seen, check_count, clock, answer, panicked, lastEmit, lastCheck>>

\* The partial functions from tags to clock values.
Stamps == UNION {[D -> 0..MaxClock] : D \in SUBSET Mac}

TypeOK ==
    /\ interval \in Intervals
    /\ last_seen \in Stamps
    /\ check_count \in Nat /\ (check_count = 0 \/ check_count < CheckInterval)
    /\ clock \in 0..MaxClock
    /\ answer \in {<<>>} \cup (Mac \X BOOLEAN)
    /\ panicked \in BOOLEAN
    /\ lastEmit \in Stamps
    /\ lastCheck \in 0..clock

Init ==
    /\ interval \in Intervals
    /\ last_seen = [m \in {} |-> 0]
    /\ check_count = 0
    /\ clock = 0
    /\ answer = <<>>
    /\ panicked = FALSE
    /\ lastEmit = [m \in {} |-> 0]
    /\ lastCheck = 0

-------------------------------------------------------------------------------
(* The pieces of should_emit and cleanup_stale. *)

Threshold == interval * Multiplier

ThresholdOverflows == interval # 0 /\ Threshold > DurationMax

CheckDue == check_count + 1 >= CheckInterval

NextCount_Mutant == check_count + 1
NextCount == IF CheckDue THEN 0 ELSE check_count + 1

CleanupDue_Mutant == CheckDue /\ Cardinality(DOMAIN last_seen) > SizeThreshold + 1
CleanupDue == CheckDue /\ Cardinality(DOMAIN last_seen) > SizeThreshold

Fresh_Mutant(t) == {m \in DOMAIN last_seen : t - last_seen[m] >= Threshold}
Fresh(t) == {m \in DOMAIN last_seen : t - last_seen[m] <= Threshold}

cleanup_stale(t) == IF interval = 0 THEN last_seen ELSE Restrict(last_seen, Fresh(t))

\* The map the decision is made on: cleaned up first when a cleanup is due.
Kept(t) == IF CleanupDue THEN cleanup_stale(t) ELSE last_seen

Blocked_Mutant(seen, m, now) == m \in DOMAIN seen /\ now - seen[m] <= interval
Blocked(seen, m, now) == m \in DOMAIN seen /\ now - seen[m] < interval

Insert(f, m, t) == [x \in DOMAIN f \cup {m} |-> IF x = m THEN t ELSE f[x]]

-------------------------------------------------------------------------------
(* One call of should_emit, in its three outcomes. *)

\* The counter, the periodic check and the second clock read.
Check(d) ==
    /\ ~panicked
    /\ ~(CleanupDue /\ ThresholdOverflows)
    /\ clock + d <= MaxClock
    /\ clock' = clock + d
    /\ check_count' = NextCount
    /\ lastCheck' = IF CheckDue THEN clock ELSE lastCheck
    /\ UNCHANGED <<interval, panicked>>

Emit(m, d) ==
    /\ ~Blocked(Kept(clock), m, clock + d)
    /\ Check(d)
    /\ last_seen' = Insert(Kept(clock), m, clock + d)
    /\ lastEmit' = Insert(lastEmit, m, clock + d)
    /\ answer' = <<m, TRUE>>

Suppress_Mutant(m, d) ==
    /\ Blocked(Kept(clock), m, clock + d)
    /\ Check(d)
    /\ last_seen' = Insert(Kept(clock), m, clock + d)
    /\ answer' = <<m, FALSE>>
    /\ UNCHANGED lastEmit

Suppress(m, d) ==
    /\ Blocked(Kept(clock), m, clock + d)
    /\ Check(d)
    /\ last_seen' = Kept(clock)
    /\ answer' = <<m, FALSE>>
    /\ UNCHANGED lastEmit

should_emit(m, d) == Emit(m, d) \/ Suppress(m, d)

\* Duration * u32 panics inside cleanup_stale; the counter is already reset.
CleanupPanics ==
    /\ ~panicked
    /\ CleanupDue /\ ThresholdOverflows
    /\ panicked' = TRUE
    /\ check_count' = 0
    /\ UNCHANGED <<interval, last_seen, clock, answer, lastEmit, lastCheck>>

Tick ==
    /\ ~panicked
    /\ clock < MaxClock
    /\ clock' = clock + 1
    /\ answer' = <<>>
    /\ UNCHANGED <<interval, last_seen, check_count, panicked, lastEmit, lastCheck>>

Next ==
    \/ \E m \in Mac, d \in Delays : should_emit(m, d)
    \/ CleanupPanics
    \/ Tick

Spec == Init /\ [][Next]_vars

-------------------------------------------------------------------------------
(* Properties. *)

\* Two events of one tag are let through at least interval apart, whatever
\* cleanups ran in between (throttle.rs:13-14; should_emit, 95-110).
AtMostOncePerInterval ==
    [][\A m \in DOMAIN lastEmit :
          lastEmit'[m] # lastEmit[m] => lastEmit'[m] >= lastEmit[m] + interval]_vars

\* An event is held back only within interval of an event of the same tag that
\* really was let through: a held back event never prolongs the wait, and the
\* first event always passes (throttle.rs:14, 67-69).
HeldBackOnlyWithinInterval ==
    \A m \in Mac : answer = <<m, FALSE>> =>
        m \in DOMAIN lastEmit /\ clock - lastEmit[m] < interval

\* What the map has forgotten is too old to matter: entries agree with the last
\* emission of their tag, and a tag that was emitted and has no entry was
\* emitted more than the cleanup threshold ago (cleanup_stale, 113-124).
MapRemembersEnough ==
    /\ DOMAIN last_seen \subseteq DOMAIN lastEmit
    /\ \A m \in DOMAIN lastEmit :
          IF m \in DOMAIN last_seen THEN last_seen[m] = lastEmit[m] /\ lastEmit[m] <= clock
                                    ELSE clock - lastEmit[m] > Threshold

\* The map does not leak: at most SizeThreshold of its entries were already
\* stale when the periodic check last ran (throttle.rs:16-17, 71).
StaleEntriesBounded ==
    interval > 0 =>
        Cardinality({m \in DOMAIN last_seen : last_seen[m] + Threshold < lastCheck})
            <= SizeThreshold

-------------------------------------------------------------------------------
(* The throttle implements the rate limiter: an entry younger than interval  *)
(* is the time still to wait, any other entry and a missing one are no wait. *)

Rest(seen, m, now) == IF Blocked(seen, m, now) THEN interval - (now - seen[m]) ELSE 0
Remaining(m) == Rest(last_seen, m, clock)

Limiter == INSTANCE RateLimiter WITH
    wait <- [m \in Mac |-> Remaining(m)],
    Steps <- Delays \cup {1}

\* Every call and every passage of time is one step of the abstract limiter:
\* the cleanup and the second clock read are invisible (should_emit, 77-111).
ImplementsRateLimiter == Limiter!Spec
===============================================================================
