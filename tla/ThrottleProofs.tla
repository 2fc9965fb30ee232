---------------------------- MODULE ThrottleProofs ----------------------------
(***************************************************************************)
(* Theorems about Throttle for every set of tags, interval and bound.  The *)
(* inductive invariant is TypeOK /\ MapRemembersEnough: the decision of    *)
(* should_emit is taken on the cleaned map, and MapRemembersEnough is what *)
(* makes it the same decision as on the history that was never cleaned.    *)
(***************************************************************************)
EXTENDS Throttle, FiniteSetTheorems, TLAPS

-------------------------------------------------------------------------------
(* Facts about the operators. *)

\* Maps of stamps are functions into the clock's values on a set of tags.
LEMMA StampsElim ==
    ASSUME NEW f \in Stamps
    PROVE  /\ f = [x \in DOMAIN f |-> f[x]]
           /\ DOMAIN f \subseteq Mac
           /\ \A x \in DOMAIN f : f[x] \in 0..MaxClock /\ f[x] \in Nat
  BY ThrottleAssumption DEF Stamps

LEMMA StampsIntro ==
    ASSUME NEW D \in SUBSET Mac, NEW f \in [D -> 0..MaxClock]
    PROVE  f \in Stamps
  BY DEF Stamps

\* Inserting an entry gives a map of stamps again (HashMap::insert).
LEMMA InsertType ==
    ASSUME NEW f \in Stamps, NEW m \in Mac, NEW t \in 0..MaxClock
    PROVE  /\ Insert(f, m, t) \in Stamps
           /\ DOMAIN Insert(f, m, t) = DOMAIN f \cup {m}
           /\ \A x \in DOMAIN f \cup {m} :
                 Insert(f, m, t)[x] = IF x = m THEN t ELSE f[x]
  <1>1. Insert(f, m, t) \in [DOMAIN f \cup {m} -> 0..MaxClock]
    BY StampsElim DEF Insert
  <1>2. (DOMAIN f \cup {m}) \in SUBSET Mac
    BY StampsElim
  <1>3. QED
    BY <1>1, <1>2, StampsIntro DEF Insert

\* The threshold is a number, and no smaller than the interval.
LEMMA ThresholdBound ==
    ASSUME TypeOK
    PROVE  Threshold \in Nat /\ Threshold >= interval /\ interval \in Nat
  <1>1. \A a \in Nat, b \in Nat \ {0} : a * b \in Nat /\ a * b >= a
    OBVIOUS
  <1>2. QED
    BY <1>1, ThrottleAssumption DEF Threshold, TypeOK

\* The cleanup only removes entries, and only those older than the threshold.
LEMMA KeptFacts ==
    ASSUME TypeOK
    PROVE  /\ Kept(clock) \in Stamps
           /\ DOMAIN Kept(clock) \subseteq DOMAIN last_seen
           /\ \A m \in DOMAIN Kept(clock) : Kept(clock)[m] = last_seen[m]
           /\ \A m \in DOMAIN last_seen \ DOMAIN Kept(clock) :
                 clock - last_seen[m] > Threshold
  <1>1. /\ DOMAIN last_seen \subseteq Mac
        /\ \A m \in DOMAIN last_seen : last_seen[m] \in 0..MaxClock
    BY StampsElim DEF TypeOK
  <1>2. CASE Kept(clock) = last_seen
    BY <1>1, <1>2 DEF TypeOK
  <1>3. CASE Kept(clock) = Restrict(last_seen, Fresh(clock))
    <2>1. Fresh(clock) \subseteq DOMAIN last_seen
      BY DEF Fresh
    <2>2. Kept(clock) = [m \in Fresh(clock) |-> last_seen[m]]
      BY <1>3 DEF Restrict
    <2>3. Kept(clock) \in [Fresh(clock) -> 0..MaxClock]
      BY <1>1, <2>1, <2>2
    <2>4. \A m \in DOMAIN last_seen \ Fresh(clock) : clock - last_seen[m] > Threshold
      BY <1>1, ThresholdBound DEF Fresh, TypeOK
    <2>5. QED
      BY <1>1, <2>1, <2>2, <2>3, <2>4, StampsIntro
  <1>4. QED
    BY <1>2, <1>3 DEF Kept, cleanup_stale

-------------------------------------------------------------------------------
(* The inductive invariant. *)

IInv == TypeOK /\ MapRemembersEnough

\* The three ways time, counter and history of checks move in a call.
LEMMA CheckType ==
    ASSUME TypeOK, NEW d \in Delays, Check(d)
    PROVE  /\ interval' = interval
           /\ clock' = clock + d /\ clock' \in 0..MaxClock
           /\ check_count' \in Nat
           /\ check_count' = 0 \/ check_count' < CheckInterval
           /\ panicked' \in BOOLEAN
           /\ lastCheck' \in 0..clock'
  BY ThrottleAssumption DEF TypeOK, Check, NextCount, CheckDue

LEMMA InitIInv == Init => IInv
  <1> SUFFICES ASSUME Init PROVE IInv
    OBVIOUS
  <1>1. [m \in {} |-> 0] \in Stamps
    <2>1. [m \in {} |-> 0] \in [{} -> 0..MaxClock]
      OBVIOUS
    <2>2. {} \in SUBSET Mac
      OBVIOUS
    <2>3. QED
      BY <2>1, <2>2, StampsIntro
  <1>2. TypeOK
    <2>1. last_seen \in Stamps /\ lastEmit \in Stamps
      BY <1>1 DEF Init
    <2>2. check_count = 0 /\ clock \in 0..MaxClock /\ lastCheck \in 0..clock
      BY ThrottleAssumption DEF Init
    <2>3. interval \in Intervals /\ answer = <<>> /\ panicked \in BOOLEAN
      BY DEF Init
    <2>4. QED
      BY <2>1, <2>2, <2>3 DEF TypeOK
  <1>3. MapRemembersEnough
    BY DEF Init, MapRemembersEnough
  <1>4. QED
    BY <1>2, <1>3 DEF IInv

LEMMA EmitIInv ==
    ASSUME IInv, NEW m \in Mac, NEW d \in Delays, Emit(m, d)
    PROVE  IInv'
  <1> USE DEF IInv
  <1>1. clock' = clock + d /\ clock' \in 0..MaxClock /\ clock \in Nat /\ d \in Nat
    BY CheckType, ThrottleAssumption DEF Emit, TypeOK
  <1>2. /\ last_seen' \in Stamps
        /\ DOMAIN last_seen' = DOMAIN Kept(clock) \cup {m}
        /\ \A x \in DOMAIN Kept(clock) \cup {m} :
              last_seen'[x] = IF x = m THEN clock' ELSE Kept(clock)[x]
    <2>1. Kept(clock) \in Stamps
      BY KeptFacts
    <2>2. last_seen' = Insert(Kept(clock), m, clock')
      BY <1>1 DEF Emit
    <2>3. \A t \in 0..MaxClock :
             /\ Insert(Kept(clock), m, t) \in Stamps
             /\ DOMAIN Insert(Kept(clock), m, t) = DOMAIN Kept(clock) \cup {m}
             /\ \A x \in DOMAIN Kept(clock) \cup {m} :
                   Insert(Kept(clock), m, t)[x] = IF x = m THEN t ELSE Kept(clock)[x]
      BY <2>1, InsertType
    <2>4. QED
      BY <1>1, <2>2, <2>3
  <1>3. /\ lastEmit' \in Stamps
        /\ DOMAIN lastEmit' = DOMAIN lastEmit \cup {m}
        /\ \A x \in DOMAIN lastEmit \cup {m} :
              lastEmit'[x] = IF x = m THEN clock' ELSE lastEmit[x]
    <2>1. lastEmit \in Stamps
      BY DEF TypeOK
    <2>2. lastEmit' = Insert(lastEmit, m, clock')
      BY <1>1 DEF Emit
    <2>3. \A t \in 0..MaxClock :
             /\ Insert(lastEmit, m, t) \in Stamps
             /\ DOMAIN Insert(lastEmit, m, t) = DOMAIN lastEmit \cup {m}
             /\ \A x \in DOMAIN lastEmit \cup {m} :
                   Insert(lastEmit, m, t)[x] = IF x = m THEN t ELSE lastEmit[x]
      BY <2>1, InsertType
    <2>4. QED
      BY <1>1, <2>2, <2>3
  <1>4. TypeOK'
    BY <1>2, <1>3, CheckType DEF TypeOK, Emit
  <1>5. DOMAIN last_seen' \subseteq DOMAIN lastEmit'
    BY <1>2, <1>3, KeptFacts DEF MapRemembersEnough
  <1>6. ASSUME NEW x \in DOMAIN lastEmit'
        PROVE  IF x \in DOMAIN last_seen'
                 THEN last_seen'[x] = lastEmit'[x] /\ lastEmit'[x] <= clock'
                 ELSE clock' - lastEmit'[x] > Threshold
    <2>1. CASE x = m
      BY <1>1, <1>2, <1>3, <2>1
    <2>2. CASE x # m
      <3>1. x \in DOMAIN lastEmit /\ lastEmit'[x] = lastEmit[x] /\ lastEmit[x] \in Nat
        BY <1>3, <1>6, <2>2, StampsElim DEF TypeOK
      <3>2. x \in DOMAIN last_seen' <=> x \in DOMAIN Kept(clock)
        BY <1>2, <2>2
      <3>3. CASE x \in DOMAIN Kept(clock)
        BY <1>1, <1>2, <2>2, <3>1, <3>3, KeptFacts DEF MapRemembersEnough
      <3>4. CASE x \notin DOMAIN Kept(clock)
        <4>1. clock - lastEmit[x] > Threshold
          BY <3>1, <3>4, KeptFacts DEF MapRemembersEnough
        <4>2. QED
          BY <1>1, <3>1, <3>2, <3>4, <4>1, ThresholdBound
      <3>5. QED
        BY <3>3, <3>4
    <2>3. QED
      BY <2>1, <2>2
  <1>7. Threshold' = Threshold
    BY CheckType DEF Threshold, Emit
  <1>8. QED
    BY <1>4, <1>5, <1>6, <1>7 DEF MapRemembersEnough

LEMMA SuppressIInv ==
    ASSUME IInv, NEW m \in Mac, NEW d \in Delays, Suppress(m, d)
    PROVE  IInv'
  <1> USE DEF IInv
  <1>1. clock' = clock + d /\ clock' \in 0..MaxClock /\ clock \in Nat /\ d \in Nat
    BY CheckType, ThrottleAssumption DEF Suppress, TypeOK
  <1>2. TypeOK'
    BY KeptFacts, CheckType DEF TypeOK, Suppress
  <1>3. last_seen' = Kept(clock) /\ lastEmit' = lastEmit
    BY DEF Suppress
  <1>4. ASSUME NEW x \in DOMAIN lastEmit
        PROVE  IF x \in DOMAIN Kept(clock)
                 THEN Kept(clock)[x] = lastEmit[x] /\ lastEmit[x] <= clock'
                 ELSE clock' - lastEmit[x] > Threshold
    <2>1. lastEmit[x] \in Nat
      BY StampsElim DEF TypeOK
    <2>2. CASE x \in DOMAIN Kept(clock)
      BY <1>1, <2>1, <2>2, KeptFacts DEF MapRemembersEnough
    <2>3. CASE x \notin DOMAIN Kept(clock)
      <3>1. clock - lastEmit[x] > Threshold
        BY <2>3, KeptFacts DEF MapRemembersEnough
      <3>2. QED
        BY <1>1, <2>1, <2>3, <3>1, ThresholdBound
    <2>4. QED
      BY <2>2, <2>3
  <1>5. DOMAIN Kept(clock) \subseteq DOMAIN lastEmit
    BY KeptFacts DEF MapRemembersEnough
  <1>6. Threshold' = Threshold
    BY CheckType DEF Threshold, Suppress
  <1>7. QED
    BY <1>2, <1>3, <1>4, <1>5, <1>6 DEF MapRemembersEnough

\* Time passing and a panicking cleanup leave the map alone.
LEMMA OtherIInv ==
    ASSUME IInv, CleanupPanics \/ Tick \/ UNCHANGED vars
    PROVE  IInv'
  <1> USE DEF IInv
  <1>1. clock \in Nat /\ clock' \in Nat /\ clock' >= clock
    BY DEF TypeOK, CleanupPanics, Tick, vars
  <1>2. last_seen' = last_seen /\ lastEmit' = lastEmit
    BY DEF CleanupPanics, Tick, vars
  <1>3. TypeOK'
    <2>1. CASE CleanupPanics
      BY <2>1 DEF TypeOK, CleanupPanics
    <2>2. CASE Tick
      BY <2>2, ThrottleAssumption DEF TypeOK, Tick
    <2>3. CASE UNCHANGED vars
      BY <2>3 DEF TypeOK, vars
    <2>4. QED
      BY <2>1, <2>2, <2>3
  <1>4. \A x \in DOMAIN lastEmit : lastEmit[x] \in Nat
    BY StampsElim DEF TypeOK
  <1>5. Threshold' = Threshold
    BY DEF Threshold, CleanupPanics, Tick, vars
  <1>6. QED
    BY <1>1, <1>2, <1>3, <1>4, <1>5, ThresholdBound DEF MapRemembersEnough

LEMMA NextIInv == IInv /\ [Next]_vars => IInv'
  BY EmitIInv, SuppressIInv, OtherIInv DEF Next, should_emit

\* The inductive invariant holds in every reachable state.
THEOREM InductiveInvariant == Spec => []IInv
  BY InitIInv, NextIInv, PTL DEF Spec

\* Type correctness of the throttle's state, for every instance.
THEOREM TypeCorrect == Spec => []TypeOK
  <1>1. IInv => TypeOK
    BY DEF IInv
  <1>2. QED
    BY InductiveInvariant, <1>1, PTL

\* A forgotten tag was emitted longer ago than the cleanup threshold: cleaning
\* the map up never loses an entry that could still suppress (throttle.rs:113).
THEOREM CleanupIsSafe == Spec => []MapRemembersEnough
  <1>1. IInv => MapRemembersEnough
    BY DEF IInv
  <1>2. QED
    BY InductiveInvariant, <1>1, PTL

-------------------------------------------------------------------------------
(* What the invariant says about the decision of should_emit. *)

\* The cleaned map decides exactly like the history that is never cleaned.
LEMMA CleanedDecision ==
    ASSUME IInv, NEW m \in Mac, NEW d \in Nat
    PROVE  Blocked(Kept(clock), m, clock + d) <=> Blocked(lastEmit, m, clock + d)
  <1>1. clock \in Nat /\ interval \in Nat
    BY ThresholdBound DEF IInv, TypeOK
  <1>2. \A x \in DOMAIN lastEmit : lastEmit[x] \in Nat
    BY StampsElim DEF IInv, TypeOK
  <1>3. CASE m \in DOMAIN Kept(clock)
    <2>1. m \in DOMAIN lastEmit /\ Kept(clock)[m] = lastEmit[m]
      BY <1>3, KeptFacts DEF IInv, MapRemembersEnough
    <2>2. QED
      BY <1>3, <2>1 DEF Blocked
  <1>4. CASE m \notin DOMAIN Kept(clock)
    <2>1. m \in DOMAIN lastEmit => clock - lastEmit[m] > Threshold
      BY <1>4, KeptFacts DEF IInv, MapRemembersEnough
    <2>2. ~Blocked(lastEmit, m, clock + d)
      BY <1>1, <1>2, <2>1, ThresholdBound DEF IInv, Blocked
    <2>3. QED
      BY <1>4, <2>2 DEF Blocked
  <1>5. QED
    BY <1>3, <1>4

\* The time left to wait can be read off the history as well.
LEMMA RestFromHistory ==
    ASSUME IInv, NEW m \in Mac
    PROVE  Rest(last_seen, m, clock) = Rest(lastEmit, m, clock)
  <1>1. clock \in Nat /\ interval \in Nat
    BY ThresholdBound DEF IInv, TypeOK
  <1>2. CASE m \in DOMAIN last_seen
    BY <1>2 DEF IInv, MapRemembersEnough, Rest, Blocked
  <1>3. CASE m \notin DOMAIN last_seen
    <2>1. m \in DOMAIN lastEmit => lastEmit[m] \in Nat /\ clock - lastEmit[m] > Threshold
      BY <1>3, StampsElim DEF IInv, TypeOK, MapRemembersEnough
    <2>2. ~Blocked(lastEmit, m, clock)
      BY <1>1, <2>1, ThresholdBound DEF IInv, Blocked
    <2>3. QED
      BY <1>3, <2>2 DEF Rest, Blocked
  <1>4. QED
    BY <1>2, <1>3

\* One step never lets two events of a tag through less than interval apart.
LEMMA SpacingStep ==
    ASSUME IInv, [Next]_vars, NEW x \in DOMAIN lastEmit, lastEmit'[x] # lastEmit[x]
    PROVE  lastEmit'[x] >= lastEmit[x] + interval
  <1>1. PICK m \in Mac, d \in Delays : Emit(m, d)
    BY DEF Next, should_emit, Suppress, CleanupPanics, Tick, vars
  <1>2. /\ d \in Nat /\ clock \in Nat /\ interval \in Nat
        /\ x \in Mac /\ lastEmit[x] \in Nat
    BY ThrottleAssumption, ThresholdBound, StampsElim DEF IInv, TypeOK
  <1>3. x = m /\ lastEmit'[x] = clock + d
    BY <1>1 DEF Emit, Insert
  <1>4. ~Blocked(lastEmit, x, clock + d)
    BY <1>1, <1>2, <1>3, CleanedDecision DEF Emit
  <1>5. QED
    BY <1>2, <1>3, <1>4 DEF Blocked

\* At most one event per tag and interval, for every instance.
THEOREM ThrottleSpacing == Spec => AtMostOncePerInterval
  <1>1. IInv /\ [Next]_vars =>
          [\A m \in DOMAIN lastEmit :
              lastEmit'[m] # lastEmit[m] => lastEmit'[m] >= lastEmit[m] + interval]_vars
    BY SpacingStep
  <1>2. QED
    BY InductiveInvariant, <1>1, PTL DEF Spec, AtMostOncePerInterval

\* A call that answers FALSE is within interval of a call that answered TRUE.
THEOREM ThrottleHeldBack == Spec => []HeldBackOnlyWithinInterval
  <1>1. Init => HeldBackOnlyWithinInterval
    BY DEF Init, HeldBackOnlyWithinInterval
  <1>2. ASSUME IInv, HeldBackOnlyWithinInterval, [Next]_vars
        PROVE  HeldBackOnlyWithinInterval'
    <2>1. ASSUME NEW m \in Mac, NEW d \in Delays, Emit(m, d)
          PROVE  HeldBackOnlyWithinInterval'
      BY <2>1 DEF Emit, HeldBackOnlyWithinInterval
    <2>2. ASSUME NEW m \in Mac, NEW d \in Delays, Suppress(m, d)
          PROVE  HeldBackOnlyWithinInterval'
      <3>1. d \in Nat
        BY ThrottleAssumption
      <3>2. Blocked(lastEmit, m, clock + d)
        BY <1>2, <2>2, <3>1, CleanedDecision DEF Suppress
      <3>3. /\ answer' = <<m, FALSE>> /\ clock' = clock + d
            /\ lastEmit' = lastEmit /\ interval' = interval
        BY <2>2 DEF Suppress, Check
      <3>4. QED
        BY <3>2, <3>3 DEF HeldBackOnlyWithinInterval, Blocked
    <2>3. CASE CleanupPanics \/ UNCHANGED vars
      BY <1>2, <2>3 DEF CleanupPanics, vars, HeldBackOnlyWithinInterval
    <2>4. CASE Tick
      BY <2>4 DEF Tick, HeldBackOnlyWithinInterval
    <2>5. QED
      BY <1>2, <2>1, <2>2, <2>3, <2>4 DEF Next, should_emit
  <1>3. QED
    BY InductiveInvariant, <1>1, <1>2, PTL DEF Spec

-------------------------------------------------------------------------------
(* The bound on stale entries. *)

\* Fewer entries of a finite map have a smaller cardinality.
LEMMA FewerTags ==
    ASSUME NEW A \in SUBSET Mac, NEW B \in SUBSET A
    PROVE  /\ Cardinality(A) \in Nat /\ Cardinality(B) \in Nat
           /\ Cardinality(B) <= Cardinality(A)
  <1>1. IsFiniteSet(A)
    BY FS_Subset, ThrottleAssumption
  <1>2. QED
    BY <1>1, FS_Subset, FS_CardinalityType

\* A call keeps the bound: a due check either finds few entries or drops every
\* stale one, and no other step makes an entry stale or inserts a stale one.
LEMMA StaleStep ==
    ASSUME IInv, StaleEntriesBounded, NEW d \in Delays, NEW m \in Mac, should_emit(m, d)
    PROVE  StaleEntriesBounded'
  <1> DEFINE stale == {x \in DOMAIN last_seen : last_seen[x] + Threshold < lastCheck}
             stale2 == {x \in DOMAIN last_seen' : last_seen'[x] + Threshold < lastCheck'}
  <1>1. /\ d \in Nat /\ clock \in Nat /\ lastCheck \in Nat /\ Threshold \in Nat
        /\ SizeThreshold \in Nat /\ lastCheck <= clock
        /\ DOMAIN last_seen \subseteq Mac
        /\ \A x \in DOMAIN last_seen : last_seen[x] \in Nat
    BY ThrottleAssumption, ThresholdBound, StampsElim DEF IInv, TypeOK
  <1>2. lastCheck' = IF CheckDue THEN clock ELSE lastCheck
    BY DEF should_emit, Emit, Suppress, Check
  <1>3. ASSUME NEW x \in stale2
        PROVE  x \in DOMAIN Kept(clock) /\ Kept(clock)[x] + Threshold < lastCheck'
    <2>1. CASE Emit(m, d)
      <3>1. last_seen' = Insert(Kept(clock), m, clock + d)
        BY <2>1 DEF Emit
      <3>2. x # m
        BY <1>1, <1>2, <3>1 DEF Insert
      <3>3. QED
        BY <3>1, <3>2 DEF Insert
    <2>2. CASE Suppress(m, d)
      BY <2>2 DEF Suppress
    <2>3. QED
      BY <2>1, <2>2 DEF should_emit
  <1>4. \A x \in stale2 : x \in DOMAIN last_seen /\ last_seen[x] + Threshold < lastCheck'
    BY <1>3, KeptFacts DEF IInv
  <1>5. SUFFICES ASSUME interval > 0 PROVE Cardinality(stale2) <= SizeThreshold
    <2>1. interval' = interval /\ Threshold' = Threshold
      BY CheckType DEF IInv, Threshold, should_emit, Emit, Suppress
    <2>2. QED
      BY <1>5, <2>1 DEF StaleEntriesBounded
  <1>6. CASE ~CheckDue
    <2>1. stale2 \subseteq stale /\ stale \subseteq Mac
      BY <1>1, <1>2, <1>4, <1>6
    <2>2. Cardinality(stale) <= SizeThreshold
      BY <1>5 DEF StaleEntriesBounded
    <2>3. Cardinality(stale2) <= Cardinality(stale) /\ Cardinality(stale) \in Nat /\ Cardinality(stale2) \in Nat
      BY <2>1, FewerTags
    <2>4. QED
      BY <1>1, <2>2, <2>3
  <1>7. CASE CheckDue /\ ~CleanupDue
    <2>1. stale2 \subseteq DOMAIN last_seen
      BY <1>4
    <2>2. ~(Cardinality(DOMAIN last_seen) > SizeThreshold)
      BY <1>7 DEF CleanupDue
    <2>3. /\ Cardinality(stale2) <= Cardinality(DOMAIN last_seen)
          /\ Cardinality(DOMAIN last_seen) \in Nat /\ Cardinality(stale2) \in Nat
      BY <1>1, <2>1, FewerTags
    <2>4. QED
      BY <1>1, <2>2, <2>3
  <1>8. CASE CleanupDue
    <2>1. Kept(clock) = Restrict(last_seen, Fresh(clock)) /\ lastCheck' = clock
      BY <1>2, <1>5, <1>8, ThrottleAssumption DEF Kept, cleanup_stale, CleanupDue
    <2>2. \A x \in DOMAIN Kept(clock) : clock - Kept(clock)[x] <= Threshold
      BY <2>1 DEF Restrict, Fresh
    <2>3. stale2 = {}
      BY <1>1, <1>3, <1>4, <2>1, <2>2, KeptFacts DEF IInv
    <2>4. QED
      BY <1>1, <2>3, FS_EmptySet
  <1>9. QED
    BY <1>6, <1>7, <1>8

\* The map holds a bounded number of stale entries, for every instance: with
\* StaleEntriesBounded the leak of throttle.rs:16-17 cannot happen.
THEOREM ThrottleDoesNotLeak == Spec => []StaleEntriesBounded
  <1>1. Init => StaleEntriesBounded
    <2>1. ASSUME Init
          PROVE  {m \in DOMAIN last_seen : last_seen[m] + Threshold < lastCheck} = {}
      BY <2>1 DEF Init
    <2>2. QED
      BY <2>1, FS_EmptySet, ThrottleAssumption DEF StaleEntriesBounded
  <1>2. ASSUME StaleEntriesBounded, CleanupPanics \/ Tick \/ UNCHANGED vars
        PROVE  StaleEntriesBounded'
    <2>1. last_seen' = last_seen /\ lastCheck' = lastCheck /\ Threshold' = Threshold /\ interval' = interval
      BY <1>2 DEF CleanupPanics, Tick, vars, Threshold
    <2>2. QED
      BY <1>2, <2>1 DEF StaleEntriesBounded
  <1>3. IInv /\ StaleEntriesBounded /\ [Next]_vars => StaleEntriesBounded'
    BY <1>2, StaleStep DEF Next
  <1>4. QED
    BY InductiveInvariant, <1>1, <1>3, PTL DEF Spec

-------------------------------------------------------------------------------
(* The refinement of RateLimiter. *)

\* What is left of a wait once d more has passed.
LEMMA RestElapses ==
    ASSUME IInv, NEW m \in Mac, NEW d \in Nat
    PROVE  (IF Rest(last_seen, m, clock) > d THEN Rest(last_seen, m, clock) - d ELSE 0)
             = Rest(lastEmit, m, clock + d)
  <1>1. clock \in Nat /\ interval \in Nat
    BY ThresholdBound DEF IInv, TypeOK
  <1>2. Rest(last_seen, m, clock) = Rest(lastEmit, m, clock)
    BY RestFromHistory
  <1>3. m \in DOMAIN lastEmit => lastEmit[m] \in Nat
    BY StampsElim DEF IInv, TypeOK
  <1>4. QED
    BY <1>1, <1>2, <1>3 DEF Rest, Blocked

LEMMA LimiterAfter ==
    ASSUME IInv, NEW d \in Nat
    PROVE  Limiter!After(d) = [m \in Mac |-> Rest(lastEmit, m, clock + d)]
  <1>1. \A m \in Mac : [x \in Mac |-> Remaining(x)][m] = Rest(last_seen, m, clock)
    BY DEF Remaining
  <1>2. QED
    BY <1>1, RestElapses DEF Limiter!After

\* In every state the waits of the map are the waits of the history.
WaitsFromHistory ==
    \A m \in Mac : Rest(last_seen, m, clock) = Rest(lastEmit, m, clock)

LEMMA LimiterWait == IInv => WaitsFromHistory
  BY RestFromHistory DEF WaitsFromHistory

LEMMA LimiterWaitNext == IInv' => WaitsFromHistory'
  BY LimiterWait, PTL

\* Every step of the throttle is a step of the limiter or leaves it unchanged.
LEMMA LimiterStep ==
    ASSUME IInv, IInv', [Next]_vars
    PROVE  [Limiter!Next]_(Limiter!vars)
  <1>1. clock \in Nat /\ interval \in Nat /\ Delays \subseteq Nat
    BY ThrottleAssumption, ThresholdBound DEF IInv, TypeOK
  <1>0. interval' = interval
    BY DEF Next, should_emit, Emit, Suppress, Check, CleanupPanics, Tick, vars
  <1>2. [m \in Mac |-> Remaining(m)]' = [m \in Mac |-> Rest(lastEmit', m, clock')]
    BY <1>0, LimiterWaitNext DEF WaitsFromHistory, Remaining, Rest, Blocked
  <1>3. ASSUME NEW m \in Mac, NEW d \in Delays, Emit(m, d)
        PROVE  Limiter!Pass(m, d)
    <2>1. Limiter!After(d) = [x \in Mac |-> Rest(lastEmit, x, clock + d)]
      BY <1>1, LimiterAfter
    <2>2. ~Blocked(lastEmit, m, clock + d)
      BY <1>1, <1>3, CleanedDecision DEF Emit
    <2>3. clock' = clock + d /\ lastEmit' = Insert(lastEmit, m, clock + d)
      BY <1>3 DEF Emit, Check
    <2>4. Rest(lastEmit', m, clock') = interval
      BY <1>1, <2>3 DEF Rest, Blocked, Insert
    <2>5. \A x \in Mac \ {m} : Rest(lastEmit', x, clock') = Rest(lastEmit, x, clock + d)
      BY <2>3 DEF Rest, Blocked, Insert
    <2>6. [x \in Mac |-> Remaining(x)]' = [Limiter!After(d) EXCEPT ![m] = interval]
      BY <1>2, <2>1, <2>4, <2>5
    <2>7. Limiter!After(d)[m] = 0
      BY <2>1, <2>2 DEF Rest
    <2>8. QED
      BY <1>3, <2>6, <2>7 DEF Limiter!Pass, Emit, Check
  <1>4. ASSUME NEW m \in Mac, NEW d \in Delays, Suppress(m, d)
        PROVE  Limiter!Hold(m, d)
    <2>1. Limiter!After(d) = [x \in Mac |-> Rest(lastEmit, x, clock + d)]
      BY <1>1, LimiterAfter
    <2>2. Blocked(lastEmit, m, clock + d)
      BY <1>1, <1>4, CleanedDecision DEF Suppress
    <2>3. clock' = clock + d /\ lastEmit' = lastEmit
      BY <1>4 DEF Suppress, Check
    <2>4. [x \in Mac |-> Remaining(x)]' = Limiter!After(d)
      BY <1>2, <2>1, <2>3
    <2>5. m \in DOMAIN lastEmit => lastEmit[m] \in Nat
      BY StampsElim DEF IInv, TypeOK
    <2>6. Limiter!After(d)[m] > 0
      BY <1>1, <2>1, <2>2, <2>5 DEF Rest, Blocked
    <2>7. QED
      BY <1>4, <2>4, <2>6 DEF Limiter!Hold, Suppress, Check
  <1>5. ASSUME Tick
        PROVE  Limiter!Elapse(1)
    <2>1. Limiter!After(1) = [x \in Mac |-> Rest(lastEmit, x, clock + 1)]
      BY LimiterAfter
    <2>2. clock' = clock + 1 /\ lastEmit' = lastEmit /\ answer' = <<>> /\ interval' = interval
      BY <1>5 DEF Tick
    <2>3. QED
      BY <1>2, <2>1, <2>2 DEF Limiter!Elapse
  <1>6. ASSUME CleanupPanics \/ UNCHANGED vars
        PROVE  UNCHANGED Limiter!vars
    <2>1. UNCHANGED <<interval, last_seen, clock, answer>>
      BY <1>6 DEF CleanupPanics, vars
    <2>2. QED
      BY <2>1 DEF Limiter!vars, Remaining, Rest, Blocked
  <1>7. QED
    BY <1>3, <1>4, <1>5, <1>6 DEF Next, should_emit, Limiter!Next

\* The throttle implements the rate limiter, for every instance.
THEOREM ThrottleImplementsLimiter == Spec => ImplementsRateLimiter
  <1>1. Init => Limiter!Init
    <2>1. ASSUME Init PROVE \A m \in Mac : Remaining(m) = 0
      BY <2>1 DEF Init, Remaining, Rest, Blocked
    <2>2. QED
      BY <2>1 DEF Init, Limiter!Init
  <1>2. IInv /\ IInv' /\ [Next]_vars => [Limiter!Next]_(Limiter!vars)
    BY LimiterStep
  <1>3. QED
    BY InductiveInvariant, <1>1, <1>2, PTL DEF Spec, ImplementsRateLimiter, Limiter!Spec
===============================================================================
