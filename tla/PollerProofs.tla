---------------------------- MODULE PollerProofs ----------------------------
(***************************************************************************)
(* Proofs about Poller: its type invariant, the two safety invariants TLC  *)
(* checks on a small instance, how the backoff escalates, and that it      *)
(* implements PollCacheServe.                                              *)
(***************************************************************************)
EXTENDS Poller, FiniteSetTheorems, TLAPS

-----------------------------------------------------------------------------
(* The wait after a cycle *)

\* Powers of two are naturals: 2^n counts the subsets of a set of n elements.
LEMMA PowerOfTwo == ASSUME NEW n \in Nat PROVE 2^n \in Nat
<1>1. IsFiniteSet(1..n) /\ Cardinality(1..n) = n
  BY FS_Interval
<1>2. IsFiniteSet(SUBSET (1..n)) /\ Cardinality(SUBSET (1..n)) = 2^n
  BY <1>1, FS_SUBSET
<1> QED BY <1>2, FS_CardinalityType

\* The exponential grows: a set of n + 1 elements has every subset of its first n.
LEMMA PowersGrow == ASSUME NEW n \in Nat PROVE 2^n <= 2^(n + 1)
<1>1. /\ IsFiniteSet(1..n) /\ Cardinality(1..n) = n
      /\ IsFiniteSet(1..(n + 1)) /\ Cardinality(1..(n + 1)) = n + 1
  <2>1. 1 \in Int /\ n \in Int /\ n + 1 \in Int /\ ~(1 > n + 1) OBVIOUS
  <2> QED BY <2>1, FS_Interval
<1>2. /\ IsFiniteSet(SUBSET (1..n)) /\ Cardinality(SUBSET (1..n)) = 2^n
      /\ IsFiniteSet(SUBSET (1..(n + 1))) /\ Cardinality(SUBSET (1..(n + 1))) = 2^(n + 1)
  BY <1>1, FS_SUBSET
<1>3. SUBSET (1..n) \subseteq SUBSET (1..(n + 1))
  OBVIOUS
<1>4. Cardinality(SUBSET (1..n)) <= Cardinality(SUBSET (1..(n + 1)))
  BY <1>2, <1>3, FS_Subset
<1> QED BY <1>2, <1>4

\* Every wait is a natural number, and a success waits for one interval.
LEMMA NextDelayType ==
  /\ \A n \in Nat : NextDelay(n) \in Nat
  /\ NextDelay(0) = Interval
<1>1. ASSUME NEW n \in Nat PROVE Interval * 2^n \in Nat
  <2> DEFINE p == 2^n
  <2>1. p \in Nat BY PowerOfTwo
  <2> HIDE DEF p
  <2>2. Interval * p \in Nat BY <2>1, PollerAssumption
  <2> QED BY <2>2 DEF p
<1>2. ASSUME NEW n \in Nat PROVE NextDelay(n) \in Nat
  <2> DEFINE q == Interval * 2^n
  <2>1. q \in Nat BY <1>1
  <2>2. NextDelay(n) = IF n = 0 THEN Interval ELSE Min2(q, MaxBackoff) BY DEF NextDelay
  <2> HIDE DEF q
  <2> QED BY <2>1, <2>2, PollerAssumption DEF Min2
<1> QED BY <1>2 DEF NextDelay

\* The saturated count stays in range and grows from zero to at least one.
LEMMA OneMoreType ==
  ASSUME NEW n \in 0..MaxFailures
  PROVE OneMore(n) \in 0..MaxFailures
BY PollerAssumption DEF OneMore, Min2

\* One more failure shortens no wait, and no failure's wait exceeds the cap.
LEMMA NextDelayGrows ==
  ASSUME NEW n \in 0..MaxFailures
  PROVE /\ OneMore(n) > 0
        /\ NextDelay(OneMore(n)) <= MaxBackoff
        /\ n > 0 => NextDelay(OneMore(n)) >= NextDelay(n)
<1> DEFINE p == 2^n
           q == 2^(n + 1)
           m == 2^OneMore(n)
<1>1. n \in Nat /\ n + 1 \in Nat /\ OneMore(n) \in Nat /\ OneMore(n) > 0
      /\ (OneMore(n) = n + 1 \/ OneMore(n) = n)
  BY PollerAssumption DEF OneMore, Min2
<1>2. p \in Nat /\ q \in Nat /\ m \in Nat /\ p <= q
  BY <1>1, PowerOfTwo, PowersGrow
<1>3. p <= m
  BY <1>1, <1>2
<1>4. /\ NextDelay(OneMore(n)) = Min2(Interval * m, MaxBackoff)
      /\ n > 0 => NextDelay(n) = Min2(Interval * p, MaxBackoff)
  BY <1>1 DEF NextDelay
<1> HIDE DEF p, q, m
<1>5. Interval * m \in Nat /\ Interval * p \in Nat /\ Interval * p <= Interval * m
  BY <1>2, <1>3, PollerAssumption
<1>6. Min2(Interval * m, MaxBackoff) <= MaxBackoff
      /\ Min2(Interval * p, MaxBackoff) <= Min2(Interval * m, MaxBackoff)
  BY <1>5, PollerAssumption DEF Min2
<1> QED BY <1>1, <1>4, <1>6

-----------------------------------------------------------------------------
(* Type correctness *)

LEMMA InitTypeOK == Init => TypeOK
<1> SUFFICES ASSUME Init PROVE TypeOK
  OBVIOUS
<1>1. 0 \in 0..MaxFailures /\ 0 \in 0..MaxErrors /\ 0 \in 0..MaxDevices
      /\ 0 \in 0..FetchMax /\ 0 \in 0..AgeCap /\ 0 \in Nat
  BY PollerAssumption
<1>2. cache \in Snapshot \cup {NoEntry} BY DEF Init
<1>3. aborted \in BOOLEAN BY DEF Init
<1> QED BY <1>1, <1>2, <1>3 DEF Init, TypeOK

LEMMA NextTypeOK == TypeOK /\ [Next]_vars => TypeOK'
<1> SUFFICES ASSUME TypeOK, [Next]_vars PROVE TypeOK'
  OBVIOUS
<1> USE PollerAssumption DEF TypeOK, vars, loopVars, fetchVars, pubVars
<1>1. CASE Start
  BY <1>1 DEF Start, Sleep
<1>2. CASE Stop
  BY <1>2 DEF Stop
<1>3. CASE EndLoop
  BY <1>3 DEF EndLoop
<1>4. CASE StartCycle
  BY <1>4 DEF StartCycle
<1>5. ASSUME NEW n \in 0..MaxDevices, NEW errs \in 0..MaxErrors, HealthResolves(n, errs)
      PROVE TypeOK'
  BY <1>5 DEF HealthResolves
<1>6. ASSUME NEW errs \in 0..MaxErrors, HealthRejects(errs)
      PROVE TypeOK'
  BY <1>6 DEF HealthRejects
<1>7. ASSUME NEW group \in RefreshGroups, RefreshRecords(group)
      PROVE TypeOK'
  BY <1>7 DEF RefreshRecords
<1>8. CASE CycleDiscarded
  BY <1>8 DEF CycleDiscarded
<1>9. CASE CycleSucceeds
  <2>1. NextDelay(0) \in Nat BY NextDelayType
  <2> QED BY <1>9, <2>1 DEF CycleSucceeds, Sleep, Snapshot
<1>10. CASE CycleFails
  <2>1. failures' \in 0..MaxFailures BY <1>10, OneMoreType DEF CycleFails
  <2>2. NextDelay(failures') \in Nat BY <2>1, NextDelayType
  <2> QED BY <1>10, <2>1, <2>2 DEF CycleFails, Sleep
<1>11. CASE Tick
  BY <1>11 DEF Tick
<1>12. CASE UNCHANGED vars
  BY <1>12
<1> QED
  BY <1>1, <1>2, <1>3, <1>4, <1>5, <1>6, <1>7, <1>8, <1>9, <1>10, <1>11, <1>12
  DEF Next, HealthEnds, Settle

\* The variables of the loop, the fetch and the cache keep to their domains,
\* whatever the interval, the cap and the length of a fetch.
THEOREM TypeCorrect == Spec => []TypeOK
<1>1. Init => TypeOK BY InitTypeOK
<1>2. TypeOK /\ [Next]_vars => TypeOK' BY NextTypeOK
<1> QED BY <1>1, <1>2, PTL DEF Spec

-----------------------------------------------------------------------------
(* The inductive invariant.  BoundedStaleness says nothing of where the      *)
(* loop is, so it is not inductive: what bounds the age is the timer while   *)
(* the loop sleeps and the fetch's stopwatch while a cycle runs.             *)

\* A fetch is in flight exactly while the loop's body awaits it.
InCycle == phase # "none" <=> loop = "cycle"

\* Only stop() ends the loop.
EndedByStop == loop = "ended" => aborted

\* `up` is 1 only between a successful cycle and the next failed one.
UpAfterSuccess ==
  up = 1 => /\ cache # NoEntry
            /\ loop \notin {"idle", "jitter"}

AgeInWait == up = 1 /\ ~aborted /\ loop = "wait" => age + timer <= Interval
AgeInCycle == up = 1 /\ ~aborted /\ loop = "cycle" => age <= Interval + elapsed

\* The tracker never misses a parse error of the health half.
ErrorsTracked == loop = "cycle" => tracker >= healthErrs

IInv ==
  /\ TypeOK
  /\ InCycle
  /\ EndedByStop
  /\ UpAfterSuccess
  /\ AgeInWait
  /\ AgeInCycle
  /\ ErrorsTracked
  /\ NoSilentEmpty

LEMMA InitIInv == Init => IInv
<1> SUFFICES ASSUME Init PROVE IInv
  OBVIOUS
<1>1. TypeOK BY InitTypeOK
<1>2. InCycle /\ EndedByStop /\ UpAfterSuccess /\ AgeInWait /\ AgeInCycle /\ ErrorsTracked
  BY DEF Init, InCycle, EndedByStop, UpAfterSuccess, AgeInWait, AgeInCycle, ErrorsTracked
<1>3. NoSilentEmpty BY DEF Init, NoSilentEmpty
<1> QED BY <1>1, <1>2, <1>3 DEF IInv

\* The actions that leave the cache alone cannot publish anything.
LEMMA SameCache ==
  NoSilentEmpty /\ UNCHANGED cache => NoSilentEmpty'
BY DEF NoSilentEmpty

LEMMA NextIInv == IInv /\ [Next]_vars => IInv'
<1> SUFFICES ASSUME IInv, [Next]_vars PROVE IInv'
  OBVIOUS
<1> DEFINE Rest == InCycle /\ EndedByStop /\ UpAfterSuccess
                   /\ AgeInWait /\ AgeInCycle /\ ErrorsTracked
<1>0. TypeOK' BY NextTypeOK DEF IInv
<1> USE PollerAssumption
    DEF IInv, TypeOK, InCycle, EndedByStop, UpAfterSuccess, AgeInWait, AgeInCycle, ErrorsTracked,
        vars, loopVars, fetchVars, pubVars
<1>1. CASE Start
  <2>1. Rest' BY <1>1 DEF Start, Sleep
  <2> QED BY <1>0, <1>1, <2>1, SameCache DEF Start
<1>2. CASE Stop
  <2>1. Rest' BY <1>2 DEF Stop
  <2> QED BY <1>0, <1>2, <2>1, SameCache DEF Stop
<1>3. CASE EndLoop
  <2>1. Rest' BY <1>3 DEF EndLoop, Woken, Sleeping, KeepsGoing
  <2> QED BY <1>0, <1>3, <2>1, SameCache DEF EndLoop
<1>4. CASE StartCycle
  <2>1. Rest' BY <1>4 DEF StartCycle, Woken, Sleeping, KeepsGoing
  <2> QED BY <1>0, <1>4, <2>1, SameCache DEF StartCycle
<1>5. ASSUME NEW n \in 0..MaxDevices, NEW errs \in 0..MaxErrors, HealthResolves(n, errs)
      PROVE IInv'
  <2>1. Rest' BY <1>5 DEF HealthResolves
  <2> QED BY <1>0, <1>5, <2>1, SameCache DEF HealthResolves
<1>6. ASSUME NEW errs \in 0..MaxErrors, HealthRejects(errs)
      PROVE IInv'
  <2>1. Rest' BY <1>6 DEF HealthRejects
  <2> QED BY <1>0, <1>6, <2>1, SameCache DEF HealthRejects
<1>7. ASSUME NEW group \in RefreshGroups, RefreshRecords(group)
      PROVE IInv'
  <2>1. Rest' BY <1>7 DEF RefreshRecords
  <2> QED BY <1>0, <1>7, <2>1, SameCache DEF RefreshRecords
<1>8. CASE CycleDiscarded
  <2>1. Rest' BY <1>8 DEF CycleDiscarded, StaleResult
  <2> QED BY <1>0, <1>8, <2>1, SameCache DEF CycleDiscarded
<1>9. CASE CycleSucceeds
  <2>1. NextDelay(0) = Interval BY NextDelayType
  <2>2. cache' # NoEntry BY <1>9 DEF CycleSucceeds, Snapshot
  <2>3. Rest' BY <1>9, <2>1, <2>2 DEF CycleSucceeds, Sleep, StaleResult
  <2>4. found = 0 => healthErrs = 0
    BY <1>9 DEF CycleSucceeds, EmptyAfterErrors
  <2>5. NoSilentEmpty'
    BY <1>9, <2>4 DEF CycleSucceeds, NoSilentEmpty
  <2> QED BY <1>0, <2>3, <2>5
<1>10. CASE CycleFails
  <2>1. Rest' BY <1>10 DEF CycleFails
  <2> QED BY <1>0, <1>10, <2>1, SameCache DEF CycleFails
<1>11. CASE Tick
  <2>1. Rest' BY <1>11 DEF Tick, Woken, Sleeping
  <2> QED BY <1>0, <1>11, <2>1, SameCache DEF Tick
<1>12. CASE UNCHANGED vars
  <2>1. Rest' BY <1>12
  <2> QED BY <1>0, <1>12, <2>1, SameCache
<1> QED
  BY <1>1, <1>2, <1>3, <1>4, <1>5, <1>6, <1>7, <1>8, <1>9, <1>10, <1>11, <1>12
  DEF Next, HealthEnds, Settle

LEMMA Inductive == Spec => []IInv
<1>1. Init => IInv BY InitIInv
<1>2. IInv /\ [Next]_vars => IInv' BY NextIInv
<1> QED BY <1>1, <1>2, PTL DEF Spec

-----------------------------------------------------------------------------
(* What the invariant says about the cache *)

\* While `up` is 1 and the process is not stopping, the entry a scrape renders
\* is never older than one interval plus the longest fetch.
THEOREM StalenessIsBounded == Spec => []BoundedStaleness
<1>1. IInv => BoundedStaleness
  BY PollerAssumption
  DEF IInv, TypeOK, BoundedStaleness, EndedByStop, UpAfterSuccess, AgeInWait, AgeInCycle
<1> QED BY <1>1, Inductive, PTL

\* No cycle whose health half met parse errors publishes an empty snapshot.
THEOREM EmptyIsLegitimate == Spec => []NoSilentEmpty
<1>1. IInv => NoSilentEmpty BY DEF IInv
<1> QED BY <1>1, Inductive, PTL

-----------------------------------------------------------------------------
(* The backoff.  That a failure never shortens the wait compares it with the *)
(* wait before, so an invariant ties the last wait to the count of failures. *)

\* No cycle has failed before start(), so the jitter it sleeps for is never
\* taken for a backoff, and every other wait is that of the current count.
DelayFollowsFailures ==
  /\ loop = "idle" => failures = 0
  /\ failures > 0 => delay = NextDelay(failures)

LEMMA NextDelayFollows ==
  DelayFollowsFailures /\ TypeOK /\ [Next]_vars => DelayFollowsFailures'
<1> SUFFICES ASSUME DelayFollowsFailures, TypeOK, [Next]_vars
             PROVE DelayFollowsFailures'
  OBVIOUS
<1> USE DEF DelayFollowsFailures, vars, loopVars, fetchVars, pubVars
<1>1. CASE Start
  BY <1>1 DEF Start, TypeOK
<1>2. CASE CycleSucceeds
  BY <1>2 DEF CycleSucceeds
<1>3. CASE CycleFails
  BY <1>3 DEF CycleFails, Sleep
<1>4. CASE Stop \/ EndLoop \/ StartCycle \/ CycleDiscarded \/ Tick \/ UNCHANGED vars
  BY <1>4 DEF Stop, EndLoop, StartCycle, CycleDiscarded, Tick
<1>5. CASE HealthEnds
  BY <1>5 DEF HealthEnds, HealthResolves, HealthRejects
<1>6. ASSUME NEW group \in RefreshGroups, RefreshRecords(group)
      PROVE DelayFollowsFailures'
  BY <1>6 DEF RefreshRecords
<1> QED BY <1>1, <1>2, <1>3, <1>4, <1>5, <1>6 DEF Next, Settle

LEMMA DelayAlwaysFollows == Spec => []DelayFollowsFailures
<1>1. Init => DelayFollowsFailures BY DEF Init, DelayFollowsFailures
<1>2. DelayFollowsFailures /\ TypeOK /\ [Next]_vars => DelayFollowsFailures'
  BY NextDelayFollows
<1> QED BY <1>1, <1>2, TypeCorrect, PTL DEF Spec

LEMMA StepEscalates ==
  ASSUME IInv, DelayFollowsFailures, [Next]_vars, phase = "refresh", loop' = "wait"
  PROVE IF up' = 1 THEN delay' = Interval
        ELSE delay' <= MaxBackoff /\ (failures > 0 => delay' >= delay)
<1> USE DEF vars, loopVars, fetchVars, pubVars
<1>0. loop = "cycle"
  BY DEF IInv, InCycle
<1>1. CASE CycleSucceeds
  <2>1. NextDelay(0) = Interval BY NextDelayType
  <2> QED BY <1>1, <2>1 DEF CycleSucceeds, Sleep
<1>2. CASE CycleFails
  <2>1. failures \in 0..MaxFailures BY DEF IInv, TypeOK
  <2>2. up' = 0 /\ delay' = NextDelay(OneMore(failures))
    BY <1>2 DEF CycleFails, Sleep
  <2>3. failures > 0 => delay = NextDelay(failures)
    BY DEF DelayFollowsFailures
  <2> QED BY <2>1, <2>2, <2>3, NextDelayGrows
<1>3. CASE Start \/ Stop \/ EndLoop \/ StartCycle \/ CycleDiscarded \/ Tick
           \/ UNCHANGED vars
  BY <1>0, <1>3 DEF Start, Stop, EndLoop, StartCycle, CycleDiscarded, Tick
<1>4. CASE HealthEnds
  BY <1>0, <1>4 DEF HealthEnds, HealthResolves, HealthRejects
<1>5. ASSUME NEW group \in RefreshGroups, RefreshRecords(group) PROVE FALSE
  BY <1>0, <1>5 DEF RefreshRecords
<1> QED BY <1>1, <1>2, <1>3, <1>4, <1>5 DEF Next, Settle

\* A failed cycle never shortens the loop's wait nor makes it exceed the cap of
\* ten minutes, and a successful one returns to the interval, whatever the
\* interval, the cap and the history of failures.
THEOREM BackoffIsMonotone == Spec => BackoffEscalates
<1>1. IInv /\ DelayFollowsFailures /\ [Next]_vars
      => [phase = "refresh" /\ loop' = "wait" =>
            IF up' = 1 THEN delay' = Interval
            ELSE delay' <= MaxBackoff /\ (failures > 0 => delay' >= delay)]_vars
  BY StepEscalates
<1> QED BY <1>1, Inductive, DelayAlwaysFollows, PTL DEF Spec, BackoffEscalates

-----------------------------------------------------------------------------
(* The loop, the tracker and the cache implement PollCacheServe *)

LEMMA InitImplements == Init => Promise!Init
BY DEF Init, Promise!Init

LEMMA NextImplements == IInv /\ [Next]_vars => [Promise!Next]_<<cache, up, aborted>>
<1> SUFFICES ASSUME IInv, [Next]_vars
             PROVE Promise!Next \/ UNCHANGED <<cache, up, aborted>>
  OBVIOUS
<1> USE DEF vars, loopVars, fetchVars, pubVars
<1>1. CASE Stop
  BY <1>1 DEF Stop, Promise!Next, Promise!Halt
<1>2. CASE CycleSucceeds
  <2> DEFINE s == [devices |-> found, errors |-> healthErrs]
  <2>1. s \in Promise!Snapshot
    BY DEF IInv, TypeOK, Promise!Snapshot
  <2>2. found = 0 => healthErrs = 0
    BY <1>2, PollerAssumption
    DEF IInv, TypeOK, CycleSucceeds, EmptyAfterErrors, InCycle, ErrorsTracked
  <2>3. Promise!Publish(s)
    BY <1>2, <2>2 DEF CycleSucceeds, StaleResult, Promise!Publish, Promise!Legitimate
  <2> QED BY <2>1, <2>3 DEF Promise!Next
<1>3. CASE CycleFails
  BY <1>3 DEF CycleFails, StaleResult, Promise!Next, Promise!Degrade
<1>4. CASE Start \/ EndLoop \/ StartCycle \/ CycleDiscarded \/ Tick \/ UNCHANGED vars
  BY <1>4 DEF Start, EndLoop, StartCycle, CycleDiscarded, Tick
<1>5. CASE HealthEnds
  BY <1>5 DEF HealthEnds, HealthResolves, HealthRejects
<1>6. ASSUME NEW group \in RefreshGroups, RefreshRecords(group)
      PROVE UNCHANGED <<cache, up, aborted>>
  BY <1>6 DEF RefreshRecords
<1> QED BY <1>1, <1>2, <1>3, <1>4, <1>5, <1>6 DEF Next, Settle

\* What the scrape path reads changes only by legitimate, wholesale
\* publications and by degrading, and no longer once stop() was called.
THEOREM PollerImplementsPromise == Spec => Implements
<1>1. Init => Promise!Init BY InitImplements
<1>2. IInv /\ [Next]_vars => [Promise!Next]_<<cache, up, aborted>> BY NextImplements
<1> QED BY <1>1, <1>2, Inductive, PTL DEF Spec, Implements, Promise!Spec, Promise!svars
=============================================================================
