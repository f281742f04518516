------------------------------- MODULE Poller -------------------------------
(***************************************************************************)
(* The poll loop (src/src/poller/poller.ts), the cache it fills            *)
(* (src/src/poller/cache.ts) and the parse-error wiring between the        *)
(* backend and the loop (the onParseError hook of src/src/index.ts).       *)
(*                                                                         *)
(* Time is a tick.  The loop's pending clock.sleep is a countdown, the     *)
(* in-flight fetchSnapshot() a stopwatch and the cache entry an age, so    *)
(* that no absolute clock is needed and the model has no time horizon.     *)
(***************************************************************************)
EXTENDS Integers

CONSTANTS
  Interval,      \* POLL_INTERVAL_SECONDS
  MaxBackoff,    \* DEFAULT_MAX_BACKOFF_MS, 10 minutes
  FetchMax,      \* longest fetchSnapshot(): every request has a timeout
  MaxFailures,   \* where the count of consecutive failures saturates
  MaxDevices,    \* bound: devices in a snapshot
  MaxErrors,     \* bound: parse errors the tracker holds
  AgeCap,        \* bound: where the age of the cache entry saturates
  NoEntry        \* MetricsCache.get() before the first successful poll

\* The failure count saturates where the delay has reached its cap, so the
\* saturation changes no delay; the age saturates above every bound on it.
ASSUME PollerAssumption ==
  /\ Interval \in Nat \ {0}
  /\ MaxBackoff \in Nat \ {0}
  /\ FetchMax \in Nat
  /\ MaxFailures \in Nat \ {0}
  /\ Interval * 2^MaxFailures >= MaxBackoff
  /\ MaxDevices \in Nat
  /\ MaxErrors \in Nat
  /\ AgeCap \in Nat
  /\ AgeCap > Interval + FetchMax
  /\ NoEntry \notin [devices : 0..MaxDevices, errors : 0..MaxErrors]

VARIABLES
  loop,        \* where loop() is
  aborted,     \* controller.signal.aborted
  delay,       \* argument of the last abortableSleep()
  timer,       \* what is left of the pending clock.sleep()
  failures,    \* consecutiveFailures
  tracker,     \* ParseErrorTracker's count
  phase,       \* how far the in-flight fetchSnapshot() has come
  outcome,     \* how the health half of the last fetch ended
  found,       \* devices it produced
  healthErrs,  \* parse errors it recorded
  elapsed,     \* age of the in-flight fetch
  cache,       \* NoEntry or the last published snapshot
  age,         \* now() - fetchedAt of the entry
  up           \* ftd_exporter_up

loopVars  == <<loop, delay, timer, failures>>
fetchVars == <<phase, outcome, found, healthErrs, elapsed>>
pubVars   == <<cache, age, up>>
vars == <<loopVars, aborted, tracker, fetchVars, pubVars>>

Snapshot == [devices : 0..MaxDevices, errors : 0..MaxErrors]
RefreshGroups == {"inventory", "license", "certificate"}

TypeOK ==
  /\ loop \in {"idle", "jitter", "cycle", "wait", "ended"}
  /\ aborted \in BOOLEAN
  /\ delay \in Nat
  /\ timer \in Nat
  /\ failures \in 0..MaxFailures
  /\ tracker \in 0..MaxErrors
  /\ phase \in {"none", "health", "refresh"}
  /\ outcome \in {"pending", "resolved", "rejected"}
  /\ found \in 0..MaxDevices
  /\ healthErrs \in 0..MaxErrors
  /\ elapsed \in 0..FetchMax
  /\ cache \in Snapshot \cup {NoEntry}
  /\ age \in 0..AgeCap
  /\ up \in {0, 1}

Init ==
  /\ loop = "idle" /\ aborted = FALSE
  /\ delay = 0 /\ timer = 0
  /\ failures = 0 /\ tracker = 0
  /\ phase = "none" /\ outcome = "pending"
  /\ found = 0 /\ healthErrs = 0 /\ elapsed = 0
  /\ cache = NoEntry /\ age = 0 /\ up = 0

-----------------------------------------------------------------------------
(* The loop *)

Min2(a, b) == IF a < b THEN a ELSE b

\* Wrong waits: the cap forgotten; the exponent one too high.
UncappedDelay(n) == Interval * 2^n
DoubledDelay(n) == Min2(Interval * 2^(n + 1), MaxBackoff)

\* The wait after a cycle that leaves n consecutive failures.
NextDelay(n) == IF n = 0 THEN Interval ELSE Min2(Interval * 2^n, MaxBackoff)

\* The counter is unbounded in the code; the model saturates it.
OneMore(n) == Min2(n + 1, MaxFailures)

\* abortableSleep(): a signal that has already fired arms no timer.
Sleep(d) ==
  /\ delay' = d
  /\ timer' = IF aborted THEN timer ELSE d

\* start(), with the startup jitter of 0-10% of the interval.  A second call
\* changes nothing.
Start ==
  /\ loop = "idle"
  /\ \E jitter \in 0..(Interval \div 10) : Sleep(jitter)
  /\ loop' = "jitter"
  /\ UNCHANGED <<failures, aborted, tracker, fetchVars, pubVars>>

\* stop(): the pending timer is not cancelled, it fires into nothing later.
Stop ==
  /\ aborted' = TRUE
  /\ UNCHANGED <<loopVars, tracker, fetchVars, pubVars>>

Sleeping == loop \in {"jitter", "wait"}

\* A wrong sleep: the listener removes the timer and resolves nothing.
LostSleep == Sleeping /\ timer = 0 /\ ~aborted
Woken == Sleeping /\ (timer = 0 \/ aborted)

\* The loop's condition.
KeepsGoing == ~aborted

\* The sleep is over: leave the loop if stopped, run a cycle otherwise.
EndLoop ==
  /\ Woken /\ ~KeepsGoing
  /\ loop' = "ended"
  /\ UNCHANGED <<delay, timer, failures, aborted, tracker, fetchVars, pubVars>>

StartCycle ==
  /\ Woken /\ KeepsGoing
  /\ loop' = "cycle"
  /\ phase' = "health" /\ outcome' = "pending"
  /\ found' = 0 /\ healthErrs' = 0 /\ elapsed' = 0
  /\ UNCHANGED <<delay, timer, failures, aborted, tracker, pubVars>>

-----------------------------------------------------------------------------
(* The in-flight fetchSnapshot(): the health requests, then the refreshes  *)
(* of inventory, license and certificates that both adapters run in a      *)
(* `finally` before the promise settles.                                   *)

HealthResolves(n, errs) ==
  /\ phase = "health"
  /\ tracker + errs <= MaxErrors
  /\ phase' = "refresh" /\ outcome' = "resolved"
  /\ found' = n /\ healthErrs' = errs
  /\ tracker' = tracker + errs
  /\ UNCHANGED <<loopVars, aborted, elapsed, pubVars>>

HealthRejects(errs) ==
  /\ phase = "health"
  /\ tracker + errs <= MaxErrors
  /\ phase' = "refresh" /\ outcome' = "rejected"
  /\ healthErrs' = errs
  /\ tracker' = tracker + errs
  /\ UNCHANGED <<loopVars, aborted, found, elapsed, pubVars>>

\* index.ts's onParseError hook: every group but inventory reaches the tracker.
Tracked(group) == group # "inventory"

RefreshRecords(group) ==
  /\ phase = "refresh"
  /\ tracker < MaxErrors
  /\ tracker' = IF Tracked(group) THEN tracker + 1 ELSE tracker
  /\ UNCHANGED <<loopVars, aborted, fetchVars, pubVars>>

-----------------------------------------------------------------------------
(* The rest of runCycle() and the tail of the loop's body, which run in    *)
(* one go once fetchSnapshot() has settled.                                *)

\* A wrong test: the tracker is not consulted.
NeverEmptyAfterErrors == FALSE

\* A resolved fetch with no device and parse errors is thrown as a failure.
EmptyAfterErrors == found = 0 /\ tracker > 0

\* What runCycle() asks after its await, and a wrong answer.
NeverStale == FALSE
StaleResult == aborted

CycleDiscarded ==
  /\ phase = "refresh" /\ StaleResult
  /\ phase' = "none" /\ loop' = "ended"
  /\ UNCHANGED <<delay, timer, failures, aborted, tracker,
                 outcome, found, healthErrs, elapsed, pubVars>>

CycleSucceeds ==
  /\ phase = "refresh" /\ ~StaleResult
  /\ outcome = "resolved" /\ ~EmptyAfterErrors
  /\ phase' = "none" /\ loop' = "wait"
  /\ tracker' = 0
  /\ cache' = [devices |-> found, errors |-> healthErrs] /\ age' = 0
  /\ up' = 1
  /\ failures' = 0
  /\ Sleep(NextDelay(0))
  /\ UNCHANGED <<aborted, outcome, found, healthErrs, elapsed>>

\* Only a resolved fetch reaches the tracker's consumeSinceLastCycle().
CycleFails ==
  /\ phase = "refresh" /\ ~StaleResult
  /\ outcome = "resolved" => EmptyAfterErrors
  /\ phase' = "none" /\ loop' = "wait"
  /\ tracker' = IF outcome = "resolved" THEN 0 ELSE tracker
  /\ up' = 0
  /\ failures' = OneMore(failures)
  /\ Sleep(NextDelay(failures'))
  /\ UNCHANGED <<aborted, outcome, found, healthErrs, elapsed, cache, age>>

Settle == CycleDiscarded \/ CycleSucceeds \/ CycleFails

-----------------------------------------------------------------------------
(* Time passes unless the loop's wake-up or the fetch's deadline is due.   *)

Tick ==
  /\ ~Woken
  /\ phase # "none" => elapsed < FetchMax
  /\ timer' = IF timer > 0 THEN timer - 1 ELSE 0
  /\ elapsed' = IF phase # "none" THEN elapsed + 1 ELSE elapsed
  /\ age' = IF cache # NoEntry /\ age < AgeCap THEN age + 1 ELSE age
  /\ UNCHANGED <<loop, delay, failures, aborted, tracker,
                 phase, outcome, found, healthErrs, cache, up>>

HealthEnds ==
  \/ \E n \in 0..MaxDevices, errs \in 0..MaxErrors : HealthResolves(n, errs)
  \/ \E errs \in 0..MaxErrors : HealthRejects(errs)

Next ==
  \/ Start \/ Stop
  \/ EndLoop \/ StartCycle
  \/ HealthEnds
  \/ \E group \in RefreshGroups : RefreshRecords(group)
  \/ Settle
  \/ Tick

Spec == Init /\ [][Next]_vars

\* Timers fire, and every request of a fetch is answered or times out.
\* Nothing obliges anyone to call start() or stop().
Fairness ==
  /\ WF_vars(Tick)
  /\ WF_vars(EndLoop) /\ WF_vars(StartCycle)
  /\ WF_vars(HealthEnds) /\ WF_vars(Settle)

FairSpec == Spec /\ Fairness

-----------------------------------------------------------------------------
(* Properties *)

\* While ftd_exporter_up is 1 and the process is not stopping, what a scrape
\* renders from the cache is never older than one interval plus the longest
\* fetch: a poll that stops succeeding shows in `up` before it shows in age.
BoundedStaleness == up = 1 /\ ~aborted => age <= Interval + FetchMax

\* An empty snapshot is published only by a cycle whose health half met no
\* parse error: a fleet whose every record failed to parse never looks like
\* a fleet with no devices (poller.ts, property 1 of its header).
NoSilentEmpty == cache # NoEntry /\ cache.devices = 0 => cache.errors = 0

\* A cycle that fails never shortens the wait and never waits beyond the
\* cap; one that succeeds returns to the interval at once.
BackoffEscalates ==
  [][phase = "refresh" /\ loop' = "wait" =>
       IF up' = 1 THEN delay' = Interval
       ELSE delay' <= MaxBackoff /\ (failures > 0 => delay' >= delay)]_vars

\* Neither the jitter nor any cycle's outcome kills the loop: the wait after it
\* ends in another cycle, unless the process is stopped.  A stopped loop ends,
\* whatever it was doing when stop() was called.
LoopProgress ==
  /\ Sleeping ~> loop = "cycle" \/ aborted
  /\ (aborted /\ loop # "idle") ~> loop = "ended"

\* The loop, the tracker and the cache implement what the scrape path was
\* promised: wholesale, legitimate publications and none after stop().
Promise == INSTANCE PollCacheServe WITH entry <- cache, halted <- aborted
Implements == Promise!Spec

\* Refuted.  A fleet with no device whose health half met no parse error is a
\* successful poll, as the header of ParseErrorTracker's user promises.
EmptyFleetIsSuccess ==
  loop = "wait" /\ outcome = "resolved" /\ healthErrs = 0 => failures = 0
=============================================================================
