# Verification of ftd-metrics-exporter

TLA+ models of the exporter, the TLC runs that check them and the TLAPS proofs
about them. Paths are relative to the root of the repository's `src/`
tree (`src/src/...` is the TypeScript source).

## 1. The system

The exporter polls the health of Cisco FTD firewalls, either through an on-premises
FMC or through the cloud service SCC, and serves what it last learnt to
Prometheus. It is one Node.js process with one thread: everything below
interleaves at `await`, timers, sockets and signals only, so an action of a model
is the code between two awaits.

```
 signals, errors                 scrapes, probes
      |                                |
  lifecycle.ts ----stop()----> server.ts, routes.ts ---> collectors ---> registry
      |                                | reads                 
      +---stop()--> poller.ts --set--> cache.ts     backend getters
      |                | fetchSnapshot()                 |
      +---close()--> backend (fmc/adapter.ts | scc/adapter.ts)
                       | tokens, discovery, limiter, budget | spacing guard
                       +--> http/client.ts + retry.ts --> upstream
```

### Inventory

| Component (source) | State | Operations | Hard behaviour | What makes it correct |
|---|---|---|---|---|
| Poll loop and cache (`poller/poller.ts`, `poller/cache.ts`, the `onParseError` wiring of `index.ts`) | where the loop is, the abort signal, the pending sleep, consecutive failures, the parse-error tracker, the cached entry and its age, `ftd_exporter_up` | `start`, `stop`, `runCycle`, `abortableSleep`, `cache.set/get` | `stop()` during a sleep or a fetch; a result that arrives after `stop()`; errors that look like an empty fleet; backoff with a cap | data is bounded in age while `up` is 1, never silently empty, never published after stop; the loop survives every failure and ends on stop |
| FMC token manager (`backends/fmc/token-manager.ts`, `auth-transport.ts`) | access and refresh token, refresh count, refresh instant, in-flight promise, latched credentials failure, closed | `getToken`, `forceReauth`, login, refresh, `close` | N requests at once; a new session ends the old one; lost answers; wrong credentials lock the account | one auth POST at a time, credentials refused once, no login over a good session, no dead pair presented, at most three refreshes |
| FMC discovery and start-up (`fmc/discovery.ts`, `fmc/domain.ts`, `init()` of `fmc/adapter.ts`) | cached list, time of the last success, discovery in flight (offset, items seen, pages) | `init`, `getDevices`, `fetchAllDeviceRecords` | no paging headers; servers that misreport page size or total; a failed page; the fleet changing between pages | the list is complete and is only replaced whole; a failed first discovery is not an empty fleet; a failure is retried at the next poll |
| FMC requests (`fetchSnapshot` of `fmc/adapter.ts`, `http/limiter.ts`, `http/budget.ts`) | free slots, queue, timestamps in the window, each request's attempt | `run`, `acquire`, `release`, retry, second attempt after a 401 | retries and refreshes outside the limiter share the budget; slots held while waiting for the budget | at most 300 GETs in any 60 s, slots never lost, order kept, every poll ends |
| SCC adapter (`backends/scc/adapter.ts`, `scc/inventory.ts`, `shared/refresh-cache.ts`, `shared/certificate-map.ts`, `http/spacing.ts`) | three refresh caches, the domain, the guard's next slot, the request's attempt | `init`, `fetchSnapshot`, `refreshIfDue`, `close` | any stage fails; broken answers; timers that fire late; `close()` at any moment | the rate limit holds, due refreshes always run, an empty cache is genuine, every fetch ends |
| Process (`index.ts`, `lifecycle.ts`, `server/server.ts`) | `main`'s progress, installed handlers, the port, open connections, the shutdown step, exit code | start-up, `shutdown`, hard exit | a signal or error at any step; steps that hang, steps that throw; `start()` after `stop()` | exit code 0 leaves undone only what a step has thrown about, the first cause decides the code, nothing published after stop, the process always ends |
| Scrape path (`server/routes.ts`, `renderMetrics` of `index.ts`, `metrics/*-collector.ts`) | the gauges, the shared render's promise | `GET /metrics`, the four collectors | scrapes overlap each other and polls; gauges outlive a render; labelless gauges reset to zero | a page shows the caches of one instant and nothing else; every scrape is answered |
| HTTP client (`http/client.ts`, `http/retry.ts`, `http/errors.ts`) | attempt, deadline | `get` | deadline against sleeps and `Retry-After` | bounded attempts and time | 
| Configuration (`config/load.ts`, `config/validate.ts`, `backend-factory.ts`) | the process environment, the env file, the accepted configuration | `loadEnvFile`, `validate`, `createBackend`; the operator corrects and starts again | a refusal hides the next; a variable that is set and has no effect; seconds that no timer holds | what is accepted can be run, what is set is used, refused or warned about, refusals come to an end |
| Mapping of answers (`fmc/map.ts`, `fmc/empty.ts`, `scc/map.ts`, `scc/inventory-map.ts`, `shared/groups.ts`, `interfaces.ts`, `numbers.ts`, `license-map.ts`, `certificate-map.ts`) and the merge of a fetch (`fetchSnapshot` of both adapters) | a fetch's results so far | the mappers, `mergeFmcFamilies`, `buildSnapshots` | bodies nothing has checked; absence against failure; answers in any order, or twice; an answer about another device | nothing invented, nothing lost without a report, no report about a healthy fleet, the newest window |
| Logging and redaction, developer scripts | none | string processing, one-shot scripts | | |

`PROJECT.json` lists every component with its status, every hazard with the line
at which it bites and the properties that catch it, and the source lines each
definition models.

## 2. Modules

| Module | Models | Extends or uses |
|---|---|---|
| `PollCacheServe` | abstract: what the scrape path is promised, one legitimate entry, kept over failures, frozen after stop | |
| `Poller` | the poll loop, tracker and cache | implements `PollCacheServe` (property `Implements`) |
| `PollerProofs` | theorems about `Poller` | `Poller` |
| `FmcTokenManager` | the token manager, the requests sharing it, FMC's sessions | |
| `FmcTokenManagerProofs` | theorems about it | `FmcTokenManager` |
| `FmcFanOut` | an FMC poll's requests through limiter, retry and budget | |
| `FmcDiscovery` | `init()` of the FMC adapter, pagination and the cached device list | |
| `FmcProofs` | theorems about both | `FmcFanOut`, `FmcDiscovery` |
| `SccAdapter` | the SCC adapter with its guard, caches and `close()` | |
| `SccAdapterProofs` | theorems about it | `SccAdapter` |
| `ExporterProcess` | start-up, signals, shutdown sequence, with server, poller and backend reduced to what they do to each other | |
| `ExporterProcessProofs` | theorems about it | `ExporterProcess` |
| `HttpRequest` | one call of the HTTP client: attempts, hook, deadline, pauses | |
| `HttpRequestProofs` | theorems about it | `HttpRequest` |
| `MetricsServer` | overlapping scrapes, the collectors and the caches they render | |
| `MetricsServerProofs` | theorems about it | `MetricsServer` |
| `Configuration` | env file, `validate()`, `createBackend()` and the operator who corrects | |
| `HealthMapping` | the mappers, certificates and their join included, as operators on one answer | |
| `HealthFetch` | from the accepted configuration to the snapshot, composed: what is asked, what each answer is taken for, what a poll makes of all of them | `Configuration`, `HealthMapping` |
| `MCHealthFetch` | its instance: environments, env files and answers | `HealthFetch` |
| `HealthFetchProofs` | theorems about it | `HealthFetch` |

Each component is modelled at its boundary with the next, so that the
interaction that matters is in one module: the poller with the backend's parse
errors, requests with the token manager, retries with limiter and budget, the
refresh caches with the spacing guard, shutdown with the loop, the server and the
backend, scrapes with the publishing of polls.

### How state and actions correspond to the code

* **Poller.** `loop`, `timer` and `delay` are the suspended `loop()` and its
  `abortableSleep`; `failures` is `consecutiveFailures`; `tracker` is the
  `ParseErrorTracker`'s count, which the hook of `index.ts` feeds for every group
  but `inventory`. A cycle is `StartCycle`, `HealthEnds` (the health half of
  `fetchSnapshot()` resolves or rejects) and `Settle` (refreshes end, then
  `CycleDiscarded`, `CycleSucceeds` or `CycleFails`, in the code's order of tests).
  `Tick` advances sleeps, fetch and age together; a sleep may not outlast its time.
* **FmcTokenManager.** A token pair is the number of the session it was issued for.
  `op[r]` is the POST request `r` has started, with FMC's answer chosen when FMC
  handles it and delivered or lost later, so an answer can be late or never come.
  `req[r]` is the request's local state over `fetchWithReauth`: the token it
  captured, how often it has gone out. `GetToken` and `ForceReauth` are the
  synchronous parts of those functions; `Answered` is what follows the POST.
  FMC (`Issue`, `LoginHandled`, `RefreshHandled`, `Revoke`, `ChangePassword`) is external.
* **FmcFanOut.** `slots` and `queue` are the limiter's, `log` the budget's
  timestamps as ages. The window is counted a second time in `sent`, from the GETs
  themselves: `sent[k]` is how long ago the k-th last one went out, up to `Window`, and nothing is
  ever pruned from it. The properties speak of `sent`, not of `log`. `Pruned` drops as many entries
  from the front as have expired: the log is in the order of departure.
* **FmcDiscovery.** `phase` is the step `init()` awaits; `run` the locals of
  `fetchAllDeviceRecords`; `cached`, `age` those of `createFmcDiscovery`. `server`
  is what an FMC says of its page size and total: the real one, the one asked for,
  nonsense or nothing. A list of devices is how often it names each: their order decides nothing. The join of a discovery in flight is not modelled: polls and
  refreshes call `getDevices()` one after another, so it is never reached.
* **SccAdapter.** `stage` is the request a fetch is at, `pc` and `attempt` how far
  that request has come, `release` the guard's `nextReleaseAt`, `cache` the three
  refresh caches. `bare` records whether the upstream really listed nothing.
* **ExporterProcess.** `main` is where `main()` is, `shut` the step
  `runShutdownSequence` awaits, `backend`, `poller`, `port` and `conns` what the
  other components look like from there. `GoesOn` is `guardedStep()`: `server.stop()` may throw when it is called
  (`Sequence`), `poller.stop()` after it, and `backend.close()` in `BackendClosed`; each time the sequence goes on,
  ending in `exit(exitCode)` as `test/unit/lifecycle.test.ts:138` and `:170` want it, and `failed` records the step.
  A loop that was not told to stop keeps polling while `backend.close()` is awaited, which may then take until the
  hard exit (`Hangs`). `ReturnsEarly` are the options that print something and let `main()` return.
* **MetricsServer.** `page` is the registry's `ftd_*` samples, a set of pairs of a series (gauge
  family and labels) and its value; `Set` replaces the value of the same labels, as a gauge does.
  `Render` is
  `renderMetrics()` with the part of `registry.metrics()` before its first yield;
  families in `Hooked` are read when it resolves. No gauge of the exporter has a
  `collect` hook today; the comment of `routes.ts` names the hazard it would be, and the
  run gives one family a hook so that the single flight has something to protect.
* **HttpRequest.** `left` is `deadline - now`, so that it falls while the hook waits and
  `HookResolves` pushes it out again; `timer` is the `AbortSignal` on the wire and the
  `clock.sleep` in a pause. Calls have no state in common, so one at a time
  suffices. The hook never rejects: neither `budget.acquire` nor `guard.wait` does.
* **Configuration.** An environment is a function from the variables it sets to what their values
  read as. `Complaints` is the set of what `validate()` pushes, by variable or, where one message is
  about two, by a name of its own; `Warnings` and `Config` are what it returns besides. `Accept`,
  `Refuse` and `RefuseEnvFile` are the three ends of `loadConfig()`; `Effective` is
  `process.loadEnvFile`, which leaves alone what the process has, blank or not. `Correct` is
  external: an operator who puts right what the message names and nothing else.
* **HealthMapping.** Every value of an answer keeps what the readers tell apart: absent, of the wrong
  type, blank, genuine. A group is its raw value and what is kept of it a set of facts
  (part, key, value), of a certificate (name, key, value), which is what tells its series apart (two
  records of one device may still meet there, see section 5); an inventory entry may have no type; a
  parse error is a device and what it is about. `joined` is the `lookupDevice` the adapter passes in:
  which device, by inventory or discovery, a record's id is known for. The operators have the names of the
  functions, one per mapper and one per reader they share.
* **HealthFetch.** `asked` are the requests of one fetch, `heard` their answers, `results` what
  `perDeviceResults` holds, in the order of arrival; `FamilyAnswered` is the `then` of the fan-out,
  `BuildSnapshots` what follows `Promise.all`. The refreshes of inventory, license and certificates
  are fetches of their own, since nothing of one enters another but the join. When a refresh ends with
  nothing but parse errors the adapter rejects and keeps its cache (`SccAdapter`); here it shows nothing. The properties compare `shown` and `reported` with
  `heard` in words of their own (`About`, `Genuine`, `Statements`), not the mappers'.

## 3. Runs

| Run | Instance | States | What it shows |
|---|---|---|---|
| `poller` | interval 10, cap 30, fetch up to 2, 1 device, 2 errors | 24,515 | `BoundedStaleness`: with `up` 1 the data is no older than an interval and a fetch. `NoSilentEmpty`: an empty snapshot had no parse error. `BackoffEscalates`: the waits never shrink over failures, keep the cap and reset on success. `LoopProgress`: the loop never dies and stop ends it. `Implements`: refinement of `PollCacheServe` |
| `tokens` | 2 requests, 2 refreshes, 4 sessions | 510,252 | `OneAuthAtATime`, `RejectedOnce`, `ReauthsOnce`, `RefreshesWithinLimit`, `NoDeadPair`, and `EveryRequestEnds` |
| `fan_out` | 4 tasks, 2 slots, 3 GETs per 4 ticks, 2 attempts | 134,301 | `WindowLimit` over retries, second attempts and refreshes; `ThrottledOnlyWhenFull`; `SlotsInUse`, in order; `PollEnds` |
| `discovery` | 3 devices and a junk item, page sizes 1 and 2, 3 asked for, 3 pages | 515,846 | `ListIsComplete` for every way a server reports its pages; `FailureKeepsList`; `CatchesUp` |
| `scc` | 2 devices, spacing 2, timers 1 late, 2 attempts | 715,257 | `RateHolds` with late timers, `WaitIsBounded`, `EmptyIsGenuine`, `DueRefreshesRun`, in order, `FetchEnds` |
| `process` | 2 connections | 1,372 | `StartupOrder`; `CleanExitIsComplete`: with exit code 0 every step had its turn, and what is left undone is what its step has thrown about; `FirstCauseDecides`, `NothingAfterStop`, `ShutdownEnds` |
| `metrics` | 2 scrapes, 1 device, HA family hooked | 394,496 | `PageOfOneInstant`, `ScrapesAnswered` |
| `request` | timeout 4, cap 3, 3 attempts, waits of up to 5, Retry-After 0, 2 or 5 | 741 | `NeverCutShort`: a wait for the rate limit is never charged to the call. `TimeBounded`: the attempts share one deadline that only pauses overrun |
| `health` | 2 devices, 2 families, each device listed 0, 1 or 2 times, 12 answers per request, answers for the tenant with up to 2 entries; environments with every rule broken and kept, 5 env files | 1,312,347 | `NothingInvented`, `NothingLostSilently`, `HealthyIsQuiet` and `WindowIsNewest` over every order of arrival; `RefusalsBounded`: an operator who does what the messages say is let in after at most three refusals; `AcceptedIsUsable`: seconds fit a timer, the required variables are there, and of the TLS files every one given is read and put to use; `NothingIgnoredSilently`: what is set is used or warned about |
| `poller_empty_fleet` | as `poller` | violation | the poll of an empty fleet fails on a license or certificate parse error |
| `tokens_closed` | as `tokens` | violation | an auth POST in flight at `close()` leaves a token pair in the closed manager |
| `process_hung` | as `process` | violation | a `server.stop()` that hangs means `backend.close()` is never called |

Every property of a passing run has a mutant in `PROJECT.json`: a plausible bug in one
definition that makes TLC refute that property under the run's own configuration. The
operators such mutants use stand before the definitions they change and are
commented as wrong. A type invariant is checked by `discovery` only, where it bounds what a run of pages may reach: of
every other module with a state it is part of the proved invariant (of `HealthFetch`, the typing its
invariant needs).

### Bounds, and why they are enough

* *Poller.* The failure count saturates where `Interval * 2^n` has reached the cap
  (an assumption of the module), so the saturation changes no wait. The age
  saturates one above the bound `BoundedStaleness` states. One device and two errors
  distinguish empty from not, and no error from some from more. The proofs
  remove these bounds.
* *Tokens.* Two requests suffice for one to be late with a refusal the other has
  already acted on; four sessions allow a login, the refreshes and a login after
  them. The proofs hold for any number of requests and sessions.
* *Fan-out.* More tasks than slots, more GETs than the budget, a window longer than a
  backoff: queue, budget and retries are all contended. Two attempts stand for the
  three of the code: the last one and one before it.
* *Discovery.* A fleet of four reaches a page that is exactly full and last, pages
  short for the limit asked for but not for the server, a list longer than the
  server's pages and, at page size 1, the limit of pages. The proofs remove these bounds.
* *SCC.* Intervals of 2 and 3 spacings make the refreshes due together, apart and not at
  all; a fetch meets each stage failing, and each answer broken, at any of them.
* *Process.* A second connection distinguishes draining from drained.
* *Request.* The hook may wait longer than the timeout, the server ask for more than the cap, and
  every attempt end at any moment. The proofs remove these bounds.
* *Metrics.* Two scrapes overlap in every way the shared promise tells apart.
* *Health.* Two answers for one device and family need a device listed twice, or a family listed twice in
  `FMC_METRIC_FAMILIES`, or both (`MaxRepeats` 4); two windows that differ need two families. The
  answers are the well-formed one, the absences, the error envelope and one body for each flaw the
  mappers look for. A list of certificates has one record per device and a record every pair of thirteen
  certificates, so that each collides with each; a join never takes two ids for one device. Nothing bounds the starts but the property
  (`RefusalsBounded`, three refusals): a refusal may lead to another one only where what it names
  decides what is checked next (the backend's type, then its block, then a rule over two variables).
  The proofs remove every bound on devices, families, answers and environments.

### Fairness

Weak fairness only, and only of steps the runtime takes by itself: timers fire and
time passes (`Tick`), requests settle because every one carries a timeout
(`HealthEnds`, `Answered`, `AuthLost`, `PageArrives`, `Ends`), settled promises run
their continuations (`StartCycle`, `Settle`, `NextStage`, `Settles`, `GetDevices`). `HealthFetch` states no liveness:
that its requests settle is the matter of `FmcFanOut` and `SccAdapter`.
Nothing is assumed of signals, `stop()`, `close()`, scrapes, failures, revocations
or of FMC's willingness to answer. In `ExporterProcess` the hard-exit timer is fair and the
steps that may hang (a client holds its connection, a request is out, the loop was not stopped) are not: that
is what the backstop is for. `CHECK_DEADLOCK
FALSE` appears where the system really stops: the process exits, the loop ends, the adapter
or the token manager is closed and its requests are over.

## 4. Proofs

TLAPS proves, for every value of the constants that meets the modules'
assumptions:

* `PollerProofs`: `TypeCorrect`, `StalenessIsBounded`, `EmptyIsLegitimate`, `BackoffIsMonotone` and
  `PollerImplementsPromise`. `BoundedStaleness` is not inductive: it says nothing of
  where the loop is. The invariant `IInv` adds what bounds the age in each place:
  `AgeInWait` (age plus what is left of the sleep is at most the interval, since a
  sleep that follows a success is one interval long), `AgeInCycle` (age is at most an
  interval plus the stopwatch of the fetch), `UpAfterSuccess` (while `up` is 1 there is
  an entry and the loop is past its first cycle), `InCycle` and `EndedByStop` (which
  variables are quiet where), and
  `ErrorsTracked` (the tracker holds at least the errors of the health half, which is
  why an empty result with errors cannot pass the test of `runCycle`). The refinement
  maps `cache` to `entry` and `aborted` to `halted`; each step is a publication, a
  degradation, a halt or a stutter. The power in `NextDelay` is handled by one lemma. `BackoffIsMonotone`
  is about one step and two waits: `DelayFollowsFailures` says that the wait in hand is that of the failures counted, and
  that nothing has failed before `start()`, so the jitter is never the wait a backoff is compared with.
* `FmcTokenManagerProofs`: `TypeCorrect`, `SingleFlightHolds`, `CredentialsRefusedOnce`,
  `DeadPairsAreDropped`, `RefreshesStayInLimit` and `NoNeedlessLogin`. `IInv` says that only the request named by `inFlight` has a
  POST (`SingleOp`, `QuietNoOp`), that a refresh under way
  leaves room for its success to be counted (`RefreshFits`), that a request retries once (`OneRetry`), that a latched manager is
  quiet and latched by the one refusal there was (`LatchedIsQuiet`,
  `RefusalLatched`), and that pairs are numbered in the order of issue and a refused
  one is not in hand (`Numbered`, `LivePairs`). One lemma per kind of step (a request
  moves, a POST starts, a POST settles) carries the conjuncts the actions share. Two further
  invariants rest on it. `Counted`: while FMC would still refresh the pair in hand, or one it has just
  granted, the manager's count is not behind FMC's, although answers are lost; a lost answer leaves the
  manager with a pair FMC refuses. `Fresher` and `SecondDiffers`: a pair that is granted while a
  request holds a token is newer than that token, so a second attempt never carries the first one's.

* `ExporterProcessProofs`: `StartupIsOrdered`, `CleanExitHolds`, `FirstCauseHolds` and
  `NothingFollowsStop`, for any number of clients. The invariant adds that the handlers are in
  place before `main()` awaits (`InstalledEarly`), that the port is let go by the shutdown
  sequence and by it alone (`LetGoByShutdown`), that past `server.stop()` the server is drained
  and the poller told to stop, but for the step that threw (`TornDown`), that the last step closed
  the backend or threw (`LastStep`), and that the exit code is the first cause's
  (`CodeOfCause`) and 0 only at the end of the sequence (`CleanExit`).
* `HttpRequestProofs`: `TypeCorrect`, `NoCallCutShort` and `CallTimeBounded`, for every timeout,
  cap, number of attempts, wait and Retry-After. The invariant is that deadline, time spent and
  wait add up to the timeout (`DeadlineKept`), that the signal is set to that deadline
  (`SignalAtDeadline`), and that each attempt past it adds at most one capped pause
  (`OverrunBounded`).
* `FmcProofs`, of the fan-out: `TypeCorrect`, `SlotsAreHeld`, `WindowIsKept` and `ThrottleIsNeeded`, for any
  number of tasks, slots and attempts and any window. The
  invariant is that the queue is always the last tasks of the poll in order, which are the ones
  waiting (`QueueInOrder`), that slots and holders agree (`SlotsHeld`), and that outside the
  fan-out nobody holds anything (`AtRest`). The window adds `LogRecorded`: the log is the ages of the last GETs,
  oldest first, and a GET it has forgotten has left the window, so that pruning forgets nothing that still
  counts; and `Throttled`: a sleeper wakes no later than the oldest of the last `MaxRequests` GETs leaves
  the window, whoever else has taken the room meanwhile.
* `FmcProofs`, of the discovery: `DiscoveryTypeCorrect`, `FailureKeepsTheList` and `ListComplete`, for any fleet,
  page sizes, number of pages and interval. `ListIsComplete` speaks of the last page only; the invariant
  says what the pages before it have left: as long as the fleet rests, each was a full one of the server's, so
  that the offset is a whole number of pages and the list counts what is before it (`WholePages`). A page
  that does not end the list is full whatever the server reports of its size (`FullPage`), and against a server
  that is understood a page that ends it ends the fleet (`LastPage`). `InFlight` says that a discovery
  runs only while one is due, which is why its failure leaves it due.
* `SccAdapterProofs`: `TypeCorrect`, `WaitBounded`, `RateKept`, `EmptyGenuine` and `OwedRefreshesRun`, for any spacing,
  lateness, backoff, intervals and devices. The pending sleep and the guard's next slot bound each other:
  between requests by `FreeSlot`, during a sleep by `TakenSlot`; each relates them to the time since
  the last two GETs, which is what the lateness of one timer can eat into. `OwedOrRun` follows a refresh
  that was due when the fetch began: it stays due until its stage, since no other stage touches its cache and
  time only makes it more so, and has been tried after it.
* `MetricsServerProofs`: `TypeCorrect` and `OneInstant`, for any finite fleet, any number of scrapes and
  any hooked families. Whoever awaits anything awaits the render in flight (`OnePromise`), which has
  the registry to itself (`PageIsOwn`); a render leaves nothing of the page before it
  (`RenderedAfresh`), its samples are the facts of the caches (`FactsAreSeries`), and the sum of the
  collectors' counts is the size of the page (`CountIsExact`).
* `HealthFetchProofs`, of the configuration: `AcceptedUsable`, `NothingIsIgnored` and `RefusalsAreBounded`, for any
  environments and env files. The first rests on the rows of the variables' table being within a timer
  (`RowsInRange`) and on what an empty set of complaints means (`Passed`), for the TLS files `NamesHeld` and
  `ListenerHeld`; the second also on a blank reading as its default (`BlankIsDefault`). For the third, `Refusals` ranks what may
  still be wrong by how often it was corrected: after one correction the type of the backend is one
  there is and everything that is checked without it is right (`AfterOne`), after two so is the rest but for one
  rule of the FMC block over two variables (`AfterTwo`), which the third puts right; one lemma per correction.
* `HealthFetchProofs`, of the answers: `NothingIsInvented`, `NothingIsLost`, `HealthyFleetIsQuiet` and `WindowOfNewest`, for
  any devices, families and answers. They rest on `FetchInv`: results and answers
  are the same in both directions (`ResultsHeard`: every result is the mapping of an answer heard for its device;
  `HeardResulted`: every such answer has its result), and `Outcome`: what is shown and reported is nothing
  yet, the merge of the results once they are all in, or the mapping of the one answer for the tenant. The rest is lemmas about
  the mappers: what is kept of a group is what the answer says (`PartSays`), all of it when nothing is
  reported (`QuietIsGiven`), nothing is reported of a flawless one (`FlawlessIsQuiet`), and the first of the newest windows is the one
  the merge keeps (`NewestShown`).

What the proofs assume of the constants, by name and in the module that declares them:
`PollerAssumption`, `FanOutAssumption`, `SccAssumption`, `DiscoveryAssumption` and their like fix the ranges of
numbers. Of `HealthFetch`, `EnvironmentAssumption` says that there is a metric family, that an environment is
reduced to the variables `validate()` reads, that the list of families reads as a list or is blank, and that
the marks for unset, blank and malformed are no number, word or list: a way of writing environments
down, which excludes none. `AnswersAssumption` does the same for the answers: what is not a list has no parts, a time is a
natural number or garbled, what is there is not `Missing`, and the ids of a join are those of listed devices.
Every other value of an answer is whatever the upstream sends.

Only model-checked: liveness (`LoopProgress`, `EveryRequestEnds`, `PollEnds`, `FetchEnds`, `ShutdownEnds`,
`ScrapesAnswered`, `CatchesUp`), since it rests on fairness and ENABLED, which the provers have no
reasoning for. Every invariant and every other action property of a passing run is a theorem.

## 5. Where code and documents disagree

The three violation runs, each with its quoted line in `PROJECT.json`:

1. `poller_empty_fleet`: DESIGN.md promises that license and certificate trouble never
   fails the health poll; with zero devices it does, since the tracker counts it.
2. `tokens_closed`: `close()` "drops tokens from memory", but an answer that arrives
   later puts a pair back.
3. `process_hung`: the sequence promises that a hung `server.stop()` cannot skip
   `backend.close()`; it awaits it, so only the hard exit follows.

Seen while modelling, with no run of their own:

* `DESIGN.md:373` says of SCC that a cycle with its retries "cannot exceed 2 requests in any 60-second
  window". `spacing.ts:57` places a slot one spacing after the slot reserved and not after the release, so
  a timer that fires late lets a third request in, by that lateness; `RateHolds` bounds it to
  one timer's.
* A cycle that rejects does not consume the tracker (`poller.ts:242` is skipped), so its
  parse errors are counted by the next cycle.
* With an interval above ten minutes the wait after a failure is shorter than the
  interval (`poller.ts:208`).
* If `renderMetrics()` threw, the `finally` of `routes.ts:69` would run before `??=`
  stores the promise, and every later scrape would join a rejected promise. Nothing the mappers
  produce makes it throw.
* After the deadline of a call the retries still wait for the spacing guard or the budget and go
  out with no time left (`client.ts:173`). With `REQUEST_TIMEOUT_SECONDS` below the eight
  seconds a Retry-After may ask for, a 429 that never recovers is therefore reported with
  `reason="timeout"`, although `retry.ts:96` wants `rate_limited`: the error reported is the last
  attempt's, and the last attempt is no longer the one that met the 429. The total-time budget
  is overrun by the pauses (`TimeBounded` says by how much).
* A device removed from FMC between two pages shifts the offsets, and one that stayed can be
  on no page, with a total that agrees.
* `collector.ts:95` and `certificate-collector.ts` build the key of a counted series by
  joining labels unescaped, where `inventory-collector.ts` uses JSON.
* `DESIGN.md:1080` wants a warning for every variable of the other backend that is set, and
  `validate.ts:153` one for those with a default only if the value is another; the code never
  warns of the latter. `METRICS_TLS_MIN_VERSION` without a TLS listener is ignored too. `NothingIgnoredSilently`
  excepts both and nothing else: not the active backend's variables with a default, nor the TLS version of a
  listener that speaks TLS.
* `process.loadEnvFile()` (`load.ts:59`) leaves alone what the process has set, a blank included, so a blank in the
  process hides the env file's value without a word. `NothingIgnoredSilently` promises of a blank only that
  the default holds.
* `empty.ts` speaks of `paging.count === 0`; the code asks only for a `paging` object. Without
  `paging.count` the items after the first are ignored.
* A certificate's name that is not a string becomes the empty one without a parse error, and
  `seenKeys` is a record's: two records of one device would overwrite each other's series.
* A window bound that is not a string, and license `metadata` that is not an object, are dropped
  without a parse error.
* A device listed on two pages of a discovery is asked twice and its errors are reported twice; its
  second answer replaces the first, unless it is empty.

## 6. Not modelled, and why

* Of the mapping: the formats of timestamps and numbers, and the text of messages. A key of a group is one of a few in the run and
  any in the operators.
* How the requests of the license and certificate refreshes of FMC are sent: `FmcFanOut` has them
  as consumers of the budget, and the cache they use is SCC's.
* Logging, redaction, self-metrics other than `up` and `ftd_exporter_series`, the unknown-value counter, the
  developer scripts and the demo server: no state another component reads, or another process.
* The sizing advice that `init()` logs and the redacted summary of the configuration.
* TLS, sockets and undici: a request is sent and settles within its timeout.
* Timers of `HttpRequest` are on time; the late ones that matter are in
  `SccAdapter`.

## 7. Plan

In this order; what precedes is done.

1. `HealthFetch` composed with `Poller`: the parse errors of a fetch, counted, against the tests of
   `runCycle` ("48 of 50 is a success").
2. `HttpRequest` composed with the guards: the class of the error a poll is counted with, over a 429
   that outlasts the deadline.
3. An abstract rate limiter that the budget and the spacing guard both implement.
