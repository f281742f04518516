----------------------------- MODULE SccAdapter -----------------------------
(***************************************************************************)
(* The SCC backend (src/src/backends/scc/adapter.ts): init() with the      *)
(* resolution of the domain, one fetchSnapshot() after another, close() at *)
(* any moment.  A fetch is four stages in a row, the health request and    *)
(* the refreshes of inventory, license and certificates; every attempt of  *)
(* every request, retries included, passes the minimum-spacing guard of    *)
(* src/src/http/spacing.ts.  The refreshed values are cached and served.   *)
(*                                                                         *)
(* Time is a tick.  nextReleaseAt and the pending sleep are countdowns and *)
(* lastSuccessAt is an age, so the model has no time horizon.  A timer may *)
(* fire up to Late ticks after it is due, as setTimeout's do.              *)
(***************************************************************************)
EXTENDS Integers

CONSTANTS
  Devices,              \* devices of the tenant
  TheLicense,           \* the one license record
  Spacing,              \* minSpacingMs, 30 s
  Late,                 \* bound: how late a timer fires
  MaxAttempts,          \* MAX_ATTEMPTS
  MaxBackoffTicks,      \* bound: CAP_DELAY_MS
  InventoryInterval, LicenseInterval, CertificateInterval,
  Never                 \* lastSuccessAt before the first success

ASSUME SccAssumption ==
  /\ Spacing \in Nat \ {0}
  /\ Late \in Nat
  /\ MaxAttempts \in Nat \ {0}
  /\ MaxBackoffTicks \in Nat
  /\ InventoryInterval \in Nat \ {0}
  /\ LicenseInterval \in Nat \ {0}
  /\ CertificateInterval \in Nat \ {0}
  /\ Never \notin Nat

Caches == {"inventory", "license", "certificates"}
Fetching == Caches \cup {"health"}

Interval(c) == CASE c = "inventory" -> InventoryInterval
                 [] c = "license" -> LicenseInterval
                 [] OTHER -> CertificateInterval

VARIABLES
  stage,    \* what the adapter is doing
  pc,       \* how far the stage's request has come
  attempt,  \* which attempt of it
  timer,    \* what is left of the pending sleep
  release,  \* nextReleaseAt - now()
  cache,    \* the value and the age of each refresh cache, as the getters see it
  domain,   \* certificatesDomainUuid is resolved
  lifetime, \* close(): not called, waiting for the dispatcher, done
  owed,     \* history: refreshes due when the fetch began
  tried,    \* history: refreshes this fetch has run
  sent      \* history: ticks since the last GET and since the one before

requestVars == <<pc, attempt, timer>>
cycleVars == <<owed, tried>>
vars == <<stage, requestVars, release, cache, domain, lifetime, cycleVars, sent>>

\* What a cache holds: its value, lastSuccessAt's age, and whether the
\* upstream had nothing to list when it answered that refresh.
CacheEntry == [value : SUBSET (Devices \cup {TheLicense}),
               age : Nat \cup {Never}, bare : BOOLEAN]
Unfilled == [value |-> {}, age |-> Never, bare |-> TRUE]

TypeOK ==
  /\ stage \in {"new", "domain", "idle"} \cup Fetching
  /\ pc \in {"off", "due", "spaced", "wire", "done", "failed"}
  /\ attempt \in 1..MaxAttempts
  /\ timer \in Nat
  /\ release \in Nat
  /\ cache \in [Caches -> CacheEntry]
  /\ domain \in BOOLEAN
  /\ lifetime \in {"open", "closing", "closed"}
  /\ owed \in SUBSET Caches
  /\ tried \in SUBSET Caches
  /\ sent \in Nat \X Nat

Init ==
  /\ stage = "new" /\ pc = "off" /\ attempt = 1 /\ timer = 0
  /\ release = 0
  /\ cache = [c \in Caches |-> Unfilled]
  /\ domain = FALSE /\ lifetime = "open"
  /\ owed = {} /\ tried = {}
  /\ sent = <<2 * Spacing, 2 * Spacing>>

-----------------------------------------------------------------------------
(* A request: client.get() with the guard as its beforeAttempt.            *)

Request == pc' = "due" /\ attempt' = 1 /\ timer' = 0

\* Wrong guards: the next slot counted from now instead of from this one; a
\* second slot taken for the retry that may follow.
FromNow(wait) == Spacing
TwoSlots(wait) == wait + 2 * Spacing
\* nextReleaseAt = releaseAt + minSpacingMs, written before the sleep.
Reservation(wait) == wait + Spacing

\* The guard's wait(): reserve, then sleep if the slot is in the future.
Reserve ==
  /\ pc = "due" /\ timer = 0
  /\ pc' = "spaced"
  /\ release' = Reservation(release)
  /\ IF release = 0 THEN timer' = 0
     ELSE \E late \in 0..Late : timer' = release + late
  /\ UNCHANGED <<stage, attempt, cache, domain, lifetime, cycleVars, sent>>

\* The GET goes out.
Send ==
  /\ pc = "spaced" /\ timer = 0 /\ lifetime = "open"
  /\ pc' = "wire"
  /\ sent' = <<0, sent[1]>>
  /\ UNCHANGED <<stage, attempt, timer, release, cache, domain, lifetime, cycleVars>>

\* A wrong dispatcher: once closing, it leaves new requests pending.
FailsOnWire == pc = "wire"
\* The attempt failed: on the wire, or because the dispatcher is closing.
AttemptFails ==
  \/ pc = "wire"
  \/ pc = "spaced" /\ timer = 0 /\ lifetime # "open"

\* A transient error or a 429: back off, then through the guard again.
Retry ==
  /\ AttemptFails /\ attempt < MaxAttempts
  /\ pc' = "due" /\ attempt' = attempt + 1
  /\ timer' \in 0..MaxBackoffTicks
  /\ UNCHANGED <<stage, release, cache, domain, lifetime, cycleVars, sent>>

\* Out of attempts, an error that is not retried, or a body refused at once.
Fail ==
  /\ AttemptFails
  /\ pc' = "failed"
  /\ UNCHANGED <<stage, attempt, timer, release, cache, domain, lifetime, cycleVars, sent>>

-----------------------------------------------------------------------------
(* The answers *)

\* A wrong test: whatever was read is a successful refresh.
AlwaysBanked(entries, errors) == TRUE
\* Nothing read after parse errors is thrown as a failed refresh.
Banked(entries, errors) == ~(entries = {} /\ errors)

\* runRefresh(): a success replaces the value, a failure keeps it.
Refresh(c, entries, errors, listed) ==
  /\ IF Banked(entries, errors)
       THEN /\ cache' = [cache EXCEPT ![c] = [value |-> entries, age |-> 0, bare |-> listed = {}]]
            /\ pc' = "done"
       ELSE pc' = "failed" /\ UNCHANGED cache
  /\ UNCHANGED <<stage, attempt, timer, release, domain, lifetime, cycleVars, sent>>

\* A list is read item by item; an item that cannot be read is an error.
ListAnswered(c, items) ==
  /\ stage = c /\ pc = "wire"
  /\ \E listed \in SUBSET items : \E read \in SUBSET listed :
       Refresh(c, read, read # listed, listed)

\* Certificates are listed per device (with none enrolled, perhaps) and kept
\* for the devices of the cached inventory that carry a uidOnFmc.
CertificatesAnswered ==
  /\ stage = "certificates" /\ pc = "wire"
  /\ \E listed, enrolled, broken \in SUBSET Devices :
     \E known \in SUBSET cache["inventory"].value :
       /\ enrolled \subseteq listed /\ broken \subseteq enrolled
       /\ Refresh("certificates", (enrolled \ broken) \cap known,
                  ~(listed \subseteq known) \/ broken # {}, enrolled)

\* A health answer is never a failure here: its parse errors are recorded.
HealthAnswered ==
  /\ stage = "health" /\ pc = "wire"
  /\ pc' = "done"
  /\ UNCHANGED <<stage, attempt, timer, release, cache, domain, lifetime, cycleVars, sent>>

Answered ==
  \/ HealthAnswered
  \/ ListAnswered("inventory", Devices)
  \/ ListAnswered("license", {TheLicense})
  \/ CertificatesAnswered

-----------------------------------------------------------------------------
(* init() and fetchSnapshot() *)

StartInit ==
  /\ stage = "new" /\ lifetime = "open"
  /\ stage' = "domain" /\ Request
  /\ UNCHANGED <<release, cache, domain, lifetime, cycleVars, sent>>

\* resolveSccDomainUuid(): any failure only turns the certificates off.
DomainResolved ==
  /\ stage = "domain" /\ pc \in {"wire", "failed"}
  /\ stage' = "idle" /\ pc' = "off"
  /\ domain' \in {FALSE, pc = "wire"}
  /\ UNCHANGED <<attempt, timer, release, cache, lifetime, cycleVars, sent>>

Due(c) ==
  /\ lifetime # "closed"
  /\ c = "certificates" => domain
  /\ cache[c].age = Never \/ cache[c].age >= Interval(c)

FetchSnapshot ==
  /\ stage = "idle" /\ lifetime = "open"
  /\ stage' = "health" /\ Request
  /\ owed' = {c \in Caches : Due(c)} /\ tried' = {}
  /\ UNCHANGED <<release, cache, domain, lifetime, sent>>

\* A wrong order: nothing after a failed request.
StopAtFailure(s) ==
  CASE pc = "failed" -> "idle" [] s = "health" -> "inventory"
    [] s = "inventory" -> "license" [] s = "license" -> "certificates" [] OTHER -> "idle"

\* The order of the `finally`, whatever became of the request before.
Following(s) ==
  CASE s = "health" -> "inventory" [] s = "inventory" -> "license"
    [] s = "license" -> "certificates" [] OTHER -> "idle"

\* refreshIfDue() of the next stage: a request, or nothing.
NextStage ==
  /\ stage \in Fetching /\ pc \in {"off", "done", "failed"}
  /\ stage' = Following(stage)
  /\ IF stage' \in Caches /\ Due(stage')
       THEN Request /\ tried' = tried \cup {stage'}
       ELSE pc' = "off" /\ UNCHANGED <<attempt, timer, tried>>
  /\ UNCHANGED <<release, cache, domain, lifetime, owed, sent>>

-----------------------------------------------------------------------------
(* close(): the dispatcher refuses new requests at once and waits for the  *)
(* one on the wire, then everything is dropped.                            *)

Close ==
  /\ lifetime = "open"
  /\ lifetime' = "closing"
  /\ UNCHANGED <<stage, requestVars, release, cache, domain, cycleVars, sent>>

Closed ==
  /\ lifetime = "closing" /\ pc # "wire"
  /\ lifetime' = "closed"
  /\ cache' = [c \in Caches |-> Unfilled]
  /\ domain' = FALSE
  /\ UNCHANGED <<stage, requestVars, release, cycleVars, sent>>

-----------------------------------------------------------------------------
Less(n) == IF n > 0 THEN n - 1 ELSE 0
More(n, cap) == IF n < cap THEN n + 1 ELSE cap

\* Time passes while nothing is due.
Tick ==
  /\ pc \in {"due", "spaced"} => timer > 0
  /\ timer' = Less(timer) /\ release' = Less(release)
  /\ cache' = [c \in Caches |->
       IF cache[c].age = Never THEN cache[c]
       ELSE [cache[c] EXCEPT !.age = More(@, Interval(c))]]
  /\ sent' = <<More(sent[1], 2 * Spacing), More(sent[2], 2 * Spacing)>>
  /\ UNCHANGED <<stage, pc, attempt, domain, lifetime, cycleVars>>

Ends == Retry \/ Fail \/ Answered \/ DomainResolved

Next ==
  \/ StartInit \/ FetchSnapshot \/ NextStage
  \/ Reserve \/ Send \/ Ends
  \/ Close \/ Closed
  \/ Tick

Spec == Init /\ [][Next]_vars

\* Timers fire and every attempt is answered or times out.  Nothing obliges
\* anyone to call init(), fetchSnapshot() or close().
Fairness ==
  /\ WF_vars(Tick) /\ WF_vars(Reserve) /\ WF_vars(Send)
  /\ WF_vars(Ends) /\ WF_vars(NextStage) /\ WF_vars(Closed)

FairSpec == Spec /\ Fairness

-----------------------------------------------------------------------------
(* Properties *)

Sending == pc # "wire" /\ pc' = "wire"

\* Lateness does not add up: between any three consecutive GETs, retries and
\* the domain request included, the guard lets at least the spacing minus one
\* timer's lateness pass, so the documented rate holds in the long run.
RateHolds ==
  [][Sending => sent[1] >= Spacing - Late /\ sent[2] >= 2 * Spacing - Late]_vars

\* No request is held for longer than one spacing and one late timer: a
\* reservation nobody uses does not push the next ones further out.
WaitIsBounded == pc = "spaced" => timer <= Spacing + Late

\* A cache that was refreshed and is empty stands for an upstream that listed
\* nothing: lists that could not be read, or joined, never pass for it.
EmptyIsGenuine ==
  \A c \in Caches : cache[c].age # Never /\ cache[c].value = {} => cache[c].bare

\* A fetch that ends has run every refresh that was due when it began,
\* whether or not the health request or another refresh failed; and it asks
\* for certificates only once the inventory they are joined with had its turn.
DueRefreshesRun ==
  [][/\ lifetime = "open" /\ stage \in Fetching /\ stage' = "idle" => owed \subseteq tried
     /\ Sending /\ stage = "certificates" /\ "inventory" \in owed
          => "inventory" \in tried]_vars

\* Every fetch ends, also one that close() interrupts: the poll loop awaits
\* it, and the process awaits the loop's backend.
FetchEnds == stage \in Fetching ~> stage = "idle"
=============================================================================
