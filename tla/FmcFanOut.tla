------------------------------ MODULE FmcFanOut ------------------------------
(***************************************************************************)
(* One FMC poll after another (fetchSnapshot of                            *)
(* src/src/backends/fmc/adapter.ts) as the FMC sees it: when each GET goes *)
(* out.  Discovery first, then every (device, family) request at once      *)
(* behind the concurrency limiter (src/src/http/limiter.ts), then the      *)
(* license and certificate refreshes; each attempt of each of them,        *)
(* retries included (src/src/http/retry.ts), goes through the one rolling  *)
(* request budget (src/src/http/budget.ts).                                *)
(*                                                                         *)
(* Time is a tick.  The budget's timestamps are kept as ages, which stop   *)
(* counting once past the window, so the model has no time horizon.        *)
(***************************************************************************)
EXTENDS Integers, Sequences, FiniteSets

CONSTANTS
  NTasks,          \* (device, family) pairs of a poll
  MaxConcurrent,   \* FMC_MAX_CONCURRENT_REQUESTS
  MaxRequests,     \* budgetMaxRequests, 300
  Window,          \* budgetWindowMs, 60 s
  MaxAttempts,     \* MAX_ATTEMPTS
  MaxBackoffTicks  \* bound: CAP_DELAY_MS

ASSUME FanOutAssumption ==
  /\ NTasks \in Nat
  /\ MaxConcurrent \in Nat \ {0}
  /\ MaxRequests \in Nat \ {0}
  /\ Window \in Nat \ {0}
  /\ MaxAttempts \in Nat \ {0}
  /\ MaxBackoffTicks \in Nat

Tasks == 1..NTasks
Discovery == 0
License == NTasks + 1
Certificates == NTasks + 2
Requests == 0..(NTasks + 2)

VARIABLES
  stage,    \* how far fetchSnapshot() has come
  req,      \* where each request is
  slots,    \* the limiter's inFlight
  queue,    \* the limiter's queue
  log,      \* the budget's timestamps, oldest first, as ages
  sent      \* history: how long ago the k-th last GET went out, never pruned

vars == <<stage, req, slots, queue, log, sent>>

\* One GET more than a window may see.
Recent == 1..(MaxRequests + 1)

Stages == {"idle", "discovery", "fanout", "license", "certificates", "rediscovery"}

\* A request: waiting for a slot, for the budget, on the wire, backing off or
\* over; which call of client.get() this is (a 401 makes a second one), which
\* attempt of it, and what is left of its sleep.
Request == [pc : {"off", "queued", "acquire", "out", "backoff", "over"},
            round : 1..2, attempt : 1..MaxAttempts, timer : Nat]
Fresh(pc) == [pc |-> pc, round |-> 1, attempt |-> 1, timer |-> 0]

TypeOK ==
  /\ stage \in Stages
  /\ req \in [Requests -> Request]
  /\ slots \in 0..MaxConcurrent
  /\ queue \in Seq(Tasks)
  /\ log \in Seq(0..Window)
  /\ sent \in [Recent -> 0..Window]

Init ==
  /\ stage = "idle"
  /\ req = [r \in Requests |-> Fresh("off")]
  /\ slots = 0 /\ queue = <<>>
  /\ log = <<>>
  /\ sent = [k \in Recent |-> Window]

-----------------------------------------------------------------------------
(* fetchSnapshot(): the stages in order.  A solo stage is skipped when its  *)
(* refresh is not due.                                                     *)

Over(r) == req[r].pc \in {"off", "over"}

Solo(name, r) ==
  /\ stage' = name
  /\ \E due \in BOOLEAN : req' = [req EXCEPT ![r] = Fresh(IF due THEN "acquire" ELSE "off")]
  /\ UNCHANGED <<slots, queue, log, sent>>

Poll == stage = "idle" /\ Solo("discovery", Discovery)

\* Every task calls limiter.run() in the same turn: the first ones take the
\* slots, the rest queue in order.
Running == IF NTasks < MaxConcurrent THEN NTasks ELSE MaxConcurrent

FanOut ==
  /\ stage = "discovery" /\ Over(Discovery)
  /\ stage' = "fanout"
  /\ slots' = Running
  /\ queue' = [i \in 1..(NTasks - Running) |-> Running + i]
  /\ req' = [r \in Requests |->
               IF r \notin Tasks THEN req[r]
               ELSE Fresh(IF r <= Running THEN "acquire" ELSE "queued")]
  /\ UNCHANGED <<log, sent>>

RefreshLicense ==
  /\ stage = "fanout" /\ \A t \in Tasks : Over(t)
  /\ Solo("license", License)

RefreshCertificates ==
  stage = "license" /\ Over(License) /\ Solo("certificates", Certificates)

\* The answered certificates are joined with discovery's list, which may have
\* to be fetched again: the discovery of this poll may have failed.
Rediscover ==
  stage = "certificates" /\ req[Certificates].pc = "over" /\ Solo("rediscovery", Discovery)

PollDone ==
  /\ \/ stage = "certificates" /\ Over(Certificates)
     \/ stage = "rediscovery" /\ Over(Discovery)
  /\ stage' = "idle"
  /\ req' = [r \in Requests |-> Fresh("off")]
  /\ UNCHANGED <<slots, queue, log, sent>>

-----------------------------------------------------------------------------
(* The budget *)

\* A wrong prune: the boundary of the window is off by one.
EarlyExpired(age) == age >= Window - 1
Expired(age) == age >= Window

\* The log is in order of age: the expired entries are shifted off its front.
Pruned == SubSeq(log, 1 + Cardinality({i \in DOMAIN log : Expired(log[i])}), Len(log))

\* A wrong wait: past the moment the oldest entry leaves the window.
OverlongWait(age) == Window - age + 1
WaitFor(age) == IF Window - age > 1 THEN Window - age ELSE 1

Ready(r) == req[r].pc \in {"acquire", "backoff"} /\ req[r].timer = 0

\* One turn of acquire()'s loop; its return sends the GET.
Acquire(r) ==
  /\ Ready(r)
  /\ IF Len(Pruned) < MaxRequests
       THEN /\ log' = Append(Pruned, 0)
            /\ sent' = [k \in Recent |-> IF k = 1 THEN 0 ELSE sent[k - 1]]
            /\ req' = [req EXCEPT ![r].pc = "out"]
       ELSE /\ log' = Pruned
            /\ req' = [req EXCEPT ![r].pc = "acquire", ![r].timer = WaitFor(Head(Pruned))]
            /\ UNCHANGED sent
  /\ UNCHANGED <<stage, slots, queue>>

-----------------------------------------------------------------------------
(* An attempt is answered: withRetry() and fetchWithReauth() *)

\* A wrong release: the slot of an ended task is never given back.
LeakySlot(r) == UNCHANGED <<slots, queue>> /\ req' = [req EXCEPT ![r] = Fresh("over")]
\* A wrong release: the slot is freed but nobody is woken.
ForgetfulRelease(r) ==
  slots' = slots - 1 /\ UNCHANGED queue /\ req' = [req EXCEPT ![r] = Fresh("over")]
\* The limiter's release(): the freed slot goes to the head of the queue.
Release(r) ==
  IF queue = <<>>
    THEN /\ slots' = slots - 1
         /\ req' = [req EXCEPT ![r] = Fresh("over")]
         /\ UNCHANGED queue
    ELSE /\ queue' = Tail(queue)
         /\ req' = [req EXCEPT ![r] = Fresh("over"), ![Head(queue)].pc = "acquire"]
         /\ UNCHANGED slots

End(r) ==
  \/ r \in Tasks /\ Release(r)
  \/ r \notin Tasks /\ req' = [req EXCEPT ![r] = Fresh("over")] /\ UNCHANGED <<slots, queue>>

\* 2xx, or an error no attempt follows.
Ends(r) == req[r].pc = "out" /\ End(r) /\ UNCHANGED <<stage, log, sent>>

\* A 5xx, a 429 or a network failure: back off, then through the budget again.
Retries(r) ==
  /\ req[r].pc = "out" /\ req[r].attempt < MaxAttempts
  /\ \E pause \in 0..MaxBackoffTicks :
       req' = [req EXCEPT ![r].pc = "backoff", ![r].attempt = @ + 1, ![r].timer = pause]
  /\ UNCHANGED <<stage, slots, queue, log, sent>>

\* A 401: a second client.get() with a fresh token.  Discovery has none.
Reauths(r) ==
  /\ req[r].pc = "out" /\ req[r].round = 1 /\ r # Discovery
  /\ req' = [req EXCEPT ![r] = [Fresh("acquire") EXCEPT !.round = 2]]
  /\ UNCHANGED <<stage, slots, queue, log, sent>>

Answered(r) == Ends(r) \/ Retries(r) \/ Reauths(r)

-----------------------------------------------------------------------------
Older(age) == IF age < Window THEN age + 1 ELSE Window

Tick ==
  /\ \A r \in Requests : ~Ready(r)
  /\ req' = [r \in Requests |-> IF req[r].timer = 0 THEN req[r]
                                ELSE [req[r] EXCEPT !.timer = @ - 1]]
  /\ log' = [i \in 1..Len(log) |-> Older(log[i])]
  /\ sent' = [k \in Recent |-> Older(sent[k])]
  /\ UNCHANGED <<stage, slots, queue>>

Stage == FanOut \/ RefreshLicense \/ RefreshCertificates \/ Rediscover \/ PollDone

Next ==
  \/ Poll \/ Stage
  \/ \E r \in Requests : Acquire(r) \/ Answered(r)
  \/ Tick

Spec == Init /\ [][Next]_vars

\* Timers fire and every attempt is answered or times out.
Fairness ==
  /\ WF_vars(Tick) /\ WF_vars(Stage)
  /\ \A r \in Requests : WF_vars(Acquire(r)) /\ WF_vars(Answered(r))

FairSpec == Spec /\ Fairness

-----------------------------------------------------------------------------
(* Properties *)

\* No window of Window ticks sees more than MaxRequests GETs, counting the
\* retries, the re-authenticated requests and those outside the limiter: the
\* one that would be too many for the window has always left it.
WindowLimit == sent[MaxRequests + 1] >= Window

\* A request sleeps on the budget only while the budget is full, the last
\* MaxRequests GETs all inside the window: no wait outlasts the moment the
\* window lets a request through.
ThrottledOnlyWhenFull ==
  (\E r \in Requests : req[r].pc = "acquire" /\ req[r].timer > 0)
    => sent[MaxRequests] < Window

Holders == {t \in Tasks : req[t].pc \in {"acquire", "out", "backoff"}}

\* A slot is held by exactly the tasks that have started and not ended, also
\* when they fail, retry or re-authenticate; none is free while a task waits,
\* and tasks start in the order the poll asked for them.
SlotsInUse ==
  /\ slots = Cardinality(Holders)
  /\ queue # <<>> => slots = MaxConcurrent
  /\ stage = "fanout" =>
       \A s, t \in Tasks : s < t /\ req[s].pc = "queued" => req[t].pc = "queued"

\* Every poll ends: no request waits for ever on a slot, a sleep or the budget.
PollEnds == stage # "idle" ~> stage = "idle"
=============================================================================
