----------------------------- MODULE HttpRequest -----------------------------
(***************************************************************************)
(* One call of the HTTP client's get() after another                       *)
(* (src/src/http/client.ts): attempts with their rate-limiting hook, the   *)
(* total-time deadline they share, and the pauses between them             *)
(* (src/src/http/retry.ts), decided by the class of what an attempt met    *)
(* (src/src/http/errors.ts).  Calls share nothing, so one suffices.        *)
(*                                                                         *)
(* Time is a tick, and timers are on time.                                 *)
(***************************************************************************)
EXTENDS Integers

CONSTANTS
  Timeout,      \* timeoutMs, from REQUEST_TIMEOUT_SECONDS
  BaseDelay,    \* BASE_DELAY_MS
  CapDelay,     \* CAP_DELAY_MS, which is also MAX_RETRY_AFTER_MS
  MaxAttempts,  \* MAX_ATTEMPTS
  MaxWait,      \* bound: ticks one beforeAttempt() takes
  RetryAfters   \* bound: the delays a Retry-After header may ask for

ASSUME RequestAssumption ==
  /\ Timeout \in Nat \ {0}
  /\ BaseDelay \in Nat
  /\ CapDelay \in Nat
  /\ MaxAttempts \in Nat \ {0}
  /\ MaxWait \in Nat
  /\ RetryAfters \subseteq Int

VARIABLES
  pc,       \* "hook", "wire", "pause" or "over"
  attempt,  \* attemptNumber
  left,     \* deadline - now
  waited,   \* now - waitStartedAt
  timer,    \* what is left of the AbortSignal on the wire, of the sleep in a pause
  reason,   \* what the last attempt met: "none" before there is one
  spent     \* history: time the call has taken outside beforeAttempt()

vars == <<pc, attempt, left, waited, timer, reason, spent>>

Retryable == {"rate_limited", "http_5xx", "timeout", "network"}
Fatal == {"auth", "unknown"}
Reasons == Retryable \cup Fatal \cup {"none", "ok"}

TypeOK ==
  /\ pc \in {"hook", "wire", "pause", "over"}
  /\ attempt \in 0..(MaxAttempts - 1)
  /\ left \in Int
  /\ waited \in 0..MaxWait
  /\ timer \in Nat
  /\ reason \in Reasons
  /\ spent \in Nat

Init ==
  /\ pc = "hook" /\ attempt = 0
  /\ left = Timeout /\ waited = 0 /\ timer = 0
  /\ reason = "none" /\ spent = 0

-----------------------------------------------------------------------------
(* client.ts: an attempt *)

Floor0(n) == IF n > 0 THEN n ELSE 0
AtMost(n, cap) == IF n < cap THEN n ELSE cap

\* A wrong deadline: the hook's wait is charged to the call.
Charged == left
\* A wrong deadline: each attempt starts with the whole budget.
Anew == Timeout
\* The deadline is pushed out by what the hook took.
PushedOut == left + waited

\* beforeAttempt() resolves; the attempt's AbortSignal gets what remains.
HookResolves ==
  /\ pc = "hook"
  /\ pc' = "wire"
  /\ left' = PushedOut
  /\ timer' = Floor0(left')
  /\ waited' = 0
  /\ UNCHANGED <<attempt, reason, spent>>

-----------------------------------------------------------------------------
(* retry.ts: what follows an attempt *)

\* parseRetryAfterMs(): a date may be past, and no delay exceeds the cap.
RetryAfterMs(delay) == AtMost(Floor0(delay), CapDelay)

\* computeBackoffMs(): full jitter under an exponential envelope.
Backoffs == 0..AtMost(BaseDelay * 2^attempt, CapDelay)

AttemptsLeft == attempt < MaxAttempts - 1

\* An error that may be retried, and is while attempts are left, after one of
\* the given delays; the last one is thrown with its own class and reason.
Retries(why, delays) ==
  /\ reason' = why
  /\ \/ AttemptsLeft /\ pc' = "pause" /\ timer' \in delays
     \/ ~AttemptsLeft /\ pc' = "over" /\ timer' = 0
  /\ UNCHANGED <<attempt, left, waited, spent>>

Ends(why) ==
  /\ pc' = "over" /\ timer' = 0
  /\ reason' = why
  /\ UNCHANGED <<attempt, left, waited, spent>>

\* A response with its body: 2xx; 401 and 403; a 3xx or another 4xx.
Answered == pc = "wire" /\ \E why \in Fatal \cup {"ok"} : Ends(why)

\* 429 or 5xx, with a usable Retry-After or without.
Refused ==
  /\ pc = "wire"
  /\ \E why \in {"rate_limited", "http_5xx"} :
       Retries(why, Backoffs \cup {RetryAfterMs(delay) : delay \in RetryAfters})

\* No response, or one that breaks off: the headers play no part.
NetworkFails == pc = "wire" /\ Retries("network", Backoffs)

\* The AbortSignal fires.
TimesOut == pc = "wire" /\ timer = 0 /\ Retries("timeout", Backoffs)

\* The pause is over: the next attempt begins with its hook.
Wakes ==
  /\ pc = "pause" /\ timer = 0
  /\ pc' = "hook"
  /\ attempt' = attempt + 1
  /\ UNCHANGED <<left, waited, timer, reason, spent>>

\* The next call.
Get ==
  /\ pc = "over"
  /\ pc' = "hook" /\ attempt' = 0
  /\ left' = Timeout /\ waited' = 0 /\ timer' = 0
  /\ reason' = "none" /\ spent' = 0

-----------------------------------------------------------------------------
TickInHook ==
  /\ pc = "hook" /\ waited < MaxWait
  /\ waited' = waited + 1
  /\ UNCHANGED <<timer, spent>>

TickOutside ==
  /\ pc \in {"wire", "pause"} /\ timer > 0
  /\ timer' = timer - 1
  /\ spent' = spent + 1
  /\ UNCHANGED waited

Tick ==
  /\ TickInHook \/ TickOutside
  /\ left' = left - 1
  /\ UNCHANGED <<pc, attempt, reason>>

Next ==
  \/ HookResolves
  \/ Answered \/ Refused \/ NetworkFails \/ TimesOut
  \/ Wakes \/ Get \/ Tick

Spec == Init /\ [][Next]_vars

-----------------------------------------------------------------------------
(* Properties *)

\* An attempt aborted for want of time means that the call has had all of its
\* own: no wait of any of its attempts for the spacing guard or the budget is
\* charged to it.
NeverCutShort == reason = "timeout" => spent >= Timeout

\* However many attempts a call makes, the time it takes outside its hook is
\* the timeout and, past the deadline, no more than the pauses.
TimeBounded == spent <= Timeout + (MaxAttempts - 1) * CapDelay
=============================================================================
