-------------------------- MODULE HttpRequestProofs --------------------------
(***************************************************************************)
(* Proofs about HttpRequest: what the shared deadline promises a call, for *)
(* any timeout, cap, number of attempts, Retry-After and wait of the hook. *)
(***************************************************************************)
EXTENDS HttpRequest, TLAPS

\* Outside the hook's waits the call's own time and the deadline run together.
DeadlineKept ==
  /\ left + spent + waited = Timeout
  /\ pc # "hook" => waited = 0

\* The abort signal fires at the deadline, or at once when that is past.
SignalAtDeadline == pc = "wire" => timer = Floor0(left)

\* What the attempts before this one may have added past the deadline.
Overrun == attempt * CapDelay

OverrunBounded ==
  /\ pc \in {"hook", "wire", "over"} => spent <= Timeout + Overrun
  /\ pc = "pause" => spent + timer <= Timeout + Overrun + CapDelay
  /\ pc = "pause" => attempt < MaxAttempts - 1

IInv ==
  /\ TypeOK
  /\ DeadlineKept
  /\ SignalAtDeadline
  /\ OverrunBounded
  /\ NeverCutShort

LEMMA OverrunType == ASSUME TypeOK PROVE Overrun \in Nat
BY RequestAssumption DEF TypeOK, Overrun

\* Every pause is at most the cap.
LEMMA DelaysCapped ==
  ASSUME TypeOK
  PROVE  Backoffs \cup {RetryAfterMs(delay) : delay \in RetryAfters} \subseteq 0..CapDelay
<1>1. \A d \in RetryAfters : RetryAfterMs(d) \in 0..CapDelay
  BY RequestAssumption DEF RetryAfterMs, AtMost, Floor0
<1>2. ASSUME NEW d \in Backoffs PROVE d \in 0..CapDelay
  <2> DEFINE e == BaseDelay * 2^attempt
  <2>1. e \in Int
    BY RequestAssumption DEF TypeOK
  <2>2. d \in 0..AtMost(e, CapDelay)
    BY <1>2 DEF Backoffs
  <2> HIDE DEF e
  <2> QED
    BY <2>1, <2>2, RequestAssumption DEF AtMost
<1> QED
  BY <1>1, <1>2

LEMMA InitIInv == Init => IInv
<1> SUFFICES ASSUME Init PROVE IInv
  OBVIOUS
<1>1. TypeOK
  BY RequestAssumption DEF Init, TypeOK, Reasons
<1>2. Overrun = 0
  BY RequestAssumption DEF Init, Overrun
<1> QED
  BY <1>1, <1>2, RequestAssumption
  DEF Init, IInv, DeadlineKept, SignalAtDeadline, OverrunBounded, NeverCutShort

\* An attempt that met a retryable error leaves the invariant intact, if a
\* timeout is only met at the deadline.
LEMMA RetriesIInv ==
  ASSUME IInv, pc = "wire", NEW why \in Retryable,
         why = "timeout" => spent >= Timeout,
         Retries(why, 0..CapDelay)
  PROVE  IInv'
<1> USE RequestAssumption
<1>1. TypeOK'
  BY DEF IInv, TypeOK, Retries, AttemptsLeft, Reasons
<1>2. Overrun' = Overrun /\ Overrun \in Nat
  BY OverrunType DEF IInv, Retries, Overrun
<1>3. spent <= Timeout + Overrun
  BY DEF IInv, OverrunBounded
<1>4. OverrunBounded'
  <2>1. CASE AttemptsLeft /\ pc' = "pause" /\ timer' \in 0..CapDelay
    <3>1. spent' = spent /\ attempt' = attempt
      BY DEF Retries
    <3>2. spent \in Nat /\ timer' \in Int /\ timer' <= CapDelay
      BY <2>1 DEF IInv, TypeOK
    <3>3. spent + timer' <= Timeout + Overrun + CapDelay
      <4> DEFINE o == Overrun
                 t == timer'
      <4>1. o \in Int /\ t \in Int /\ t <= CapDelay /\ spent <= Timeout + o
        BY <1>2, <1>3, <3>2
      <4> HIDE DEF o, t
      <4>2. spent + t <= Timeout + o + CapDelay
        BY <4>1, <3>2
      <4> QED
        BY <4>2 DEF o, t
    <3> QED
      BY <1>2, <3>1, <3>3, <2>1 DEF OverrunBounded, AttemptsLeft
  <2>2. CASE pc' = "over"
    BY <1>2, <1>3, <2>2 DEF IInv, TypeOK, OverrunBounded, Retries
  <2> QED
    BY <2>1, <2>2 DEF Retries
<1>5. DeadlineKept' /\ SignalAtDeadline' /\ NeverCutShort'
  BY DEF IInv, TypeOK, DeadlineKept, SignalAtDeadline, NeverCutShort, Retries
<1> QED
  BY <1>1, <1>4, <1>5 DEF IInv

LEMMA NextIInv == IInv /\ [Next]_vars => IInv'
<1> SUFFICES ASSUME IInv, [Next]_vars PROVE IInv'
  OBVIOUS
<1> USE RequestAssumption
<1>0. TypeOK /\ Overrun \in Nat
  BY OverrunType DEF IInv
<1>1. CASE HookResolves
  <2>1. TypeOK'
    BY <1>1 DEF IInv, TypeOK, HookResolves, PushedOut, Floor0
  <2>2. Overrun' = Overrun
    BY <1>1 DEF HookResolves, Overrun
  <2>3. OverrunBounded'
    BY <1>0, <1>1, <2>2 DEF IInv, TypeOK, OverrunBounded, HookResolves
  <2>4. DeadlineKept' /\ SignalAtDeadline' /\ NeverCutShort'
    BY <1>1 DEF IInv, TypeOK, DeadlineKept, SignalAtDeadline, NeverCutShort, HookResolves,
                PushedOut, Floor0
  <2> QED
    BY <2>1, <2>3, <2>4 DEF IInv
<1>2. CASE Answered
  <2>1. TypeOK'
    BY <1>2 DEF IInv, TypeOK, Answered, Ends, Reasons
  <2>2. Overrun' = Overrun
    BY <1>2 DEF Answered, Ends, Overrun
  <2>3. OverrunBounded'
    BY <1>0, <1>2, <2>2 DEF IInv, TypeOK, OverrunBounded, Answered, Ends
  <2>4. DeadlineKept' /\ SignalAtDeadline' /\ NeverCutShort'
    BY <1>2 DEF IInv, TypeOK, DeadlineKept, SignalAtDeadline, NeverCutShort, Answered, Ends, Fatal
  <2> QED
    BY <2>1, <2>3, <2>4 DEF IInv
<1>3. CASE Refused
  <2> DEFINE D == Backoffs \cup {RetryAfterMs(delay) : delay \in RetryAfters}
  <2>1. D \subseteq 0..CapDelay
    BY <1>0, DelaysCapped
  <2>2. PICK why \in {"rate_limited", "http_5xx"} : Retries(why, D)
    BY <1>3 DEF Refused
  <2>3. Retries(why, 0..CapDelay)
    <3> HIDE DEF D
    <3> QED
      BY <2>1, <2>2 DEF Retries
  <2>4. why \in Retryable /\ why # "timeout" /\ pc = "wire"
    BY <1>3 DEF Retryable, Refused
  <2> QED
    BY <2>3, <2>4, RetriesIInv
<1>4. CASE NetworkFails
  <2>1. Retries("network", 0..CapDelay)
    BY <1>0, <1>4, DelaysCapped DEF NetworkFails, Retries
  <2> QED
    BY <1>4, <2>1, RetriesIInv DEF NetworkFails, Retryable
<1>5. CASE TimesOut
  <2>1. spent >= Timeout
    BY <1>5 DEF IInv, TypeOK, DeadlineKept, SignalAtDeadline, TimesOut, Floor0
  <2>2. Retries("timeout", 0..CapDelay)
    BY <1>0, <1>5, DelaysCapped DEF TimesOut, Retries
  <2> QED
    BY <1>5, <2>1, <2>2, RetriesIInv DEF TimesOut, Retryable
<1>6. CASE Wakes
  <2>1. TypeOK'
    BY <1>6 DEF IInv, TypeOK, OverrunBounded, Wakes
  <2>2. Overrun' = Overrun + CapDelay
    BY <1>6 DEF IInv, TypeOK, Wakes, Overrun
  <2>3. OverrunBounded'
    BY <1>0, <1>6, <2>2 DEF IInv, TypeOK, OverrunBounded, Wakes
  <2>4. DeadlineKept' /\ SignalAtDeadline' /\ NeverCutShort'
    BY <1>6 DEF IInv, TypeOK, DeadlineKept, SignalAtDeadline, NeverCutShort, Wakes
  <2> QED
    BY <2>1, <2>3, <2>4 DEF IInv
<1>7. CASE Get
  <2>1. TypeOK'
    BY <1>7 DEF TypeOK, Get, Reasons
  <2>2. Overrun' = 0
    BY <1>7 DEF Get, Overrun
  <2> QED
    BY <1>7, <2>1, <2>2
    DEF Get, IInv, DeadlineKept, SignalAtDeadline, OverrunBounded, NeverCutShort
<1>8. CASE Tick
  <2>1. TypeOK'
    BY <1>8 DEF IInv, TypeOK, Tick, TickInHook, TickOutside
  <2>2. Overrun' = Overrun
    BY <1>8 DEF Tick, Overrun
  <2>3. DeadlineKept' /\ SignalAtDeadline' /\ NeverCutShort'
    BY <1>8 DEF IInv, TypeOK, DeadlineKept, SignalAtDeadline, NeverCutShort,
                Tick, TickInHook, TickOutside, Floor0
  <2>4. OverrunBounded'
    BY <1>0, <1>8, <2>2 DEF IInv, TypeOK, OverrunBounded, DeadlineKept, SignalAtDeadline, Floor0,
                            Tick, TickInHook, TickOutside
  <2> QED
    BY <2>1, <2>3, <2>4 DEF IInv
<1>9. CASE UNCHANGED vars
  BY <1>9 DEF vars, IInv, TypeOK, DeadlineKept, SignalAtDeadline, OverrunBounded, Overrun,
              NeverCutShort
<1> QED
  BY <1>1, <1>2, <1>3, <1>4, <1>5, <1>6, <1>7, <1>8, <1>9 DEF Next

LEMMA Inductive == Spec => []IInv
BY InitIInv, NextIInv, PTL DEF Spec

-----------------------------------------------------------------------------
\* Every variable keeps its type; there are never more than MAX_ATTEMPTS.
THEOREM TypeCorrect == Spec => []TypeOK
<1>1. IInv => TypeOK
  BY DEF IInv
<1> QED
  BY Inductive, <1>1, PTL

\* The deadline of client.ts never charges a call for waiting on the rate
\* limit, whatever the attempts before waited.
THEOREM NoCallCutShort == Spec => []NeverCutShort
<1>1. IInv => NeverCutShort
  BY DEF IInv
<1> QED
  BY Inductive, <1>1, PTL

\* The attempts of client.ts share one deadline, which only the pauses of
\* retry.ts can overrun.
THEOREM CallTimeBounded == Spec => []TimeBounded
<1>1. IInv => TimeBounded
  <2> SUFFICES ASSUME IInv PROVE TimeBounded
    OBVIOUS
  <2>1. attempt * CapDelay <= (MaxAttempts - 1) * CapDelay
    BY RequestAssumption DEF IInv, TypeOK
  <2>2. pc = "pause" => attempt * CapDelay + CapDelay <= (MaxAttempts - 1) * CapDelay
    BY RequestAssumption DEF IInv, TypeOK, OverrunBounded
  <2> DEFINE A == attempt * CapDelay
             B == (MaxAttempts - 1) * CapDelay
  <2>3. A \in Int /\ B \in Int
    BY RequestAssumption DEF IInv, TypeOK
  <2>4. A <= B /\ (pc = "pause" => A + CapDelay <= B) /\ Overrun = A
    BY <2>1, <2>2 DEF Overrun
  <2>5. spent <= Timeout + B
    <3> HIDE DEF A, B
    <3> QED
      BY <2>3, <2>4, RequestAssumption DEF IInv, TypeOK, OverrunBounded
  <2> QED
    BY <2>5 DEF TimeBounded
<1> QED
  BY Inductive, <1>1, PTL
=============================================================================
