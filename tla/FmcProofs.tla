----------------------------- MODULE FmcProofs -----------------------------
(***************************************************************************)
(* Proofs about the parts of the FMC adapter.  FmcFanOut: the limiter's    *)
(* slots and the budget's window, for any number of tasks, any             *)
(* concurrency, budget, window, number of attempts and backoff.            *)
(* FmcDiscovery: the list of devices, for any fleet, page size and number  *)
(* of pages.                                                               *)
(***************************************************************************)
EXTENDS FmcFanOut, FmcDiscovery, FiniteSetTheorems, FunctionTheorems, SequenceTheorems,
        WellFoundedInduction, TLAPS

\* Outside the fan-out no task has a request under way.
AtRest == stage # "fanout" => \A t \in Tasks : Over(t)

\* The queue is the last tasks of the poll, in order, and they alone wait.
QueueInOrder ==
  /\ Len(queue) <= NTasks
  /\ \A i \in 1..Len(queue) : queue[i] = NTasks - Len(queue) + i
  /\ \A t \in Tasks : req[t].pc = "queued" <=> t > NTasks - Len(queue)

SlotsHeld ==
  /\ slots = Cardinality(Holders)
  /\ queue # <<>> => slots = MaxConcurrent

IInv == TypeOK /\ AtRest /\ QueueInOrder /\ SlotsHeld

LEMMA Numbers ==
  /\ NTasks \in Nat /\ MaxConcurrent \in Nat /\ MaxConcurrent > 0
  /\ Tasks \subseteq Requests /\ Discovery \in Requests \ Tasks
  /\ License \in Requests \ Tasks /\ Certificates \in Requests \ Tasks
BY FanOutAssumption DEF Tasks, Requests, Discovery, License, Certificates

LEMMA FreshType == \A pc \in {"off", "queued", "acquire", "out", "backoff", "over"} : Fresh(pc) \in Request
BY FanOutAssumption DEF Fresh, Request

LEMMA HoldersFinite == IsFiniteSet(Holders) /\ Cardinality(Holders) \in Nat
<1>1. IsFiniteSet(Tasks)
  BY FS_Interval, FanOutAssumption DEF Tasks
<1>2. Holders \in SUBSET Tasks
  BY DEF Holders
<1> QED
  BY <1>1, <1>2, FS_Subset, FS_CardinalityType

LEMMA PrunedType == TypeOK => Pruned \in Seq(0..Window)
<1> SUFFICES ASSUME TypeOK PROVE Pruned \in Seq(0..Window)
  OBVIOUS
<1> DEFINE gone == {i \in DOMAIN log : Expired(log[i])}
<1>1. log \in Seq(0..Window) /\ Len(log) \in Nat /\ DOMAIN log = 1..Len(log)
  BY DEF TypeOK
<1>2. /\ IsFiniteSet(1..Len(log)) /\ Cardinality(1..Len(log)) = Len(log)
      /\ gone \in SUBSET (1..Len(log))
  BY <1>1, FS_Interval
<1>3. Cardinality(gone) \in Nat /\ Cardinality(gone) <= Len(log)
  BY <1>2, FS_Subset, FS_CardinalityType
<1>4. Pruned = SubSeq(log, 1 + Cardinality(gone), Len(log))
  BY DEF Pruned
<1> HIDE DEF gone
<1>5. \A i \in (1 + Cardinality(gone))..Len(log) : log[i] \in 0..Window
  <2> DEFINE k == Cardinality(gone)
  <2>1. k \in Nat
    BY <1>3
  <2> HIDE DEF k
  <2>2. \A i \in (1 + k)..Len(log) : i \in 1..Len(log)
    BY <1>1, <2>1
  <2>3. \A i \in 1..Len(log) : log[i] \in 0..Window
    BY <1>1, ElementOfSeq
  <2>4. \A i \in (1 + k)..Len(log) : log[i] \in 0..Window
    BY <2>2, <2>3
  <2> QED
    BY <2>4 DEF k
<1>6. SubSeq(log, 1 + Cardinality(gone), Len(log)) \in Seq(0..Window)
  <2>1. 1 + Cardinality(gone) \in Int /\ Len(log) \in Int
    BY <1>1, <1>3
  <2> QED
    BY <1>5, <2>1, SubSeqProperties, Zenon
<1> QED
  BY <1>4, <1>6

-----------------------------------------------------------------------------
LEMMA InitIInv == Init => IInv
<1> SUFFICES ASSUME Init PROVE IInv
  OBVIOUS
<1>1. TypeOK
  <2>1. req \in [Requests -> Request]
    BY FreshType DEF Init
  <2> QED
    BY <2>1, FanOutAssumption DEF Init, TypeOK, Stages, Recent
<1>2. AtRest /\ QueueInOrder
  BY Numbers DEF Init, AtRest, QueueInOrder, Over, Fresh, Tasks
<1>3. Holders = {}
  BY Numbers DEF Init, Holders, Fresh
<1>4. SlotsHeld
  BY <1>3, FS_EmptySet DEF Init, SlotsHeld
<1> QED
  BY <1>1, <1>2, <1>4 DEF IInv

\* A step that leaves every task waiting, holding or over as it was.
LEMMA PlacesKept ==
  ASSUME IInv, TypeOK', UNCHANGED <<slots, queue>>,
         stage' = "fanout" => stage = "fanout",
         stage' # "fanout" => \A t \in Tasks : Over(t),
         \A t \in Tasks :
           /\ req'[t].pc = "queued" <=> req[t].pc = "queued"
           /\ req'[t].pc \in {"off", "over"} <=> req[t].pc \in {"off", "over"}
  PROVE  IInv'
<1>1. Holders' = Holders
  <2>1. \A t \in Tasks : req[t].pc \in {"acquire", "out", "backoff"}
                         <=> req'[t].pc \in {"acquire", "out", "backoff"}
    BY Numbers DEF IInv, TypeOK, Request
  <2> QED
    BY <2>1 DEF Holders
<1>2. AtRest' /\ QueueInOrder'
  BY DEF IInv, AtRest, QueueInOrder, Over
<1>3. SlotsHeld'
  BY <1>1 DEF IInv, SlotsHeld
<1> QED
  BY <1>2, <1>3 DEF IInv

-----------------------------------------------------------------------------
LEMMA SoloStep ==
  ASSUME IInv, NEW name \in Stages \ {"fanout"}, NEW r \in Requests \ Tasks,
         \A t \in Tasks : Over(t), Solo(name, r)
  PROVE  IInv'
<1>1. PICK due \in BOOLEAN : req' = [req EXCEPT ![r] = Fresh(IF due THEN "acquire" ELSE "off")]
  BY DEF Solo
<1>2. req' \in [Requests -> Request]
  BY <1>1, FreshType DEF IInv, TypeOK
<1>3. TypeOK'
  BY <1>2 DEF IInv, TypeOK, Solo
<1>4. \A t \in Tasks : req'[t] = req[t]
  BY <1>1, Numbers DEF IInv, TypeOK
<1> QED
  BY <1>3, <1>4, PlacesKept DEF Solo

LEMMA FanOutStep == ASSUME IInv, FanOut PROVE IInv'
<1>1. Running \in Nat /\ Running <= NTasks /\ Running <= MaxConcurrent
      /\ (Running < NTasks => Running = MaxConcurrent)
  BY Numbers DEF Running
<1>2. /\ queue' = [i \in 1..(NTasks - Running) |-> Running + i]
      /\ slots' = Running /\ stage' = "fanout"
      /\ req' = [r \in Requests |->
                   IF r \notin Tasks THEN req[r]
                   ELSE Fresh(IF r <= Running THEN "acquire" ELSE "queued")]
  BY DEF FanOut
<1>3. queue' \in Seq(Tasks) /\ Len(queue') = NTasks - Running
  <2>1. NTasks - Running \in Nat
    BY <1>1, Numbers
  <2>2. \A i \in 1..(NTasks - Running) : Running + i \in Tasks
    BY <1>1, Numbers DEF Tasks
  <2> QED
    BY <1>2, <2>1, <2>2
<1>4. TypeOK'
  <2>1. req' \in [Requests -> Request]
    BY <1>2, FreshType DEF IInv, TypeOK
  <2>2. slots' \in 0..MaxConcurrent
    BY <1>1, <1>2, Numbers
  <2> QED
    BY <1>2, <1>3, <2>1, <2>2 DEF IInv, TypeOK, FanOut, Stages
<1>5. \A t \in Tasks : /\ req'[t].pc = IF t <= Running THEN "acquire" ELSE "queued"
                       /\ t \in Int
  BY <1>2, Numbers DEF Fresh, Tasks
<1>6. AtRest' /\ QueueInOrder'
  <2>1. Len(queue') <= NTasks /\ NTasks - Len(queue') = Running
    BY <1>1, <1>3, Numbers
  <2>2. \A i \in 1..Len(queue') : queue'[i] = Running + i
    BY <1>2, <1>3
  <2>3. \A t \in Tasks : req'[t].pc = "queued" <=> t > Running
    BY <1>1, <1>5
  <2> QED
    BY <1>2, <2>1, <2>2, <2>3 DEF AtRest, QueueInOrder
<1>7. Holders' = 1..Running
  BY <1>1, <1>5, Numbers DEF Holders, Tasks
<1>8. Cardinality(1..Running) = Running
  BY <1>1, FS_Interval
<1>9. SlotsHeld'
  BY <1>1, <1>2, <1>3, <1>7, <1>8, Numbers DEF SlotsHeld
<1> QED
  BY <1>4, <1>6, <1>9 DEF IInv

LEMMA PollDoneStep == ASSUME IInv, PollDone PROVE IInv'
<1>1. TypeOK'
  BY FreshType DEF PollDone, IInv, TypeOK, Stages
<1>2. \A t \in Tasks : Over(t)
  BY DEF PollDone, IInv, AtRest
<1>3. \A t \in Tasks : req'[t].pc = "off"
  BY Numbers DEF PollDone, Fresh
<1> QED
  BY <1>1, <1>2, <1>3, PlacesKept DEF PollDone, Over

-----------------------------------------------------------------------------
LEMMA AcquireStep == ASSUME IInv, NEW r \in Requests, Acquire(r) PROVE IInv'
<1>1. req[r].pc \in {"acquire", "backoff"} /\ UNCHANGED <<stage, slots, queue>>
  BY DEF Acquire, Ready
<1>2. req[r] \in Request /\ req \in [Requests -> Request]
  BY DEF IInv, TypeOK
<1>3. Pruned \in Seq(0..Window)
  BY PrunedType DEF IInv
<1>4. CASE Len(Pruned) < MaxRequests
  <2>1. /\ log' = Append(Pruned, 0)
        /\ sent' = [k \in Recent |-> IF k = 1 THEN 0 ELSE sent[k - 1]]
        /\ req' = [req EXCEPT ![r].pc = "out"]
    BY <1>4 DEF Acquire
  <2>2. req' \in [Requests -> Request] /\ \A t \in Tasks : t # r => req'[t] = req[t]
    BY <1>2, <2>1, Numbers DEF Request
  <2>3. log' \in Seq(0..Window) /\ sent' \in [Recent -> 0..Window]
    <3>1. 0 \in 0..Window
      BY FanOutAssumption
    <3>2. log' \in Seq(0..Window)
      BY <1>3, <2>1, <3>1, AppendProperties
    <3>3. sent' \in [Recent -> 0..Window]
      BY <2>1, <3>1, FanOutAssumption DEF IInv, TypeOK, Recent
    <3> QED
      BY <3>2, <3>3
  <2>4. TypeOK'
    BY <1>1, <2>2, <2>3 DEF IInv, TypeOK
  <2>5. req'[r].pc = "out"
    BY <1>2, <2>1 DEF Request
  <2>6. ~Over(r)
    BY <1>1 DEF Over
  <2> QED
    BY <1>1, <2>2, <2>4, <2>5, <2>6, PlacesKept DEF IInv, AtRest
<1>5. CASE ~(Len(Pruned) < MaxRequests)
  <2>1. /\ log' = Pruned /\ UNCHANGED sent
        /\ req' = [req EXCEPT ![r].pc = "acquire", ![r].timer = WaitFor(Head(Pruned))]
    BY <1>5 DEF Acquire
  <2>2. WaitFor(Head(Pruned)) \in Nat
    <3>1. Len(Pruned) > 0
      BY <1>3, <1>5, FanOutAssumption
    <3>2. Pruned # <<>>
      BY <3>1
    <3>3. Head(Pruned) \in 0..Window
      BY <1>3, <3>2, HeadTailProperties, Zenon
    <3> QED
      BY <3>3, FanOutAssumption DEF WaitFor
  <2>3. /\ req' \in [Requests -> Request] /\ req'[r].pc = "acquire"
        /\ \A t \in Tasks : t # r => req'[t] = req[t]
    BY <1>2, <2>1, <2>2, Numbers DEF Request
  <2>4. TypeOK'
    BY <1>1, <1>3, <2>1, <2>3 DEF IInv, TypeOK
  <2>5. ~Over(r)
    BY <1>1 DEF Over
  <2> QED
    BY <1>1, <2>3, <2>4, <2>5, PlacesKept DEF IInv, AtRest
<1> QED
  BY <1>4, <1>5

LEMMA AttemptStep ==
  ASSUME IInv, NEW r \in Requests, Retries(r) \/ Reauths(r)
  PROVE  IInv'
<1>1. req[r] \in Request /\ req \in [Requests -> Request]
  BY DEF IInv, TypeOK
<1>2. req[r].pc = "out" /\ UNCHANGED <<stage, slots, queue, log, sent>>
  BY DEF Retries, Reauths
<1>3. /\ req' \in [Requests -> Request] /\ req'[r].pc \in {"acquire", "backoff"}
      /\ \A t \in Tasks : t # r => req'[t] = req[t]
  <2>1. CASE Retries(r)
    <3>1. PICK pause \in 0..MaxBackoffTicks :
            req' = [req EXCEPT ![r].pc = "backoff", ![r].attempt = @ + 1, ![r].timer = pause]
      BY <2>1 DEF Retries
    <3>2. req[r].attempt + 1 \in 1..MaxAttempts /\ pause \in Nat
      <4>1. req[r].attempt < MaxAttempts
        BY <2>1 DEF Retries
      <4> QED
        BY <1>1, <4>1, FanOutAssumption DEF Request
    <3> QED
      BY <1>1, <3>1, <3>2, Numbers DEF Request
  <2>2. CASE Reauths(r)
    <3>1. [Fresh("acquire") EXCEPT !.round = 2] \in Request
          /\ [Fresh("acquire") EXCEPT !.round = 2].pc = "acquire"
      BY FreshType DEF Fresh, Request
    <3> QED
      BY <1>1, <2>2, <3>1, Numbers DEF Reauths
  <2> QED
    BY <2>1, <2>2
<1>4. TypeOK'
  BY <1>2, <1>3 DEF IInv, TypeOK
<1> QED
  BY <1>2, <1>3, <1>4, PlacesKept DEF IInv, AtRest, Over

LEMMA TickStep == ASSUME IInv, Tick PROVE IInv'
<1>1. \A r \in Requests : req'[r] \in Request /\ req'[r].pc = req[r].pc
  <2> SUFFICES ASSUME NEW r \in Requests PROVE req'[r] \in Request /\ req'[r].pc = req[r].pc
    OBVIOUS
  <2>1. req[r] \in Request
    BY DEF IInv, TypeOK
  <2>2. req'[r] = IF req[r].timer = 0 THEN req[r] ELSE [req[r] EXCEPT !.timer = @ - 1]
    BY DEF Tick
  <2> QED
    BY <2>1, <2>2 DEF Request
<1>2. req' \in [Requests -> Request]
  BY <1>1 DEF Tick
<1>3. log' \in Seq(0..Window)
  BY FanOutAssumption DEF Tick, Older, IInv, TypeOK
<1>4. sent' \in [Recent -> 0..Window]
  BY FanOutAssumption DEF Tick, Older, IInv, TypeOK
<1>5. TypeOK'
  BY <1>2, <1>3, <1>4 DEF Tick, IInv, TypeOK
<1> QED
  BY <1>1, <1>5, Numbers, PlacesKept DEF Tick, IInv, AtRest

-----------------------------------------------------------------------------
\* A task ends: its slot is freed, or goes to the first task in the queue.
LEMMA ReleaseStep ==
  ASSUME IInv, NEW r \in Tasks, req[r].pc = "out", Release(r), UNCHANGED <<stage, log, sent>>
  PROVE  IInv'
<1>1. req \in [Requests -> Request] /\ req[r] \in Request /\ r \in Requests /\ stage = "fanout"
  BY Numbers DEF IInv, TypeOK, AtRest, Over
<1>2. r \in Holders
  BY DEF Holders
<1>3. queue \in Seq(Tasks) /\ Len(queue) \in Nat
  BY DEF IInv, TypeOK
<1>4. CASE queue = <<>>
  <2>1. slots' = slots - 1 /\ req' = [req EXCEPT ![r] = Fresh("over")] /\ UNCHANGED queue
    BY <1>4 DEF Release
  <2>2. req' \in [Requests -> Request]
    BY <1>1, <2>1, FreshType
  <2>3. req'[r].pc = "over" /\ \A t \in Tasks : t # r => req'[t] = req[t]
    BY <1>1, <2>1, Numbers DEF Fresh
  <2>4. Holders' = Holders \ {r}
    BY <2>3 DEF Holders
  <2>5. Cardinality(Holders') = slots - 1 /\ slots > 0
    <3>1. Cardinality(Holders \ {r}) = Cardinality(Holders) - 1
      BY <1>2, HoldersFinite, FS_RemoveElement
    <3>2. Cardinality(Holders \ {r}) \in Nat
      BY HoldersFinite, FS_RemoveElement, FS_CardinalityType
    <3> QED
      BY <2>4, <3>1, <3>2, HoldersFinite DEF IInv, SlotsHeld
  <2>6. TypeOK'
    BY <2>1, <2>2, <2>5, Numbers DEF IInv, TypeOK
  <2>7. AtRest' /\ QueueInOrder'
    BY <1>1, <2>1, <2>3 DEF IInv, AtRest, QueueInOrder
  <2>8. SlotsHeld'
    BY <1>4, <2>1, <2>5 DEF SlotsHeld
  <2> QED
    BY <2>6, <2>7, <2>8 DEF IInv
<1>5. CASE queue # <<>>
  <2> DEFINE next == Head(queue)
  <2>1. /\ queue' = Tail(queue) /\ UNCHANGED slots
        /\ req' = [req EXCEPT ![r] = Fresh("over"), ![next].pc = "acquire"]
    BY <1>5 DEF Release
  <2>2. Len(queue) > 0 /\ next = queue[1]
    BY <1>3, <1>5
  <2>3. next = NTasks - Len(queue) + 1 /\ next \in Tasks
    BY <1>3, <2>2, Numbers DEF IInv, QueueInOrder
  <2>4. req[next].pc = "queued" /\ next # r /\ next \in Requests /\ req[next] \in Request
    BY <1>1, <2>2, <2>3, Numbers DEF IInv, QueueInOrder
  <2> HIDE DEF next
  <2>5. /\ req'[r] = Fresh("over") /\ req'[next] = [req[next] EXCEPT !.pc = "acquire"]
        /\ \A t \in Requests : t \notin {r, next} => req'[t] = req[t]
        /\ DOMAIN req' = Requests /\ req' = [t \in Requests |-> req'[t]]
    BY <1>1, <2>1, <2>4
  <2>6. /\ req'[r].pc = "over" /\ req'[next].pc = "acquire"
        /\ req'[r] \in Request /\ req'[next] \in Request
    BY <2>4, <2>5, FreshType DEF Fresh, Request
  <2>7. req' \in [Requests -> Request]
    <3>1. \A t \in Requests : req'[t] \in Request
      BY <1>1, <2>5, <2>6
    <3> QED
      BY <2>5, <3>1
  <2>8. /\ Len(queue') = Len(queue) - 1 /\ queue' \in Seq(Tasks)
        /\ \A i \in 1..Len(queue') : queue'[i] = queue[i + 1]
    BY <1>3, <1>5, <2>1
  <2>9. TypeOK'
    BY <2>1, <2>7, <2>8 DEF IInv, TypeOK
  <2>10. AtRest'
    BY <1>1 DEF AtRest
  <2>11. QueueInOrder'
    <3>1. Len(queue') <= NTasks
      BY <1>3, <2>8, Numbers DEF IInv, QueueInOrder
    <3>2. \A i \in 1..Len(queue') : queue'[i] = NTasks - Len(queue') + i
      BY <1>3, <2>2, <2>8, Numbers DEF IInv, QueueInOrder
    <3>3. ASSUME NEW t \in Tasks PROVE req'[t].pc = "queued" <=> t > NTasks - Len(queue')
      <4>1. t \in Int /\ (req[t].pc = "queued" <=> t > NTasks - Len(queue))
        BY DEF IInv, QueueInOrder, Tasks
      <4>2. CASE t = next
        BY <1>3, <2>3, <2>6, <2>8, <4>2, Numbers
      <4>3. CASE t = r
        BY <1>3, <2>6, <2>8, <4>1, <4>3, Numbers
      <4>4. CASE t # next /\ t # r
        BY <1>3, <2>3, <2>5, <2>8, <4>1, <4>4, Numbers
      <4> QED
        BY <4>2, <4>3, <4>4
    <3> QED
      BY <3>1, <3>2, <3>3 DEF QueueInOrder
  <2>12. Holders' = (Holders \ {r}) \cup {next}
    BY <2>3, <2>4, <2>5, <2>6, Numbers DEF Holders
  <2>13. Cardinality(Holders') = Cardinality(Holders)
    <3>1. IsFiniteSet(Holders \ {r}) /\ Cardinality(Holders \ {r}) = Cardinality(Holders) - 1
      BY <1>2, HoldersFinite, FS_RemoveElement
    <3>2. next \notin Holders \ {r}
      BY <2>4 DEF Holders
    <3>3. Cardinality(Holders') = Cardinality(Holders \ {r}) + 1
      BY <2>12, <3>1, <3>2, FS_AddElement
    <3> QED
      BY <3>1, <3>3, HoldersFinite
  <2>14. SlotsHeld'
    BY <1>5, <2>1, <2>13 DEF IInv, SlotsHeld
  <2> QED
    BY <2>9, <2>10, <2>11, <2>14 DEF IInv
<1> QED
  BY <1>4, <1>5

LEMMA EndsStep == ASSUME IInv, NEW r \in Requests, Ends(r) PROVE IInv'
<1>1. req[r].pc = "out" /\ UNCHANGED <<stage, log, sent>>
  BY DEF Ends
<1>2. CASE r \in Tasks
  BY <1>1, <1>2, ReleaseStep DEF Ends, End
<1>3. CASE r \notin Tasks
  <2>1. req' = [req EXCEPT ![r] = Fresh("over")] /\ UNCHANGED <<slots, queue>>
    BY <1>3 DEF Ends, End
  <2>2. TypeOK'
    BY <1>1, <2>1, FreshType DEF IInv, TypeOK
  <2>3. \A t \in Tasks : req'[t] = req[t]
    BY <1>3, <2>1, Numbers DEF IInv, TypeOK
  <2> QED
    BY <1>1, <2>1, <2>2, <2>3, PlacesKept DEF IInv, AtRest
<1> QED
  BY <1>2, <1>3

LEMMA StageStep == ASSUME IInv, Poll \/ Stage PROVE IInv'
<1>1. CASE Poll
  <2>1. \A t \in Tasks : Over(t)
    BY <1>1 DEF Poll, IInv, AtRest
  <2> QED
    BY <1>1, <2>1, Numbers, SoloStep DEF Poll, Stages
<1>2. CASE RefreshLicense
  BY <1>2, Numbers, SoloStep DEF RefreshLicense, Stages
<1>3. CASE RefreshCertificates \/ Rediscover
  <2>1. \A t \in Tasks : Over(t)
    BY <1>3 DEF RefreshCertificates, Rediscover, IInv, AtRest
  <2> QED
    BY <1>3, <2>1, Numbers, SoloStep DEF RefreshCertificates, Rediscover, Stages
<1> QED
  BY <1>1, <1>2, <1>3, FanOutStep, PollDoneStep DEF Stage

LEMMA NextIInv == IInv /\ [Next]_vars => IInv'
<1> SUFFICES ASSUME IInv, [Next]_vars PROVE IInv'
  OBVIOUS
<1>1. CASE UNCHANGED vars
  BY <1>1 DEF vars, IInv, TypeOK, AtRest, QueueInOrder, SlotsHeld, Over, Holders
<1> QED
  BY <1>1, StageStep, AcquireStep, EndsStep, AttemptStep, TickStep DEF Next, Answered

-----------------------------------------------------------------------------
(* The budget.  The log forgets what it prunes, so that the GETs of a window *)
(* are at most MaxRequests is an invariant of the log and the history of all *)
(* GETs together: what the log still holds is what went out last, and what   *)
(* it has forgotten is out of the window.                                    *)

LogRecorded ==
  /\ Len(log) <= MaxRequests
  /\ \A k \in Recent : sent[k] = IF k <= Len(log) THEN log[Len(log) - k + 1] ELSE Window
  /\ \A j, k \in Recent : j <= k => sent[j] <= sent[k]

\* A request that sleeps on the budget wakes no later than the oldest of the
\* last MaxRequests GETs leaves the window; one in the queue does not sleep.
Throttled ==
  \A r \in Requests :
    /\ req[r].pc = "queued" => req[r].timer = 0
    /\ req[r].pc = "acquire" /\ req[r].timer > 0 => req[r].timer + sent[MaxRequests] <= Window

\* A set of numbers that holds every smaller one is an interval.
LEMMA DownwardClosed ==
  ASSUME NEW n \in Nat, NEW S \in SUBSET (1..n),
         \A i \in S : \A j \in 1..n : j <= i => j \in S
  PROVE  Cardinality(S) \in 0..n /\ S = 1..Cardinality(S)
<1> DEFINE Out == {i \in 1..(n + 1) : i \notin S}
<1>1. n + 1 \in Out /\ Out \subseteq Nat
  OBVIOUS
<1>2. PICK m \in Out : \A i \in Out : ~(i < m)
  <2>1. IsWellFoundedOn(OpToRel(<, Nat), Nat)
    BY NatLessThanWellFounded
  <2>2. PICK m \in Out : \A i \in Out : ~(<<i, m>> \in OpToRel(<, Nat))
    BY <1>1, <2>1, WFMin
  <2>3. \A i \in Out : i \in Nat /\ m \in Nat /\ (<<i, m>> \in OpToRel(<, Nat) <=> i < m)
    BY <1>1 DEF OpToRel
  <2> QED
    BY <2>2, <2>3
<1>3. S = 1..(m - 1) /\ m \in 1..(n + 1)
  <2>1. m \in 1..(n + 1) /\ m \notin S
    OBVIOUS
  <2>2. ASSUME NEW i \in 1..(m - 1) PROVE i \in S
    <3>1. i \in 1..(n + 1) /\ i < m
      BY <2>1
    <3>2. i \notin Out
      BY <1>2, <3>1
    <3> QED
      BY <3>1, <3>2
  <2>3. ASSUME NEW i \in S PROVE i \in 1..(m - 1)
    <3>1. i \in 1..n
      OBVIOUS
    <3>2. CASE m <= i
      <4>1. m \in 1..n
        BY <2>1, <3>1, <3>2
      <4> QED
        BY <2>1, <3>2, <4>1
    <3> QED
      BY <2>1, <3>1, <3>2
  <2> HIDE DEF Out
  <2> QED
    BY <2>1, <2>2, <2>3
<1>4. Cardinality(1..(m - 1)) = m - 1
  BY <1>3, FS_Interval
<1> QED
  BY <1>3, <1>4

\* pruneExpired() shifts expired entries off the front while there are any
\* there: the log being in order of age, it leaves none behind.
LEMMA PrunedLog ==
  ASSUME TypeOK, LogRecorded
  PROVE  \E m \in 0..Len(log) :
           /\ \A i \in 1..Len(log) : log[i] >= Window <=> i <= m
           /\ Len(Pruned) = Len(log) - m
           /\ \A i \in 1..(Len(log) - m) : Pruned[i] = log[m + i]
<1> DEFINE gone == {i \in DOMAIN log : Expired(log[i])}
           n == Len(log)
<1>1. log \in Seq(0..Window) /\ n \in Nat /\ DOMAIN log = 1..n /\ n <= MaxRequests
  BY DEF TypeOK, LogRecorded
<1>2. \A i \in 1..n : log[i] = sent[n - i + 1] /\ n - i + 1 \in Recent
                      /\ log[i] \in 0..Window
  <2> SUFFICES ASSUME NEW i \in 1..n
               PROVE  log[i] = sent[n - i + 1] /\ n - i + 1 \in Recent /\ log[i] \in 0..Window
    OBVIOUS
  <2>1. n - i + 1 \in Recent /\ n - i + 1 <= n /\ n - (n - i + 1) + 1 = i
    BY <1>1, FanOutAssumption DEF Recent
  <2>2. sent[n - i + 1] = log[n - (n - i + 1) + 1]
    BY <2>1 DEF LogRecorded
  <2>3. log[i] \in 0..Window
    BY <1>1, ElementOfSeq
  <2> QED
    BY <2>1, <2>2, <2>3
<1>3. \A i, j \in 1..n : j <= i => log[j] >= log[i]
  <2> SUFFICES ASSUME NEW i \in 1..n, NEW j \in 1..n, j <= i PROVE log[j] >= log[i]
    OBVIOUS
  <2>1. n - i + 1 <= n - j + 1
    BY <1>1
  <2>2. sent[n - i + 1] <= sent[n - j + 1]
    BY <1>2, <2>1 DEF LogRecorded
  <2> QED
    BY <1>2, <2>2
<1>4. gone \in SUBSET (1..n)
  BY <1>1
<1>5. \A i \in gone : \A j \in 1..n : j <= i => j \in gone
  BY <1>1, <1>2, <1>3, FanOutAssumption DEF Expired
<1> DEFINE m == Cardinality(gone)
<1>6. m \in 0..n /\ gone = 1..m
  <2> HIDE DEF gone, n
  <2> QED BY <1>1, <1>4, <1>5, DownwardClosed
<1>7. \A i \in 1..n : log[i] >= Window <=> i <= m
  <2> SUFFICES ASSUME NEW i \in 1..n PROVE log[i] >= Window <=> i <= m
    OBVIOUS
  <2>1. i \in gone <=> log[i] >= Window
    BY <1>1 DEF Expired
  <2> HIDE DEF gone
  <2>2. i \in gone <=> i <= m
    BY <1>1, <1>6
  <2> QED
    BY <2>1, <2>2
<1>8. Pruned = SubSeq(log, 1 + m, n)
  BY DEF Pruned
<1> HIDE DEF m, n, gone
<1>9. Len(Pruned) = n - m /\ \A i \in 1..(n - m) : Pruned[i] = log[m + i]
  <2>1. 1 + m \in Int /\ n \in Int
    BY <1>1, <1>6
  <2>2. \A i \in (1 + m)..n : log[i] \in 0..Window
    BY <1>1, <1>2, <1>6
  <2>3. /\ Len(SubSeq(log, 1 + m, n)) = IF 1 + m <= n THEN n - (1 + m) + 1 ELSE 0
        /\ \A i \in 1..(n - (1 + m) + 1) : SubSeq(log, 1 + m, n)[i] = log[(1 + m) + i - 1]
    BY <2>1, <2>2, SubSeqProperties
  <2> QED
    BY <1>1, <1>6, <1>8, <2>3
<1> QED
  BY <1>6, <1>7, <1>9 DEF n

-----------------------------------------------------------------------------
LEMMA InitBudget == Init => LogRecorded /\ Throttled
<1> SUFFICES ASSUME Init PROVE LogRecorded /\ Throttled
  OBVIOUS
<1>1. LogRecorded
  BY FanOutAssumption DEF Init, LogRecorded, Recent
<1>2. Throttled
  BY DEF Init, Throttled, Fresh
<1> QED
  BY <1>1, <1>2

\* A step that sends nothing and lets no time pass, and puts nothing to sleep
\* on the budget or in the queue.
LEMMA BudgetStays ==
  ASSUME LogRecorded, Throttled, UNCHANGED <<log, sent>>,
         \A r \in Requests : req'[r] = req[r] \/ req'[r].timer = 0
                             \/ req'[r].pc \notin {"queued", "acquire"}
  PROVE  LogRecorded' /\ Throttled'
<1>1. LogRecorded'
  BY DEF LogRecorded
<1>2. Throttled'
  BY DEF Throttled
<1> QED
  BY <1>1, <1>2

LEMMA AcquireBudget ==
  ASSUME IInv, LogRecorded, Throttled, NEW r \in Requests, Acquire(r)
  PROVE  LogRecorded' /\ Throttled'
<1> DEFINE n == Len(log)
<1>1. PICK m \in 0..n :
        /\ \A i \in 1..n : log[i] >= Window <=> i <= m
        /\ Len(Pruned) = n - m
        /\ \A i \in 1..(n - m) : Pruned[i] = log[m + i]
  BY PrunedLog DEF IInv
<1>2. /\ log \in Seq(0..Window) /\ n \in Nat /\ n <= MaxRequests
      /\ sent \in [Recent -> 0..Window] /\ req \in [Requests -> Request]
  BY DEF IInv, TypeOK, LogRecorded
<1>3. Pruned \in Seq(0..Window)
  BY PrunedType DEF IInv
<1>4. \A i \in 1..n : log[i] \in 0..Window
  BY <1>2, ElementOfSeq
\* Beyond the pruned log, every GET is out of the window.
<1>5. \A k \in Recent : sent[k] = IF k <= n - m THEN log[n - k + 1] ELSE Window
  <2> SUFFICES ASSUME NEW k \in Recent
               PROVE  sent[k] = IF k <= n - m THEN log[n - k + 1] ELSE Window
    OBVIOUS
  <2>1. sent[k] = IF k <= n THEN log[n - k + 1] ELSE Window
    BY DEF LogRecorded
  <2>2. CASE k > n - m /\ k <= n
    <3>1. n - k + 1 \in 1..n /\ n - k + 1 <= m
      BY <1>2, <2>2 DEF Recent
    <3>2. log[n - k + 1] >= Window /\ log[n - k + 1] \in 0..Window
      BY <1>1, <1>4, <3>1
    <3> QED
      BY <2>1, <2>2, <3>2, FanOutAssumption
  <2> QED
    BY <1>2, <2>1, <2>2 DEF Recent
<1> HIDE DEF n
<1>6. CASE Len(Pruned) < MaxRequests
  <2>1. /\ log' = Append(Pruned, 0)
        /\ sent' = [k \in Recent |-> IF k = 1 THEN 0 ELSE sent[k - 1]]
        /\ req' = [req EXCEPT ![r].pc = "out"]
    BY <1>6 DEF Acquire
  <2>2. /\ Len(log') = n - m + 1 /\ log'[n - m + 1] = 0
        /\ \A i \in 1..(n - m) : log'[i] = log[m + i]
    BY <1>1, <1>2, <1>3, <2>1, AppendProperties
  <2>3. Len(log') <= MaxRequests
    BY <1>1, <1>2, <1>6, <2>2, FanOutAssumption
  <2>4. ASSUME NEW k \in Recent
        PROVE  sent'[k] = IF k <= Len(log') THEN log'[Len(log') - k + 1] ELSE Window
    <3>1. CASE k = 1
      BY <1>2, <2>1, <2>2, <3>1
    <3>2. CASE k # 1
      <4>1. k - 1 \in Recent /\ sent'[k] = sent[k - 1]
        BY <2>1, <3>2, FanOutAssumption DEF Recent
      <4>2. sent'[k] = IF k - 1 <= n - m THEN log[n - (k - 1) + 1] ELSE Window
        BY <1>5, <4>1
      <4>3. CASE k - 1 <= n - m
        <5>1. /\ Len(log') - k + 1 \in 1..(n - m)
              /\ m + (Len(log') - k + 1) = n - (k - 1) + 1
          BY <1>2, <2>2, <3>2, <4>3 DEF Recent
        <5>2. log'[Len(log') - k + 1] = log[n - (k - 1) + 1]
          BY <2>2, <5>1
        <5> QED
          BY <1>2, <2>2, <4>2, <4>3, <5>2 DEF Recent
      <4>4. CASE ~(k - 1 <= n - m)
        BY <1>2, <2>2, <4>2, <4>4 DEF Recent
      <4> QED
        BY <4>3, <4>4
    <3> QED
      BY <3>1, <3>2
  <2>5. ASSUME NEW j \in Recent, NEW k \in Recent, j <= k PROVE sent'[j] <= sent'[k]
    <3>1. CASE j = 1
      BY <1>2, <2>1, <3>1, FanOutAssumption DEF Recent
    <3>2. CASE j # 1
      <4>1. j - 1 \in Recent /\ k - 1 \in Recent /\ j - 1 <= k - 1 /\ k # 1
        BY <2>5, <3>2, FanOutAssumption DEF Recent
      <4>2. sent[j - 1] <= sent[k - 1]
        BY <4>1 DEF LogRecorded
      <4> QED
        BY <2>1, <3>2, <4>1, <4>2
    <3> QED
      BY <3>1, <3>2
  <2>6. LogRecorded'
    <3>1. Recent' = Recent
      BY DEF Recent
    <3> QED
      BY <2>3, <2>4, <2>5, <3>1 DEF LogRecorded
  <2>7. sent'[MaxRequests] <= sent[MaxRequests] /\ sent[MaxRequests] \in Int /\ sent'[MaxRequests] \in Int
    <3>1. MaxRequests \in Recent /\ (MaxRequests # 1 => MaxRequests - 1 \in Recent)
          /\ MaxRequests - 1 <= MaxRequests
      BY FanOutAssumption DEF Recent
    <3>2. MaxRequests # 1 => sent[MaxRequests - 1] <= sent[MaxRequests]
      BY <3>1 DEF LogRecorded
    <3> QED
      BY <1>2, <2>1, <3>1, <3>2
  <2>8. Throttled'
    <3> SUFFICES ASSUME NEW q \in Requests
                 PROVE  /\ req'[q].pc = "queued" => req'[q].timer = 0
                        /\ req'[q].pc = "acquire" /\ req'[q].timer > 0
                             => req'[q].timer + sent'[MaxRequests] <= Window
      BY DEF Throttled
    <3>1. CASE q = r
      BY <1>2, <2>1, <3>1 DEF Request
    <3>2. CASE q # r
      <4>1. req'[q] = req[q] /\ req[q].timer \in Nat
        BY <1>2, <2>1, <3>2 DEF Request
      <4> QED
        BY <2>7, <4>1, FanOutAssumption DEF Throttled
    <3> QED
      BY <3>1, <3>2
  <2> QED
    BY <2>6, <2>8
<1>7. CASE ~(Len(Pruned) < MaxRequests)
  \* The log is full and nothing was pruned: its head is the oldest GET.
  <2>1. m = 0 /\ n = MaxRequests
    BY <1>1, <1>2, <1>7, FanOutAssumption
  <2>2. Pruned = log
    <3>1. Len(Pruned) = Len(log) /\ \A i \in 1..Len(log) : Pruned[i] = log[i]
      BY <1>1, <1>2, <2>1 DEF n
    <3> QED
      BY <1>2, <1>3, <3>1, SeqEqual
  <2>3. /\ log' = log /\ UNCHANGED sent
        /\ req' = [req EXCEPT ![r].pc = "acquire", ![r].timer = WaitFor(Head(log))]
    BY <1>7, <2>2 DEF Acquire
  <2>4. Head(log) = sent[MaxRequests] /\ sent[MaxRequests] < Window /\ sent[MaxRequests] \in Nat
    <3>1. 1 \in 1..n /\ MaxRequests \in Recent /\ n - MaxRequests + 1 = 1
      BY <1>2, <2>1, FanOutAssumption DEF Recent
    <3>2. Head(log) = log[1]
      BY <1>2, <3>1 DEF n
    <3>3. sent[MaxRequests] = log[1]
      <4>1. MaxRequests <= n - m
        BY <1>2, <2>1
      <4>2. sent[MaxRequests] = log[n - MaxRequests + 1]
        BY <1>5, <3>1, <4>1
      <4> QED
        BY <3>1, <4>2
    <3>4. ~(log[1] >= Window) /\ log[1] \in 0..Window
      BY <1>1, <1>4, <2>1, <3>1
    <3> QED
      BY <3>2, <3>3, <3>4, FanOutAssumption
  <2>5. WaitFor(Head(log)) + sent[MaxRequests] <= Window
    BY <2>4, FanOutAssumption DEF WaitFor
  <2>6. Throttled'
    <3> SUFFICES ASSUME NEW q \in Requests
                 PROVE  /\ req'[q].pc = "queued" => req'[q].timer = 0
                        /\ req'[q].pc = "acquire" /\ req'[q].timer > 0
                             => req'[q].timer + sent'[MaxRequests] <= Window
      BY DEF Throttled
    <3>1. CASE q = r
      BY <1>2, <2>3, <2>5, <3>1 DEF Request
    <3>2. CASE q # r
      BY <1>2, <2>3, <3>2 DEF Throttled
    <3> QED
      BY <3>1, <3>2
  <2>7. LogRecorded'
    BY <2>3 DEF LogRecorded
  <2> QED
    BY <2>6, <2>7
<1> QED
  BY <1>6, <1>7

\* Time moves the sleepers and the history at the same pace.
LEMMA TickBudget ==
  ASSUME IInv, LogRecorded, Throttled, Tick
  PROVE  LogRecorded' /\ Throttled'
<1>1. /\ log \in Seq(0..Window) /\ Len(log) \in Nat /\ Len(log) <= MaxRequests
      /\ sent \in [Recent -> 0..Window] /\ Recent' = Recent
  BY DEF IInv, TypeOK, LogRecorded, Recent
<1>2. /\ log' = [i \in 1..Len(log) |-> Older(log[i])]
      /\ sent' = [k \in Recent |-> Older(sent[k])]
      /\ Len(log') = Len(log)
  BY <1>1 DEF Tick
<1>3. ASSUME NEW k \in Recent
      PROVE  sent'[k] = IF k <= Len(log') THEN log'[Len(log') - k + 1] ELSE Window
  <2>1. sent[k] = IF k <= Len(log) THEN log[Len(log) - k + 1] ELSE Window
    BY DEF LogRecorded
  <2>2. k <= Len(log) => Len(log) - k + 1 \in 1..Len(log)
    BY <1>1 DEF Recent
  <2> QED
    BY <1>2, <2>1, <2>2, FanOutAssumption DEF Older
<1>4. ASSUME NEW j \in Recent, NEW k \in Recent, j <= k PROVE sent'[j] <= sent'[k]
  <2>1. sent[j] <= sent[k]
    BY <1>4 DEF LogRecorded
  <2> QED
    BY <1>1, <1>2, <2>1, FanOutAssumption DEF Older
<1>5. LogRecorded'
  BY <1>1, <1>2, <1>3, <1>4 DEF LogRecorded
<1>6. Throttled'
  <2> SUFFICES ASSUME NEW r \in Requests
               PROVE  /\ req'[r].pc = "queued" => req'[r].timer = 0
                      /\ req'[r].pc = "acquire" /\ req'[r].timer > 0
                           => req'[r].timer + sent'[MaxRequests] <= Window
    BY DEF Throttled
  <2>1. /\ req[r] \in Request
        /\ req'[r] = IF req[r].timer = 0 THEN req[r] ELSE [req[r] EXCEPT !.timer = @ - 1]
    BY DEF Tick, IInv, TypeOK
  <2>2. /\ req'[r].pc = req[r].pc /\ req[r].timer \in Nat
        /\ req'[r].timer = IF req[r].timer = 0 THEN 0 ELSE req[r].timer - 1
    BY <2>1 DEF Request
  <2>3. MaxRequests \in Recent /\ sent[MaxRequests] \in 0..Window
    BY <1>1, FanOutAssumption DEF Recent
  <2>4. sent'[MaxRequests] \in Nat /\ sent'[MaxRequests] <= sent[MaxRequests] + 1
    BY <1>2, <2>3, FanOutAssumption DEF Older
  <2> QED
    BY <2>2, <2>3, <2>4, FanOutAssumption DEF Throttled
<1> QED
  BY <1>5, <1>6

LEMMA EndsBudget ==
  ASSUME IInv, LogRecorded, Throttled, NEW r \in Requests, Ends(r)
  PROVE  LogRecorded' /\ Throttled'
<1>1. /\ UNCHANGED <<log, sent>> /\ req \in [Requests -> Request]
      /\ queue \in Seq(Tasks) /\ Len(queue) \in Nat
  BY DEF Ends, IInv, TypeOK
<1>2. Fresh("over").pc = "over"
  BY DEF Fresh
<1>3. CASE req' = [req EXCEPT ![r] = Fresh("over")]
  <2>1. req'[r] = Fresh("over") /\ \A q \in Requests : q # r => req'[q] = req[q]
    BY <1>1, <1>3
  <2> QED
    BY <1>1, <1>2, <2>1, BudgetStays
<1>4. CASE r \in Tasks /\ queue # <<>> /\ Release(r)
  <2> DEFINE next == Head(queue)
  <2>1. Len(queue) > 0 /\ next = queue[1]
    BY <1>1, <1>4
  <2>2. next = NTasks - Len(queue) + 1 /\ next \in Tasks
    BY <1>1, <2>1, Numbers DEF IInv, QueueInOrder
  <2>3. req[next].pc = "queued" /\ next \in Requests /\ next # r
    BY <1>1, <2>1, <2>2, Numbers DEF IInv, QueueInOrder, Ends
  <2>4. req[next].timer = 0
    BY <2>3 DEF Throttled
  <2>5. req' = [req EXCEPT ![r] = Fresh("over"), ![next].pc = "acquire"]
    BY <1>4 DEF Release
  <2> HIDE DEF next
  <2>6. /\ req'[r] = Fresh("over") /\ req'[next] = [req[next] EXCEPT !.pc = "acquire"]
        /\ \A q \in Requests : q \notin {r, next} => req'[q] = req[q]
    BY <1>1, <2>3, <2>5
  <2>7. req'[next].timer = 0
    BY <1>1, <2>3, <2>4, <2>6 DEF Request
  <2> QED
    BY <1>1, <1>2, <2>6, <2>7, BudgetStays
<1> QED
  BY <1>3, <1>4 DEF Ends, End, Release

LEMMA AttemptBudget ==
  ASSUME IInv, LogRecorded, Throttled, NEW r \in Requests, Retries(r) \/ Reauths(r)
  PROVE  LogRecorded' /\ Throttled'
<1>1. UNCHANGED <<log, sent>> /\ req \in [Requests -> Request]
  BY DEF Retries, Reauths, IInv, TypeOK
<1>2. CASE Retries(r)
  <2>1. PICK pause \in 0..MaxBackoffTicks :
          req' = [req EXCEPT ![r].pc = "backoff", ![r].attempt = @ + 1, ![r].timer = pause]
    BY <1>2 DEF Retries
  <2>2. req'[r].pc = "backoff" /\ \A q \in Requests : q # r => req'[q] = req[q]
    BY <1>1, <2>1 DEF Request
  <2> QED
    BY <1>1, <2>2, BudgetStays
<1>3. CASE Reauths(r)
  <2>1. req'[r].timer = 0 /\ \A q \in Requests : q # r => req'[q] = req[q]
    BY <1>1, <1>3 DEF Reauths, Fresh
  <2> QED
    BY <1>1, <2>1, BudgetStays
<1> QED
  BY <1>2, <1>3

\* A stage starts its requests awake.
LEMMA StageBudget ==
  ASSUME IInv, LogRecorded, Throttled, Poll \/ Stage
  PROVE  LogRecorded' /\ Throttled'
<1>1. req \in [Requests -> Request]
  BY DEF IInv, TypeOK
<1>2. \A pc \in {"off", "queued", "acquire"} : Fresh(pc).timer = 0
  BY DEF Fresh
<1>3. ASSUME NEW name, NEW r \in Requests, Solo(name, r)
      PROVE  LogRecorded' /\ Throttled'
  <2>1. /\ UNCHANGED <<log, sent>>
        /\ req'[r].timer = 0 /\ \A q \in Requests : q # r => req'[q] = req[q]
    BY <1>1, <1>2, <1>3 DEF Solo
  <2> QED
    BY <2>1, BudgetStays
<1>4. CASE FanOut
  <2>1. UNCHANGED <<log, sent>> /\ \A q \in Requests : req'[q] = req[q] \/ req'[q].timer = 0
    BY <1>2, <1>4 DEF FanOut
  <2> QED
    BY <2>1, BudgetStays
<1>5. CASE PollDone
  <2>1. UNCHANGED <<log, sent>> /\ \A q \in Requests : req'[q].timer = 0
    BY <1>2, <1>5 DEF PollDone
  <2> QED
    BY <2>1, BudgetStays
<1> QED
  BY <1>3, <1>4, <1>5, Numbers DEF Stage, Poll, RefreshLicense, RefreshCertificates, Rediscover

LEMMA NextBudget ==
  IInv /\ LogRecorded /\ Throttled /\ [Next]_vars => LogRecorded' /\ Throttled'
<1> SUFFICES ASSUME IInv, LogRecorded, Throttled, [Next]_vars PROVE LogRecorded' /\ Throttled'
  OBVIOUS
<1>1. CASE UNCHANGED vars
  BY <1>1, BudgetStays DEF vars
<1> QED
  BY <1>1, AcquireBudget, TickBudget, EndsBudget, AttemptBudget, StageBudget DEF Next, Answered

LEMMA BudgetInductive == Spec => [](TypeOK /\ LogRecorded /\ Throttled)
<1>1. IInv => TypeOK
  BY DEF IInv
<1> QED
  BY <1>1, InitIInv, NextIInv, InitBudget, NextBudget, PTL DEF Spec

-----------------------------------------------------------------------------
\* Every variable of the fan-out keeps its type: no more slots are ever taken
\* than FMC_MAX_CONCURRENT_REQUESTS (limiter.ts:28).
THEOREM TypeCorrect == Spec => []TypeOK
<1>1. IInv => TypeOK
  BY DEF IInv
<1> QED
  BY <1>1, InitIInv, NextIInv, PTL DEF Spec

\* The limiter loses no slot, wastes none while a task waits and serves the
\* tasks in the order the poll asked for them (limiter.ts:30).
THEOREM SlotsAreHeld == Spec => []SlotsInUse
<1>1. IInv => SlotsInUse
  <2> SUFFICES ASSUME IInv PROVE SlotsInUse
    OBVIOUS
  <2>1. \A s, t \in Tasks : s < t /\ req[s].pc = "queued" => req[t].pc = "queued"
    BY Numbers DEF IInv, TypeOK, QueueInOrder, Tasks
  <2> QED
    BY <2>1 DEF IInv, SlotsHeld, SlotsInUse
<1> QED
  BY <1>1, InitIInv, NextIInv, PTL DEF Spec

\* No window of the budget sees more GETs than FMC allows, whatever is retried,
\* sent again after a 401 or started at once (budget.ts:48).
THEOREM WindowIsKept == Spec => []WindowLimit
<1>1. TypeOK /\ LogRecorded => WindowLimit
  <2> SUFFICES ASSUME TypeOK, LogRecorded PROVE WindowLimit
    OBVIOUS
  <2>1. MaxRequests + 1 \in Recent /\ ~(MaxRequests + 1 <= Len(log))
    BY FanOutAssumption DEF LogRecorded, TypeOK, Recent
  <2> QED
    BY <2>1, FanOutAssumption DEF LogRecorded, WindowLimit
<1> QED
  BY <1>1, BudgetInductive, PTL

\* acquire() lets no request sleep past the moment at which the window has room
\* for it, however many are awake before it (budget.ts:62).
THEOREM ThrottleIsNeeded == Spec => []ThrottledOnlyWhenFull
<1>1. TypeOK /\ Throttled => ThrottledOnlyWhenFull
  <2> SUFFICES ASSUME TypeOK, Throttled, NEW r \in Requests,
                      req[r].pc = "acquire", req[r].timer > 0
               PROVE  sent[MaxRequests] < Window
    BY DEF ThrottledOnlyWhenFull
  <2>1. req[r].timer \in Nat /\ sent[MaxRequests] \in 0..Window
    BY FanOutAssumption DEF TypeOK, Recent, Request
  <2>2. req[r].timer + sent[MaxRequests] <= Window
    BY DEF Throttled
  <2> QED
    BY <2>1, <2>2, FanOutAssumption
<1> QED
  BY <1>1, BudgetInductive, PTL
-----------------------------------------------------------------------------
(***************************************************************************)
(* The discovery of devices.  A discovery during which the fleet rests has *)
(* read a whole number of the server's pages, and lists what is on them.   *)
(***************************************************************************)
LEMMA Products ==
  ASSUME NEW a \in Nat, NEW b \in Nat, NEW c \in Nat, a <= b
  PROVE  a * c \in Nat /\ b * c \in Nat /\ a * c <= b * c
<1>1. a * c \in Nat /\ b * c \in Nat /\ (b - a) * c \in Nat
  OBVIOUS
<1>2. b * c = a * c + (b - a) * c
  OBVIOUS
<1> QED
  BY <1>1, <1>2

LEMMA NextProduct ==
  ASSUME NEW a \in Nat, NEW c \in Nat
  PROVE  a * c \in Nat /\ (a + 1) * c = a * c + c
OBVIOUS

\* How often the first n of some items are a device.
Occurrences(items, n, d) == Cardinality({i \in 1..n : items[i] = d})

LEMMA CountOfFirst ==
  ASSUME NEW n \in Nat, NEW items, NEW d
  PROVE  IsFiniteSet({i \in 1..n : items[i] = d}) /\ Occurrences(items, n, d) \in 0..n
<1> DEFINE named == {i \in 1..n : items[i] = d}
<1>1. IsFiniteSet(1..n) /\ Cardinality(1..n) = n
  BY FS_Interval
<1>2. named \in SUBSET (1..n)
  OBVIOUS
<1> HIDE DEF named
<1>3. IsFiniteSet(named) /\ Cardinality(named) <= n
  BY <1>1, <1>2, FS_Subset
<1>4. Cardinality(named) \in Nat
  BY <1>3, FS_CardinalityType
<1> QED
  BY <1>3, <1>4 DEF named, Occurrences

LEMMA CountsAdd ==
  ASSUME NEW m \in Nat, NEW k \in Nat, NEW all, NEW items, NEW d,
         \A i \in 1..k : items[i] = all[m + i]
  PROVE  Occurrences(all, m + k, d) = Occurrences(all, m, d) + Occurrences(items, k, d)
<1> DEFINE before == {i \in 1..m : all[i] = d}
           here == {i \in 1..k : items[i] = d}
           moved == {i \in (m + 1)..(m + k) : all[i] = d}
           move == [i \in here |-> m + i]
<1>1. {i \in 1..(m + k) : all[i] = d} = before \cup moved /\ before \cap moved = {}
  OBVIOUS
<1>2. move \in Bijection(here, moved)
  <2>1. move \in [here -> moved]
    OBVIOUS
  <2>2. \A i, j \in here : move[i] = move[j] => i = j
    OBVIOUS
  <2>3. \A j \in moved : \E i \in here : move[i] = j
    <3> SUFFICES ASSUME NEW j \in moved PROVE \E i \in here : move[i] = j
      OBVIOUS
    <3>1. j - m \in 1..k /\ m + (j - m) = j
      OBVIOUS
    <3>2. items[j - m] = all[m + (j - m)]
      BY <3>1
    <3>3. items[j - m] = all[j]
      BY <3>1, <3>2
    <3>4. all[j] = d
      OBVIOUS
    <3>5. j - m \in here
      BY <3>1, <3>3, <3>4
    <3> QED
      BY <3>1, <3>5
  <2> HIDE DEF here, moved, move
  <2> QED
    BY <2>1, <2>2, <2>3, Fun_IsBij
<1>3. IsFiniteSet(before) /\ IsFiniteSet(here) /\ Cardinality(before) \in Nat /\ Cardinality(here) \in Nat
  <2>1. IsFiniteSet(before) /\ Cardinality(before) \in 0..m
    BY CountOfFirst, Zenon DEF Occurrences
  <2>2. IsFiniteSet(here) /\ Cardinality(here) \in 0..k
    BY CountOfFirst, Zenon DEF Occurrences
  <2> HIDE DEF before, here
  <2> QED
    BY <2>1, <2>2
<1> HIDE DEF before, here, moved, move
<1>4. IsFiniteSet(moved) /\ Cardinality(moved) = Cardinality(here)
  BY <1>2, <1>3, FS_Bijection DEF ExistsBijection
<1>5. Cardinality(before \cup moved) = Cardinality(before) + Cardinality(moved) - Cardinality({})
  BY <1>1, <1>3, <1>4, FS_Union
<1>6. Cardinality({}) = 0
  BY FS_EmptySet
<1> QED
  BY <1>1, <1>3, <1>4, <1>5, <1>6 DEF before, here, Occurrences

\* What is on a page, wherever the fleet ends.
LEMMA PageOfFleet ==
  ASSUME fleet \in Seq(Items), NEW cap \in Nat \ {0}, server.cap = cap, NEW offset \in Nat
  PROVE  /\ Page(offset) \in Seq(Items)
         /\ Len(Page(offset)) \in 0..cap
         /\ Page(offset) = <<>> <=> Len(Page(offset)) = 0
         /\ offset <= Len(fleet) =>
              /\ Len(Page(offset)) = IF offset + cap < Len(fleet) THEN cap ELSE Len(fleet) - offset
              /\ \A i \in 1..Len(Page(offset)) : Page(offset)[i] = fleet[offset + i]
<1> DEFINE n == Len(fleet)
           last == IF offset + cap < n THEN offset + cap ELSE n
           page == SubSeq(fleet, offset + 1, last)
<1>1. n \in Nat /\ \A i \in 1..n : fleet[i] \in Items
  OBVIOUS
<1>2. last \in Nat /\ last <= n /\ last <= offset + cap
  BY <1>1
<1>3. Page(offset) = page
  BY DEF Page
<1> HIDE DEF n, last
<1>4. \A i \in (offset + 1)..last : fleet[i] \in Items
  BY <1>1, <1>2
<1> DEFINE first == offset + 1
<1>5. /\ page \in Seq(Items)
      /\ Len(page) = IF first <= last THEN last - first + 1 ELSE 0
      /\ \A i \in 1..(last - first + 1) : page[i] = fleet[first + i - 1]
  <2>1. first \in Int /\ last \in Int /\ \A i \in first..last : fleet[i] \in Items
    BY <1>2, <1>4
  <2>2. page = SubSeq(fleet, first, last)
    OBVIOUS
  <2> HIDE DEF first, page
  <2>3. SubSeq(fleet, first, last) \in Seq(Items)
    BY <2>1, SubSeqProperties, Zenon
  <2>4. Len(SubSeq(fleet, first, last)) = IF first <= last THEN last - first + 1 ELSE 0
    BY <2>1, SubSeqProperties
  <2>5. \A i \in 1..(last - first + 1) : SubSeq(fleet, first, last)[i] = fleet[first + i - 1]
    BY <2>1, SubSeqProperties
  <2> QED
    BY <2>2, <2>3, <2>4, <2>5
<1> HIDE DEF page
<1>6. Len(page) \in 0..cap /\ (page = <<>> <=> Len(page) = 0)
  BY <1>2, <1>5
<1>7. ASSUME offset <= n
      PROVE  /\ Len(page) = last - offset
             /\ last - offset = IF offset + cap < n THEN cap ELSE n - offset
             /\ \A i \in 1..Len(page) : page[i] = fleet[offset + i]
  <2>1. offset <= last
    BY <1>1, <1>7 DEF last
  <2>2. Len(page) = last - offset
    BY <1>2, <1>5, <2>1
  <2>3. \A i \in 1..(last - offset) : (offset + 1) + i - 1 = offset + i
    BY <1>2
  <2>4. last - (offset + 1) + 1 = last - offset
    BY <1>2
  <2> QED
    BY <1>1, <1>5, <2>2, <2>3, <2>4 DEF last
<1> QED
  BY <1>3, <1>5, <1>6, <1>7 DEF n

-----------------------------------------------------------------------------
\* Of the first n items the server lists, how many are each device.
Firsts(n) == [d \in Devices |-> Occurrences(fleet, n, d)]

\* A discovery in flight has sent back what it was sent, at most a page a turn.
Paging ==
  /\ run \in [offset : Nat, seen : Nat, list : [Devices -> Nat], page : 0..MaxPages - 1]
  /\ run.seen = run.offset /\ run.offset <= run.page * PageLimit
  /\ \A d \in Devices : run.list[d] <= run.offset

DiscoveryTyped ==
  /\ fleet \in Seq(Items) /\ Len(fleet) <= MaxFleet
  /\ server \in Servers
  /\ phase \in {"token", "domain", "discovery", "ready", "failed"}
  /\ run = Idle \/ Paging
  /\ cached \in Lists
  /\ age \in Never..Interval /\ failures \in {0, 1} /\ changed \in BOOLEAN

\* There is no list before the first discovery.
NotYet == phase \in {"token", "domain", "discovery"} => age = Never

\* A discovery runs only when it is due, and stays due until it succeeds.
InFlight == run # Idle => phase \in {"discovery", "ready"} /\ IsDue

\* While the fleet rests, every page so far was a full one: what was read is
\* the beginning of the fleet, and the next offset is where it ends.
WholePages ==
  run # Idle /\ ~changed =>
    /\ run.offset = run.page * server.cap /\ run.offset <= Len(fleet)
    /\ run.list = Firsts(run.offset)

DiscoveryInv == DiscoveryTyped /\ NotYet /\ InFlight /\ WholePages

LEMMA ServerFacts ==
  ASSUME server \in Servers
  PROVE  /\ server.cap \in Caps /\ server.cap \in 1..PageLimit /\ server.count \in BOOLEAN
         /\ server.limit \in {Absent, 0, server.cap, PageLimit}
         /\ server \in [cap : Caps, limit : {Absent, 0, PageLimit} \cup Caps, count : BOOLEAN]
<1>1. PICK c \in Caps : server \in [cap : {c}, limit : {Absent, 0, c, PageLimit}, count : BOOLEAN]
  BY DEF Servers
<1> QED
  BY <1>1, DiscoveryAssumption

LEMMA NoPageIsNoRun ==
  /\ Idle.page = Absent /\ Absent = -1
  /\ Paging => run # Idle
BY DEF Idle, Absent, Paging

\* What has been seen and counted once the page asked for has arrived.
SeenThen(seen) == seen = run.seen + Len(Page(run.offset))
CountedThen(list) == list = [d \in Devices |-> run.list[d] + Managed(Page(run.offset))[d]]

\* A page turned.
LEMMA PageTurned ==
  ASSUME DiscoveryInv, run # Idle,
         NEW seen, SeenThen(seen), NEW list, CountedThen(list)
  PROVE  /\ Page(run.offset) \in Seq(Items) /\ Len(Page(run.offset)) \in 0..server.cap
         /\ run.offset \in Nat /\ seen = run.offset + Len(Page(run.offset)) /\ seen \in Nat
         /\ run.page \in 0..MaxPages - 1
         /\ seen <= (run.page + 1) * PageLimit /\ (run.page + 1) * PageLimit <= MaxPages * PageLimit
         /\ list \in [Devices -> Nat] /\ \A d \in Devices : list[d] <= seen
         /\ ~changed => list = Firsts(seen)
<1> DEFINE items == Page(run.offset)
<1>1. Paging /\ server \in Servers /\ fleet \in Seq(Items)
  BY DEF DiscoveryInv, DiscoveryTyped
<1>2. server.cap \in Nat \ {0} /\ server.cap <= PageLimit /\ PageLimit \in Nat /\ MaxPages \in Nat
  BY <1>1, ServerFacts, DiscoveryAssumption
<1>3. /\ run.offset \in Nat /\ run.seen = run.offset /\ run.list \in [Devices -> Nat]
      /\ run.page \in 0..MaxPages - 1
      /\ \A d \in Devices : run.list[d] <= run.offset
  BY <1>1 DEF Paging
<1>4. items \in Seq(Items) /\ Len(items) \in 0..server.cap
  BY <1>1, <1>2, <1>3, PageOfFleet
<1>5. \A d \in Devices : Managed(items)[d] = Occurrences(items, Len(items), d)
  <2>1. DOMAIN items = 1..Len(items)
    BY <1>4
  <2> HIDE DEF items
  <2> QED
    BY <2>1 DEF Managed, Occurrences
<1>6. \A d \in Devices : Managed(items)[d] \in 0..Len(items)
  <2>1. Len(items) \in Nat
    BY <1>4
  <2> HIDE DEF items
  <2> SUFFICES ASSUME NEW d \in Devices PROVE Managed(items)[d] \in 0..Len(items)
    OBVIOUS
  <2>2. Occurrences(items, Len(items), d) \in 0..Len(items)
    BY <2>1, CountOfFirst, Zenon
  <2> QED
    BY <1>5, <2>2
<1>7. seen = run.offset + Len(items) /\ seen \in Nat
  BY <1>3, <1>4 DEF SeenThen
<1>8. seen <= (run.page + 1) * PageLimit /\ (run.page + 1) * PageLimit <= MaxPages * PageLimit
  <2> DEFINE page == run.page
             before == page * PageLimit
             after == (page + 1) * PageLimit
             most == MaxPages * PageLimit
  <2>1. run.offset <= before
    BY <1>1 DEF Paging
  <2>2. page \in Nat /\ page + 1 \in Nat /\ page + 1 <= MaxPages
    BY <1>2, <1>3
  <2> HIDE DEF page
  <2>3. after = before + PageLimit /\ before \in Nat
    BY <1>2, <2>2, NextProduct, Products
  <2>4. after <= most /\ most \in Nat
    BY <1>2, <2>2, Products
  <2>5. Len(items) <= PageLimit /\ Len(items) \in Nat
    BY <1>2, <1>4
  <2> HIDE DEF before, after, most, items
  <2>6. seen <= after
    BY <1>2, <1>3, <1>7, <2>1, <2>3, <2>5
  <2> QED
    BY <2>4, <2>6 DEF after, most, page
<1>9. list \in [Devices -> Nat] /\ \A d \in Devices : list[d] <= seen
  <2>1. \A d \in Devices : list[d] \in Nat /\ list[d] <= seen
    <3> SUFFICES ASSUME NEW d \in Devices PROVE list[d] \in Nat /\ list[d] <= seen
      OBVIOUS
    <3> DEFINE known == run.list[d]
               more == Managed(items)[d]
               length == Len(items)
    <3>1. list[d] = known + more
      BY DEF CountedThen
    <3>2. known \in Nat /\ known <= run.offset
      BY <1>3
    <3>3. more \in 0..length /\ length \in Nat /\ seen = run.offset + length
      BY <1>4, <1>6, <1>7
    <3> HIDE DEF known, more, length
    <3> QED
      BY <1>3, <3>1, <3>2, <3>3
  <2>2. list = [d \in Devices |-> list[d]]
    BY DEF CountedThen
  <2> QED
    BY <2>1, <2>2
<1>10. ASSUME ~changed PROVE list = Firsts(seen)
  <2>1. run.offset <= Len(fleet) /\ run.list = Firsts(run.offset)
    BY <1>10 DEF DiscoveryInv, WholePages
  <2>2. \A i \in 1..Len(items) : items[i] = fleet[run.offset + i]
    BY <1>1, <1>2, <1>3, <2>1, PageOfFleet
  <2>3. Len(items) \in Nat
    BY <1>4
  <2> HIDE DEF items
  <2>4. ASSUME NEW d \in Devices
        PROVE  Occurrences(fleet, run.offset + Len(items), d)
                 = Occurrences(fleet, run.offset, d) + Occurrences(items, Len(items), d)
    <3> DEFINE m == run.offset
               k == Len(items)
    <3>1. m \in Nat /\ k \in Nat /\ \A i \in 1..k : items[i] = fleet[m + i]
      BY <1>3, <2>2, <2>3
    <3> HIDE DEF m, k
    <3>2. Occurrences(fleet, m + k, d) = Occurrences(fleet, m, d) + Occurrences(items, k, d)
      BY <3>1, CountsAdd
    <3> QED
      BY <3>2 DEF m, k
  <2>5. ASSUME NEW d \in Devices PROVE Firsts(seen)[d] = run.list[d] + Managed(items)[d]
    BY <1>5, <1>7, <2>1, <2>4, <2>5 DEF Firsts
  <2>6. list = [d \in Devices |-> run.list[d] + Managed(items)[d]] /\ Firsts(seen) = [d \in Devices |-> Firsts(seen)[d]]
    BY DEF Firsts, CountedThen, items
  <2> QED
    BY <2>5, <2>6
<1> QED
  BY <1>3, <1>4, <1>7, <1>8, <1>9, <1>10

\* While the fleet rests, a page that does not end the list is a full one.
LEMMA FullPage ==
  ASSUME DiscoveryInv, run # Idle, ~changed, NEW seen, SeenThen(seen),
         ~IsLast(Page(run.offset), seen)
  PROVE  seen = (run.page + 1) * server.cap /\ seen <= Len(fleet)
<1> DEFINE length == Len(Page(run.offset))
           cap == server.cap
           limit == server.limit
<1>1. /\ cap \in 1..PageLimit /\ PageLimit \in Nat /\ limit \in {-1, 0, cap, PageLimit}
      /\ run.offset \in Nat /\ run.page \in Nat /\ Len(fleet) \in Nat /\ run.offset <= Len(fleet)
      /\ seen = run.offset + length
  BY ServerFacts, DiscoveryAssumption
     DEF DiscoveryInv, DiscoveryTyped, Paging, WholePages, SeenThen, Absent
<1>2. /\ length \in 0..cap
      /\ length = IF run.offset + cap < Len(fleet) THEN cap ELSE Len(fleet) - run.offset
  <2>1. fleet \in Seq(Items) /\ server.cap = cap
    BY DEF DiscoveryInv, DiscoveryTyped
  <2> HIDE DEF cap
  <2>2. cap \in Nat \ {0}
    BY <1>1
  <2> QED
    BY <1>1, <2>1, <2>2, PageOfFleet
<1>3. run.offset + cap < Len(fleet) \/ ~(length < IF limit > 0 THEN limit ELSE PageLimit)
  <2>1. CASE ~LooksShort(Page(run.offset))
    BY <2>1 DEF LooksShort
  <2>2. CASE StillBelowReportedCount(seen)
    <3> HIDE DEF cap, length
    <3> QED
      BY <1>1, <1>2, <2>2 DEF StillBelowReportedCount
  <2> QED
    BY <2>1, <2>2 DEF IsLast
<1>4. length = cap
  <2> DEFINE size == IF limit > 0 THEN limit ELSE PageLimit
  <2> HIDE DEF length, cap, limit
  <2>1. size >= cap /\ size \in Nat
    BY <1>1
  <2>2. run.offset + cap < Len(fleet) \/ ~(length < size)
    BY <1>3
  <2> HIDE DEF size
  <2>3. CASE run.offset + cap < Len(fleet)
    BY <1>2, <2>3
  <2>4. CASE ~(length < size)
    BY <1>1, <1>2, <2>1, <2>4
  <2> QED
    BY <2>2, <2>3, <2>4
<1>5. seen = run.offset + cap /\ seen <= Len(fleet)
  <2> HIDE DEF length, cap
  <2> QED
    BY <1>1, <1>2, <1>4
<1>6. (run.page + 1) * cap = run.page * cap + cap /\ run.offset = run.page * cap
  <2>1. run.page \in Nat /\ cap \in Nat /\ run.offset = run.page * cap
    BY <1>1 DEF DiscoveryInv, WholePages
  <2> HIDE DEF cap
  <2> QED
    BY <2>1, NextProduct
<1> QED
  BY <1>1, <1>5, <1>6

\* Against a server that is understood, it ends where the fleet does.
LEMMA LastPage ==
  ASSUME DiscoveryInv, run # Idle, ~changed, NEW seen, SeenThen(seen),
         IsLast(Page(run.offset), seen), Understood
  PROVE  seen = Len(fleet)
<1> DEFINE length == Len(Page(run.offset))
           cap == server.cap
<1>1. /\ cap \in 1..PageLimit /\ PageLimit \in Nat
      /\ run.offset \in Nat /\ Len(fleet) \in Nat /\ run.offset <= Len(fleet)
      /\ seen = run.offset + length
  BY ServerFacts, DiscoveryAssumption
     DEF DiscoveryInv, DiscoveryTyped, Paging, WholePages, SeenThen
<1>2. /\ length \in 0..cap /\ (Page(run.offset) = <<>> <=> length = 0)
      /\ length = IF run.offset + cap < Len(fleet) THEN cap ELSE Len(fleet) - run.offset
  <2>1. fleet \in Seq(Items) /\ server.cap = cap
    BY DEF DiscoveryInv, DiscoveryTyped
  <2> HIDE DEF cap
  <2>2. cap \in Nat \ {0}
    BY <1>1
  <2> QED
    BY <1>1, <2>1, <2>2, PageOfFleet
<1>3. ~(run.offset + cap < Len(fleet))
  <2> SUFFICES ASSUME run.offset + cap < Len(fleet) PROVE FALSE
    OBVIOUS
  <2>1. length = cap /\ length > 0 /\ seen < Len(fleet)
    <3> HIDE DEF length, cap
    <3> QED
      BY <1>1, <1>2
  <2>2. LooksShort(Page(run.offset)) /\ ~StillBelowReportedCount(seen)
    BY <1>2, <2>1 DEF IsLast
  <2>3. ~server.count
    BY <2>1, <2>2 DEF StillBelowReportedCount
  <2>4. server.limit = cap
    BY <2>3 DEF Understood
  <2>5. length < cap
    BY <1>1, <2>1, <2>2, <2>4 DEF LooksShort
  <2> HIDE DEF length, cap
  <2> QED
    BY <1>1, <2>1, <2>5
<1> HIDE DEF length, cap
<1> QED
  BY <1>1, <1>2, <1>3

-----------------------------------------------------------------------------
LEMMA NothingRead ==
  /\ NoDevices \in Lists /\ NoDevices = Firsts(0)
  /\ FirstPage = [offset |-> 0, seen |-> 0, list |-> NoDevices, page |-> 0]
<1>1. \A d \in Devices : Occurrences(fleet, 0, d) = 0
  <2> SUFFICES ASSUME NEW d \in Devices PROVE Occurrences(fleet, 0, d) = 0
    OBVIOUS
  <2>1. Occurrences(fleet, 0, d) \in 0..0
    BY CountOfFirst
  <2> QED
    BY <2>1
<1>2. MaxPages * PageLimit \in Nat
  BY DiscoveryAssumption, Products
<1>3. NoDevices \in Lists
  <2> DEFINE most == MaxPages * PageLimit
  <2>1. 0 \in 0..most
    BY <1>2
  <2> HIDE DEF most
  <2> QED
    BY <2>1 DEF NoDevices, Lists, most
<1> QED
  BY <1>1, <1>3 DEF NoDevices, Firsts, FirstPage, Idle

LEMMA InitDiscovery == DiscoveryInit => DiscoveryInv
<1> SUFFICES ASSUME DiscoveryInit PROVE DiscoveryInv
  OBVIOUS
<1>1. fleet \in Seq(Items) /\ Len(fleet) <= MaxFleet
  <2>1. PICK n \in 0..MaxFleet : fleet \in [1..n -> Items]
    BY DEF DiscoveryInit, Fleets
  <2> QED
    BY <2>1, DiscoveryAssumption
<1>2. DiscoveryTyped
  <2>1. -1 \in (-1)..Interval /\ 0 \in {0, 1} /\ FALSE \in BOOLEAN
    BY DiscoveryAssumption
  <2> QED
    BY <1>1, <2>1, NothingRead DEF DiscoveryInit, DiscoveryTyped, Never
<1> QED
  BY <1>2 DEF DiscoveryInit, DiscoveryInv, NotYet, InFlight, WholePages

\* A discovery begins.
LEMMA BeginStep ==
  ASSUME DiscoveryInv, Begin, phase' \in {"discovery", "ready"}, IsDue,
         phase' = "discovery" => age = Never,
         UNCHANGED <<fleet, server, cached, age, failures>>
  PROVE  DiscoveryInv'
<1>1. run' = [offset |-> 0, seen |-> 0, list |-> NoDevices, page |-> 0] /\ ~changed' /\ changed' \in BOOLEAN
  BY NothingRead DEF Begin
<1>2. NoDevices \in [Devices -> Nat] /\ \A d \in Devices : NoDevices[d] = 0
  BY DEF NoDevices
<1>3. Paging'
  BY <1>1, <1>2, DiscoveryAssumption DEF Paging
<1>4. DiscoveryTyped'
  BY <1>1, <1>3 DEF DiscoveryInv, DiscoveryTyped, Lists
<1>5. NotYet' /\ InFlight'
  BY DEF NotYet, InFlight, IsDue
<1>6. WholePages'
  <2>1. Firsts(0)' = Firsts(0) /\ server' = server
    BY DEF Firsts
  <2>2. 0 * server.cap = 0 /\ 0 <= Len(fleet)'
    BY ServerFacts, DiscoveryAssumption DEF DiscoveryInv, DiscoveryTyped
  <2> QED
    BY <1>1, <2>1, <2>2, NothingRead DEF WholePages
<1> QED
  BY <1>4, <1>5, <1>6 DEF DiscoveryInv

\* A discovery ends, with a new list or without.
LEMMA EndStep ==
  ASSUME DiscoveryInv, run # Idle, UNCHANGED <<fleet, server>>,
         Fails \/ \E list \in Lists : Succeeds(list)
  PROVE  DiscoveryInv'
<1>1. run' = Idle /\ changed' = FALSE /\ phase \in {"discovery", "ready"} /\ phase' \in {"ready", "failed"}
  BY DEF DiscoveryInv, InFlight, Fails, Succeeds, Ended, Initialised
<1>2. cached' \in Lists /\ age' \in Never..Interval /\ failures' \in {0, 1}
  <2>1. cached \in Lists /\ age \in (-1)..Interval /\ failures \in {0, 1}
    BY DEF DiscoveryInv, DiscoveryTyped, Never
  <2>2. 0 \in (-1)..Interval /\ 1 - failures \in {0, 1}
    BY <2>1, DiscoveryAssumption
  <2>3. CASE Fails
    BY <2>1, <2>2, <2>3 DEF Fails, Never
  <2>4. CASE \E list \in Lists : Succeeds(list)
    BY <2>1, <2>2, <2>4 DEF Succeeds, Never
  <2> QED
    BY <2>3, <2>4
<1>3. DiscoveryTyped'
  BY <1>1, <1>2 DEF DiscoveryInv, DiscoveryTyped
<1>4. NotYet' /\ InFlight' /\ WholePages'
  BY <1>1 DEF NotYet, InFlight, WholePages
<1> QED
  BY <1>3, <1>4 DEF DiscoveryInv

LEMMA PageStep == ASSUME DiscoveryInv, PageArrives PROVE DiscoveryInv'
<1> DEFINE seen == run.seen + Len(Page(run.offset))
           list == [d \in Devices |-> run.list[d] + Managed(Page(run.offset))[d]]
<1>1. run # Idle /\ UNCHANGED <<fleet, server>> /\ SeenThen(seen) /\ CountedThen(list)
  BY DEF PageArrives, SeenThen, CountedThen
<1>2. \/ Succeeds(list) \/ Fails
      \/ /\ ~IsLast(Page(run.offset), seen) /\ ~OutOfPages(run.page)
         /\ run' = [offset |-> run.offset + Len(Page(run.offset)), seen |-> seen,
                    list |-> list, page |-> run.page + 1]
         /\ UNCHANGED <<phase, cached, age, failures, changed>>
  BY DEF PageArrives
<1> HIDE DEF seen, list
<1>3. /\ run.offset \in Nat /\ seen = run.offset + Len(Page(run.offset)) /\ seen \in Nat
      /\ run.page \in 0..MaxPages - 1
      /\ seen <= (run.page + 1) * PageLimit /\ (run.page + 1) * PageLimit <= MaxPages * PageLimit
      /\ list \in [Devices -> Nat] /\ \A d \in Devices : list[d] <= seen
      /\ ~changed => list = Firsts(seen)
  BY <1>1, PageTurned
<1>4. CASE Succeeds(list)
  <2>1. list \in Lists
    <3> DEFINE most == MaxPages * PageLimit
               after == (run.page + 1) * PageLimit
    <3>1. after \in Nat /\ most \in Nat /\ seen <= after /\ after <= most
      BY <1>3, DiscoveryAssumption, Products
    <3> HIDE DEF most, after
    <3>2. \A d \in Devices : list[d] \in 0..most
      BY <1>3, <3>1
    <3> QED
      BY <1>3, <3>2 DEF Lists, most
  <2> QED
    BY <1>1, <1>4, <2>1, EndStep
<1>5. CASE Fails
  BY <1>1, <1>5, EndStep
<1>6. CASE /\ ~IsLast(Page(run.offset), seen) /\ ~OutOfPages(run.page)
           /\ run' = [offset |-> run.offset + Len(Page(run.offset)), seen |-> seen,
                      list |-> list, page |-> run.page + 1]
           /\ UNCHANGED <<phase, cached, age, failures, changed>>
  <2>1. run' = [offset |-> seen, seen |-> seen, list |-> list, page |-> run.page + 1]
    BY <1>3, <1>6
  <2>2. run.page + 1 \in 0..MaxPages - 1
    BY <1>3, <1>6, DiscoveryAssumption DEF OutOfPages
  <2>3. Paging'
    BY <1>3, <2>1, <2>2 DEF Paging
  <2>4. DiscoveryTyped'
    BY <1>1, <1>6, <2>3 DEF DiscoveryInv, DiscoveryTyped, Lists
  <2>5. NotYet' /\ InFlight'
    BY <1>1, <1>6 DEF DiscoveryInv, NotYet, InFlight, IsDue
  <2>6. ASSUME ~changed PROVE seen = (run.page + 1) * server.cap /\ seen <= Len(fleet) /\ list = Firsts(seen)
    BY <1>1, <1>3, <1>6, <2>6, FullPage
  <2>7. WholePages'
    BY <1>1, <1>6, <2>1, <2>6 DEF WholePages, Firsts
  <2> QED
    BY <2>4, <2>5, <2>7 DEF DiscoveryInv
<1> QED
  BY <1>2, <1>4, <1>5, <1>6

\* Items come and go one at a time, at either end.
LEMMA FleetStep == ASSUME DiscoveryInv, FleetChanges PROVE DiscoveryInv'
<1>1. fleet \in Seq(Items) /\ Len(fleet) \in Nat /\ Len(fleet) <= MaxFleet
  BY DEF DiscoveryInv, DiscoveryTyped
<1>2. fleet' \in Seq(Items) /\ Len(fleet') <= MaxFleet
  <2>1. ASSUME NEW i \in DOMAIN fleet,
               fleet' = SubSeq(fleet, 1, i - 1) \o SubSeq(fleet, i + 1, Len(fleet))
        PROVE  fleet' \in Seq(Items) /\ Len(fleet') <= MaxFleet
    <3> DEFINE start == SubSeq(fleet, 1, i - 1)
               rest == SubSeq(fleet, i + 1, Len(fleet))
               before == i - 1
               after == i + 1
               last == Len(fleet)
    <3>1. i \in 1..last /\ last \in Nat /\ last <= MaxFleet /\ \A j \in 1..last : fleet[j] \in Items
      BY <1>1
    <3>2. /\ before \in Int /\ after \in Int /\ last \in Int /\ 1 \in Int
          /\ \A j \in 1..before : fleet[j] \in Items
          /\ \A j \in after..last : fleet[j] \in Items
      BY <3>1
    <3> HIDE DEF before, after, last
    <3>3. start \in Seq(Items) /\ rest \in Seq(Items)
      <4>1. SubSeq(fleet, 1, before) \in Seq(Items)
        BY <3>2, SubSeqProperties, Zenon
      <4>2. SubSeq(fleet, after, last) \in Seq(Items)
        BY <3>2, SubSeqProperties, Zenon
      <4> QED
        BY <4>1, <4>2 DEF before, after, last
    <3>4. /\ Len(SubSeq(fleet, 1, before)) = IF 1 <= before THEN before - 1 + 1 ELSE 0
          /\ Len(SubSeq(fleet, after, last)) = IF after <= last THEN last - after + 1 ELSE 0
      BY <3>2, SubSeqProperties
    <3>5. Len(start) = i - 1 /\ Len(rest) = last - i
      BY <3>1, <3>4 DEF before, after, last
    <3> HIDE DEF start, rest
    <3>6. fleet' = start \o rest
      BY <2>1 DEF start, rest
    <3>7. fleet' \in Seq(Items) /\ Len(fleet') = Len(start) + Len(rest)
      BY <3>3, <3>6, ConcatProperties
    <3>8. Len(fleet') <= MaxFleet
      <4> DEFINE left == Len(start)
                 right == Len(rest)
      <4>1. left = i - 1 /\ right = last - i /\ Len(fleet') = left + right
        BY <3>5, <3>7
      <4> HIDE DEF left, right
      <4>2. left + right = last - 1
        BY <3>1, <4>1
      <4>3. MaxFleet \in Nat
        BY DiscoveryAssumption
      <4>4. last - 1 <= MaxFleet
        BY <3>1, <4>3
      <4> QED
        BY <4>1, <4>2, <4>4
    <3> QED
      BY <3>7, <3>8
  <2>2. ASSUME NEW x \in Items, Len(fleet) < MaxFleet, fleet' \in {Append(fleet, x), <<x>> \o fleet}
        PROVE  fleet' \in Seq(Items) /\ Len(fleet') <= MaxFleet
    <3>1. Append(fleet, x) \in Seq(Items) /\ Len(Append(fleet, x)) = Len(fleet) + 1
      BY <1>1
    <3>2. <<x>> \in Seq(Items) /\ Len(<<x>>) = 1
      OBVIOUS
    <3>3. <<x>> \o fleet \in Seq(Items) /\ Len(<<x>> \o fleet) = 1 + Len(fleet)
      BY <1>1, <3>2, ConcatProperties
    <3>4. fleet' \in Seq(Items) /\ Len(fleet') = Len(fleet) + 1
      <4>1. CASE fleet' = Append(fleet, x)
        BY <3>1, <4>1
      <4>2. CASE fleet' = <<x>> \o fleet
        <5>1. Len(<<x>> \o fleet) = Len(fleet) + 1
          BY <1>1, <3>3
        <5> QED
          BY <3>3, <4>2, <5>1, Zenon
      <4> QED
        BY <2>2, <4>1, <4>2
    <3> QED
      BY <1>1, <2>2, <3>4, DiscoveryAssumption
  <2> QED
    BY <2>1, <2>2 DEF FleetChanges
<1>3. UNCHANGED <<server, phase, run, cached, age, failures>> /\ changed' = (run # Idle)
  BY DEF FleetChanges
<1>4. DiscoveryTyped'
  BY <1>2, <1>3 DEF DiscoveryInv, DiscoveryTyped, Paging
<1>5. NotYet' /\ InFlight' /\ WholePages'
  BY <1>3 DEF DiscoveryInv, NotYet, InFlight, IsDue, WholePages
<1> QED
  BY <1>4, <1>5 DEF DiscoveryInv

\* Time, and the steps of init() that read no page.
LEMMA OtherSteps ==
  ASSUME DiscoveryInv, GetToken \/ ResolveDomain \/ GetDevices \/ TimePasses
  PROVE  DiscoveryInv'
<1>1. CASE GetToken
  <2>1. run = Idle /\ age = Never
    BY <1>1 DEF GetToken, DiscoveryInv, InFlight, NotYet
  <2>2. DiscoveryTyped'
    BY <1>1, <2>1 DEF GetToken, DiscoveryInv, DiscoveryTyped
  <2> QED
    BY <1>1, <2>1, <2>2 DEF GetToken, DiscoveryInv, NotYet, InFlight, WholePages
<1>2. CASE ResolveDomain
  <2>1. run = Idle /\ age = Never /\ IsDue
    BY <1>2 DEF ResolveDomain, DiscoveryInv, InFlight, NotYet, IsDue
  <2>2. CASE phase' = "discovery" /\ Begin
    BY <1>2, <2>1, <2>2, BeginStep DEF ResolveDomain
  <2>3. CASE phase' = "failed" /\ UNCHANGED <<run, changed>>
    <3>1. DiscoveryTyped'
      BY <1>2, <2>1, <2>3 DEF ResolveDomain, DiscoveryInv, DiscoveryTyped
    <3> QED
      BY <1>2, <2>1, <2>3, <3>1 DEF ResolveDomain, DiscoveryInv, NotYet, InFlight, WholePages
  <2> QED
    BY <1>2, <2>2, <2>3 DEF ResolveDomain
<1>3. CASE GetDevices
  BY <1>3, BeginStep DEF GetDevices
<1>4. CASE TimePasses
  <2>1. age \in 0..Interval - 1 /\ Interval \in Nat
    BY <1>4, DiscoveryAssumption DEF TimePasses
  <2>2. ~IsDue /\ age' \in Never..Interval
    BY <1>4, <2>1 DEF TimePasses, IsDue, Never
  <2>3. run = Idle /\ run' = Idle
    BY <1>4, <2>2 DEF DiscoveryInv, InFlight, TimePasses
  <2>4. DiscoveryTyped'
    BY <1>4, <2>2, <2>3 DEF TimePasses, DiscoveryInv, DiscoveryTyped
  <2>5. NotYet'
    BY <1>4, <2>2 DEF TimePasses, DiscoveryInv, NotYet, IsDue
  <2> QED
    BY <2>3, <2>4, <2>5 DEF DiscoveryInv, InFlight, WholePages
<1> QED
  BY <1>1, <1>2, <1>3, <1>4

LEMMA NextDiscovery == DiscoveryInv /\ [DiscoveryNext]_discoveryVars => DiscoveryInv'
<1> SUFFICES ASSUME DiscoveryInv, [DiscoveryNext]_discoveryVars PROVE DiscoveryInv'
  OBVIOUS
<1>1. CASE GetToken \/ ResolveDomain \/ GetDevices \/ TimePasses
  BY <1>1, OtherSteps
<1>2. CASE PageArrives
  BY <1>2, PageStep
<1>3. CASE DiscoveryFails
  BY <1>3, EndStep DEF DiscoveryFails
<1>4. CASE FleetChanges
  BY <1>4, FleetStep
<1>5. CASE UNCHANGED discoveryVars
  BY <1>5 DEF discoveryVars, DiscoveryInv, DiscoveryTyped, Paging, NotYet, InFlight, IsDue, WholePages, Firsts
<1> QED
  BY <1>1, <1>2, <1>3, <1>4, <1>5 DEF DiscoveryNext

LEMMA DiscoveryInductive == DiscoverySpec => []DiscoveryInv
<1> QED
  BY InitDiscovery, NextDiscovery, PTL DEF DiscoverySpec

-----------------------------------------------------------------------------
\* For any fleet, server, number of pages and interval, the run's offsets, its
\* list and the cached one stay within what a run may read.
THEOREM DiscoveryTypeCorrect == DiscoverySpec => []DiscoveryTypeOK
<1>1. DiscoveryInv => DiscoveryTypeOK
  <2> SUFFICES ASSUME DiscoveryInv PROVE DiscoveryTypeOK
    OBVIOUS
  <2> DEFINE most == MaxPages * PageLimit
  <2>1. run \in [offset : 0..most, seen : 0..most, list : Lists, page : Absent..MaxPages - 1]
    <3>1. most \in Nat /\ MaxPages \in Nat \ {0}
      BY DiscoveryAssumption, Products
    <3>2. CASE run = Idle
      <4> HIDE DEF most
      <4>1. 0 \in 0..most /\ Absent \in Absent..MaxPages - 1
        BY <3>1 DEF Absent
      <4> QED
        BY <3>2, <4>1, NothingRead DEF Idle
    <3>3. CASE Paging
      <4> DEFINE page == run.page
                 before == page * PageLimit
      <4>1. run.offset <= before
        BY <3>3 DEF Paging
      <4>2. page \in Nat /\ page <= MaxPages /\ PageLimit \in Nat /\ MaxPages \in Nat
        BY <3>3, DiscoveryAssumption DEF Paging
      <4> HIDE DEF page
      <4>3. before <= most /\ before \in Nat
        BY <4>2, Products
      <4> HIDE DEF before, most
      <4>4. run.offset \in 0..most /\ run.seen = run.offset
        BY <3>1, <3>3, <4>1, <4>3 DEF Paging
      <4>5. run.list \in [Devices -> 0..most]
        <5>1. \A d \in Devices : run.list[d] \in 0..most
          BY <3>1, <3>3, <4>4 DEF Paging
        <5> QED
          BY <3>3, <5>1 DEF Paging
      <4>6. run.page \in Absent..MaxPages - 1
        BY <3>1, <3>3 DEF Paging, Absent
      <4>7. run = [offset |-> run.offset, seen |-> run.seen, list |-> run.list, page |-> run.page]
        BY <3>3 DEF Paging
      <4>8. run.list \in Lists
        BY <4>5 DEF Lists, most
      <4> QED
        BY <4>4, <4>6, <4>7, <4>8
    <3> HIDE DEF most
    <3> QED
      BY <3>2, <3>3 DEF DiscoveryInv, DiscoveryTyped
  <2>2. server \in [cap : Caps, limit : {Absent, 0, PageLimit} \cup Caps, count : BOOLEAN]
    BY ServerFacts DEF DiscoveryInv, DiscoveryTyped
  <2> QED
    BY <2>1, <2>2 DEF DiscoveryInv, DiscoveryTyped, DiscoveryTypeOK
<1> QED
  BY <1>1, DiscoveryInductive, PTL

\* A failed discovery leaves the list and stays due, whatever the interval and
\* whenever it fails; without a list the adapter does not come up.
THEOREM FailureKeepsTheList == DiscoverySpec => FailureKeepsList
<1> DEFINE Kept == failures' # failures =>
                     /\ cached' = cached /\ (age' = Never \/ age' >= Interval)
                     /\ cached = NoDevices /\ phase = "discovery" => phase' = "failed"
<1>1. DiscoveryInv /\ [DiscoveryNext]_discoveryVars => [Kept]_discoveryVars
  <2> SUFFICES ASSUME DiscoveryInv, DiscoveryNext, failures' # failures PROVE Kept
    BY DEF discoveryVars
  <2>1. run # Idle /\ Fails
    <3>1. ~(GetToken \/ ResolveDomain \/ GetDevices \/ FleetChanges \/ TimePasses)
      BY DEF GetToken, ResolveDomain, GetDevices, FleetChanges, TimePasses
    <3>2. ASSUME PageArrives PROVE run # Idle /\ Fails
      BY <3>2 DEF PageArrives, Succeeds
    <3> QED
      BY <3>1, <3>2 DEF DiscoveryNext, DiscoveryFails
  <2>2. IsDue
    BY <2>1 DEF DiscoveryInv, InFlight
  <2>3. cached' = cached /\ (age' = Never \/ age' >= Interval)
    BY <2>1, <2>2 DEF Fails, IsDue
  <2>4. cached = NoDevices /\ phase = "discovery" => phase' = "failed"
    BY <2>1 DEF Fails, Initialised
  <2> QED
    BY <2>3, <2>4
<1>2. [][DiscoveryNext]_discoveryVars /\ []DiscoveryInv => [][Kept]_discoveryVars
  BY <1>1, PTL
<1>3. FailureKeepsList <=> [][Kept]_discoveryVars
  BY DEF FailureKeepsList
<1> QED
  BY <1>2, <1>3, DiscoveryInductive, PTL DEF DiscoverySpec

\* Whatever the size of its pages and of the fleet, a server that is understood
\* and a fleet that rests give the whole list: a run that ends has neither
\* stopped at a page that only looked short nor run out of pages.
THEOREM ListComplete == DiscoverySpec => ListIsComplete
<1> DEFINE Complete ==
             /\ PageArrives /\ run' = Idle /\ ~changed
             /\ Understood /\ Len(fleet) < MaxPages * server.cap
             => cached' = Managed(fleet)
<1>1. DiscoveryInv /\ [DiscoveryNext]_discoveryVars => [Complete]_discoveryVars
  <2> SUFFICES ASSUME DiscoveryInv, PageArrives, run' = Idle, ~changed,
                      Understood, Len(fleet) < MaxPages * server.cap
               PROVE  cached' = Managed(fleet)
    OBVIOUS
  <2> DEFINE seen == run.seen + Len(Page(run.offset))
             list == [d \in Devices |-> run.list[d] + Managed(Page(run.offset))[d]]
  <2>1. run # Idle /\ SeenThen(seen) /\ CountedThen(list)
    BY DEF PageArrives, SeenThen, CountedThen
  <2>2. IF IsLast(Page(run.offset), seen) THEN Succeeds(list)
        ELSE OutOfPages(run.page) \/ run'.page = run.page + 1
    BY DEF PageArrives
  <2> HIDE DEF seen, list
  <2>3. run.page \in 0..MaxPages - 1 /\ list = Firsts(seen)
    BY <2>1, PageTurned
  <2>4. IsLast(Page(run.offset), seen)
    <3> SUFFICES ASSUME ~IsLast(Page(run.offset), seen) PROVE FALSE
      OBVIOUS
    <3>1. ~(run'.page = run.page + 1)
      BY <2>3, NoPageIsNoRun
    <3>2. run.page = MaxPages - 1
      BY <2>2, <3>1 DEF OutOfPages
    <3>3. run.page + 1 = MaxPages
      BY <3>2, DiscoveryAssumption
    <3>4. (run.page + 1) * server.cap <= Len(fleet)
      BY <2>1, FullPage
    <3>5. MaxPages * server.cap <= Len(fleet)
      BY <3>3, <3>4
    <3>6. MaxPages * server.cap \in Nat /\ Len(fleet) \in Nat
      <4>1. server.cap \in Nat /\ MaxPages \in Nat
        BY ServerFacts, DiscoveryAssumption DEF DiscoveryInv, DiscoveryTyped
      <4>2. Len(fleet) \in Nat
        BY DEF DiscoveryInv, DiscoveryTyped
      <4> QED
        BY <4>1, <4>2, Products
    <3> DEFINE most == MaxPages * server.cap
    <3>7. most <= Len(fleet) /\ Len(fleet) < most /\ most \in Nat /\ Len(fleet) \in Nat
      BY <3>5, <3>6
    <3> HIDE DEF most
    <3> QED
      BY <3>7
  <2>5. seen = Len(fleet)
    BY <2>1, <2>4, LastPage
  <2>6. cached' = Firsts(Len(fleet))
    BY <2>2, <2>3, <2>4, <2>5 DEF Succeeds
  <2>7. DOMAIN fleet = 1..Len(fleet)
    BY DEF DiscoveryInv, DiscoveryTyped
  <2> QED
    BY <2>6, <2>7 DEF Firsts, Managed, Occurrences
<1>2. [][DiscoveryNext]_discoveryVars /\ []DiscoveryInv => [][Complete]_discoveryVars
  BY <1>1, PTL
<1>3. ListIsComplete <=> [][Complete]_discoveryVars
  BY DEF ListIsComplete
<1> QED
  BY <1>2, <1>3, DiscoveryInductive, PTL DEF DiscoverySpec
=============================================================================
