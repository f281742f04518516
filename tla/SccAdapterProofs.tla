-------------------------- MODULE SccAdapterProofs --------------------------
(***************************************************************************)
(* Proofs about SccAdapter: the rate the spacing guard keeps, how long it  *)
(* holds a request, what an empty cache stands for, and that a fetch runs  *)
(* every refresh it owes, for any spacing, lateness, number of attempts,   *)
(* backoff, interval and set of devices.                                   *)
(***************************************************************************)
EXTENDS SccAdapter, TLAPS

\* Between requests the next slot is at most one spacing away, and never so
\* near that the two GETs before it would have come too close.
FreeSlot ==
  pc # "spaced" => /\ release <= Spacing
                   /\ release + sent[1] >= Spacing - Late
                   /\ release + sent[2] >= 2 * Spacing - Late

\* A request that sleeps has its own slot and has moved the next one past it.
TakenSlot ==
  pc = "spaced" => /\ timer <= Spacing + Late
                   /\ release <= Spacing + timer
                   /\ release >= timer + Spacing - Late
                   /\ timer + sent[1] >= Spacing - Late
                   /\ timer + sent[2] >= 2 * Spacing - Late
                   /\ release + sent[1] >= 2 * Spacing - Late

\* No request is under way before init() or between two fetches.
AtRest == stage \in {"new", "idle"} => pc = "off"

IInv == TypeOK /\ FreeSlot /\ TakenSlot /\ EmptyIsGenuine

LEMMA Numbers ==
  TypeOK => /\ sent = <<sent[1], sent[2]>> /\ sent[1] \in Nat /\ sent[2] \in Nat
            /\ timer \in Nat /\ release \in Nat
            /\ Spacing \in Nat /\ Spacing > 0 /\ Late \in Nat
BY SccAssumption DEF TypeOK

LEMMA Intervals == \A c \in Caches : Interval(c) \in Nat
BY SccAssumption DEF Interval, Caches

LEMMA InitIInv == Init => IInv
<1> SUFFICES ASSUME Init PROVE IInv
  OBVIOUS
<1>1. TypeOK
  <2>1. Unfilled \in CacheEntry
    BY DEF Unfilled, CacheEntry
  <2>2. 2 * Spacing \in Nat /\ 1 \in 1..MaxAttempts
    BY SccAssumption
  <2> QED
    BY <2>1, <2>2 DEF Init, TypeOK
<1>2. FreeSlot /\ TakenSlot
  BY SccAssumption DEF Init, FreeSlot, TakenSlot
<1>3. EmptyIsGenuine
  BY DEF Init, EmptyIsGenuine, Unfilled
<1> QED
  BY <1>1, <1>2, <1>3 DEF IInv

\* A step that lets no time pass and takes no slot keeps the guard's invariant.
LEMMA SlotsStay ==
  ASSUME IInv, UNCHANGED <<release, sent>>,
         \/ pc' # "spaced" /\ (pc = "spaced" => timer = 0)
         \/ pc' = "spaced" /\ pc = "spaced" /\ timer' = timer
  PROVE  FreeSlot' /\ TakenSlot'
BY Numbers DEF IInv, FreeSlot, TakenSlot

LEMMA CacheStays ==
  ASSUME EmptyIsGenuine, UNCHANGED cache
  PROVE  EmptyIsGenuine'
BY DEF EmptyIsGenuine

LEMMA InitAtRest == Init => AtRest
BY DEF Init, AtRest

LEMMA NextAtRest == AtRest /\ [Next]_vars => AtRest'
<1> SUFFICES ASSUME AtRest, [Next]_vars PROVE AtRest'
  OBVIOUS
<1>1. CASE StartInit \/ FetchSnapshot \/ DomainResolved
  BY <1>1 DEF AtRest, StartInit, FetchSnapshot, DomainResolved
<1>2. CASE NextStage
  BY <1>2 DEF AtRest, NextStage, Following, Caches, Request
<1>3. CASE Reserve \/ Send \/ Retry \/ Fail
  BY <1>3 DEF AtRest, Reserve, Send, Retry, Fail, AttemptFails
<1>4. CASE Answered
  BY <1>4 DEF AtRest, Answered, HealthAnswered, ListAnswered, CertificatesAnswered, Refresh
<1>5. CASE Close \/ Closed \/ Tick \/ UNCHANGED vars
  BY <1>5 DEF AtRest, Close, Closed, Tick, vars, requestVars
<1> QED
  BY <1>1, <1>2, <1>3, <1>4, <1>5 DEF Next, Ends

LEMMA ReserveStep == ASSUME IInv, Reserve PROVE IInv'
<1>1. /\ pc = "due" /\ timer = 0 /\ pc' = "spaced"
      /\ release' = release + Spacing /\ UNCHANGED sent
      /\ timer' \in Nat /\ timer' >= release /\ timer' <= release + Late
  BY Numbers DEF Reserve, Reservation, IInv
<1>2. TypeOK'
  BY <1>1, Numbers DEF IInv, TypeOK, Reserve, cycleVars
<1>3. FreeSlot' /\ TakenSlot'
  BY <1>1, Numbers DEF IInv, FreeSlot, TakenSlot
<1>4. EmptyIsGenuine'
  BY CacheStays DEF IInv, Reserve
<1> QED
  BY <1>2, <1>3, <1>4 DEF IInv

LEMMA SendStep == ASSUME IInv, Send PROVE IInv'
<1>1. /\ pc = "spaced" /\ timer = 0 /\ pc' = "wire"
      /\ sent' = <<0, sent[1]>> /\ UNCHANGED release
  BY DEF Send
<1>2. TypeOK'
  BY <1>1, Numbers DEF IInv, TypeOK, Send, cycleVars
<1>3. FreeSlot' /\ TakenSlot'
  BY <1>1, Numbers DEF IInv, FreeSlot, TakenSlot
<1>4. EmptyIsGenuine'
  BY CacheStays DEF IInv, Send
<1> QED
  BY <1>2, <1>3, <1>4 DEF IInv

LEMMA TickStep == ASSUME IInv, Tick PROVE IInv'
<1>1. /\ pc = "spaced" => timer > 0
      /\ timer' = Less(timer) /\ release' = Less(release)
      /\ sent' = <<More(sent[1], 2 * Spacing), More(sent[2], 2 * Spacing)>>
      /\ UNCHANGED pc
  BY DEF Tick
<1>2. TypeOK'
  <2>1. timer' \in Nat /\ release' \in Nat /\ sent' \in Nat \X Nat
    BY <1>1, Numbers DEF IInv, Less, More
  <2>2. cache' \in [Caches -> CacheEntry]
    <3> SUFFICES ASSUME NEW c \in Caches
                 PROVE  (IF cache[c].age = Never THEN cache[c]
                         ELSE [cache[c] EXCEPT !.age = More(@, Interval(c))]) \in CacheEntry
      BY DEF Tick
    <3>1. cache[c] \in CacheEntry
      BY DEF IInv, TypeOK
    <3>2. CASE cache[c].age = Never
      BY <3>1, <3>2
    <3>3. CASE cache[c].age # Never
      <4>1. cache[c].age \in Nat
        BY <3>1, <3>3 DEF CacheEntry
      <4>2. More(cache[c].age, Interval(c)) \in Nat
        BY <4>1, Intervals DEF More
      <4> QED
        BY <3>1, <3>3, <4>2 DEF CacheEntry
    <3> QED
      BY <3>2, <3>3
  <2> QED
    BY <2>1, <2>2 DEF IInv, TypeOK, Tick, cycleVars
<1>3. FreeSlot' /\ TakenSlot'
  BY <1>1, Numbers DEF IInv, FreeSlot, TakenSlot, Less, More
<1>4. EmptyIsGenuine'
  <2> SUFFICES ASSUME NEW c \in Caches, cache'[c].age # Never, cache'[c].value = {}
               PROVE  cache'[c].bare
    BY DEF EmptyIsGenuine
  <2>1. cache'[c] = IF cache[c].age = Never THEN cache[c]
                    ELSE [cache[c] EXCEPT !.age = More(@, Interval(c))]
    BY DEF Tick
  <2>2. cache[c] \in CacheEntry
    BY DEF IInv, TypeOK
  <2>3. cache[c].age # Never /\ cache[c].value = {}
    BY <2>1, <2>2 DEF CacheEntry
  <2>4. cache[c].bare
    BY <2>3 DEF IInv, EmptyIsGenuine
  <2> QED
    BY <2>1, <2>2, <2>3, <2>4 DEF CacheEntry
<1> QED
  BY <1>2, <1>3, <1>4 DEF IInv

\* A refresh that reads nothing, without errors, was told of nothing.
LEMMA RefreshStep ==
  ASSUME IInv, pc = "wire", NEW c \in Caches,
         NEW entries \in SUBSET (Devices \cup {TheLicense}), NEW errors \in BOOLEAN, NEW listed,
         entries = {} /\ ~errors => listed = {},
         Refresh(c, entries, errors, listed)
  PROVE  IInv'
<1>1. /\ pc' \in {"done", "failed"}
      /\ UNCHANGED <<stage, attempt, timer, release, domain, lifetime, owed, tried, sent>>
  BY DEF Refresh, cycleVars
<1>2. CASE Banked(entries, errors)
  <2> DEFINE new == [value |-> entries, age |-> 0, bare |-> listed = {}]
  <2>1. cache' = [cache EXCEPT ![c] = new]
    BY <1>2 DEF Refresh
  <2>2. new \in CacheEntry
    BY DEF CacheEntry
  <2>3. TypeOK'
    BY <1>1, <2>1, <2>2 DEF IInv, TypeOK
  <2>4. entries = {} => listed = {}
    BY <1>2 DEF Banked
  <2>5. EmptyIsGenuine'
    BY <2>1, <2>4 DEF IInv, EmptyIsGenuine, TypeOK
  <2> QED
    BY <1>1, <2>3, <2>5, SlotsStay DEF IInv
<1>3. CASE ~Banked(entries, errors)
  <2>1. UNCHANGED cache
    BY <1>3 DEF Refresh
  <2>2. TypeOK'
    BY <1>1, <2>1 DEF IInv, TypeOK
  <2> QED
    BY <1>1, <2>1, <2>2, SlotsStay, CacheStays DEF IInv
<1> QED
  BY <1>2, <1>3

LEMMA AnsweredStep == ASSUME IInv, Answered PROVE IInv'
<1>1. CASE HealthAnswered
  <2>1. TypeOK'
    BY <1>1 DEF HealthAnswered, IInv, TypeOK, cycleVars
  <2> QED
    BY <1>1, <2>1, SlotsStay, CacheStays DEF HealthAnswered, IInv
<1>2. ASSUME NEW c \in {"inventory", "license"},
             NEW items \in SUBSET (Devices \cup {TheLicense}), ListAnswered(c, items)
      PROVE  IInv'
  <2>1. PICK listed \in SUBSET items : \E read \in SUBSET listed :
          Refresh(c, read, read # listed, listed)
    BY <1>2 DEF ListAnswered
  <2>2. PICK read \in SUBSET listed : Refresh(c, read, read # listed, listed)
    BY <2>1
  <2>3. /\ pc = "wire" /\ c \in Caches /\ read \in SUBSET (Devices \cup {TheLicense})
        /\ (read # listed) \in BOOLEAN
        /\ read = {} /\ ~(read # listed) => listed = {}
    BY <1>2 DEF ListAnswered, Caches
  <2> QED
    BY <2>2, <2>3, RefreshStep
<1>3. CASE CertificatesAnswered
  <2>1. PICK listed, enrolled, broken \in SUBSET Devices :
          \E known \in SUBSET cache["inventory"].value :
            /\ enrolled \subseteq listed /\ broken \subseteq enrolled
            /\ Refresh("certificates", (enrolled \ broken) \cap known,
                       ~(listed \subseteq known) \/ broken # {}, enrolled)
    BY <1>3 DEF CertificatesAnswered
  <2>2. PICK known \in SUBSET cache["inventory"].value :
          /\ enrolled \subseteq listed /\ broken \subseteq enrolled
          /\ Refresh("certificates", (enrolled \ broken) \cap known,
                     ~(listed \subseteq known) \/ broken # {}, enrolled)
    BY <2>1
  <2> DEFINE entries == (enrolled \ broken) \cap known
             errors == ~(listed \subseteq known) \/ broken # {}
  <2>3. entries \in SUBSET (Devices \cup {TheLicense}) /\ errors \in BOOLEAN
    OBVIOUS
  <2>4. entries = {} /\ ~errors => enrolled = {}
    BY <2>2
  <2>5. pc = "wire" /\ "certificates" \in Caches
    BY <1>3 DEF CertificatesAnswered, Caches
  <2>6. Refresh("certificates", entries, errors, enrolled)
    BY <2>2
  <2> HIDE DEF entries, errors
  <2> QED
    BY <2>3, <2>4, <2>5, <2>6, RefreshStep
<1> QED
  BY <1>1, <1>2, <1>3 DEF Answered

\* The steps that neither wait nor answer.
LEMMA RequestStep ==
  ASSUME IInv, AtRest, StartInit \/ FetchSnapshot \/ NextStage \/ Retry \/ Fail \/ DomainResolved
  PROVE  IInv'
<1>1. TypeOK'
  <2>1. CASE StartInit
    BY <2>1, SccAssumption DEF IInv, TypeOK, StartInit, Request, cycleVars
  <2>2. CASE FetchSnapshot
    BY <2>2, SccAssumption DEF IInv, TypeOK, FetchSnapshot, Request, Fetching
  <2>3. CASE NextStage
    <3>1. stage' \in {"idle"} \cup Fetching
      BY <2>3 DEF NextStage, Following, Fetching, Caches
    <3>2. /\ pc' \in {"due", "off"}
          /\ attempt' \in 1..MaxAttempts /\ timer' \in Nat /\ tried' \in SUBSET Caches
      BY <2>3, SccAssumption DEF NextStage, Request, IInv, TypeOK
    <3> QED
      BY <2>3, <3>1, <3>2 DEF IInv, TypeOK, NextStage
  <2>4. CASE Retry
    BY <2>4, SccAssumption DEF IInv, TypeOK, Retry, cycleVars
  <2>5. CASE Fail
    BY <2>5 DEF IInv, TypeOK, Fail, cycleVars
  <2>6. CASE DomainResolved
    BY <2>6 DEF IInv, TypeOK, DomainResolved, cycleVars
  <2> QED
    BY <2>1, <2>2, <2>3, <2>4, <2>5, <2>6
<1>2. /\ UNCHANGED <<release, sent, cache>>
      /\ pc' # "spaced" /\ (pc = "spaced" => timer = 0)
  <2>1. CASE StartInit \/ FetchSnapshot
    BY <2>1 DEF StartInit, FetchSnapshot, Request, AtRest
  <2>2. CASE NextStage
    BY <2>2 DEF NextStage, Request
  <2>3. CASE Retry \/ Fail
    BY <2>3 DEF Retry, Fail, AttemptFails
  <2>4. CASE DomainResolved
    BY <2>4 DEF DomainResolved
  <2> QED
    BY <2>1, <2>2, <2>3, <2>4
<1> QED
  BY <1>1, <1>2, SlotsStay, CacheStays DEF IInv

LEMMA CloseStep == ASSUME IInv, Close \/ Closed PROVE IInv'
<1>1. /\ UNCHANGED <<release, sent, pc, timer>>
      /\ cache' = cache \/ cache' = [c \in Caches |-> Unfilled]
  BY DEF Close, Closed, requestVars
<1>2. TypeOK'
  <2>1. Unfilled \in CacheEntry
    BY DEF Unfilled, CacheEntry
  <2> QED
    BY <1>1, <2>1 DEF IInv, TypeOK, Close, Closed, requestVars, cycleVars
<1>3. EmptyIsGenuine'
  BY <1>1 DEF IInv, EmptyIsGenuine, Unfilled
<1>4. FreeSlot' /\ TakenSlot'
  BY <1>1 DEF IInv, FreeSlot, TakenSlot
<1> QED
  BY <1>2, <1>3, <1>4 DEF IInv

LEMMA NextIInv == IInv /\ AtRest /\ [Next]_vars => IInv'
<1> SUFFICES ASSUME IInv, AtRest, [Next]_vars PROVE IInv'
  OBVIOUS
<1>1. CASE UNCHANGED vars
  <2>1. UNCHANGED <<stage, pc, attempt, timer, release, cache, domain, lifetime, owed, tried, sent>>
    BY <1>1 DEF vars, requestVars, cycleVars
  <2> QED
    BY <2>1 DEF IInv, TypeOK, FreeSlot, TakenSlot, EmptyIsGenuine
<1> QED
  BY <1>1, ReserveStep, SendStep, TickStep, AnsweredStep, RequestStep, CloseStep DEF Next, Ends

-----------------------------------------------------------------------------
\* Every variable of the adapter keeps its type.
THEOREM TypeCorrect == Spec => []TypeOK
<1>1. IInv => TypeOK
  BY DEF IInv
<1> QED
  BY <1>1, InitIInv, NextIInv, InitAtRest, NextAtRest, PTL DEF Spec

\* The guard holds no request for longer than a spacing and a late timer
\* (spacing.ts:54): an unused reservation pushes nothing further out.
THEOREM WaitBounded == Spec => []WaitIsBounded
<1>1. IInv => WaitIsBounded
  BY DEF IInv, TakenSlot, WaitIsBounded
<1> QED
  BY <1>1, InitIInv, NextIInv, InitAtRest, NextAtRest, PTL DEF Spec

\* Only Send puts a request on the wire.
LEMMA SendingSends == Next /\ Sending => Send
BY DEF Next, Sending, Send, StartInit, FetchSnapshot, NextStage, Reserve, Ends, Retry, Fail,
   Answered, HealthAnswered, ListAnswered, CertificatesAnswered, Refresh, DomainResolved,
   Close, Closed, Tick, Request, requestVars

\* The lateness of the timers does not add up (spacing.ts:57).
THEOREM RateKept == Spec => RateHolds
<1>1. IInv /\ [Next]_vars =>
        [Sending => sent[1] >= Spacing - Late /\ sent[2] >= 2 * Spacing - Late]_vars
  <2> SUFFICES ASSUME IInv, Next, Sending
               PROVE  sent[1] >= Spacing - Late /\ sent[2] >= 2 * Spacing - Late
    OBVIOUS
  <2>1. Send
    BY SendingSends
  <2> QED
    BY <2>1, Numbers DEF Send, IInv, TakenSlot
<1> QED
  BY <1>1, InitIInv, NextIInv, InitAtRest, NextAtRest, PTL DEF Spec, RateHolds

\* A refreshed cache that is empty stands for an upstream that listed nothing
\* (adapter.ts:348, refresh-cache.ts:38).
THEOREM EmptyGenuine == Spec => []EmptyIsGenuine
<1>1. IInv => EmptyIsGenuine
  BY DEF IInv
<1> QED
  BY <1>1, InitIInv, NextIInv, InitAtRest, NextAtRest, PTL DEF Spec
-----------------------------------------------------------------------------
(* The order of the refreshes.  DueRefreshesRun compares the end of a fetch  *)
(* with its beginning, and refreshIfDue() asks only when a stage's turn      *)
(* comes: in between, what was due has to stay due.                          *)

\* The refreshes whose turn has come by stage s.
Reached(s) == CASE s = "health" -> {} [] s = "inventory" -> {"inventory"}
                [] s = "license" -> {"inventory", "license"} [] OTHER -> Caches

\* Until close(), an owed refresh has run if its turn has come, and is due
\* still if it has not.
OwedOrRun ==
  lifetime = "open" /\ stage \in Fetching =>
    \A c \in owed : IF c \in Reached(stage) THEN c \in tried ELSE Due(c)

\* A step within a stage: only that stage's cache may change, or all may age.
LEMMA OwedStays ==
  ASSUME OwedOrRun, TypeOK, UNCHANGED <<stage, domain, lifetime, owed, tried>>,
         \A c \in Caches : c # stage /\ cache[c].age = Never => cache'[c].age = Never,
         \A c \in Caches : c # stage /\ cache[c].age # Never /\ cache[c].age >= Interval(c)
                           => cache'[c].age >= Interval(c)
  PROVE  OwedOrRun'
<1> SUFFICES ASSUME lifetime = "open", stage \in Fetching, NEW c \in owed, c \notin Reached(stage)
             PROVE  Due(c)'
  BY DEF OwedOrRun, Reached
<1>1. Due(c) /\ c \in Caches
  BY DEF OwedOrRun, TypeOK
<1>2. c # stage
  BY <1>1 DEF Reached, Caches, Fetching
<1> QED
  BY <1>1, <1>2 DEF Due, Interval

LEMMA NextOwedOrRun == OwedOrRun /\ TypeOK /\ [Next]_vars => OwedOrRun'
<1> SUFFICES ASSUME OwedOrRun, TypeOK, [Next]_vars PROVE OwedOrRun'
  OBVIOUS
<1>1. CASE StartInit \/ DomainResolved
  BY <1>1 DEF StartInit, DomainResolved, OwedOrRun, Fetching, Caches
<1>2. CASE FetchSnapshot
  BY <1>2 DEF FetchSnapshot, OwedOrRun, Reached, Due, Interval
<1>3. CASE NextStage
  <2> SUFFICES ASSUME lifetime = "open", stage' \in Fetching, NEW c \in owed
               PROVE  IF c \in Reached(stage') THEN c \in tried' ELSE Due(c)
    BY <1>3 DEF OwedOrRun, NextStage, Reached, Due, Interval
  <2>1. stage \in Fetching /\ stage' = Following(stage) /\ c \in Caches
    BY <1>3 DEF NextStage, TypeOK
  <2>2. stage' \in Caches /\ Reached(stage') = Reached(stage) \cup {stage'}
    BY <2>1 DEF Following, Reached, Fetching, Caches
  <2>3. IF c \in Reached(stage) THEN c \in tried ELSE Due(c)
    BY <2>1 DEF OwedOrRun
  <2>4. tried \subseteq tried' /\ (Due(stage') => stage' \in tried')
    BY <1>3, <2>2 DEF NextStage
  <2> QED
    BY <2>2, <2>3, <2>4
<1>4. CASE Reserve \/ Send \/ Retry \/ Fail \/ HealthAnswered \/ UNCHANGED vars
  <2>1. UNCHANGED <<stage, domain, lifetime, owed, tried, cache>>
    BY <1>4 DEF Reserve, Send, Retry, Fail, HealthAnswered, vars, cycleVars
  <2> QED
    BY <2>1, OwedStays
<1>5. ASSUME NEW c \in Caches, NEW entries, NEW errors, NEW listed,
             stage = c, Refresh(c, entries, errors, listed)
      PROVE  OwedOrRun'
  <2>1. UNCHANGED <<stage, domain, lifetime, owed, tried>>
    BY <1>5 DEF Refresh, cycleVars
  <2>2. \A d \in Caches : d # stage => cache'[d] = cache[d]
    BY <1>5 DEF Refresh, TypeOK
  <2> QED
    BY <2>1, <2>2, OwedStays
<1>6. CASE Answered
  <2>1. CASE ListAnswered("inventory", Devices) \/ ListAnswered("license", {TheLicense})
    BY <2>1, <1>5 DEF ListAnswered, Caches
  <2>2. CASE CertificatesAnswered
    BY <2>2, <1>5 DEF CertificatesAnswered, Caches
  <2> QED
    BY <1>4, <1>6, <2>1, <2>2 DEF Answered
<1>7. CASE Close \/ Closed
  BY <1>7 DEF Close, Closed, OwedOrRun
<1>8. CASE Tick
  <2>1. UNCHANGED <<stage, domain, lifetime, owed, tried>>
    BY <1>8 DEF Tick, cycleVars
  <2>2. ASSUME NEW c \in Caches, cache[c].age = Never
        PROVE  cache'[c].age = Never
    BY <1>8, <2>2 DEF Tick
  <2>3. ASSUME NEW c \in Caches, cache[c].age # Never, cache[c].age >= Interval(c)
        PROVE  cache'[c].age >= Interval(c)
    <3>1. cache[c] \in CacheEntry
      BY DEF TypeOK
    <3>2. cache'[c].age = More(cache[c].age, Interval(c))
      BY <1>8, <2>3, <3>1 DEF Tick, CacheEntry
    <3>3. cache[c].age \in Nat /\ Interval(c) \in Nat
      BY <2>3, <3>1, Intervals DEF CacheEntry
    <3> QED
      BY <2>3, <3>2, <3>3 DEF More
  <2> QED
    BY <2>1, <2>2, <2>3, OwedStays
<1> QED
  BY <1>1, <1>2, <1>3, <1>4, <1>6, <1>7, <1>8 DEF Next, Ends

\* Until close(), a fetch ends only after every refresh that was due when it
\* began has run, whatever failed before (the `finally` of adapter.ts:576), and
\* it asks for certificates only after an inventory that was due had its turn.
THEOREM OwedRefreshesRun == Spec => DueRefreshesRun
<1>1. Init => OwedOrRun
  BY DEF Init, OwedOrRun, Fetching, Caches
<1>2. OwedOrRun /\ TypeOK /\ [Next]_vars =>
        [/\ lifetime = "open" /\ stage \in Fetching /\ stage' = "idle" => owed \subseteq tried
         /\ Sending /\ stage = "certificates" /\ "inventory" \in owed
              => "inventory" \in tried]_vars
  <2> SUFFICES ASSUME OwedOrRun, TypeOK, Next
               PROVE  /\ lifetime = "open" /\ stage \in Fetching /\ stage' = "idle"
                           => owed \subseteq tried
                      /\ Sending /\ stage = "certificates" /\ "inventory" \in owed
                           => "inventory" \in tried
    OBVIOUS
  <2>1. ASSUME lifetime = "open", stage \in Fetching, stage' = "idle"
        PROVE  owed \subseteq tried
    <3>1. NextStage
      BY <2>1 DEF Next, Send, StartInit, FetchSnapshot, Reserve, Ends, Retry, Fail,
         Answered, HealthAnswered, ListAnswered, CertificatesAnswered, Refresh, DomainResolved,
         Close, Closed, Tick, Fetching, Caches
    <3>2. stage = "certificates"
      BY <2>1, <3>1 DEF NextStage, Following, Fetching, Caches
    <3> QED
      BY <2>1, <3>2 DEF OwedOrRun, Reached, TypeOK
  <2>2. ASSUME Sending, stage = "certificates", "inventory" \in owed
        PROVE  "inventory" \in tried
    <3>1. lifetime = "open"
      BY <2>2, SendingSends DEF Send
    <3> QED
      BY <2>2, <3>1 DEF OwedOrRun, Reached, Fetching, Caches
  <2> QED
    BY <2>1, <2>2
<1> QED
  BY <1>1, <1>2, NextOwedOrRun, TypeCorrect, PTL DEF Spec, DueRefreshesRun
=============================================================================
