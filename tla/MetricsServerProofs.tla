------------------------ MODULE MetricsServerProofs ------------------------
(***************************************************************************)
(* Proofs about MetricsServer: that a page served shows one instant of the *)
(* caches and counts its own series, for any number of scrapes and devices *)
(* and any set of gauges with a collect() hook.                            *)
(***************************************************************************)
EXTENDS MetricsServer, FiniteSetTheorems, TLAPS

\* A request awaits the render in flight, if it awaits anything.
OnePromise ==
  /\ inFlight \in Scrapes \cup {"none", "rejected"}
  /\ DOMAIN awaits = Scrapes /\ DOMAIN scrape = Scrapes
  /\ DOMAIN read = Scrapes /\ DOMAIN truth = Scrapes
  /\ \A r \in Scrapes : awaits[r] \in {"none", inFlight}
  /\ \A r \in Scrapes : awaits[r] # "none" => scrape[r] = "waiting"

\* From its start to its end, the render in flight has the registry to itself:
\* the page is what the caches held when it began.
PageIsOwn ==
  /\ \A sample \in page : sample[1][1] \in Families
  /\ inFlight \in Scrapes =>
       /\ truth[inFlight] = page
       /\ read[inFlight].first = Only(page, Families \ Hooked)
       /\ read[inFlight].count = Cardinality(page)

IInv == TypeOK /\ OnePromise /\ PageIsOwn

-----------------------------------------------------------------------------
(* A render *)

LEMMA SetApart ==
  ASSUME NEW samples, NEW p, NEW fams,
         \A new \in samples : new[1][1] \in fams,
         \A old \in p : old[1][1] \notin fams
  PROVE  Set(samples, p) = samples \cup p
BY DEF Set

LEMMA OwnFamilies ==
  /\ \A sample \in DeviceSeries : sample[1][1] = "ha"
  /\ \A sample \in InventorySeries : sample[1][1] \in {"device", "connectivity"}
  /\ \A sample \in LicenseSeries : sample[1][1] \in {"registered", "evalUsed"}
  /\ \A sample \in CertificateSeries : sample[1][1] = "expiry"
<1>1. \A sample \in DeviceSeries : sample[1][1] = "ha"
  BY DEF DeviceSeries
<1>2. \A sample \in InventorySeries : sample[1][1] \in {"device", "connectivity"}
  BY DEF InventorySeries
<1>3. \A sample \in LicenseSeries : sample[1][1] \in {"registered", "evalUsed"}
  BY DEF LicenseSeries
<1>4. \A sample \in CertificateSeries : sample[1][1] = "expiry"
  BY DEF CertificateSeries
<1> QED
  BY <1>1, <1>2, <1>3, <1>4

\* Nothing of an earlier page is left: each family is emptied by its collector.
LEMMA RenderedAfresh ==
  Rendered = DeviceSeries \cup InventorySeries \cup LicenseSeries \cup CertificateSeries
<1> DEFINE afterHa == RenderDevices(page)
           afterInventory == RenderInventory(afterHa)
           afterLicense == RenderLicense(afterInventory)
<1>1. afterHa = DeviceSeries \cup Removed(page, {"ha"})
  <2>1. Reset(page, {"ha"}) = Removed(page, {"ha"})
    BY DEF Reset, Labelless
  <2>2. \A old \in Removed(page, {"ha"}) : old[1][1] \notin {"ha"}
    BY DEF Removed, Only
  <2> QED
    BY <2>1, <2>2, OwnFamilies, SetApart DEF RenderDevices
<1> HIDE DEF afterHa
<1>2. afterInventory = InventorySeries \cup Removed(afterHa, {"device", "connectivity"})
  <2>1. Reset(afterHa, {"device", "connectivity"}) = Removed(afterHa, {"device", "connectivity"})
    BY DEF Reset, Labelless
  <2>2. \A old \in Removed(afterHa, {"device", "connectivity"}) :
          old[1][1] \notin {"device", "connectivity"}
    BY DEF Removed, Only
  <2> QED
    BY <2>1, <2>2, OwnFamilies, SetApart DEF RenderInventory
<1> HIDE DEF afterInventory
<1>3. afterLicense = LicenseSeries \cup Removed(afterInventory, {"registered", "evalUsed"})
  <2>1. Removed(Reset(afterInventory, {"registered"}), {"evalUsed"})
          = Removed(afterInventory, {"registered", "evalUsed"})
    BY DEF Reset, Labelless, Removed, Only
  <2>2. \A old \in Removed(afterInventory, {"registered", "evalUsed"}) :
          old[1][1] \notin {"registered", "evalUsed"}
    BY DEF Removed, Only
  <2> QED
    BY <2>1, <2>2, OwnFamilies, SetApart DEF RenderLicense
<1> HIDE DEF afterLicense
<1>4. Rendered = CertificateSeries \cup Removed(afterLicense, {"expiry"})
  <2>1. Reset(afterLicense, {"expiry"}) = Removed(afterLicense, {"expiry"})
    BY DEF Reset, Labelless
  <2>2. \A old \in Removed(afterLicense, {"expiry"}) : old[1][1] \notin {"expiry"}
    BY DEF Removed, Only
  <2>3. Rendered = RenderCertificates(afterLicense)
    BY DEF Rendered, afterLicense, afterInventory, afterHa
  <2> QED
    BY <2>1, <2>2, <2>3, OwnFamilies, SetApart DEF RenderCertificates
<1>5. Removed(afterLicense, {"expiry"}) = DeviceSeries \cup InventorySeries \cup LicenseSeries
  BY <1>1, <1>2, <1>3, OwnFamilies DEF Removed, Only, Families
<1> QED
  BY <1>4, <1>5

LEMMA FactsAreSeries ==
  TypeOK => Facts = DeviceSeries \cup InventorySeries \cup LicenseSeries \cup CertificateSeries
<1> SUFFICES ASSUME TypeOK
             PROVE  Facts = DeviceSeries \cup InventorySeries \cup LicenseSeries \cup CertificateSeries
  OBVIOUS
<1>1. DeviceSeries =
        {<<<<"ha", d, s>>, IF s = health[d] \/ (health[d] = "novel" /\ s = "unknown") THEN 1 ELSE 0>> :
           d \in {e \in Devices : health[e] # "gone"}, s \in HaStatus}
  <2>1. \A d \in Devices : health[d] \in {"gone"} \cup Raw
    BY DEF TypeOK, Health
  <2>2. {e \in Devices : health[e] \in Raw} = {e \in Devices : health[e] # "gone"}
    BY <2>1 DEF Raw, HaStatus
  <2>3. \A d \in Devices, s \in HaStatus : health[d] # "gone" =>
          (s = ActiveLabel(health[d]) <=> s = health[d] \/ (health[d] = "novel" /\ s = "unknown"))
    BY <2>1 DEF ActiveLabel, Raw, HaStatus
  <2> QED
    BY <2>2, <2>3 DEF DeviceSeries
<1>2. InventorySeries =
        {<<<<"device", d>>, 1>> : d \in {e \in Devices : inventory[e] # "gone"}}
        \cup {<<<<"connectivity", d>>, 1>> : d \in {e \in Devices : inventory[e] = "online"}}
        \cup {<<<<"connectivity", d>>, 0>> : d \in {e \in Devices : inventory[e] = "unreachable"}}
  <2>1. \A d \in Devices : inventory[d] \in {"gone", "online", "unreachable", "novel"}
    BY DEF TypeOK, Inventory
  <2>2. {<<<<"connectivity", d>>, IF inventory[d] = "online" THEN 1 ELSE 0>> : d \in Known} =
          {<<<<"connectivity", d>>, 1>> : d \in {e \in Devices : inventory[e] = "online"}}
          \cup {<<<<"connectivity", d>>, 0>> : d \in {e \in Devices : inventory[e] = "unreachable"}}
    BY <2>1 DEF Known, Listed
  <2> QED
    BY <2>2 DEF InventorySeries, Listed
<1>3. LicenseSeries =
        {<<<<"registered">>, 1>> : x \in {license} \ {"none"}}
        \cup {<<<<"evalUsed">>, IF x = "yes" THEN 1 ELSE 0>> : x \in {license} \cap {"yes", "no"}}
  <2>1. license \in {"none", "unset", "no", "yes"}
    BY DEF TypeOK, License
  <2> QED
    BY <2>1 DEF LicenseSeries
<1> QED
  BY <1>1, <1>2, <1>3 DEF Facts, CertificateSeries

-----------------------------------------------------------------------------
(* The count *)

\* A set whose members are named by members of a finite set is finite.
LEMMA FiniteImage ==
  ASSUME NEW S, IsFiniteSet(S), NEW T, NEW f \in [S -> T], \A t \in T : \E s \in S : f[s] = t
  PROVE  IsFiniteSet(T)
<1>1. f \in Surjection(S, T)
  BY DEF Surjection
<1> QED
  BY <1>1, FS_Surjection

LEMMA FinitePair ==
  ASSUME NEW x, NEW y
  PROVE  IsFiniteSet({x, y})
<1>1. IsFiniteSet({x})
  BY FS_Singleton
<1>2. IsFiniteSet({x} \cup {y})
  BY <1>1, FS_AddElement
<1>3. {x, y} = {x} \cup {y}
  OBVIOUS
<1> QED
  BY <1>2, <1>3

LEMMA SeriesFinite ==
  TypeOK => /\ IsFiniteSet(DeviceSeries) /\ IsFiniteSet(InventorySeries)
            /\ IsFiniteSet(LicenseSeries) /\ IsFiniteSet(CertificateSeries)
<1> SUFFICES ASSUME TypeOK
             PROVE  /\ IsFiniteSet(DeviceSeries) /\ IsFiniteSet(InventorySeries)
                    /\ IsFiniteSet(LicenseSeries) /\ IsFiniteSet(CertificateSeries)
  OBVIOUS
<1>1. IsFiniteSet(DeviceSeries)
  <2> DEFINE D == {e \in Devices : health[e] \in Raw}
             f == [x \in D \X HaStatus |->
                     <<<<"ha", x[1], x[2]>>, IF x[2] = ActiveLabel(health[x[1]]) THEN 1 ELSE 0>>]
  <2>1. IsFiniteSet(D)
    BY ServerAssumption, FS_Subset
  <2>2. IsFiniteSet(HaStatus)
    BY FinitePair DEF HaStatus
  <2>3. IsFiniteSet(D \X HaStatus)
    BY <2>1, <2>2, FS_Product
  <2>4. f \in [D \X HaStatus -> DeviceSeries]
    BY DEF DeviceSeries
  <2>5. \A t \in DeviceSeries : \E x \in D \X HaStatus : f[x] = t
    <3> SUFFICES ASSUME NEW t \in DeviceSeries PROVE \E x \in D \X HaStatus : f[x] = t
      OBVIOUS
    <3>1. PICK d \in D, s \in HaStatus :
            t = <<<<"ha", d, s>>, IF s = ActiveLabel(health[d]) THEN 1 ELSE 0>>
      BY DEF DeviceSeries
    <3>2. <<d, s>> \in D \X HaStatus /\ f[<<d, s>>] = t
      BY <3>1
    <3> QED
      BY <3>2
  <2> HIDE DEF f, D
  <2> QED
    BY <2>3, <2>4, <2>5, FiniteImage
<1>2. IsFiniteSet(InventorySeries)
  <2> DEFINE A == {<<<<"device", d>>, 1>> : d \in Listed}
             B == {<<<<"connectivity", d>>, IF inventory[d] = "online" THEN 1 ELSE 0>> : d \in Known}
             f == [d \in Listed |-> <<<<"device", d>>, 1>>]
             g == [d \in Known |-> <<<<"connectivity", d>>, IF inventory[d] = "online" THEN 1 ELSE 0>>]
  <2>1. IsFiniteSet(Listed)
    BY ServerAssumption, FS_Subset DEF Listed
  <2>2. IsFiniteSet(Known)
    BY <2>1, FS_Subset DEF Known
  <2>3. f \in [Listed -> A] /\ \A t \in A : \E d \in Listed : f[d] = t
    OBVIOUS
  <2>4. g \in [Known -> B] /\ \A t \in B : \E d \in Known : g[d] = t
    OBVIOUS
  <2>5. InventorySeries = A \cup B
    BY DEF InventorySeries
  <2> HIDE DEF A, B, f, g
  <2>6. IsFiniteSet(A) /\ IsFiniteSet(B)
    BY <2>1, <2>2, <2>3, <2>4, FiniteImage
  <2> QED
    BY <2>5, <2>6, FS_Union
<1>3. IsFiniteSet(LicenseSeries)
  <2>1. IsFiniteSet({}) /\ IsFiniteSet({<<<<"registered">>, 1>>})
    BY FS_EmptySet, FS_Singleton
  <2>2. \A v \in {0, 1} : IsFiniteSet({<<<<"registered">>, 1>>, <<<<"evalUsed">>, v>>})
    BY FinitePair
  <2> QED
    BY <2>1, <2>2 DEF LicenseSeries
<1>4. IsFiniteSet(CertificateSeries)
  <2> DEFINE f == [d \in certificates |-> <<<<"expiry", d>>, 1>>]
  <2>1. IsFiniteSet(certificates)
    BY ServerAssumption, FS_Subset DEF TypeOK
  <2>2. f \in [certificates -> CertificateSeries] /\ \A t \in CertificateSeries : \E d \in certificates : f[d] = t
    BY DEF CertificateSeries
  <2> HIDE DEF f
  <2> QED
    BY <2>1, <2>2, FiniteImage
<1> QED
  BY <1>1, <1>2, <1>3, <1>4

LEMMA ApartCount ==
  ASSUME NEW S, NEW T, IsFiniteSet(S), IsFiniteSet(T), S \cap T = {}
  PROVE  IsFiniteSet(S \cup T) /\ Cardinality(S \cup T) = Cardinality(S) + Cardinality(T)
<1>1. Cardinality(S \cap T) = 0 /\ Cardinality(S) \in Nat /\ Cardinality(T) \in Nat
  BY FS_EmptySet, FS_CardinalityType
<1>2. /\ IsFiniteSet(S \cup T)
      /\ Cardinality(S \cup T) = Cardinality(S) + Cardinality(T) - Cardinality(S \cap T)
  BY FS_Union
<1> QED
  BY <1>1, <1>2

\* The sum of the collectors' counts is the number of samples on the page.
LEMMA CountIsExact ==
  TypeOK => /\ SeriesCount \in Nat
            /\ SeriesCount = Cardinality(Rendered)
<1> SUFFICES ASSUME TypeOK PROVE SeriesCount \in Nat /\ SeriesCount = Cardinality(Rendered)
  OBVIOUS
<1> DEFINE A == DeviceSeries \cup InventorySeries
           B == A \cup LicenseSeries
<1>1. IsFiniteSet(A) /\ Cardinality(A) = Cardinality(DeviceSeries) + Cardinality(InventorySeries)
  <2>1. DeviceSeries \cap InventorySeries = {}
    BY OwnFamilies
  <2> QED
    BY <2>1, SeriesFinite, ApartCount
<1>2. IsFiniteSet(B) /\ Cardinality(B) = Cardinality(A) + Cardinality(LicenseSeries)
  <2>1. A \cap LicenseSeries = {}
    BY OwnFamilies
  <2> QED
    BY <1>1, <2>1, SeriesFinite, ApartCount
<1>3. Cardinality(B \cup CertificateSeries) = Cardinality(B) + Cardinality(CertificateSeries)
  <2>1. B \cap CertificateSeries = {}
    BY OwnFamilies
  <2> QED
    BY <1>2, <2>1, SeriesFinite, ApartCount
<1>4. Rendered = B \cup CertificateSeries
  BY RenderedAfresh
<1>5. /\ Cardinality(DeviceSeries) \in Nat /\ Cardinality(InventorySeries) \in Nat
      /\ Cardinality(LicenseSeries) \in Nat /\ Cardinality(CertificateSeries) \in Nat
  BY SeriesFinite, FS_CardinalityType
<1> HIDE DEF A, B
<1> QED
  BY <1>1, <1>2, <1>3, <1>4, <1>5 DEF SeriesCount

-----------------------------------------------------------------------------
LEMMA InitIInv == Init => IInv
<1> SUFFICES ASSUME Init PROVE IInv
  OBVIOUS
<1>1. TypeOK
  BY DEF Init, TypeOK, Health, Inventory, License, Families
<1>2. OnePromise
  BY DEF Init, OnePromise
<1>3. PageIsOwn
  BY ServerAssumption DEF Init, PageIsOwn, Families
<1> QED
  BY <1>1, <1>2, <1>3 DEF IInv

\* What a render leaves on the page has the families and labels it should.
LEMMA RenderedTyped ==
  TypeOK => \A sample \in Rendered :
              /\ sample[1][1] \in Families /\ sample[2] \in {0, 1}
              /\ sample[1][1] = "ha" => sample[1][3] \in HaStatus
<1>1. \A sample \in DeviceSeries : sample[2] \in {0, 1} /\ sample[1][3] \in HaStatus
  BY DEF DeviceSeries
<1>2. \A sample \in InventorySeries : sample[2] \in {0, 1}
  BY DEF InventorySeries
<1>3. \A sample \in LicenseSeries : sample[2] \in {0, 1}
  BY DEF LicenseSeries
<1>4. \A sample \in CertificateSeries : sample[2] \in {0, 1}
  BY DEF CertificateSeries
<1> QED
  BY <1>1, <1>2, <1>3, <1>4, OwnFamilies, RenderedAfresh DEF Families

LEMMA ScrapeStep == ASSUME IInv, NEW r \in Scrapes, Scrape(r) PROVE IInv'
<1>1. scrape[r] = "idle" /\ scrape' = [scrape EXCEPT ![r] = "waiting"]
      /\ awaits' = [awaits EXCEPT ![r] = inFlight'] /\ UNCHANGED cacheVars
  BY DEF Scrape
<1>2. CASE NoFlight
  <2>1. Render(r) /\ inFlight' = r /\ inFlight = "none"
    BY <1>2 DEF Scrape, NoFlight
  <2>2. /\ page' = Rendered /\ series' = SeriesCount
        /\ read' = [read EXCEPT ![r] = [first |-> Only(page', Families \ Hooked), count |-> series']]
        /\ truth' = [truth EXCEPT ![r] = Facts]
    BY <2>1 DEF Render
  <2>3. TypeOK'
    <3>1. series' \in Nat
      BY <2>2, CountIsExact DEF IInv
    <3>2. \A sample \in page' :
            /\ sample[1][1] \in Families /\ sample[2] \in {0, 1}
            /\ sample[1][1] = "ha" => sample[1][3] \in HaStatus
      BY <2>2, RenderedTyped DEF IInv
    <3> QED
      BY <1>1, <2>1, <3>1, <3>2 DEF IInv, TypeOK, cacheVars
  <2>4. OnePromise'
    BY <1>1, <2>1, <2>2 DEF IInv, OnePromise
  <2>5. PageIsOwn'
    <3>1. \A sample \in page' : sample[1][1] \in Families
      BY <2>3 DEF TypeOK
    <3>2. truth'[r] = page'
      BY <2>2, FactsAreSeries, RenderedAfresh DEF IInv, OnePromise
    <3>3. read'[r] = [first |-> Only(page', Families \ Hooked), count |-> Cardinality(page')]
      BY <2>2, CountIsExact DEF IInv, OnePromise
    <3> QED
      BY <2>1, <3>1, <3>2, <3>3 DEF PageIsOwn
  <2> QED
    BY <2>3, <2>4, <2>5 DEF IInv
<1>3. CASE ~NoFlight
  <2>1. UNCHANGED <<page, series, read, truth, inFlight>>
    BY <1>3 DEF Scrape
  <2>2. TypeOK'
    BY <1>1, <2>1 DEF IInv, TypeOK, cacheVars
  <2>3. OnePromise'
    BY <1>1, <2>1 DEF IInv, OnePromise
  <2>4. PageIsOwn'
    BY <2>1 DEF IInv, PageIsOwn
  <2> QED
    BY <2>2, <2>3, <2>4 DEF IInv
<1> QED
  BY <1>2, <1>3

LEMMA ThrowStep == ASSUME IInv, NEW r \in Scrapes, ScrapeThrows(r) PROVE IInv'
<1>1. TypeOK'
  BY DEF ScrapeThrows, IInv, TypeOK, cacheVars
<1>2. OnePromise'
  BY DEF ScrapeThrows, NoFlight, IInv, OnePromise
<1>3. PageIsOwn'
  BY ServerAssumption DEF ScrapeThrows, IInv, PageIsOwn
<1> QED
  BY <1>1, <1>2, <1>3 DEF IInv

\* Answering the requests that await a promise leaves the others as they are.
LEMMA AnswerStep ==
  ASSUME IInv, NEW l, NEW status \in {"served", "failed"}, Answer(l, status)
  PROVE  /\ awaits' \in [Scrapes -> Scrapes \cup {"none", "rejected"}]
         /\ scrape' \in [Scrapes -> {"idle", "waiting", "served", "failed"}]
         /\ \A r \in Scrapes : /\ awaits'[r] \in {"none", inFlight}
                               /\ awaits'[r] # l \/ l = "none"
                               /\ awaits'[r] # "none" => scrape'[r] = "waiting"
BY DEF Answer, IInv, TypeOK, OnePromise

LEMMA SettleStep == ASSUME IInv, NEW l \in Scrapes, Settles(l) PROVE IInv'
<1>1. l # "none" /\ inFlight = l
  BY ServerAssumption DEF Settles, IInv, OnePromise
<1>2. PICK status \in {"served", "failed"} : Answer(l, status)
  BY DEF Settles
<1>3. /\ inFlight' = "none" /\ UNCHANGED <<cacheVars, page, series>>
      /\ read' = [read EXCEPT ![l] = Unread] /\ truth' = [truth EXCEPT ![l] = {}]
  BY DEF Settles
<1>4. TypeOK'
  BY <1>2, <1>3, AnswerStep DEF IInv, TypeOK, cacheVars
<1>5. OnePromise'
  BY <1>1, <1>2, <1>3, <1>4, AnswerStep DEF IInv, OnePromise, TypeOK
<1>6. PageIsOwn'
  BY <1>3, ServerAssumption DEF IInv, PageIsOwn
<1> QED
  BY <1>4, <1>5, <1>6 DEF IInv

LEMMA RejectedStep == ASSUME IInv, AnswersRejected PROVE IInv'
<1>1. Answer("rejected", "failed") /\ UNCHANGED <<cacheVars, page, series, read, truth, inFlight>>
  BY DEF AnswersRejected
<1>2. TypeOK'
  BY <1>1, AnswerStep DEF IInv, TypeOK, cacheVars
<1>3. OnePromise'
  BY <1>1, <1>2, AnswerStep DEF IInv, OnePromise, TypeOK
<1>4. PageIsOwn'
  BY <1>1 DEF IInv, PageIsOwn
<1> QED
  BY <1>2, <1>3, <1>4 DEF IInv

\* The poll path and the clients touch neither the registry nor the promise.
LEMMA OutsideStep ==
  ASSUME IInv, PublishHealth \/ PublishRefresh \/ (\E r \in Scrapes : Again(r))
  PROVE  IInv'
<1>1. UNCHANGED renderVars
  BY DEF PublishHealth, PublishRefresh, Again, renderVars
<1>2. TypeOK'
  BY DEF PublishHealth, PublishRefresh, Again, renderVars, cacheVars, IInv, TypeOK
<1>3. OnePromise'
  <2>1. CASE PublishHealth \/ PublishRefresh
    BY <2>1, <1>1 DEF PublishHealth, PublishRefresh, renderVars, IInv, OnePromise
  <2>2. CASE \E r \in Scrapes : Again(r)
    BY <2>2, <1>1 DEF Again, renderVars, IInv, OnePromise
  <2> QED
    BY <2>1, <2>2
<1>4. PageIsOwn'
  BY <1>1 DEF renderVars, IInv, PageIsOwn
<1> QED
  BY <1>2, <1>3, <1>4 DEF IInv

LEMMA NextIInv == IInv /\ [Next]_vars => IInv'
<1> SUFFICES ASSUME IInv, [Next]_vars PROVE IInv'
  OBVIOUS
<1>1. CASE UNCHANGED vars
  BY <1>1 DEF vars, cacheVars, renderVars, IInv, TypeOK, OnePromise, PageIsOwn
<1> QED
  BY <1>1, ScrapeStep, ThrowStep, SettleStep, RejectedStep, OutsideStep DEF Next

-----------------------------------------------------------------------------
\* Every variable of the server keeps its type, and a state set is labelled
\* within its vocabulary whatever a device reports (enum-render.ts).
THEOREM TypeCorrect == Spec => []TypeOK
<1>1. IInv => TypeOK
  BY DEF IInv
<1> QED
  BY <1>1, InitIInv, NextIInv, PTL DEF Spec

\* A page served shows what the caches held at one instant, and the series it
\* counts are its own (routes.ts:69, index.ts:237), however many scrapes share
\* the render and whatever polls publish meanwhile.
THEOREM OneInstant == Spec => PageOfOneInstant
<1>1. IInv /\ [Next]_vars =>
        [\A l \in Scrapes : ServedBy(l) =>
           /\ Body(l) = truth[l]
           /\ read[l].count = Cardinality(Body(l))]_vars
  <2> SUFFICES ASSUME IInv, Next, NEW l \in Scrapes, ServedBy(l)
               PROVE  Body(l) = truth[l] /\ read[l].count = Cardinality(Body(l))
    OBVIOUS
  <2>1. inFlight = l
    BY ServerAssumption DEF ServedBy, IInv, OnePromise
  <2>2. Body(l) = page
    BY <2>1, ServerAssumption DEF Body, Only, IInv, PageIsOwn
  <2> QED
    BY <2>1, <2>2 DEF IInv, PageIsOwn
<1> QED
  BY <1>1, InitIInv, NextIInv, PTL DEF Spec, PageOfOneInstant
=============================================================================
