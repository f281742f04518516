---------------------------- MODULE MetricsServer ----------------------------
(***************************************************************************)
(* The scrape path: the /metrics route with its shared render              *)
(* (src/src/server/routes.ts), renderMetrics() of src/src/index.ts and the *)
(* four collectors of src/src/metrics/, over the caches the poll path      *)
(* fills whenever it likes.  The gauges outlive a render, so what a scrape *)
(* must not see is what an earlier render left in them.                    *)
(*                                                                         *)
(* A series is a tuple: a gauge family and its labels.  A page is the set  *)
(* of the samples, series and value, that the registry exposes.            *)
(***************************************************************************)
EXTENDS Integers, FiniteSets

CONSTANTS
  Scrapes,    \* GET /metrics requests
  Devices,
  Hooked      \* families with a collect() hook, read after registry.metrics() yields

\* A labelled gauge family per collector, and the labelless ones of a license.
Families == {"ha", "device", "connectivity", "registered", "evalUsed", "expiry"}

ASSUME ServerAssumption ==
  /\ Hooked \subseteq Families
  /\ IsFiniteSet(Devices)
  /\ Scrapes \cap {"none", "rejected"} = {}

VARIABLES
  health,        \* cache.get(): each device's HA status in the last snapshot
  inventory,     \* getDeviceInventory()
  license,       \* getLicenseStatus()
  certificates,  \* getDeviceCertificates(): devices with a certificate
  page,          \* the registry's ftd_* series
  series,        \* ftd_exporter_series
  inFlight,      \* the shared promise: a render, none, or one stored rejected
  awaits,        \* the promise each request awaits
  read,          \* what each render's registry.metrics() has read so far
  scrape,        \* where each request is
  truth          \* history: what the caches held when each render ran

cacheVars == <<health, inventory, license, certificates>>
renderVars == <<page, series, inFlight, awaits, read, truth>>
vars == <<cacheVars, renderVars, scrape>>

-----------------------------------------------------------------------------
(* What the poll path publishes.  A value no vocabulary knows may arrive.  *)

HaStatus == {"normal", "unknown"}          \* HA_NODE_STATUS_VALUES
Raw == HaStatus \cup {"novel"}
Health == [Devices -> {"gone"} \cup Raw]        \* absent, or without HA
Inventory == [Devices -> {"gone", "online", "unreachable", "novel"}]
License == {"none", "unset", "no", "yes"}  \* no record, or its evalUsed

Unread == [first |-> {}, count |-> 0]

\* What the variables hold; whatever a device reports, the labels of its state
\* set stay in the vocabulary.
TypeOK ==
  /\ health \in Health /\ inventory \in Inventory
  /\ license \in License /\ certificates \in SUBSET Devices
  /\ \A sample \in page :
       /\ sample[1][1] \in Families /\ sample[2] \in {0, 1}
       /\ sample[1][1] = "ha" => sample[1][3] \in HaStatus
  /\ series \in Nat
  /\ inFlight \in Scrapes \cup {"none", "rejected"}
  /\ awaits \in [Scrapes -> Scrapes \cup {"none", "rejected"}]
  /\ scrape \in [Scrapes -> {"idle", "waiting", "served", "failed"}]

Init ==
  /\ health = [d \in Devices |-> "gone"]
  /\ inventory = [d \in Devices |-> "gone"]
  /\ license = "none" /\ certificates = {}
  /\ page = {<<<<"evalUsed">>, 0>>} /\ series = 0
  /\ inFlight = "none" /\ awaits = [r \in Scrapes |-> "none"]
  /\ read = [r \in Scrapes |-> Unread] /\ truth = [r \in Scrapes |-> {}]
  /\ scrape = [r \in Scrapes |-> "idle"]

\* A poll succeeds; a refresh does.
PublishHealth ==
  /\ \E h \in Health : health' = h
  /\ UNCHANGED <<inventory, license, certificates, renderVars, scrape>>

PublishRefresh ==
  /\ \/ \E i \in Inventory : inventory' = i /\ UNCHANGED <<license, certificates>>
     \/ license' \in License /\ UNCHANGED <<inventory, certificates>>
     \/ certificates' \in SUBSET Devices /\ UNCHANGED <<inventory, license>>
  /\ UNCHANGED <<health, renderVars, scrape>>

-----------------------------------------------------------------------------
(* prom-client's gauges *)

Only(p, fams) == {sample \in p : sample[1][1] \in fams}
Removed(p, fams) == Only(p, Families \ fams)

\* reset() leaves a gauge that has no labels with the value 0.
Labelless == {"evalUsed"}
Reset(p, fams) == {<<<<f>>, 0>> : f \in fams \cap Labelless} \cup Removed(p, fams)

\* set() replaces the value of the same labels.
Set(samples, p) == samples \cup {old \in p : \A new \in samples : new[1] # old[1]}

-----------------------------------------------------------------------------
(* The collectors: each empties its gauges, then sets what it is given.    *)
(* The HA state set stands for the families of a health snapshot.          *)

\* classifyHaNodeStatus(): a value outside the vocabulary counts as unknown.
ActiveLabel(raw) == IF raw \in HaStatus THEN raw ELSE "unknown"

DeviceSeries ==
  {<<<<"ha", d, status>>, IF status = ActiveLabel(health[d]) THEN 1 ELSE 0>> :
     d \in {e \in Devices : health[e] \in Raw}, status \in HaStatus}

RenderDevices(p) == Set(DeviceSeries, Reset(p, {"ha"}))

\* A device is listed whatever its connectivity; up is set only when known.
Listed == {d \in Devices : inventory[d] # "gone"}
Known == {d \in Listed : inventory[d] # "novel"}
InventorySeries ==
  {<<<<"device", d>>, 1>> : d \in Listed}
  \cup {<<<<"connectivity", d>>, IF inventory[d] = "online" THEN 1 ELSE 0>> : d \in Known}
RenderInventory(p) == Set(InventorySeries, Reset(p, {"device", "connectivity"}))

LicenseSeries ==
  IF license = "none" THEN {}
  ELSE IF license = "unset" THEN {<<<<"registered">>, 1>>}
  ELSE {<<<<"registered">>, 1>>, <<<<"evalUsed">>, IF license = "yes" THEN 1 ELSE 0>>}

\* The labelless gauges are removed, where reset() would leave a zero.
RenderLicense(p) ==
  Set(LicenseSeries, Removed(Reset(p, {"registered"}), {"evalUsed"}))

CertificateSeries == {<<<<"expiry", d>>, 1>> : d \in certificates}
RenderCertificates(p) == Set(CertificateSeries, Reset(p, {"expiry"}))

Rendered == RenderCertificates(RenderLicense(RenderInventory(RenderDevices(page))))

\* The sum of the four collectors' seriesCount.
SeriesCount ==
  Cardinality(DeviceSeries) + Cardinality(InventorySeries)
  + Cardinality(LicenseSeries) + Cardinality(CertificateSeries)

-----------------------------------------------------------------------------
(* createMetricsRenderer() *)

\* What the caches hold, as the exposition should show it.
Facts ==
  {<<<<"ha", d, s>>, IF s = health[d] \/ (health[d] = "novel" /\ s = "unknown") THEN 1 ELSE 0>> :
      d \in {e \in Devices : health[e] # "gone"}, s \in HaStatus}
  \cup {<<<<"device", d>>, 1>> : d \in {e \in Devices : inventory[e] # "gone"}}
  \cup {<<<<"connectivity", d>>, 1>> : d \in {e \in Devices : inventory[e] = "online"}}
  \cup {<<<<"connectivity", d>>, 0>> : d \in {e \in Devices : inventory[e] = "unreachable"}}
  \cup {<<<<"registered">>, 1>> : x \in {license} \ {"none"}}
  \cup {<<<<"evalUsed">>, IF x = "yes" THEN 1 ELSE 0>> : x \in {license} \cap {"yes", "no"}}
  \cup {<<<<"expiry", d>>, 1>> : d \in certificates}

\* renderMetrics() and the part of registry.metrics() before its first yield,
\* in a render named for the request that started it.
Render(r) ==
  /\ page' = Rendered
  /\ series' = SeriesCount
  /\ read' = [read EXCEPT ![r] = [first |-> Only(page', Families \ Hooked), count |-> series']]
  /\ truth' = [truth EXCEPT ![r] = Facts]

\* A wrong gate: each request renders for itself.
EachRenders == TRUE
NoFlight == inFlight = "none"

\* inFlight ??= ...: the first request renders, the others share its promise.
Scrape(r) ==
  /\ scrape[r] = "idle"
  /\ scrape' = [scrape EXCEPT ![r] = "waiting"]
  /\ IF NoFlight
     THEN Render(r) /\ inFlight' = r
     ELSE UNCHANGED <<page, series, read, truth, inFlight>>
  /\ awaits' = [awaits EXCEPT ![r] = inFlight']
  /\ UNCHANGED cacheVars

\* renderMetrics() throws before the first yield: the finally clears inFlight,
\* then the assignment stores the promise that has already been rejected.  The
\* page it left half rendered is never read.
ScrapeThrows(r) ==
  /\ scrape[r] = "idle" /\ NoFlight
  /\ scrape' = [scrape EXCEPT ![r] = "waiting"]
  /\ inFlight' = "rejected" /\ awaits' = [awaits EXCEPT ![r] = "rejected"]
  /\ UNCHANGED <<cacheVars, page, series, read, truth>>

\* Render l as its registry.metrics() ends: the hooked families are read late.
Body(l) == read[l].first \cup Only(page, Hooked)

\* Wrong: only the request that started the render learns its outcome.
AnswersOne(l, status) ==
  /\ scrape' = [r \in Scrapes |-> IF r = l THEN status ELSE scrape[r]]
  /\ awaits' = [r \in Scrapes |-> IF r = l THEN "none" ELSE awaits[r]]
Answer(l, status) ==
  /\ scrape' = [r \in Scrapes |-> IF awaits[r] = l THEN status ELSE scrape[r]]
  /\ awaits' = [r \in Scrapes |-> IF awaits[r] = l THEN "none" ELSE awaits[r]]

\* registry.metrics() resolves, or rejects; the finally clears inFlight.
Settles(l) ==
  /\ awaits[l] = l
  /\ Answer(l, "served") \/ Answer(l, "failed")
  /\ inFlight' = "none"
  /\ read' = [read EXCEPT ![l] = Unread] /\ truth' = [truth EXCEPT ![l] = {}]
  /\ UNCHANGED <<cacheVars, page, series>>

\* The stored rejection is answered with a 500, now and ever after.
AnswersRejected ==
  /\ \E r \in Scrapes : awaits[r] = "rejected"
  /\ Answer("rejected", "failed")
  /\ UNCHANGED <<cacheVars, page, series, read, truth, inFlight>>

\* The client comes back with another scrape.
Again(r) ==
  /\ scrape[r] \in {"served", "failed"}
  /\ scrape' = [scrape EXCEPT ![r] = "idle"]
  /\ UNCHANGED <<cacheVars, page, series, read, truth, inFlight, awaits>>

Next ==
  \/ PublishHealth \/ PublishRefresh \/ AnswersRejected
  \/ \E r \in Scrapes : Scrape(r) \/ ScrapeThrows(r) \/ Settles(r) \/ Again(r)

Spec == Init /\ [][Next]_vars

\* registry.metrics() settles, and the microtasks of a settled promise run.
FairSpec == Spec /\ WF_vars(AnswersRejected) /\ \A r \in Scrapes : WF_vars(Settles(r))

-----------------------------------------------------------------------------
(* Properties *)

ServedBy(l) == \E r \in Scrapes : awaits[r] = l /\ scrape'[r] = "served"

\* Every page served is exactly what the caches held at one instant: nothing
\* an earlier render left behind, no false zero where the upstream reported
\* nothing, one active state per state set, and no mix of two instants,
\* however scrapes and polls overlap.  And ftd_exporter_series, read with its
\* first part, counts the series of the whole page, from all four collectors.
PageOfOneInstant ==
  [][\A l \in Scrapes : ServedBy(l) =>
       /\ Body(l) = truth[l]
       /\ read[l].count = Cardinality(Body(l))]_vars

\* Every scrape is answered, with the page of the render it shares or an error.
ScrapesAnswered == \A r \in Scrapes : scrape[r] = "waiting" ~> scrape[r] # "waiting"
=============================================================================
