--------------------------- MODULE HealthMapping ---------------------------
(***************************************************************************)
(* What the mappers make of an upstream answer: src/src/backends/shared,   *)
(* fmc/map.ts, fmc/empty.ts, scc/map.ts and scc/inventory-map.ts.  They    *)
(* are pure functions of a body nothing has checked before them.           *)
(*                                                                         *)
(* A part is a JSON object or what stands in its place: object says which, *)
(* and has maps the keys it holds to their values.  A value is Wrong (of   *)
(* another type than the key is read as, null and NaN among them), Blank   *)
(* (the empty string) or genuine; zero is a genuine number.                *)
(* A raw group is the value of one key of a device's answer: absent, of    *)
(* the wrong shape, or of the right one with its parts in order.  What a   *)
(* mapper keeps of it are facts <<part, key, value>>; a parse error is a   *)
(* pair <<device, what it is about>>.                                      *)
(***************************************************************************)
EXTENDS Integers, Sequences

Wrong == "wrong"
Blank == "blank"
Missing == "missing"   \* in place of a key that is not there
Garbled == -1          \* a timestamp of no known format; 0 stands for none

\* Groups that are one object; the others hold parts: fans and power
\* supplies, tunnels, interfaces.
OneObject == {"cpu", "memory", "disk", "ha", "raVpn"}
Groups == OneObject \cup {"chassis", "s2sTunnels", "interface"}

\* The keys without which a part is of no use.
Required ==
  [g \in Groups \cup {"inventory", "haNode", "license", "certificate"} |->
     CASE g = "ha" -> {"nodeStatus", "nodeType"}
       [] g = "s2sTunnels" -> {"tunnelId", "tunnelName", "tunnelState"}
       [] g = "interface" -> {"interface"}
       [] g = "inventory" -> {"uid", "name"}
       [] g = "haNode" -> {"name"}
       [] g = "license" -> {"regStatus"}
       [] OTHER -> {}]

\* Where a bad key costs that key and not its part.
KeyByKey == {"interface", "inventory", "haNode", "license"}

\* readOptionalNumber, readOptionalString, readRequiredString.
Unreadable(g, part, key) ==
  \/ part.has[key] = Wrong
  \/ part.has[key] = Blank /\ key \in Required[g]

Dropped(g, part) ==
  \/ ~part.object
  \/ \E key \in Required[g] : key \notin DOMAIN part.has
  \/ \E key \in DOMAIN part.has :
        Unreadable(g, part, key) /\ (key \in Required[g] \/ g \notin KeyByKey)

Readable(g, part) == {key \in DOMAIN part.has : ~Unreadable(g, part, key)}

Flawed(g, part) ==
  Dropped(g, part) \/ \E key \in DOMAIN part.has : Unreadable(g, part, key)

\* An interface without a readable name goes by its hardware id.
Fallback(g, i, part) ==
  IF g = "interface" /\ "interfaceName" \notin Readable(g, part)
  THEN {<<i, "interfaceName", part.has["interface"]>>}
  ELSE {}

PartFacts(g, i, part) ==
  IF Dropped(g, part) THEN {}
  ELSE {<<i, key, part.has[key]>> : key \in Readable(g, part)} \cup Fallback(g, i, part)

\* mapCpu, mapMemory, mapDisk, mapHa, mapRaVpn; mapChassis and mapS2sTunnels
\* and the interface lists: an empty list is given, too.
Given(g, raw) ==
  /\ raw.shape = "right"
  /\ g \in OneObject => \A i \in DOMAIN raw.parts : ~Dropped(g, raw.parts[i])

GroupFacts(g, raw) ==
  UNION {PartFacts(g, i, raw.parts[i]) : i \in DOMAIN raw.parts}

GroupErrors(d, g, raw) ==
  IF raw.shape = "wrong" \/ \E i \in DOMAIN raw.parts : Flawed(g, raw.parts[i])
  THEN {<<d, g>>}
  ELSE {}

Known(time) == time > 0
Parsed(time) == IF Known(time) THEN time ELSE 0

WindowErrors(d, about, item) ==
  IF item.start = Garbled \/ item.end = Garbled THEN {<<d, about>>} ELSE {}

-----------------------------------------------------------------------------
(***************************************************************************)
(* FMC: one answer for a device and a family.  reply.kind is "failed" for  *)
(* a request that failed or a body that is not a JSON object; of an object *)
(* count is paging.count where there is a paging block, and shape says     *)
(* whether items is absent, a list or something else.                      *)
(***************************************************************************)
FamilyGroup ==
  [CPU |-> "cpu", MEM |-> "memory", DISK_STATS |-> "disk",
   CHASSIS_STATS |-> "chassis", INTERFACE |-> "interface"]

\* Faulty: any body without items passes for an absence, or only an empty list.
AnyWithoutItems(reply) == reply.shape = "absent" \/ reply.items = <<>>
OnlyEmptyList(reply) == reply.shape = "right" /\ reply.items = <<>>

\* A family the device lacks or its policy does not collect.
IsEmptyFamilyResponse(reply) ==
  \/ reply.shape = "absent" /\ reply.paged
  \/ reply.shape = "right" /\ reply.items = <<>>

\* Faulty: the item's id is not looked at.
MisaddressedByCount(d, reply) ==
  (reply.paged /\ reply.count > 1) \/ reply.shape # "right" \/ ~reply.items[1].object

\* Anything else that is not exactly what was asked for is not trusted.
Misaddressed(d, reply) ==
  \/ reply.paged /\ reply.count > 1
  \/ reply.shape # "right"
  \/ ~reply.items[1].object
  \/ reply.items[1].id \notin {d, Missing}

Refused(d, reply) ==
  \/ reply.kind = "failed"
  \/ reply.error
  \/ ~IsEmptyFamilyResponse(reply) /\ Misaddressed(d, reply)

Nothing(errors) ==
  [given |-> FALSE, group |-> "none", facts |-> {}, errors |-> errors,
   start |-> 0, end |-> 0]

MapItem(d, f, item) ==
  LET g == FamilyGroup[f]
      raw == item.groups[g]
  IN  [given |-> Given(g, raw), group |-> g, facts |-> GroupFacts(g, raw),
       errors |-> WindowErrors(d, f, item) \cup GroupErrors(d, g, raw),
       start |-> Parsed(item.start), end |-> Parsed(item.end)]

MapFmcFamilyResponse(d, f, reply) ==
  IF Refused(d, reply) THEN Nothing({<<d, f>>})
  ELSE IF IsEmptyFamilyResponse(reply) THEN Nothing({})
  ELSE MapItem(d, f, reply.items[1])

\* mergeFmcFamilies.  results are in the order in which they arrived: of two
\* for a group the later one stays, of two equally late windows the earlier.
Contributors(results, g) ==
  {i \in DOMAIN results : results[i].given /\ results[i].group = g}

Contributed(results) == {g \in Groups : Contributors(results, g) # {}}

LastOf(results, g) ==
  CHOOSE i \in Contributors(results, g) : \A j \in Contributors(results, g) : j <= i

Windows(results) == {i \in DOMAIN results : Known(results[i].end)}

\* Faulty: the window that arrived last.
LastArrived(results) ==
  CHOOSE i \in Windows(results) : \A j \in Windows(results) : j <= i

Newest(results) ==
  CHOOSE i \in Windows(results) : \A j \in Windows(results) :
    \/ results[j].end < results[i].end
    \/ results[j].end = results[i].end /\ i <= j

MergeFmcFamilies(d, results) ==
  LET dated == Windows(results) # {}
  IN  [device |-> d,
       groups |-> [g \in Contributed(results) |-> results[LastOf(results, g)].facts],
       start |-> IF dated THEN results[Newest(results)].start ELSE 0,
       end |-> IF dated THEN results[Newest(results)].end ELSE 0]

-----------------------------------------------------------------------------
(***************************************************************************)
(* SCC: one answer for the tenant.                                         *)
(***************************************************************************)
Rooted(entry) ==
  entry.object /\ {entry.id, entry.name} \cap {Wrong, Blank, Missing} = {}

MapSccDevice(entry) ==
  [device |-> entry.id,
   groups |-> [g \in {h \in Groups : Given(h, entry.groups[h])} |->
                 GroupFacts(g, entry.groups[g])],
   start |-> Parsed(entry.start), end |-> Parsed(entry.end)]

SccDeviceErrors(entry) ==
  IF Rooted(entry)
  THEN WindowErrors(entry.id, "window", entry)
         \cup UNION {GroupErrors(entry.id, g, entry.groups[g]) : g \in Groups}
  ELSE {<<Missing, "root">>}

\* A payload is a raw group whose parts are the entries.
MapSccResponse(payload) ==
  {MapSccDevice(payload.parts[i]) : i \in {j \in DOMAIN payload.parts : Rooted(payload.parts[j])}}

SccErrors(payload) ==
  IF payload.shape = "wrong" THEN {<<Missing, "root">>}
  ELSE UNION {SccDeviceErrors(payload.parts[i]) : i \in DOMAIN payload.parts}

\* mapSccInventoryResponse: devices of another type are none of its business.
IsFtd(item) == item.object /\ item.type = "CDFMC_MANAGED_FTD"

\* readHaNodes: of two nodes of one name the first stays.
SameName(nodes, i, j) == nodes[i].has["name"] = nodes[j].has["name"]

KeptNodes(nodes) ==
  {i \in DOMAIN nodes :
     /\ ~Dropped("haNode", nodes[i])
     /\ \A j \in 1..(i - 1) : Dropped("haNode", nodes[j]) \/ ~SameName(nodes, i, j)}

NodeFacts(nodes) == UNION {PartFacts("haNode", i, nodes[i]) : i \in KeptNodes(nodes)}

MapInventoryItem(item) ==
  [device |-> item.has["uid"],
   groups |-> [inventory |-> PartFacts("inventory", 1, item), haNode |-> NodeFacts(item.ha.parts)],
   start |-> 0, end |-> 0]

FlawedItem(item) ==
  \/ Flawed("inventory", item)
  \/ item.ha.shape = "wrong"
  \/ \E i \in DOMAIN item.ha.parts :
        i \notin KeptNodes(item.ha.parts) \/ Flawed("haNode", item.ha.parts[i])

InventoryItemErrors(item) ==
  IF item.object /\ item.type # Wrong /\ ~IsFtd(item) THEN {}
  ELSE IF ~IsFtd(item) \/ Dropped("inventory", item) THEN {<<Missing, "inventory">>}
  ELSE IF FlawedItem(item) THEN {<<item.has["uid"], "inventory">>}
  ELSE {}

MapSccInventoryResponse(payload) ==
  {MapInventoryItem(payload.parts[i]) :
     i \in {j \in DOMAIN payload.parts :
              IsFtd(payload.parts[j]) /\ ~Dropped("inventory", payload.parts[j])}}

InventoryErrors(payload) ==
  IF payload.shape = "wrong" THEN {<<Missing, "inventory">>}
  ELSE UNION {InventoryItemErrors(payload.parts[i]) : i \in DOMAIN payload.parts}

\* mapLicenseResponse: the first record, whatever follows it.
MapLicenseResponse(payload) ==
  {[device |-> Missing, groups |-> [license |-> PartFacts("license", 1, payload.parts[i])],
    start |-> 0, end |-> 0] :
     i \in {j \in DOMAIN payload.parts \cap {1} : ~Dropped("license", payload.parts[j])}}

LicenseErrors(payload) ==
  IF \/ payload.shape = "wrong"
     \/ Len(payload.parts) > 1
     \/ payload.parts # <<>> /\ Flawed("license", payload.parts[1])
  THEN {<<Missing, "license">>}
  ELSE {}

-----------------------------------------------------------------------------
(***************************************************************************)
(* Certificates, of either backend.  A record lists those of one device;   *)
(* joined maps the ids of the records to the devices the caller knows them *)
(* for.  Of a certificate the facts are <<its name, key, value>>, which is *)
(* what tells its series apart.                                            *)
(***************************************************************************)
NotApplicable == "NOT_APPLICABLE"
Sentinel == "-"        \* the expiry of what is not applicable
Undated == "undated"   \* an expiry of no known format, a blank one too

\* A certificate's components: the keys of their status and expiry.
Components ==
  {<<"caCertificateStatus", "caCertExpiryDate">>,
   <<"identityCertificateStatus", "identityCertExpiryDate">>}

Field(part, key) == IF part.object /\ key \in DOMAIN part.has THEN part.has[key] ELSE Missing

\* A certificate without a readable name goes by none.
CertName(part) ==
  IF "name" \in Readable("certificate", part) THEN part.has["name"] ELSE Blank

Applies(part, component) ==
  /\ Field(part, component[1]) \notin {Wrong, Missing, NotApplicable}
  /\ Field(part, component[2]) \notin {Wrong, Missing, Sentinel, Undated}

Inapplicable(part, component) ==
  LET status == Field(part, component[1])
      expiry == Field(part, component[2])
  IN  \/ status = Missing /\ expiry = Missing
      \/ status = NotApplicable /\ expiry \in {Missing, Sentinel}

\* Of two certificates of one name the first stays.
Taken(parts, i, component) ==
  \E j \in 1..(i - 1) : Applies(parts[j], component) /\ CertName(parts[j]) = CertName(parts[i])

Enrolled(parts) ==
  {entry \in (DOMAIN parts) \X Components :
     Applies(parts[entry[1]], entry[2]) /\ ~Taken(parts, entry[1], entry[2])}

EntryFacts(part, component) ==
  {<<CertName(part), component[1], part.has[component[1]]>>,
   <<CertName(part), component[2], part.has[component[2]]>>}

CertificateFacts(parts) ==
  UNION {EntryFacts(parts[entry[1]], entry[2]) : entry \in Enrolled(parts)}

FlawedCertificates(raw) ==
  \/ raw.shape = "wrong"
  \/ \E i \in DOMAIN raw.parts :
        \/ ~raw.parts[i].object
        \/ \E c \in Components :
              <<i, c>> \notin Enrolled(raw.parts) /\ ~Inapplicable(raw.parts[i], c)

\* mapDeviceCertificatesResponse: a record no device is known for is reported,
\* one that lists no certificates is passed over.
Joined(record, joined) ==
  record.object /\ "id" \in DOMAIN record.has /\ record.has["id"] \in DOMAIN joined

MapCertificates(payload) ==
  {[device |-> payload.joined[record.has["id"]],
    groups |-> [certificate |-> CertificateFacts(record.certificates.parts)],
    start |-> 0, end |-> 0] :
     record \in {payload.parts[i] : i \in {j \in DOMAIN payload.parts :
                   /\ Joined(payload.parts[j], payload.joined)
                   /\ Enrolled(payload.parts[j].certificates.parts) # {}}}}

RecordErrors(record, joined) ==
  IF ~Joined(record, joined) THEN {<<Missing, "certificate">>}
  ELSE IF FlawedCertificates(record.certificates) THEN {<<joined[record.has["id"]], "certificate">>}
  ELSE {}

CertificateErrors(payload) ==
  IF payload.shape = "wrong" THEN {<<Missing, "certificate">>}
  ELSE UNION {RecordErrors(payload.parts[i], payload.joined) : i \in DOMAIN payload.parts}
=============================================================================
