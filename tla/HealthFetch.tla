---------------------------- MODULE HealthFetch ----------------------------
(***************************************************************************)
(* From the configuration to the snapshot a poll returns: what is asked,   *)
(* what each answer is taken for, and what the poll makes of all of them.  *)
(* Against FMC that is fetchSnapshot()'s fan-out over (device, family),    *)
(* whose answers arrive in any order (src/src/backends/fmc/adapter.ts);    *)
(* against SCC one answer for the tenant (src/src/backends/scc/adapter.ts).*)
(* The refreshes of inventory, license and certificates, which map their   *)
(* answers the same way in both adapters, are fetches of their own here.   *)
(*                                                                         *)
(* When requests are sent, and retried, is FmcFanOut's and SccAdapter's    *)
(* matter; what becomes of a snapshot Poller's.                            *)
(***************************************************************************)
EXTENDS Configuration, HealthMapping

CONSTANTS
  Devices,      \* devices FMC manages
  Fleets,       \* bound: how often discovery lists each of them
  Replies,      \* bound: FMC's answers for a device and a family
  HealthLists,  \* bound: SCC's answers to health/metrics
  Inventories,  \* bound: SCC's answers to inventory/devices
  Licenses,     \* bound: answers to smartlicenses
  Certificates  \* bound: answers to devices/certificates

\* An environment is reduced to the variables validate() reads; the list of
\* families is one, or blank.
Environment(env) ==
  /\ DOMAIN env \subseteq Variables
  /\ \A var \in DOMAIN env : env[var] # Unset
  /\ "FMC_METRIC_FAMILIES" \in DOMAIN env =>
       env["FMC_METRIC_FAMILIES"] \in Seq(STRING) \cup {Whitespace}

\* The words a value may be.
Words ==
  {"scc", "fmc", "http:", "https:", "https://edge", "given", "readable", "unreadable"}
    \cup UNION {WordVar[var].range : var \in DOMAIN WordVar}

\* Environments are processes' and files'; what stands for no value, for blanks
\* and for a malformed one is no number, word or list.
EnvironmentAssumption ==
  /\ MetricFamilies # {}
  /\ \A f \in MetricFamilies : f \in STRING
  /\ \A env \in Environments \cup {file.vars : file \in EnvFiles} : Environment(env)
  /\ \A mark \in {Unset, Whitespace, Malformed} : mark \notin Words \cup Int \cup Seq(STRING)
  /\ Unset \notin {Whitespace, Malformed} /\ Whitespace # Malformed
ASSUME EnvironmentAssumption

\* What an answer is taken for: what holds no list has no parts, and no value is
\* the sign that stands for its absence.  An upstream may still send anything.
Listed(raw) ==
  /\ raw.parts \in Seq({raw.parts[i] : i \in DOMAIN raw.parts})
  /\ raw.shape # "right" => raw.parts = <<>>

AnswersAssumption ==
  /\ MetricFamilies \subseteq DOMAIN FamilyGroup
  /\ \A reply \in Replies :
       /\ reply.items # <<>> => 1 \in DOMAIN reply.items
       /\ \A i \in DOMAIN reply.items :
            /\ {reply.items[i].start, reply.items[i].end} \subseteq Nat \cup {Garbled}
            /\ \A g \in Groups : Listed(reply.items[i].groups[g])
  /\ \A payload \in HealthLists :
       /\ Listed(payload)
       /\ \A i \in DOMAIN payload.parts : \A g \in Groups : Listed(payload.parts[i].groups[g])
  /\ \A payload \in Inventories :
       Listed(payload) /\ \A i \in DOMAIN payload.parts : Listed(payload.parts[i].ha)
  /\ \A payload \in Licenses : Listed(payload)
  /\ \A payload \in Certificates :
       /\ Listed(payload)
       /\ \A id \in DOMAIN payload.joined : payload.joined[id] \in Devices
       /\ \A i \in DOMAIN payload.parts :
            LET raw == payload.parts[i].certificates
            IN  Listed(raw) /\ \A j \in DOMAIN raw.parts : \A key \in DOMAIN raw.parts[j].has :
                                 raw.parts[j].has[key] # Missing
ASSUME AnswersAssumption

MaxRepeats == 4   \* bound: a family listed twice, of a device listed twice

VARIABLES
  asked,     \* requests of this fetch: their promises or pages
  heard,     \* the answers to them
  results,   \* perDeviceResults: what arrived, in that order
  shown,     \* the snapshots, or the value of a refresh
  reported,  \* the parse errors handed to onParseError
  ended      \* the fetch has returned

fetchVars == <<asked, heard, results, shown, reported, ended>>
vars == <<configVars, fetchVars>>

Init ==
  /\ ConfigInit
  /\ asked = {}
  /\ heard = <<>>
  /\ results = [d \in Devices |-> <<>>]
  /\ shown = {}
  /\ reported = {}
  /\ ended = TRUE

Configures == ConfigNext /\ UNCHANGED fetchVars

Asks(requests) ==
  /\ phase = "running"
  /\ ended
  /\ asked' = requests
  /\ heard' = <<>>
  /\ results' = [d \in Devices |-> <<>>]
  /\ shown' = {}
  /\ reported' = {}
  /\ ended' = FALSE
  /\ UNCHANGED configVars

\* A request names the device, the family and which of its repetitions it is.
Task(d, f, n) == [of |-> "family", device |-> d, family |-> f, nth |-> n]
Request(of) == [of |-> of, device |-> Missing, family |-> "none", nth |-> 1]

\* fetchSnapshot of the FMC adapter.  A device that moved from one page of the
\* fleet to the next as it was read is listed, and asked, twice.
FmcFetch ==
  /\ backend.kind = "fmc"
  /\ \E fleet \in Fleets :
       Asks({Task(t[1], t[2], t[3]) : t \in
               {u \in Devices \X MetricFamilies \X (1..MaxRepeats) :
                  u[3] <= fleet[u[1]] * backend.families[u[2]]}})

SccFetch == backend.kind = "scc" /\ Asks({Request("health")})

InventoryRefresh == backend.kind = "scc" /\ Asks({Request("inventory")})

LicenseRefresh == Asks({Request("license")})

CertificateRefresh == Asks({Request("certificates")})

Hears(request, answer) ==
  /\ request \in asked \ DOMAIN heard
  /\ heard' = [r \in DOMAIN heard \cup {request} |-> IF r = request THEN answer ELSE heard[r]]

\* fetchFamilyForDevice settles: it never rejects.
FamilyAnswered(task, reply) ==
  /\ task.of = "family"
  /\ Hears(task, reply)
  /\ results' = [results EXCEPT
       ![task.device] = Append(@, MapFmcFamilyResponse(task.device, task.family, reply))]
  /\ UNCHANGED <<asked, shown, reported, ended, configVars>>

\* buildSnapshots: a device nothing is known of has no snapshot.
BuildSnapshots ==
  /\ ~ended
  /\ asked = DOMAIN heard
  /\ shown' = {MergeFmcFamilies(d, results[d]) : d \in {e \in Devices : Contributed(results[e]) # {}}}
  /\ reported' = UNION {UNION {results[d][i].errors : i \in DOMAIN results[d]} : d \in Devices}
  /\ ended' = TRUE
  /\ UNCHANGED <<asked, heard, results, configVars>>

Ends(snapshots, errors) ==
  /\ shown' = snapshots
  /\ reported' = errors
  /\ ended' = TRUE
  /\ UNCHANGED <<asked, results, configVars>>

HealthAnswered ==
  /\ Request("health") \in asked
  /\ \E payload \in HealthLists :
       Hears(Request("health"), payload) /\ Ends(MapSccResponse(payload), SccErrors(payload))

InventoryAnswered ==
  /\ Request("inventory") \in asked
  /\ \E payload \in Inventories :
       Hears(Request("inventory"), payload) /\ Ends(MapSccInventoryResponse(payload), InventoryErrors(payload))

LicenseAnswered ==
  /\ Request("license") \in asked
  /\ \E payload \in Licenses :
       Hears(Request("license"), payload) /\ Ends(MapLicenseResponse(payload), LicenseErrors(payload))

CertificatesAnswered ==
  /\ Request("certificates") \in asked
  /\ \E payload \in Certificates :
       Hears(Request("certificates"), payload) /\ Ends(MapCertificates(payload), CertificateErrors(payload))

Next ==
  \/ Configures
  \/ FmcFetch \/ SccFetch \/ InventoryRefresh \/ LicenseRefresh \/ CertificateRefresh
  \/ \E task \in asked, reply \in Replies : FamilyAnswered(task, reply)
  \/ BuildSnapshots
  \/ HealthAnswered \/ InventoryAnswered \/ LicenseAnswered \/ CertificatesAnswered

Spec == Init /\ [][Next]_vars

-----------------------------------------------------------------------------
(***************************************************************************)
(* What the answers say, in words that owe nothing to the mappers.  A      *)
(* statement about a device is a pair of a group and its raw value.        *)
(***************************************************************************)
TasksOf(d) == {task \in DOMAIN heard : task.of = "family" /\ task.device = d}

Polled == {d \in Devices : TasksOf(d) # {}}

Absence(reply) ==
  /\ reply.kind # "failed"
  /\ ~reply.error
  /\ \/ reply.shape = "right" /\ reply.items = <<>>
     \/ reply.shape = "absent" /\ reply.paged

\* The one device that was asked for, and no other.
About(d, reply) ==
  /\ reply.kind # "failed"
  /\ ~reply.error
  /\ reply.shape = "right"
  /\ reply.items # <<>>
  /\ ~(reply.paged /\ reply.count > 1)
  /\ reply.items[1].object
  /\ reply.items[1].id \in {d, Missing}

Answers(d) == {task \in TasksOf(d) : About(d, heard[task])}

Said(task) ==
  LET g == FamilyGroup[task.family] IN <<g, heard[task].items[1].groups[g]>>

\* A value of the right type, which a required one may not be if it is blank.
Genuine(g, part, key) ==
  /\ part.object
  /\ key \in DOMAIN part.has
  /\ part.has[key] # Wrong
  /\ key \in Required[g] => part.has[key] # Blank

Whole(g, part) ==
  /\ part.object
  /\ \A key \in Required[g] \cup DOMAIN part.has : Genuine(g, part, key)

Flawless(stated) ==
  /\ stated[2].shape # "wrong"
  /\ \A i \in DOMAIN stated[2].parts : Whole(stated[1], stated[2].parts[i])

Timely(item) == Garbled \notin {item.start, item.end}

\* The parts of SCC's answer that name a device, and what they state.
PartsOf(of) ==
  IF Request(of) \in DOMAIN heard
  THEN LET parts == heard[Request(of)].parts IN {parts[i] : i \in DOMAIN parts}
  ELSE {}

Identified(entry) ==
  entry.object /\ \A name \in {entry.id, entry.name} : name \notin {Wrong, Blank, Missing}

\* Of another type, or of none.
Another(item) == item.object /\ item.type \notin {Wrong, "CDFMC_MANAGED_FTD"}

Managed(item) ==
  /\ item.object
  /\ item.type = "CDFMC_MANAGED_FTD"
  /\ \A key \in Required["inventory"] : Genuine("inventory", item, key)

Single(part) == [shape |-> "right", parts |-> <<part>>]

InventoryOf(item) == {<<"inventory", Single(item)>>, <<"haNode", item.ha>>}

\* A record of certificates is about the device its id is known for.
RecordOf(record, d) ==
  LET joined == heard[Request("certificates")].joined
  IN  record.object /\ \E id \in DOMAIN joined :
        joined[id] = d /\ "id" \in DOMAIN record.has /\ record.has["id"] = id

Statements(d) ==
  {Said(task) : task \in Answers(d)}
    \cup (UNION {{<<g, e.groups[g]>> : g \in Groups} :
                   e \in {p \in PartsOf("health") : Identified(p) /\ p.id = d}})
    \cup (UNION {InventoryOf(item) :
                   item \in {p \in PartsOf("inventory") : Managed(p) /\ p.has["uid"] = d}})
    \cup {<<"certificate", r.certificates>> : r \in {p \in PartsOf("certificates") : RecordOf(p, d)}}
    \cup (IF d = Missing THEN {<<"license", Single(p)>> : p \in PartsOf("license")} ELSE {})

\* The name a certificate has, or is without, is a label of its series.
Label(part) == IF Genuine("certificate", part, "name") THEN part.has["name"] ELSE Blank

\* It counts if status and expiry say that it exists and until when.
Dated(part, component) ==
  /\ \A i \in 1..2 : Genuine("certificate", part, component[i])
  /\ part.has[component[1]] # "NOT_APPLICABLE"
  /\ part.has[component[2]] \notin {"-", Undated}

CertificateSays(part, fact) ==
  /\ fact[1] = Label(part)
  /\ \E c \in Components : Dated(part, c) /\ \E i \in 1..2 : <<fact[2], fact[3]>> = <<c[i], part.has[c[i]]>>

\* A fact is a genuine value of a statement, or the hardware id that stands in
\* for an interface's name.
StatedIn(raw, g, fact) ==
  \/ g = "certificate" /\ \E i \in DOMAIN raw.parts : CertificateSays(raw.parts[i], fact)
  \/ /\ g # "certificate"
     /\ fact[1] \in DOMAIN raw.parts
     /\ LET part == raw.parts[fact[1]]
        IN  \/ Genuine(g, part, fact[2]) /\ fact[3] = part.has[fact[2]]
            \/ /\ <<g, fact[2]>> = <<"interface", "interfaceName">>
               /\ ~Genuine(g, part, "interfaceName")
               /\ fact[3] = part.has["interface"]

Snapshots(d) == {s \in shown : s.device = d}

\* Nothing is invented (fmc/map.ts:98): what a snapshot says of a device in a group
\* is what one statement about that device said, and never a value that was not
\* of its key's type.
NothingInvented ==
  \A s \in shown : \A g \in DOMAIN s.groups :
    \E stated \in Statements(s.device) :
      stated[1] = g /\ \A fact \in s.groups[g] : StatedIn(stated[2], g, fact)

Kept(d, stated) ==
  LET g == stated[1]
      raw == stated[2]
  IN  /\ raw.shape # "wrong"
      /\ \A i \in DOMAIN raw.parts :
           /\ raw.parts[i].object
           /\ \A key \in DOMAIN raw.parts[i].has : \E s \in Snapshots(d) :
                g \in DOMAIN s.groups /\ <<i, key, raw.parts[i].has[key]>> \in s.groups[g]

Reported(d, about) == <<d, about>> \in reported

Superseded(task) ==
  \E other \in DOMAIN heard \ {task} :
    <<other.device, other.family>> = <<task.device, task.family>>

TaskAccounted(d, task) ==
  \/ Absence(heard[task])
  \/ Reported(d, task.family)
  \/ /\ About(d, heard[task])
     /\ \/ Reported(d, FamilyGroup[task.family])
        \/ Kept(d, Said(task))
        \/ Superseded(task) /\ Snapshots(d) # {}

EntryAccounted(entry) ==
  IF Identified(entry)
  THEN \A g \in Groups : Reported(entry.id, g) \/ Kept(entry.id, <<g, entry.groups[g]>>)
  ELSE Reported(Missing, "root")

ItemAccounted(item) ==
  IF Managed(item)
  THEN \/ Reported(item.has["uid"], "inventory")
       \/ \A stated \in InventoryOf(item) : Kept(item.has["uid"], stated)
  ELSE Another(item) \/ Reported(Missing, "inventory")

\* Whoever has a certificate shows when it expires, in a series no other
\* certificate of its record is set in.
Shows(d, part, component) ==
  \E s \in Snapshots(d) : \A i \in 1..2 :
    \E fact \in s.groups["certificate"] :
      /\ fact[2] = component[i] /\ fact[3] = part.has[component[i]]
      /\ fact[1] = Label(part)
      /\ \A other \in s.groups["certificate"] :
           <<other[1], other[2]>> = <<fact[1], fact[2]>> => other = fact

Vacant(part, component) ==
  \/ {component[1], component[2]} \cap DOMAIN part.has = {}
  \/ /\ Genuine("certificate", part, component[1])
     /\ part.has[component[1]] = "NOT_APPLICABLE"
     /\ component[2] \in DOMAIN part.has => part.has[component[2]] = "-"

RecordAccounted(record) ==
  \/ Reported(Missing, "certificate")
  \/ \E d \in Devices :
       /\ RecordOf(record, d)
       /\ \/ Reported(d, "certificate")
          \/ /\ record.certificates.shape # "wrong"
             /\ \A i \in DOMAIN record.certificates.parts :
                  LET part == record.certificates.parts[i]
                  IN  /\ part.object
                      /\ \A c \in Components : Vacant(part, c) \/ Shows(d, part, c)

\* Nothing is lost without a word (fmc/map.ts:79, fmc/empty.ts:23): of every answer
\* that is neither an absence nor superseded by a second answer for its group,
\* each genuine value is shown or its device is reported for that group.
NothingLostSilently ==
  ended =>
    /\ \A d \in Polled : \A task \in TasksOf(d) : TaskAccounted(d, task)
    /\ \A entry \in PartsOf("health") : EntryAccounted(entry)
    /\ \A item \in PartsOf("inventory") : ItemAccounted(item)
    /\ \A part \in PartsOf("license") :
         Reported(Missing, "license") \/ Kept(Missing, <<"license", Single(part)>>)
    /\ \A record \in PartsOf("certificates") : RecordAccounted(record)

\* What is healthy: an absence for what a device does not have, the rest flawless.
HealthyTask(d, task) ==
  \/ Absence(heard[task])
  \/ About(d, heard[task]) /\ Timely(heard[task].items[1]) /\ Flawless(Said(task))

HealthyEntry(entry) ==
  Identified(entry) /\ Timely(entry) /\ \A g \in Groups : Flawless(<<g, entry.groups[g]>>)

HealthyItem(item) ==
  \/ Another(item)
  \/ /\ Managed(item)
     /\ \A stated \in InventoryOf(item) : Flawless(stated)
     /\ \A i, j \in DOMAIN item.ha.parts :
          item.ha.parts[i].has["name"] = item.ha.parts[j].has["name"] => i = j

\* Two certificates of one name are not told apart, which is worth a word.
HealthyRecord(record) ==
  /\ \E d \in Devices : RecordOf(record, d)
  /\ record.certificates.shape # "wrong"
  /\ LET parts == record.certificates.parts
     IN  \A i \in DOMAIN parts : \A c \in Components :
           /\ parts[i].object
           /\ Vacant(parts[i], c) \/ Dated(parts[i], c)
           /\ \A j \in DOMAIN parts \ {i} :
                Dated(parts[i], c) /\ Dated(parts[j], c) => Label(parts[i]) # Label(parts[j])

\* A healthy fleet is quiet (fmc/empty.ts:4, DESIGN.md 4.8): whoever answers what
\* he does not have by an absence, and the rest without a flaw, is not reported.
HealthyIsQuiet ==
  /\ \A d \in Polled :
       (\A task \in TasksOf(d) : HealthyTask(d, task)) => \A error \in reported : error[1] # d
  /\ reported # {} =>
       \/ \E d \in Polled : \E task \in TasksOf(d) : ~HealthyTask(d, task)
       \/ \E of \in {"health", "inventory", "license", "certificates"} :
            Request(of) \in DOMAIN heard /\ heard[Request(of)].shape = "wrong"
       \/ \E entry \in PartsOf("health") : ~HealthyEntry(entry)
       \/ \E item \in PartsOf("inventory") : ~HealthyItem(item)
       \/ \E part \in PartsOf("license") : ~Whole("license", part)
       \/ \E record \in PartsOf("certificates") : ~HealthyRecord(record)
       \/ /\ Request("license") \in DOMAIN heard
          /\ Len(heard[Request("license")].parts) > 1

\* A snapshot is as fresh as its newest window (fmc/map.ts:279), which decides
\* whether the device counts as stale, and its start is of one answer that ends then.
Ended(d) == {heard[task].items[1].end : task \in Answers(d)} \ {0, Garbled}

WindowIsNewest ==
  \A d \in Polled : \A s \in Snapshots(d) :
    /\ \A end \in Ended(d) : end <= s.end
    /\ s.end = 0 <=> Ended(d) = {}
    /\ s.end # 0 =>
         \E task \in Answers(d) : LET item == heard[task].items[1]
                                  IN  item.end = s.end /\ s.start = IF item.start = Garbled THEN 0 ELSE item.start

-----------------------------------------------------------------------------
\* The configuration.

\* A start that validate() refused is accepted after three corrections at most
\* (validate.ts:73, load.ts:95): every refusal names all that can be told by then,
\* so that what it names, put right, leaves only what depended on it.
RefusalsBounded == refusals <= 3

\* What is accepted can be run, as the operator meant it (validate.ts:213, 283, 548,
\* 604, 614): every interval fits a timer and the SCC endpoint's limit; a bundle that
\* is given is what FMC's certificate is checked against; and whoever gives any of
\* the listener's three files, the clients' CA alone included, gets a listener
\* with certificate and key, its clients checked if their CA is given, and no
\* file among these that cannot be read.
AcceptedIsUsable ==
  phase = "accepted" =>
    LET has == config.settings
        set(var) == var \in DOMAIN has /\ has[var] # Unset
        given(var) == IsSet(Effective, var)
    IN  /\ config.kind \in {"scc", "fmc"}
        /\ \A var \in (DOMAIN IntegerVar \cup {"POLL_INTERVAL_SECONDS"}) \cap DOMAIN has :
             has[var] >= 1 /\ has[var] <= 2147483647 \div 1000
        /\ config.kind = "scc" =>
             /\ 60 <= 2 * has["POLL_INTERVAL_SECONDS"]
             /\ \A var \in SccRequired : set(var)
        /\ config.kind = "fmc" =>
             /\ given("FMC_CA_BUNDLE_PATH") =>
                  /\ set("FMC_CA_BUNDLE_PATH") /\ has["FMC_CA_BUNDLE_PATH"] # "unreadable"
                  /\ has["FMC_TLS_INSECURE_SKIP_VERIFY"] # "true"
             /\ \A var \in FmcRequired : set(var)
             /\ \E f \in MetricFamilies : has["FMC_METRIC_FAMILIES"][f] > 0
        /\ (\E path \in TlsPaths : given(path)) =>
             \A path \in TlsPaths :
               path \in Listener \/ given(path) => set(path) /\ has[path] # "unreadable"

\* What the operator has set and does not see used is refused or warned about
\* (validate.ts:179, 604).  Two things are not: the other backend's variables that
\* have a default, which example.env ships filled in (validate.ts:147), and the TLS
\* version when nothing else is said of TLS.
Used(var) ==
  \/ var = "BACKEND_TYPE" /\ config.kind = Effective[var]
  \/ /\ var \in DOMAIN config.settings
     /\ IF var = "FMC_METRIC_FAMILIES"
        THEN \A i \in DOMAIN Effective[var] : config.settings[var][Effective[var][i]] > 0
        ELSE config.settings[var] = Effective[var]

ShippedFilledIn == IF config.kind = "scc" THEN FmcDefaulted ELSE SccDefaulted

\* A blank is no value: its variable is left to its default.
LeftToDefault(var) ==
  var \in DOMAIN config.settings =>
    config.settings[var] = IF var = "FMC_METRIC_FAMILIES" THEN [f \in MetricFamilies |-> 1]
                                                         ELSE Default(var)

\* Of what the process and the env file both set, the process's counts, and it is
\* this that is meant here.  So a blank in the process hides the file's value without
\* a word (load.ts:59): no more is promised of it than that the default holds.
NothingIgnoredSilently ==
  phase = "accepted" =>
    \A var \in DOMAIN Effective :
      IF Effective[var] = Whitespace THEN LeftToDefault(var)
      ELSE \/ Used(var)
           \/ var \in config.warnings \cup ShippedFilledIn
           \/ /\ var = "METRICS_TLS_MIN_VERSION"
              /\ \A path \in TlsPaths : ~IsSet(Effective, path)
=============================================================================
