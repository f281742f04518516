--------------------------- MODULE MCHealthFetch ---------------------------
(***************************************************************************)
(* A small instance of HealthFetch: two devices, two families, and answers *)
(* with each flaw the mappers look for.                                    *)
(***************************************************************************)
EXTENDS HealthFetch, TLC

D1 == "d1"
D2 == "d2"

MCDevices == {D1, D2}
MCFamilies == {"CPU", "INTERFACE"}
MCFleets == {D1 :> n @@ D2 :> m : n \in 0..1, m \in 0..1} \cup {D1 :> 2 @@ D2 :> 0}

-----------------------------------------------------------------------------
\* Environments.
Without == <<>>

SccEnv == [SCC_BASE_URL |-> "https:", SCC_API_TOKEN |-> "given", SCC_FMC_UID |-> "given"]
FmcEnv == [FMC_HOST |-> "given", FMC_USERNAME |-> "given", FMC_PASSWORD |-> "given"]

Kinds ==
  {Without} \cup {[BACKEND_TYPE |-> kind] : kind \in {"scc", "fmc", Whitespace, Malformed}}

Polls ==
  {Without} \cup
  {[POLL_INTERVAL_SECONDS |-> n] : n \in {0, 1, 29, 30, 2147483, 2147484, Malformed}}

Blocks ==
  {Without,
   SccEnv,
   [SccEnv EXCEPT !.SCC_BASE_URL = "http:"],
   [SccEnv EXCEPT !.SCC_BASE_URL = Malformed, !.SCC_API_TOKEN = Whitespace],
   [SccEnv EXCEPT !.SCC_BASE_URL = "https://edge"]
     @@ [SCC_INVENTORY_POLL_INTERVAL_SECONDS |-> 0, SCC_TIME_RANGE |-> "2h"],
   SccEnv @@ [FMC_HOST |-> "given", FMC_TIME_RANGE |-> "15m", METRICS_PORT |-> 65536],
   FmcEnv,
   FmcEnv @@ [FMC_TIME_RANGE |-> Whitespace, FMC_CA_BUNDLE_PATH |-> "readable"],
   FmcEnv @@ [FMC_TLS_INSECURE_SKIP_VERIFY |-> "true", LOG_LEVEL |-> "loud"],
   FmcEnv @@ [FMC_TLS_INSECURE_SKIP_VERIFY |-> "true", FMC_CA_BUNDLE_PATH |-> "readable"],
   FmcEnv @@ [FMC_TLS_INSECURE_SKIP_VERIFY |-> Malformed, FMC_CA_BUNDLE_PATH |-> "unreadable"],
   FmcEnv @@ [FMC_METRIC_FAMILIES |-> <<"CPU", "CPU">>, SCC_API_TOKEN |-> "given"],
   FmcEnv @@ [FMC_METRIC_FAMILIES |-> <<>>, FMC_MAX_CONCURRENT_REQUESTS |-> 11],
   FmcEnv @@ [FMC_METRIC_FAMILIES |-> <<"CPU", "FANS">>, FMC_DISCOVERY_INTERVAL_SECONDS |-> 2147484],
   [FMC_HOST |-> Whitespace, FMC_DOMAIN_UUID |-> "given"]}

Listeners ==
  LET Path(var) == {Without} \cup {var :> file : file \in {"readable", "unreadable", Whitespace}}
  IN  {cert @@ key @@ ca @@ version :
         cert \in Path("METRICS_TLS_CERT_PATH"), key \in Path("METRICS_TLS_KEY_PATH"),
         ca \in Path("METRICS_TLS_CLIENT_CA_PATH"),
         version \in {Without, [METRICS_TLS_MIN_VERSION |-> "TLSv1.3"]}}

MCEnvironments ==
  {kind @@ poll @@ block : kind \in Kinds, poll \in Polls, block \in Blocks}
    \cup {kind @@ listener @@ [POLL_INTERVAL_SECONDS |-> 0] @@ SccEnv :
            kind \in Kinds, listener \in Listeners}

MCEnvFiles ==
  {[asked |-> how, state |-> "missing", vars |-> Without] :
      how \in {"not", "explicitly", "pathless"}}
    \cup {[asked |-> "not", state |-> "unreadable", vars |-> Without],
          [asked |-> "explicitly", state |-> "readable",
           vars |-> [BACKEND_TYPE |-> "fmc", FMC_TIME_RANGE |-> "1d"] @@ FmcEnv]}

-----------------------------------------------------------------------------
\* Answers.
NoGroup == [shape |-> "absent", parts |-> <<>>]
NotAGroup == [shape |-> "wrong", parts |-> <<>>]
Group(parts) == [shape |-> "right", parts |-> parts]
Part(has) == [object |-> TRUE, has |-> has]
NotAPart == [object |-> FALSE, has |-> Without]

Item(id, start, end, cpu, interface) ==
  [object |-> TRUE, id |-> id, name |-> "n", start |-> start, end |-> end,
   groups |-> [g \in Groups |-> CASE g = "cpu" -> cpu
                                  [] g = "interface" -> interface
                                  [] OTHER -> NoGroup]]

Cpu(v) == Group(<<Part([linaUsageAvg |-> v, snortUsageAvg |-> "0"])>>)
Nic(v) == Part([interface |-> v, interfaceName |-> "outside"])
Unnamed(v) == Part([interface |-> v, duplexMode |-> Wrong])

Good(id, start, end, v) ==
  Item(id, start, end, Cpu(v), Group(<<Nic(v), Part([interface |-> v])>>))
Broken(start, end) ==
  Item(Missing, start, end, Cpu(Wrong), Group(<<Unnamed("a"), NotAPart, Part([interface |-> Blank])>>))
Shapeless == Item(Missing, 1, 3, NotAGroup, NotAGroup)
Bare == Item(Missing, 0, 3, NoGroup, NoGroup)

Body(paged, count, items) ==
  [kind |-> "object", error |-> FALSE, paged |-> paged, count |-> count,
   shape |-> "right", items |-> items]
NoList(kind, error, paged, shape) ==
  [kind |-> kind, error |-> error, paged |-> paged, count |-> 0, shape |-> shape, items |-> <<>>]

MCReplies ==
  {NoList("failed", FALSE, FALSE, "absent"),
   NoList("object", TRUE, FALSE, "absent"),
   NoList("object", FALSE, FALSE, "absent"),
   NoList("object", FALSE, TRUE, "absent"),
   NoList("object", FALSE, TRUE, "wrong"),
   Body(FALSE, 0, <<>>),
   Body(TRUE, 1, <<Good(D1, 1, 2, "a")>>),
   Body(FALSE, 0, <<Good(D2, Garbled, 2, "b")>>),
   Body(TRUE, 2, <<Good(Missing, 1, 2, "c")>>),
   Body(TRUE, 1, <<Broken(2, Garbled)>>),
   Body(TRUE, 1, <<Shapeless>>),
   Body(TRUE, 1, <<[Bare EXCEPT !.object = FALSE]>>)}

Entries == {Good(D1, 1, 2, "a"), Broken(0, Garbled), [Shapeless EXCEPT !.id = D2]}

Payload(parts) == [shape |-> "right", parts |-> parts]
MCHealthLists ==
  {NotAGroup, Payload(<<>>)}
    \cup {Payload(<<e>>) : e \in Entries} \cup {Payload(<<e, f>>) : e \in Entries, f \in Entries}

Node(name) == Part([name |-> name, role |-> "active"])
Device(ha) ==
  [object |-> TRUE, type |-> "CDFMC_MANAGED_FTD",
   has |-> [uid |-> D1, name |-> "n", version |-> "7"], ha |-> ha]
MCInventories ==
  LET plain == Device(NoGroup)
      items == {plain, Device(NotAGroup), Device(Group(<<Node("n1"), Node("n1")>>)),
                Device(Group(<<Node(Blank), Node("n2")>>)),
                [plain EXCEPT !.has = [uid |-> D2]], [plain EXCEPT !.type = Wrong],
                [plain EXCEPT !.type = "ASA"], [plain EXCEPT !.type = Missing], [plain EXCEPT !.object = FALSE]}
  IN  {NotAGroup, Payload(<<>>)} \cup {Payload(<<i>>) : i \in items}
        \cup {Payload(<<i, plain>>) : i \in items}

MCLicenses ==
  LET items == {NotAPart, Part([regStatus |-> "REGISTERED", authStatus |-> Wrong]),
                Part([regStatus |-> "REGISTERED"]),
                Part([authStatus |-> "x"])}
  IN  {NotAGroup, Payload(<<>>)} \cup {Payload(<<i>>) : i \in items}
        \cup {Payload(<<i, j>>) : i \in items, j \in items}

\* One record per device, with up to two certificates, or a second one for the
\* same; in one join the ids are the devices' own, in one another device's, in
\* one unknown.
Both(status, expiry) == [caCertificateStatus |-> status, caCertExpiryDate |-> expiry]
Identity == [identityCertificateStatus |-> "EXPIRED", identityCertExpiryDate |-> "e3"]
Enrolments ==
  {NotAPart, Part([name |-> "c1"]), Part(Both("VALID", "e1")), Part(Both("VALID", "e2") @@ Identity),
   Part([name |-> "c1"] @@ Both("VALID", "e1")), Part([name |-> "c1"] @@ Both("SOON", "e2")),
   Part([name |-> Wrong] @@ Both("SOON", "e4")), Part(Both(NotApplicable, Sentinel) @@ Identity),
   Part(Both(NotApplicable, "e1")), Part(Both("VALID", Sentinel)), Part(Both("VALID", Undated)),
   Part(Both(Wrong, "e1")), Part([caCertExpiryDate |-> "e1"])}
MCCertificates ==
  LET Record(has, certificates) == [object |-> TRUE, has |-> has, certificates |-> certificates]
      records == {[Record(Without, NoGroup) EXCEPT !.object = FALSE], Record([id |-> Wrong], NoGroup),
                  Record([id |-> D1], NoGroup), Record([id |-> D1], NotAGroup)}
                   \cup {Record([id |-> D1], Group(<<c, e>>)) : c \in Enrolments, e \in Enrolments}
      other == Record([id |-> D2], Group(<<Part(Both("VALID", "e1"))>>))
      twin == Record([id |-> D1], Group(<<Part(Both("SOON", "e9"))>>))
      joins == {D1 :> D1 @@ D2 :> D2, D1 :> D2 @@ D2 :> D1, D2 :> D1}
      Listing(parts, joined) == [shape |-> "right", parts |-> parts, joined |-> joined]
  IN  {[shape |-> "wrong", parts |-> <<>>, joined |-> Without], Listing(<<>>, Without)}
        \cup {Listing(<<r>>, j) : r \in records, j \in joins}
        \cup {Listing(<<r, s>>, j) : r \in records, s \in {other, twin}, j \in joins}
=============================================================================
