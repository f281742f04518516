------------------------- MODULE HealthFetchProofs -------------------------
(***************************************************************************)
(* Proofs about HealthFetch.  The configuration: what is accepted can be   *)
(* run, what is set is not ignored, and refusals come to an end.  The      *)
(* answers: whatever they are and in whatever order they arrive, nothing   *)
(* is invented, nothing is lost without a word, a healthy fleet is quiet   *)
(* and the window shown is the newest.                                     *)
(***************************************************************************)
EXTENDS HealthFetch, FiniteSetTheorems, WellFoundedInduction, TLAPS

-----------------------------------------------------------------------------
(***************************************************************************)
(* The configuration.  The provers' numerals do not reach the bounds of    *)
(* the table, so each row is shown to be in range before it is looked up.  *)
(***************************************************************************)
InRange(row) ==
  /\ row.default \in row.range
  /\ row.range \subseteq 1..MaxTimerSeconds

LEMMA TimerIsWide == MaxTimerSeconds \in Int /\ MaxTimerSeconds > 65535
BY SMT DEF MaxTimerSeconds

LEMMA TimerFits ==
  ASSUME NEW n \in Int, n <= MaxTimerSeconds PROVE n <= 2147483647 \div 1000
BY SMT DEF MaxTimerSeconds

LEMMA SecondsInRange ==
  ASSUME NEW n \in 1..MaxTimerSeconds PROVE InRange(Seconds(n))
BY SMT DEF Seconds, InRange

LEMMA PortInRange == InRange(Port)
<1>1. Port.default \in Port.range
  <2>1. Port.range = 1..65535 /\ Port.default = 10049
    BY SMT DEF Port
  <2>2. 10049 \in 1..65535
    BY SMT
  <2> QED
    BY <2>1, <2>2, SMT
<1>2. \A n \in Port.range : n \in 1..MaxTimerSeconds
  <2> SUFFICES ASSUME NEW n \in Port.range PROVE n \in 1..MaxTimerSeconds
    OBVIOUS
  <2>1. n \in Int /\ 1 <= n /\ n <= 65535
    BY SMT DEF Port
  <2> QED
    BY TimerIsWide, <2>1, SMT
<1> QED
  BY <1>1, <1>2 DEF InRange

LEMMA ConcurrencyInRange == InRange(Concurrency)
<1>1. ASSUME NEW n \in 1..10 PROVE n \in 1..MaxTimerSeconds
  BY TimerIsWide, SMT
<1>2. Concurrency.range = 1..10 /\ Concurrency.default = 5
  BY SMT DEF Concurrency
<1> QED
  BY <1>1, <1>2, SMT DEF InRange

IntegerNames ==
  {"METRICS_PORT", "REQUEST_TIMEOUT_SECONDS", "SCC_INVENTORY_POLL_INTERVAL_SECONDS",
   "SCC_LICENSE_POLL_INTERVAL_SECONDS", "SCC_CERTIFICATE_POLL_INTERVAL_SECONDS",
   "FMC_MAX_CONCURRENT_REQUESTS", "FMC_DISCOVERY_INTERVAL_SECONDS",
   "FMC_LICENSE_POLL_INTERVAL_SECONDS", "FMC_CERTIFICATE_POLL_INTERVAL_SECONDS"}

LEMMA RowsInRange ==
  ASSUME NEW var \in DOMAIN IntegerVar PROVE InRange(IntegerVar[var])
<1>1. DOMAIN IntegerVar = IntegerNames
  BY SMT DEF IntegerVar, IntegerNames
<1>2. /\ IntegerVar["METRICS_PORT"] = Port
      /\ IntegerVar["FMC_MAX_CONCURRENT_REQUESTS"] = Concurrency
  BY SMT DEF IntegerVar
<1>3. /\ IntegerVar["REQUEST_TIMEOUT_SECONDS"] = Seconds(30)
      /\ IntegerVar["SCC_INVENTORY_POLL_INTERVAL_SECONDS"] = Seconds(300)
      /\ IntegerVar["SCC_LICENSE_POLL_INTERVAL_SECONDS"] = Seconds(3600)
      /\ IntegerVar["SCC_CERTIFICATE_POLL_INTERVAL_SECONDS"] = Seconds(3600)
      /\ IntegerVar["FMC_DISCOVERY_INTERVAL_SECONDS"] = Seconds(900)
      /\ IntegerVar["FMC_LICENSE_POLL_INTERVAL_SECONDS"] = Seconds(3600)
      /\ IntegerVar["FMC_CERTIFICATE_POLL_INTERVAL_SECONDS"] = Seconds(3600)
  BY SMT DEF IntegerVar
<1>4. \A v \in IntegerNames :
        \/ IntegerVar[v] \in {Port, Concurrency, Seconds(30)}
        \/ IntegerVar[v] \in {Seconds(300), Seconds(900), Seconds(3600)}
  BY <1>2, <1>3, SMT DEF IntegerNames
<1>5. ASSUME NEW n, n \in 1..MaxTimerSeconds PROVE InRange(Seconds(n))
  BY <1>5, SecondsInRange
<1>6. InRange(Seconds(30))
  <2>1. 30 \in 1..MaxTimerSeconds
    BY TimerIsWide, SMT
  <2> QED
    BY <1>5, <2>1, Zenon
<1>7. InRange(Seconds(300))
  <2>1. 300 \in 1..MaxTimerSeconds
    BY TimerIsWide, SMT
  <2> QED
    BY <1>5, <2>1, Zenon
<1>8. InRange(Seconds(900))
  <2>1. 900 \in 1..MaxTimerSeconds
    BY TimerIsWide, SMT
  <2> QED
    BY <1>5, <2>1, SMT
<1>9. InRange(Seconds(3600))
  <2>1. 3600 \in 1..MaxTimerSeconds
    BY TimerIsWide, SMT
  <2> QED
    BY <1>5, <2>1, SMT
<1> QED
  BY <1>1, <1>4, <1>6, <1>7, <1>8, <1>9, PortInRange, ConcurrencyInRange, SMT

\* What validate() has let pass.
LEMMA Passed ==
  ASSUME NEW env, Complaints(env) = {}
  PROVE  /\ BackendType(env) \in {"scc", "fmc"}
         /\ BackendType(env) = "scc" => SccComplaints(env) = {}
         /\ BackendType(env) = "fmc" => FmcComplaints(env) = {}
         /\ BadPollInterval(env) = {}
         /\ OutOfRange(env, IntegerVar, Common) = {}
         /\ TlsComplaints(env) = {}
<1>1. BackendType(env) \in {"none", "scc", "fmc"}
  BY DEF BackendType
<1>2. /\ When(BackendType(env) = "none", {"BACKEND_TYPE"}) = {}
      /\ When(BackendType(env) = "scc", SccComplaints(env)) = {}
      /\ When(BackendType(env) = "fmc", FmcComplaints(env)) = {}
      /\ BadPollInterval(env) = {}
      /\ OutOfRange(env, IntegerVar, Common) = {}
      /\ TlsComplaints(env) = {}
  BY DEF Complaints
<1> QED
  BY <1>1, <1>2 DEF When

\* A bounded integer is in range, whether it is given or defaulted.
LEMMA IntegersInRange ==
  ASSUME NEW env, NEW names, OutOfRange(env, IntegerVar, names) = {},
         NEW var \in DOMAIN IntegerVar \cap names
  PROVE  Setting(env, var) \in 1..MaxTimerSeconds
<1>1. var # "FMC_METRIC_FAMILIES"
  BY SMT DEF IntegerVar
<1>2. InRange(IntegerVar[var])
  BY RowsInRange
<1>3. IsSet(env, var) => Value(env, var) \in IntegerVar[var].range
  BY DEF OutOfRange
<1>4. CASE IsSet(env, var)
  BY <1>1, <1>2, <1>3, <1>4 DEF Setting, InRange
<1>5. CASE ~IsSet(env, var)
  BY <1>1, <1>2, <1>5 DEF Setting, Default, InRange
<1> QED
  BY <1>4, <1>5

LEMMA PollInRange ==
  ASSUME NEW env, BadPollInterval(env) = {}
  PROVE  /\ Setting(env, "POLL_INTERVAL_SECONDS") \in 1..MaxTimerSeconds
         /\ BackendType(env) = "scc" => 60 <= 2 * Setting(env, "POLL_INTERVAL_SECONDS")
<1>1. "POLL_INTERVAL_SECONDS" \notin DOMAIN IntegerVar
  BY SMT DEF IntegerVar
<1>2. "POLL_INTERVAL_SECONDS" \notin DOMAIN WordVar
  BY SMT DEF WordVar
<1>3. CASE IsSet(env, "POLL_INTERVAL_SECONDS")
  <2>1. Value(env, "POLL_INTERVAL_SECONDS") \in 1..MaxTimerSeconds
    BY <1>3 DEF BadPollInterval, When
  <2>2. ~BelowSccFloor(env)
    BY DEF BadPollInterval, When
  <2>3. Setting(env, "POLL_INTERVAL_SECONDS") = Value(env, "POLL_INTERVAL_SECONDS")
    BY <1>3 DEF Setting
  <2>4. BackendType(env) = "scc" => Value(env, "POLL_INTERVAL_SECONDS") \notin 1..29
    BY <1>3, <2>2 DEF BelowSccFloor
  <2> QED
    BY <2>1, <2>3, <2>4, TimerIsWide, SMT
<1>4. CASE ~IsSet(env, "POLL_INTERVAL_SECONDS")
  <2>1. Setting(env, "POLL_INTERVAL_SECONDS") = 60
    BY <1>1, <1>2, <1>4 DEF Setting, Default
  <2> QED
    BY <2>1, TimerIsWide, SMT
<1> QED
  BY <1>3, <1>4

\* A given variable keeps its value, and is not Unset.
LEMMA GivenIsSet ==
  ASSUME NEW env, NEW required, NotGiven(env, required) = {},
         NEW var \in required, var # "FMC_METRIC_FAMILIES"
  PROVE  Setting(env, var) # Unset
BY DEF NotGiven, Setting, IsSet

LEMMA SccUsable ==
  ASSUME NEW env, SccComplaints(env) = {}
  PROVE  /\ OutOfRange(env, IntegerVar, SccOnly) = {}
         /\ \A var \in SccRequired : Setting(env, var) # Unset
<1>1. OutOfRange(env, IntegerVar, SccOnly) = {} /\ NotGiven(env, SccRequired) = {}
  BY DEF SccComplaints
<1>2. \A var \in SccRequired : var # "FMC_METRIC_FAMILIES"
  BY DEF SccRequired
<1> QED
  BY <1>1, <1>2, GivenIsSet

\* A list of families that passed asks for one of them at least.
LEMMA FamiliesAsked ==
  ASSUME NEW env, MetricFamilies # {}, BadFamilies(env) = {},
         IsSet(env, "FMC_METRIC_FAMILIES") =>
           Value(env, "FMC_METRIC_FAMILIES") \in Seq(STRING)
  PROVE  \E f \in MetricFamilies : Families(env)[f] > 0
<1>1. CASE ~IsSet(env, "FMC_METRIC_FAMILIES")
  BY <1>1 DEF Families
<1>2. CASE IsSet(env, "FMC_METRIC_FAMILIES")
  <2> DEFINE list == Value(env, "FMC_METRIC_FAMILIES")
             places(f) == {i \in DOMAIN list : list[i] = f}
  <2>1. list \in Seq(STRING) /\ list # <<>> /\ \A i \in DOMAIN list : list[i] \in MetricFamilies
    BY <1>2 DEF BadFamilies, When
  <2>2. 1 \in DOMAIN list /\ DOMAIN list = 1..Len(list) /\ Len(list) \in Nat
    <3> HIDE DEF list
    <3> QED
      BY <2>1, SMT
  <2>3. IsFiniteSet(DOMAIN list)
    BY <2>2, FS_Interval
  <2>4. IsFiniteSet(places(list[1])) /\ places(list[1]) # {}
    BY <2>2, <2>3, FS_Subset
  <2>5. Cardinality(places(list[1])) \in Nat /\ Cardinality(places(list[1])) # 0
    BY <2>4, FS_EmptySet, FS_CardinalityType
  <2>6. Families(env)[list[1]] = Cardinality(places(list[1]))
    BY <1>2, <2>1, <2>2 DEF Families
  <2> QED
    BY <2>1, <2>2, <2>5, <2>6
<1> QED
  BY <1>1, <1>2

LEMMA FmcUsable ==
  ASSUME NEW env, FmcComplaints(env) = {}
  PROVE  /\ OutOfRange(env, IntegerVar, FmcOnly) = {}
         /\ BadFamilies(env) = {}
         /\ \A var \in FmcRequired : Setting(env, var) # Unset
         /\ IsSet(env, "FMC_CA_BUNDLE_PATH") =>
              /\ Setting(env, "FMC_CA_BUNDLE_PATH") \notin {Unset, "unreadable"}
              /\ Setting(env, "FMC_TLS_INSECURE_SKIP_VERIFY") # "true"
<1>1. /\ OutOfRange(env, IntegerVar, FmcOnly) = {}
      /\ NotGiven(env, FmcRequired) = {}
      /\ BadFamilies(env) = {}
      /\ Contradiction(env) = {}
      /\ UnreadableFiles(env, {"FMC_CA_BUNDLE_PATH"}) = {}
  BY DEF FmcComplaints
<1>2. \A var \in FmcRequired : var # "FMC_METRIC_FAMILIES"
  BY DEF FmcRequired
<1>3. \A var \in FmcRequired : Setting(env, var) # Unset
  BY <1>1, <1>2, GivenIsSet
<1>4. Default("FMC_TLS_INSECURE_SKIP_VERIFY") = "false"
  <2>1. "FMC_TLS_INSECURE_SKIP_VERIFY" \notin DOMAIN IntegerVar
    BY SMT DEF IntegerVar
  <2>2. /\ "FMC_TLS_INSECURE_SKIP_VERIFY" \in DOMAIN WordVar
        /\ WordVar["FMC_TLS_INSECURE_SKIP_VERIFY"].default = "false"
    BY SMT DEF WordVar
  <2> QED
    BY <2>1, <2>2 DEF Default
<1>5. IsSet(env, "FMC_CA_BUNDLE_PATH") =>
        Setting(env, "FMC_CA_BUNDLE_PATH") \notin {Unset, "unreadable"}
  BY <1>1 DEF Setting, IsSet, UnreadableFiles, Is
<1>6. ~(SkipsVerification(env) /\ IsSet(env, "FMC_CA_BUNDLE_PATH"))
  BY <1>1 DEF Contradiction, When
<1>7. Setting(env, "FMC_TLS_INSECURE_SKIP_VERIFY") = "true" => SkipsVerification(env)
  BY <1>4 DEF Setting, SkipsVerification, Is
<1> QED
  BY <1>1, <1>3, <1>5, <1>6, <1>7

\* The names a configuration holds.
LEMMA NamesHeld ==
  /\ SccRequired \subseteq Block("scc") /\ FmcRequired \subseteq Block("fmc")
  /\ "FMC_TLS_INSECURE_SKIP_VERIFY" \in Block("fmc")
  /\ "FMC_METRIC_FAMILIES" \in Block("fmc")
  /\ "FMC_CA_BUNDLE_PATH" \in Block("fmc")
  /\ "POLL_INTERVAL_SECONDS" \in Common
BY DEF Block, SccOnly, FmcOnly, SccRequired, FmcRequired, SccDefaulted, FmcDefaulted,
       Common, Listener

\* Whoever gives one of the listener's files gives certificate and key, and the
\* files can be read.
LEMMA ListenerHeld ==
  ASSUME NEW env, TlsComplaints(env) = {}, NEW given \in TlsPaths, IsSet(env, given)
  PROVE  /\ NotGiven(env, Listener) = {}
         /\ \A path \in TlsPaths :
              path \in Listener \/ IsSet(env, path) =>
                Setting(env, path) # Unset /\ Setting(env, path) # "unreadable"
<1>1. NotGiven(env, Listener) = Listener \/ NotGiven(env, Listener) = {}
  BY DEF TlsComplaints
<1>2. NotGiven(env, Listener) # Listener
  <2> SUFFICES ASSUME NotGiven(env, Listener) = Listener PROVE FALSE
    OBVIOUS
  <2>1. ~IsSet(env, "METRICS_TLS_CLIENT_CA_PATH")
    BY DEF TlsComplaints, When
  <2>2. given \in Listener
    BY <2>1 DEF TlsPaths, Listener
  <2> QED
    BY <2>2 DEF NotGiven
<1>3. NotGiven(env, Listener) = {}
  BY <1>1, <1>2
<1>4. UnreadableFiles(env, TlsPaths) = {}
  <2>1. Listener # {}
    BY DEF Listener
  <2> QED
    BY <1>3, <2>1 DEF TlsComplaints
<1>5. ASSUME NEW path \in TlsPaths, path \in Listener \/ IsSet(env, path)
      PROVE  Setting(env, path) # Unset /\ Setting(env, path) # "unreadable"
  <2>1. IsSet(env, path)
    BY <1>3, <1>5 DEF NotGiven
  <2>2. path # "FMC_METRIC_FAMILIES"
    BY DEF TlsPaths
  <2>3. Setting(env, path) = Value(env, path)
    BY <2>1, <2>2 DEF Setting
  <2> QED
    BY <1>4, <2>1, <2>3 DEF IsSet, UnreadableFiles, Is
<1> QED
  BY <1>3, <1>5

LEMMA ConfigUsable ==
  ASSUME NEW env, Complaints(env) = {}, Environment(env),
         phase = "accepted", config = Config(env), env = Effective
  PROVE  AcceptedIsUsable
<1> DEFINE has == config.settings
           held == Common \cup Block(BackendType(env))
                     \cup When(NotGiven(env, Listener) = {}, TlsPaths \cup {"METRICS_TLS_MIN_VERSION"})
<1>1. /\ config.kind = BackendType(env)
      /\ DOMAIN has = held
      /\ \A var \in held : has[var] = Setting(env, var)
  BY DEF Config
<1>2. /\ BackendType(env) \in {"scc", "fmc"}
      /\ BackendType(env) = "scc" => SccComplaints(env) = {}
      /\ BackendType(env) = "fmc" => FmcComplaints(env) = {}
      /\ BadPollInterval(env) = {}
      /\ OutOfRange(env, IntegerVar, Common) = {}
      /\ TlsComplaints(env) = {}
  BY Passed
<1>3. OutOfRange(env, IntegerVar, Block(BackendType(env))) = {}
  BY <1>2, SccUsable, FmcUsable DEF Block
<1>4. \A var \in DOMAIN IntegerVar \cap held : has[var] \in 1..MaxTimerSeconds
  <2> SUFFICES ASSUME NEW var \in DOMAIN IntegerVar, var \in held
               PROVE  Setting(env, var) \in 1..MaxTimerSeconds
    BY <1>1
  <2>1. var \notin TlsPaths \cup {"METRICS_TLS_MIN_VERSION"}
    BY SMT DEF IntegerVar, TlsPaths
  <2>2. var \in Common \/ var \in Block(BackendType(env))
    BY <2>1 DEF When
  <2>3. CASE var \in Common
    BY <2>3, <1>2, IntegersInRange
  <2>4. CASE var \in Block(BackendType(env))
    BY <2>4, <1>3, IntegersInRange
  <2> QED
    BY <2>2, <2>3, <2>4
<1>5. /\ "POLL_INTERVAL_SECONDS" \in held
      /\ has["POLL_INTERVAL_SECONDS"] \in 1..MaxTimerSeconds
      /\ BackendType(env) = "scc" => 60 <= 2 * has["POLL_INTERVAL_SECONDS"]
  BY <1>1, <1>2, PollInRange, NamesHeld
<1>6. \A var \in (DOMAIN IntegerVar \cup {"POLL_INTERVAL_SECONDS"}) \cap held :
        has[var] >= 1 /\ has[var] <= 2147483647 \div 1000
  <2>1. \A n \in 1..MaxTimerSeconds : n >= 1 /\ n <= 2147483647 \div 1000
    <3> SUFFICES ASSUME NEW n \in 1..MaxTimerSeconds
                 PROVE  n >= 1 /\ n <= 2147483647 \div 1000
      OBVIOUS
    <3>1. n \in Int /\ n >= 1 /\ n <= MaxTimerSeconds
      BY TimerIsWide, SMT
    <3> QED
      BY <3>1, TimerFits, SMT
  <2>2. \A var \in (DOMAIN IntegerVar \cup {"POLL_INTERVAL_SECONDS"}) \cap held :
          has[var] \in 1..MaxTimerSeconds
    BY <1>4, <1>5
  <2> QED
    BY <2>1, <2>2, SMT
<1>7. ASSUME BackendType(env) = "scc"
      PROVE  \A var \in SccRequired : var \in held /\ has[var] # Unset
  BY <1>1, <1>2, <1>7, SccUsable, NamesHeld
<1>8. ASSUME BackendType(env) = "fmc"
      PROVE  /\ IsSet(env, "FMC_CA_BUNDLE_PATH") =>
                  /\ "FMC_CA_BUNDLE_PATH" \in held /\ has["FMC_CA_BUNDLE_PATH"] # Unset
                  /\ has["FMC_CA_BUNDLE_PATH"] # "unreadable"
                  /\ has["FMC_TLS_INSECURE_SKIP_VERIFY"] # "true"
             /\ \A var \in FmcRequired : var \in held /\ has[var] # Unset
             /\ \E f \in MetricFamilies : has["FMC_METRIC_FAMILIES"][f] > 0
  <2>1. Block("fmc") \subseteq held
    BY <1>8
  <2>2. /\ "FMC_TLS_INSECURE_SKIP_VERIFY" \in held
        /\ "FMC_CA_BUNDLE_PATH" \in held
        /\ "FMC_METRIC_FAMILIES" \in held
        /\ FmcRequired \subseteq held
    BY <2>1, NamesHeld
  <2>3. FmcComplaints(env) = {}
    BY <1>2, <1>8
  <2>4. IsSet(env, "FMC_METRIC_FAMILIES") => Value(env, "FMC_METRIC_FAMILIES") \in Seq(STRING)
    BY DEF IsSet, Value, Environment
  <2>5. MetricFamilies # {}
    BY EnvironmentAssumption DEF EnvironmentAssumption
  <2>6. \E f \in MetricFamilies : Families(env)[f] > 0
    BY <2>3, <2>4, <2>5, FmcUsable, FamiliesAsked
  <2>7. has["FMC_METRIC_FAMILIES"] = Families(env)
    BY <1>1, <2>2 DEF Setting
  <2> QED
    BY <1>1, <2>2, <2>3, <2>6, <2>7, FmcUsable
<1>9. ASSUME NEW given \in TlsPaths, IsSet(env, given)
      PROVE  \A path \in TlsPaths :
               path \in Listener \/ IsSet(env, path) =>
                 path \in held /\ has[path] # Unset /\ has[path] # "unreadable"
  <2>1. NotGiven(env, Listener) = {}
    BY <1>2, <1>9, ListenerHeld
  <2>2. TlsPaths \subseteq held
    BY <2>1 DEF When
  <2> HIDE DEF held
  <2>3. \A path \in TlsPaths : path \in held /\ has[path] = Setting(env, path)
    BY <1>1, <2>2
  <2> HIDE DEF has
  <2> QED
    BY <1>2, <1>9, <2>3, ListenerHeld
<1> HIDE DEF held
<1> QED
  BY <1>1, <1>2, <1>5, <1>6, <1>7, <1>8, <1>9 DEF AcceptedIsUsable

\* What a refusal can name, and what the operator then makes of it.
AllComplaints ==
  Variables \cup {"SKIP_VERIFY_WITH_BUNDLE", "CLIENT_CA_WITHOUT_LISTENER", "POLL_BELOW_FLOOR"}

WordNames ==
  {"LOG_LEVEL", "LOG_FORMAT", "ENABLE_DEFAULT_METRICS", "SCC_TIME_RANGE", "FMC_TIME_RANGE",
   "FMC_TLS_INSECURE_SKIP_VERIFY", "METRICS_TLS_MIN_VERSION"}

LEMMA TableNames == DOMAIN IntegerVar = IntegerNames /\ DOMAIN WordVar = WordNames
BY SMT DEF IntegerVar, IntegerNames, WordVar, WordNames

LEMMA ComplaintsKnown ==
  ASSUME NEW env PROVE Complaints(env) \subseteq AllComplaints
<1>1. /\ SccRequired \subseteq Variables /\ FmcRequired \subseteq Variables
      /\ SccOnly \subseteq Variables /\ FmcOnly \subseteq Variables
      /\ Common \subseteq Variables /\ TlsPaths \subseteq Variables
      /\ Listener \subseteq TlsPaths
      /\ {"BACKEND_TYPE", "METRICS_TLS_MIN_VERSION"} \subseteq Variables
  BY DEF Variables, SccOnly, FmcOnly, TlsPaths, Listener
<1>2. /\ {"POLL_INTERVAL_SECONDS", "SCC_BASE_URL"} \subseteq Variables
      /\ {"FMC_METRIC_FAMILIES", "FMC_CA_BUNDLE_PATH"} \subseteq Variables
      /\ "METRICS_TLS_CLIENT_CA_PATH" \in Variables
  BY <1>1 DEF Common, SccRequired, FmcOnly, FmcDefaulted, TlsPaths, SccOnly
<1>3. \A table, names : OutOfRange(env, table, names) \subseteq names
  BY DEF OutOfRange
<1>4. \A names : NotGiven(env, names) \subseteq names /\ UnreadableFiles(env, names) \subseteq names
  BY DEF NotGiven, UnreadableFiles
<1>5. \A condition, set : When(condition, set) \subseteq set
  BY DEF When
<1>6. SccComplaints(env) \subseteq AllComplaints
  BY <1>1, <1>2, <1>3, <1>4, <1>5 DEF SccComplaints, AllComplaints
<1>7. BadFamilies(env) \subseteq AllComplaints /\ Contradiction(env) \subseteq AllComplaints
  BY <1>2, <1>5 DEF BadFamilies, Contradiction, AllComplaints
<1>8. FmcComplaints(env) \subseteq AllComplaints
  BY <1>1, <1>2, <1>3, <1>4, <1>7 DEF FmcComplaints, AllComplaints
<1>9. BadPollInterval(env) \subseteq AllComplaints
  BY <1>2, <1>5 DEF BadPollInterval, AllComplaints
<1>10. TlsComplaints(env) \subseteq AllComplaints
  BY <1>1, <1>2, <1>4, <1>5 DEF TlsComplaints, AllComplaints
<1>11. /\ OutOfRange(env, IntegerVar, Common) \subseteq AllComplaints
       /\ OutOfRange(env, WordVar, Common \cup {"METRICS_TLS_MIN_VERSION"}) \subseteq AllComplaints
  BY <1>1, <1>3 DEF AllComplaints
<1>12. /\ When(BackendType(env) = "none", {"BACKEND_TYPE"}) \subseteq AllComplaints
       /\ When(BackendType(env) = "scc", SccComplaints(env)) \subseteq AllComplaints
       /\ When(BackendType(env) = "fmc", FmcComplaints(env)) \subseteq AllComplaints
  BY <1>1, <1>5, <1>6, <1>8 DEF AllComplaints
<1> QED
  BY <1>9, <1>10, <1>11, <1>12 DEF Complaints

LEMMA NamedIsVariable ==
  ASSUME NEW c \in AllComplaints PROVE Named(c) \in Variables /\ c # "--env-file"
BY DEF Named, AllComplaints, Variables, FmcOnly, FmcDefaulted, FmcRequired, SccOnly, SccRequired,
       SccDefaulted, TlsPaths, Common

\* The value of a correction, complaint by complaint.
Plain ==
  {"SCC_API_TOKEN", "SCC_FMC_UID", "FMC_HOST", "FMC_USERNAME", "FMC_PASSWORD", "FMC_DOMAIN_UUID",
   "METRICS_BIND_ADDRESS"}

LEMMA SoundValues ==
  ASSUME NEW other \in BOOLEAN
  PROVE  /\ Sound("BACKEND_TYPE", other) \in {"scc", "fmc"}
         /\ Sound("POLL_INTERVAL_SECONDS", other) \in {1, 30}
         /\ Sound("POLL_BELOW_FLOOR", other) = 30
         /\ Sound("FMC_TLS_INSECURE_SKIP_VERIFY", other) \in {"true", "false"}
         /\ Sound("SKIP_VERIFY_WITH_BUNDLE", other) = "false"
         /\ Sound("CLIENT_CA_WITHOUT_LISTENER", other) = Whitespace
         /\ Sound("FMC_METRIC_FAMILIES", other) = <<CHOOSE f \in MetricFamilies : TRUE>>
         /\ Sound("SCC_BASE_URL", other) = "https:"
         /\ \A c \in TlsPaths \cup {"FMC_CA_BUNDLE_PATH"} : Sound(c, other) = "readable"
         /\ \A c \in (IntegerNames \cup WordNames) \ {"FMC_TLS_INSECURE_SKIP_VERIFY"} :
              Sound(c, other) = Default(c)
         /\ \A c \in Plain : Sound(c, other) = "given"
<1> USE TableNames DEF Sound, IntegerNames, WordNames, TlsPaths
<1>1. Sound("BACKEND_TYPE", other) \in {"scc", "fmc"}
  OBVIOUS
<1>2. Sound("POLL_INTERVAL_SECONDS", other) \in {1, 30} /\ Sound("POLL_BELOW_FLOOR", other) = 30
  OBVIOUS
<1>3. Sound("FMC_TLS_INSECURE_SKIP_VERIFY", other) \in {"true", "false"}
  OBVIOUS
<1>4. /\ Sound("SKIP_VERIFY_WITH_BUNDLE", other) = "false"
      /\ Sound("CLIENT_CA_WITHOUT_LISTENER", other) = Whitespace
      /\ Sound("FMC_METRIC_FAMILIES", other) = <<CHOOSE f \in MetricFamilies : TRUE>>
      /\ Sound("SCC_BASE_URL", other) = "https:"
  OBVIOUS
<1>5. \A c \in TlsPaths \cup {"FMC_CA_BUNDLE_PATH"} : Sound(c, other) = "readable"
  OBVIOUS
<1>6. \A c \in (IntegerNames \cup WordNames) \ {"FMC_TLS_INSECURE_SKIP_VERIFY"} :
        Sound(c, other) = Default(c)
  OBVIOUS
<1>7. \A c \in Plain : Sound(c, other) = "given"
  BY DEF Plain
<1> QED
  BY <1>1, <1>2, <1>3, <1>4, <1>5, <1>6, <1>7

LEMMA DefaultsInRange ==
  /\ \A var \in IntegerNames : Default(var) \in IntegerVar[var].range /\ Default(var) \in Int
  /\ \A var \in WordNames : Default(var) \in WordVar[var].range
<1>1. ASSUME NEW var \in IntegerNames
      PROVE  Default(var) \in IntegerVar[var].range /\ Default(var) \in Int
  <2>1. Default(var) = IntegerVar[var].default
    BY <1>1, TableNames DEF Default
  <2>2. InRange(IntegerVar[var])
    BY <1>1, TableNames, RowsInRange
  <2> QED
    BY <2>1, <2>2, TimerIsWide DEF InRange
<1>2. ASSUME NEW var \in WordNames PROVE Default(var) \in WordVar[var].range
  <2>1. var \notin IntegerNames
    BY <1>2 DEF WordNames, IntegerNames
  <2>2. Default(var) = WordVar[var].default
    BY <1>2, <2>1, TableNames DEF Default
  <2>3. /\ WordVar["LOG_LEVEL"].default \in WordVar["LOG_LEVEL"].range
        /\ WordVar["LOG_FORMAT"].default \in WordVar["LOG_FORMAT"].range
        /\ WordVar["ENABLE_DEFAULT_METRICS"].default \in WordVar["ENABLE_DEFAULT_METRICS"].range
        /\ WordVar["SCC_TIME_RANGE"].default \in WordVar["SCC_TIME_RANGE"].range
        /\ WordVar["FMC_TIME_RANGE"].default \in WordVar["FMC_TIME_RANGE"].range
        /\ WordVar["METRICS_TLS_MIN_VERSION"].default \in WordVar["METRICS_TLS_MIN_VERSION"].range
    BY SMT DEF WordVar, TimeRange
  <2>4. WordVar["FMC_TLS_INSECURE_SKIP_VERIFY"].default
          \in WordVar["FMC_TLS_INSECURE_SKIP_VERIFY"].range
    BY SMT DEF WordVar
  <2> QED
    BY <1>2, <2>2, <2>3, <2>4 DEF WordNames
<1> QED
  BY <1>1, <1>2

\* A corrected value is a value, but for the client CA that is taken back.
LEMMA SoundTyped ==
  ASSUME NEW c \in AllComplaints, NEW other \in BOOLEAN
  PROVE  /\ Sound(c, other) # Unset
         /\ c # "CLIENT_CA_WITHOUT_LISTENER" => Sound(c, other) # Whitespace
         /\ Named(c) = "FMC_METRIC_FAMILIES" => Sound(c, other) \in Seq(STRING)
<1> DEFINE value == Sound(c, other)
           Ordinary == Words \cup Int \cup Seq(STRING)
<1>1. Unset \notin Ordinary /\ Whitespace \notin Ordinary /\ Unset # Whitespace
  BY EnvironmentAssumption DEF EnvironmentAssumption
<1>2. <<CHOOSE f \in MetricFamilies : TRUE>> \in Seq(STRING)
  BY EnvironmentAssumption DEF EnvironmentAssumption
<1>3. \/ c \in {"BACKEND_TYPE", "POLL_INTERVAL_SECONDS", "POLL_BELOW_FLOOR"}
      \/ c \in {"FMC_TLS_INSECURE_SKIP_VERIFY", "SKIP_VERIFY_WITH_BUNDLE", "SCC_BASE_URL"}
      \/ c \in {"FMC_METRIC_FAMILIES", "CLIENT_CA_WITHOUT_LISTENER"}
      \/ c \in TlsPaths \cup {"FMC_CA_BUNDLE_PATH"}
      \/ c \in (IntegerNames \cup WordNames) \ {"FMC_TLS_INSECURE_SKIP_VERIFY"}
      \/ c \in Plain
  BY DEF AllComplaints, Variables, SccOnly, SccRequired, SccDefaulted, FmcOnly, FmcRequired, FmcDefaulted,
         Common, IntegerNames, WordNames, Plain
<1>4. c # "CLIENT_CA_WITHOUT_LISTENER" => value \in Ordinary
  <2> HIDE DEF value
  <2>1. /\ {"scc", "fmc", "true", "false"} \subseteq Words
        /\ {"https:", "readable", "given"} \subseteq Words
        /\ {1, 30} \subseteq Int
    <3>1. WordVar["FMC_TLS_INSECURE_SKIP_VERIFY"].range = {"true", "false"}
      BY SMT DEF WordVar
    <3>2. {"true", "false"} \subseteq Words
      BY <3>1, TableNames DEF Words, WordNames
    <3> QED
      BY <3>2 DEF Words
  <2>2. c \in {"BACKEND_TYPE", "POLL_INTERVAL_SECONDS", "POLL_BELOW_FLOOR"} =>
          value \in {"scc", "fmc"} \cup {1, 30}
    BY SoundValues DEF value
  <2>3. c \in {"FMC_TLS_INSECURE_SKIP_VERIFY", "SKIP_VERIFY_WITH_BUNDLE", "SCC_BASE_URL"} =>
          value \in {"true", "false"} \cup {"https:"}
    BY SoundValues DEF value
  <2>4. c \in TlsPaths \cup {"FMC_CA_BUNDLE_PATH"} \/ c \in Plain => value \in {"readable", "given"}
    BY SoundValues DEF value
  <2>5. c \in (IntegerNames \cup WordNames) \ {"FMC_TLS_INSECURE_SKIP_VERIFY"} =>
          value \in Words \cup Int
    BY SoundValues, DefaultsInRange, TableNames DEF value, Words
  <2>6. c = "FMC_METRIC_FAMILIES" => value \in Seq(STRING)
    BY <1>2, SoundValues DEF value
  <2> QED
    BY <1>3, <2>1, <2>2, <2>3, <2>4, <2>5, <2>6
<1>5. c = "CLIENT_CA_WITHOUT_LISTENER" => value = Whitespace
  BY SoundValues
<1>6. Named(c) = "FMC_METRIC_FAMILIES" => value \in Seq(STRING)
  <2>1. Named(c) = "FMC_METRIC_FAMILIES" => c = "FMC_METRIC_FAMILIES"
    BY DEF Named
  <2> QED
    BY <1>2, <2>1, SoundValues
<1> HIDE DEF value, Ordinary
<1>7. value # Unset
  BY <1>1, <1>4, <1>5
<1>8. c # "CLIENT_CA_WITHOUT_LISTENER" => value # Whitespace
  BY <1>1, <1>4
<1> QED
  BY <1>6, <1>7, <1>8 DEF value

\* Which of validate()'s checks a complaint is of.
LEMMA ComplaintOf ==
  ASSUME NEW env, NEW c \in Complaints(env)
  PROVE  /\ c \in AllComplaints
         /\ Named(c) = "BACKEND_TYPE" => BackendType(env) = "none"
         /\ Named(c) = "POLL_INTERVAL_SECONDS" => c \in BadPollInterval(env)
         /\ Named(c) \in TlsPaths => c \in TlsComplaints(env)
<1>1. c \in AllComplaints
  BY ComplaintsKnown
<1> DEFINE general ==
             \/ c = "BACKEND_TYPE" /\ BackendType(env) = "none"
             \/ c \in BadPollInterval(env)
             \/ c \in TlsComplaints(env)
           special ==
             \/ c \in (Common \ {"POLL_INTERVAL_SECONDS"}) \cup {"METRICS_TLS_MIN_VERSION"}
             \/ c \in SccOnly
             \/ c \in FmcOnly \cup {"SKIP_VERIFY_WITH_BUNDLE"}
<1>2. general \/ special
  <2>1. \A table, names : OutOfRange(env, table, names) \subseteq DOMAIN table \cap names
    BY DEF OutOfRange
  <2>2. "POLL_INTERVAL_SECONDS" \notin IntegerNames \cup WordNames
    BY DEF IntegerNames, WordNames
  <2>3. c \in OutOfRange(env, IntegerVar, Common) => special
    BY <2>1, <2>2, TableNames
  <2>4. c \in OutOfRange(env, WordVar, Common \cup {"METRICS_TLS_MIN_VERSION"}) => special
    BY <2>1, <2>2, TableNames
  <2>5. c \in SccComplaints(env) => special
    BY <2>1 DEF SccComplaints, NotGiven, When, SccOnly, SccRequired
  <2>6. c \in FmcComplaints(env) => special
    <3>1. BadFamilies(env) \subseteq FmcOnly
      BY DEF BadFamilies, When, FmcOnly, FmcDefaulted
    <3>2. Contradiction(env) \subseteq {"SKIP_VERIFY_WITH_BUNDLE"}
      BY DEF Contradiction, When
    <3> QED
      BY <2>1, <3>1, <3>2 DEF FmcComplaints, NotGiven, UnreadableFiles, FmcOnly
  <2>7. c \in When(BackendType(env) = "none", {"BACKEND_TYPE"}) => general
    BY DEF When
  <2>8. /\ When(BackendType(env) = "scc", SccComplaints(env)) \subseteq SccComplaints(env)
        /\ When(BackendType(env) = "fmc", FmcComplaints(env)) \subseteq FmcComplaints(env)
    BY DEF When
  <2> HIDE DEF general, special
  <2>9. c \in BadPollInterval(env) \cup TlsComplaints(env) => general
    BY DEF general
  <2> QED
    BY <2>3, <2>4, <2>5, <2>6, <2>7, <2>8, <2>9 DEF Complaints
<1>3. special => Named(c) \notin TlsPaths \cup {"BACKEND_TYPE", "POLL_INTERVAL_SECONDS"}
  BY DEF Named, TlsPaths, Common, SccOnly, SccRequired, SccDefaulted, FmcOnly, FmcRequired,
         FmcDefaulted
<1>4. c \in BadPollInterval(env) => Named(c) = "POLL_INTERVAL_SECONDS"
  BY DEF BadPollInterval, When, Named
<1>5. c \in TlsComplaints(env) => Named(c) \in TlsPaths
  <2>1. c \in TlsComplaints(env) => c \in TlsPaths \cup {"CLIENT_CA_WITHOUT_LISTENER"}
    BY DEF TlsComplaints, UnreadableFiles, NotGiven, When, TlsPaths, Listener
  <2> QED
    BY <2>1 DEF Named, TlsPaths
<1>6. /\ Named("BACKEND_TYPE") = "BACKEND_TYPE"
      /\ "BACKEND_TYPE" \notin TlsPaths /\ "POLL_INTERVAL_SECONDS" \notin TlsPaths
  BY DEF Named, TlsPaths
<1> HIDE DEF special
<1> QED
  BY <1>1, <1>2, <1>3, <1>4, <1>5, <1>6

\* What the environment reads as once the complaints about it are corrected.
Mended(env, other, next) ==
  \A var :
    \/ /\ \A c \in Complaints(env) : Named(c) # var
       /\ Value(next, var) = Value(env, var)
    \/ \E c \in Complaints(env) :
         /\ Named(c) = var
         /\ Value(next, var) = IF c = "CLIENT_CA_WITHOUT_LISTENER" THEN Unset ELSE Sound(c, other)

LEMMA CorrectionMends ==
  ASSUME NEW other \in BOOLEAN, complaints = Complaints(Effective), CorrectVariables(other)
  PROVE  Mended(Effective, other, Effective')
<1> SUFFICES ASSUME NEW var
             PROVE  \/ /\ \A c \in complaints : Named(c) # var
                       /\ Value(Effective', var) = Value(Effective, var)
                    \/ \E c \in complaints :
                         /\ Named(c) = var
                         /\ Value(Effective', var)
                              = IF c = "CLIENT_CA_WITHOUT_LISTENER" THEN Unset ELSE Sound(c, other)
  BY DEF Mended
<1> DEFINE names == {Named(c) : c \in complaints}
           chosen == CHOOSE c \in complaints : Named(c) = var
<1>1. /\ DOMAIN process' = DOMAIN process \cup names
      /\ var \in names => process'[var] = Sound(chosen, other)
      /\ var \in DOMAIN process \ names => process'[var] = process[var]
      /\ dotenv' = dotenv
  BY DEF CorrectVariables
<1>2. /\ DOMAIN Effective = DOMAIN process \cup DOMAIN dotenv.vars
      /\ var \in DOMAIN process => Effective[var] = process[var]
      /\ var \in DOMAIN dotenv.vars \ DOMAIN process => Effective[var] = dotenv.vars[var]
  BY DEF Effective
<1>3. /\ DOMAIN Effective' = DOMAIN process' \cup DOMAIN dotenv'.vars
      /\ var \in DOMAIN process' => Effective'[var] = process'[var]
      /\ var \in DOMAIN dotenv'.vars \ DOMAIN process' => Effective'[var] = dotenv'.vars[var]
  BY DEF Effective
<1>4. CASE var \in names
  <2>1. chosen \in complaints /\ Named(chosen) = var
    BY <1>4
  <2>2. var \in DOMAIN Effective' /\ Effective'[var] = Sound(chosen, other)
    BY <1>1, <1>3, <1>4
  <2> HIDE DEF chosen
  <2>5. chosen \in AllComplaints
    BY <2>1, ComplaintsKnown
  <2>3. /\ chosen # "CLIENT_CA_WITHOUT_LISTENER" => Sound(chosen, other) # Whitespace
        /\ chosen = "CLIENT_CA_WITHOUT_LISTENER" => Sound(chosen, other) = Whitespace
    BY <2>5, SoundTyped, SoundValues
  <2>4. Value(Effective', var)
          = IF chosen = "CLIENT_CA_WITHOUT_LISTENER" THEN Unset ELSE Sound(chosen, other)
    BY <2>2, <2>3 DEF Value
  <2> QED
    BY <2>1, <2>4
<1>5. CASE var \notin names
  <2>1. var \in DOMAIN Effective' <=> var \in DOMAIN Effective
    BY <1>1, <1>2, <1>3, <1>5
  <2>2. var \in DOMAIN Effective => Effective'[var] = Effective[var]
    BY <1>1, <1>2, <1>3, <1>5
  <2>3. Value(Effective', var) = Value(Effective, var)
    BY <2>1, <2>2 DEF Value
  <2> QED
    BY <1>5, <2>3
<1> QED
  BY <1>4, <1>5

\* A check that has passed stays passed, and what it named passes next time.
LEMMA MendedRange ==
  ASSUME NEW env, NEW next, NEW other \in BOOLEAN, Mended(env, other, next), NEW names
  PROVE  /\ OutOfRange(env, IntegerVar, names) \subseteq Complaints(env) =>
              OutOfRange(next, IntegerVar, names) = {}
         /\ OutOfRange(env, WordVar, names) \subseteq Complaints(env) =>
              OutOfRange(next, WordVar, names) = {}
<1>1. ASSUME NEW var \in IntegerNames, NEW c \in Complaints(env), Named(c) = var
      PROVE  Sound(c, other) \in IntegerVar[var].range /\ c # "CLIENT_CA_WITHOUT_LISTENER"
  <2>1. c = var
    BY <1>1 DEF Named, IntegerNames
  <2>2. c \in (IntegerNames \cup WordNames) \ {"FMC_TLS_INSECURE_SKIP_VERIFY"}
    BY <2>1 DEF IntegerNames
  <2>3. c # "CLIENT_CA_WITHOUT_LISTENER"
    BY <2>1 DEF IntegerNames
  <2> QED
    BY <2>1, <2>2, <2>3, SoundValues, DefaultsInRange
<1>2. ASSUME NEW var \in WordNames, NEW c \in Complaints(env), Named(c) = var
      PROVE  Sound(c, other) \in WordVar[var].range /\ c # "CLIENT_CA_WITHOUT_LISTENER"
  <2>1. CASE var = "FMC_TLS_INSECURE_SKIP_VERIFY"
    <3>1. c = "FMC_TLS_INSECURE_SKIP_VERIFY" \/ c = "SKIP_VERIFY_WITH_BUNDLE"
      BY <1>2, <2>1 DEF Named
    <3>2. WordVar[var].range = {"true", "false"}
      BY <2>1, SMT DEF WordVar
    <3> QED
      BY <3>1, <3>2, SoundValues
  <2>2. CASE var # "FMC_TLS_INSECURE_SKIP_VERIFY"
    <3>1. c = var
      BY <1>2, <2>2 DEF Named, WordNames
    <3>2. c \in (IntegerNames \cup WordNames) \ {"FMC_TLS_INSECURE_SKIP_VERIFY"}
      BY <2>2, <3>1
    <3>3. c # "CLIENT_CA_WITHOUT_LISTENER"
      BY <3>1 DEF WordNames
    <3> QED
      BY <3>1, <3>2, <3>3, SoundValues, DefaultsInRange
  <2> QED
    BY <2>1, <2>2
<1>3. ASSUME OutOfRange(env, IntegerVar, names) \subseteq Complaints(env),
             NEW var \in IntegerNames \cap names, IsSet(next, var)
      PROVE  Value(next, var) \in IntegerVar[var].range
  <2>1. CASE \E c \in Complaints(env) :
               /\ Named(c) = var
               /\ Value(next, var)
                    = IF c = "CLIENT_CA_WITHOUT_LISTENER" THEN Unset ELSE Sound(c, other)
    BY <1>1, <2>1
  <2>2. CASE /\ \A c \in Complaints(env) : Named(c) # var
             /\ Value(next, var) = Value(env, var)
    <3>1. Named(var) = var
      BY DEF Named, IntegerNames
    <3>2. var \notin OutOfRange(env, IntegerVar, names)
      BY <1>3, <2>2, <3>1
    <3> QED
      BY <1>3, <2>2, <3>2, TableNames DEF OutOfRange, IsSet
  <2> QED
    BY <2>1, <2>2 DEF Mended
<1>4. ASSUME OutOfRange(env, WordVar, names) \subseteq Complaints(env),
             NEW var \in WordNames \cap names, IsSet(next, var)
      PROVE  Value(next, var) \in WordVar[var].range
  <2>1. CASE \E c \in Complaints(env) :
               /\ Named(c) = var
               /\ Value(next, var)
                    = IF c = "CLIENT_CA_WITHOUT_LISTENER" THEN Unset ELSE Sound(c, other)
    BY <1>2, <2>1
  <2>2. CASE /\ \A c \in Complaints(env) : Named(c) # var
             /\ Value(next, var) = Value(env, var)
    <3>1. Named(var) = var
      BY DEF Named, WordNames
    <3>2. var \notin OutOfRange(env, WordVar, names)
      BY <1>4, <2>2, <3>1
    <3> QED
      BY <1>4, <2>2, <3>2, TableNames DEF OutOfRange, IsSet
  <2> QED
    BY <2>1, <2>2 DEF Mended
<1> QED
  BY <1>3, <1>4, TableNames DEF OutOfRange

LEMMA MendedGiven ==
  ASSUME NEW env, NEW next, NEW other \in BOOLEAN, Mended(env, other, next), NEW names,
         NotGiven(env, names) \subseteq Complaints(env), names \subseteq Variables,
         "METRICS_TLS_CLIENT_CA_PATH" \notin names
  PROVE  NotGiven(next, names) = {}
<1> SUFFICES ASSUME NEW var \in names PROVE IsSet(next, var)
  BY DEF NotGiven
<1>1. CASE \E c \in Complaints(env) :
             /\ Named(c) = var
             /\ Value(next, var)
                  = IF c = "CLIENT_CA_WITHOUT_LISTENER" THEN Unset ELSE Sound(c, other)
  <2>1. PICK c \in Complaints(env) :
             /\ Named(c) = var
             /\ Value(next, var)
                  = IF c = "CLIENT_CA_WITHOUT_LISTENER" THEN Unset ELSE Sound(c, other)
    BY <1>1
  <2>2. c # "CLIENT_CA_WITHOUT_LISTENER"
    BY <2>1 DEF Named
  <2> QED
    BY <2>1, <2>2, ComplaintsKnown, SoundTyped DEF IsSet
<1>2. CASE /\ \A c \in Complaints(env) : Named(c) # var
           /\ Value(next, var) = Value(env, var)
  <2>1. Named(var) = var
    BY DEF Named, Variables, SccOnly, SccRequired, SccDefaulted, FmcOnly, FmcRequired,
           FmcDefaulted, TlsPaths, Common
  <2> QED
    BY <1>2, <2>1 DEF NotGiven, IsSet
<1> QED
  BY <1>1, <1>2 DEF Mended

LEMMA MendedFiles ==
  ASSUME NEW env, NEW next, NEW other \in BOOLEAN, Mended(env, other, next),
         NEW names \in SUBSET (TlsPaths \cup {"FMC_CA_BUNDLE_PATH"}),
         UnreadableFiles(env, names) \subseteq Complaints(env)
  PROVE  UnreadableFiles(next, names) = {}
<1> SUFFICES ASSUME NEW var \in names PROVE Value(next, var) # "unreadable"
  BY DEF UnreadableFiles, Is
<1>1. CASE \E c \in Complaints(env) :
             /\ Named(c) = var
             /\ Value(next, var)
                  = IF c = "CLIENT_CA_WITHOUT_LISTENER" THEN Unset ELSE Sound(c, other)
  <2>1. PICK c \in Complaints(env) :
             /\ Named(c) = var
             /\ Value(next, var)
                  = IF c = "CLIENT_CA_WITHOUT_LISTENER" THEN Unset ELSE Sound(c, other)
    BY <1>1
  <2>2. c = "CLIENT_CA_WITHOUT_LISTENER" \/ c \in TlsPaths \cup {"FMC_CA_BUNDLE_PATH"}
    BY <2>1 DEF Named, TlsPaths
  <2>3. Unset # "unreadable"
    BY EnvironmentAssumption DEF EnvironmentAssumption, Words
  <2> QED
    BY <2>1, <2>2, <2>3, SoundValues
<1>2. CASE /\ \A c \in Complaints(env) : Named(c) # var
           /\ Value(next, var) = Value(env, var)
  <2>1. Named(var) = var
    BY DEF Named, TlsPaths
  <2> QED
    BY <1>2, <2>1 DEF UnreadableFiles, Is
<1> QED
  BY <1>1, <1>2 DEF Mended

LEMMA KindFound ==
  ASSUME NEW env, NEW next, NEW other \in BOOLEAN, Mended(env, other, next)
  PROVE  /\ BackendType(next) \in {"scc", "fmc"}
         /\ BackendType(env) # "none" => BackendType(next) = BackendType(env)
<1>1. \A c \in Complaints(env) : Named(c) = "BACKEND_TYPE" => c \in {"BACKEND_TYPE"}
  BY DEF Named
<1>2. \/ /\ \A c \in Complaints(env) : Named(c) # "BACKEND_TYPE"
         /\ Value(next, "BACKEND_TYPE") = Value(env, "BACKEND_TYPE")
      \/ /\ "BACKEND_TYPE" \in Complaints(env)
         /\ Value(next, "BACKEND_TYPE") \in {"scc", "fmc"}
  BY <1>1, SoundValues DEF Mended
<1>3. Named("BACKEND_TYPE") = "BACKEND_TYPE"
  BY DEF Named
<1>4. BackendType(env) = "none" => "BACKEND_TYPE" \in Complaints(env)
  BY DEF Complaints, When
<1>5. "BACKEND_TYPE" \in Complaints(env) => BackendType(env) = "none"
  BY <1>3, ComplaintOf
<1>6. /\ BackendType(env) = "none" \/ BackendType(env) = Value(env, "BACKEND_TYPE")
      /\ BackendType(env) \in {"none", "scc", "fmc"}
  BY DEF BackendType
<1>7. Value(next, "BACKEND_TYPE") \in {"scc", "fmc"} =>
        BackendType(next) = Value(next, "BACKEND_TYPE")
  BY DEF BackendType
<1> QED
  BY <1>2, <1>3, <1>4, <1>5, <1>6, <1>7

PollFits(env) ==
  IsSet(env, "POLL_INTERVAL_SECONDS") =>
    Value(env, "POLL_INTERVAL_SECONDS") \in 1..MaxTimerSeconds

\* The first correction of the interval fits a timer, the second SCC's floor.
LEMMA PollMends ==
  ASSUME NEW env, NEW next, NEW other \in BOOLEAN, Mended(env, other, next)
  PROVE  /\ PollFits(next)
         /\ PollFits(env) /\ BackendType(env) # "none" => BadPollInterval(next) = {}
<1> DEFINE var == "POLL_INTERVAL_SECONDS"
<1>1. \A c : Named(c) = var => c \in {"POLL_INTERVAL_SECONDS", "POLL_BELOW_FLOOR"}
  BY DEF Named
<1>2. 1 \in 1..MaxTimerSeconds /\ 30 \in 1..MaxTimerSeconds
  BY TimerIsWide, SMT
<1>3. \A c \in Complaints(env) : Named(c) = var => c \in BadPollInterval(env)
  BY ComplaintOf
<1>4. "POLL_INTERVAL_SECONDS" \in BadPollInterval(env) => ~PollFits(env)
  BY DEF BadPollInterval, When, PollFits
<1>5. /\ BadPollInterval(env) \subseteq Complaints(env)
      /\ Named(var) = var /\ Named("POLL_BELOW_FLOOR") = var
  BY DEF Complaints, Named
<1>6. \/ /\ \A c \in Complaints(env) : Named(c) # var
         /\ Value(next, var) = Value(env, var)
      \/ "POLL_INTERVAL_SECONDS" \in BadPollInterval(env) /\ Value(next, var) \in {1, 30}
      \/ Value(next, var) = 30
  BY <1>1, <1>3, SoundValues DEF Mended
<1>7. CASE /\ \A c \in Complaints(env) : Named(c) # var
           /\ Value(next, var) = Value(env, var)
  <2>1. BadPollInterval(env) = {}
    <3>1. BadPollInterval(env) \subseteq {"POLL_INTERVAL_SECONDS", "POLL_BELOW_FLOOR"}
      BY DEF BadPollInterval, When
    <3> QED
      BY <1>5, <1>7, <3>1
  <2>2. PollFits(env) /\ ~BelowSccFloor(env)
    BY <2>1 DEF BadPollInterval, When, PollFits
  <2>3. PollFits(next)
    BY <1>7, <2>2 DEF PollFits, IsSet
  <2>4. BackendType(env) # "none" => ~BelowSccFloor(next)
    BY <1>7, <2>2, KindFound DEF BelowSccFloor, IsSet
  <2> QED
    BY <2>3, <2>4 DEF BadPollInterval, When, PollFits
<1>8. CASE "POLL_INTERVAL_SECONDS" \in BadPollInterval(env) /\ Value(next, var) \in {1, 30}
  BY <1>2, <1>4, <1>8 DEF PollFits
<1>9. CASE Value(next, var) = 30
  <2>1. PollFits(next)
    BY <1>2, <1>9 DEF PollFits
  <2>2. 30 \notin 1..29
    OBVIOUS
  <2>3. ~BelowSccFloor(next)
    BY <1>9, <2>2 DEF BelowSccFloor
  <2> QED
    BY <2>1, <2>3 DEF BadPollInterval, When, PollFits
<1> QED
  BY <1>6, <1>7, <1>8, <1>9

\* The listener has its two files, or neither and no unreadable client CA.
ListenerWhole(env) ==
  \/ NotGiven(env, Listener) = {}
  \/ /\ NotGiven(env, Listener) = Listener
     /\ Value(env, "METRICS_TLS_CLIENT_CA_PATH") # "unreadable"

LEMMA TlsMends ==
  ASSUME NEW env, NEW next, NEW other \in BOOLEAN, Mended(env, other, next)
  PROVE  /\ ListenerWhole(next)
         /\ ListenerWhole(env) => TlsComplaints(next) = {}
<1> DEFINE ca == "METRICS_TLS_CLIENT_CA_PATH"
<1>1. /\ \A c \in Complaints(env) : Named(c) \in TlsPaths => c \in TlsComplaints(env)
      /\ TlsComplaints(env) \subseteq Complaints(env)
  BY ComplaintOf DEF Complaints
<1>2. /\ Listener \subseteq TlsPaths /\ ca \in TlsPaths /\ ca \notin Listener /\ Listener # {}
      /\ TlsPaths \subseteq Variables
      /\ \A var \in TlsPaths : Named(var) = var
      /\ Named("CLIENT_CA_WITHOUT_LISTENER") = ca
      /\ \A c : Named(c) \in Listener => c = Named(c)
      /\ \A c : Named(c) = ca => c = ca \/ c = "CLIENT_CA_WITHOUT_LISTENER"
      /\ "CLIENT_CA_WITHOUT_LISTENER" \notin TlsPaths
  BY DEF Listener, TlsPaths, Variables, Named
<1>3. Unset # "unreadable"
  BY EnvironmentAssumption DEF EnvironmentAssumption, Words
<1>4. CASE NotGiven(env, Listener) = Listener
  <2>1. TlsComplaints(env) = UnreadableFiles(env, {ca})
                               \cup When(IsSet(env, ca), {"CLIENT_CA_WITHOUT_LISTENER"})
    BY <1>4 DEF TlsComplaints
  <2>2. \A c \in Complaints(env) : Named(c) \notin Listener
    <3> SUFFICES ASSUME NEW c \in Complaints(env), Named(c) \in Listener PROVE FALSE
      OBVIOUS
    <3>1. c \in TlsComplaints(env) /\ c \in Listener
      BY <1>1, <1>2
    <3> QED
      BY <1>2, <2>1, <3>1 DEF UnreadableFiles, When
  <2>3. \A var \in Listener : Value(next, var) = Value(env, var)
    BY <2>2 DEF Mended
  <2>4. NotGiven(next, Listener) = Listener
    BY <1>4, <2>3 DEF NotGiven, IsSet
  <2>5. UnreadableFiles(next, {ca}) = {}
    BY <1>1, <1>2, <2>1, MendedFiles
  <2>6. Value(next, ca) # "unreadable"
    BY <2>5 DEF UnreadableFiles, Is
  <2>7. ASSUME ListenerWhole(env) PROVE Value(next, ca) = Unset
    <3>1. Value(env, ca) # "unreadable"
      BY <1>2, <1>4, <2>7 DEF ListenerWhole
    <3>2. ca \notin Complaints(env)
      <4>1. ca \notin TlsComplaints(env)
        BY <1>2, <2>1, <3>1 DEF UnreadableFiles, Is, When
      <4> QED
        BY <1>1, <1>2, <4>1
    <3>3. \/ /\ \A c \in Complaints(env) : Named(c) # ca
             /\ Value(next, ca) = Value(env, ca)
          \/ Value(next, ca) = Unset
      BY <1>2, <3>2 DEF Mended
    <3>4. IsSet(env, ca) => "CLIENT_CA_WITHOUT_LISTENER" \in Complaints(env)
      BY <1>1, <2>1 DEF When
    <3> QED
      BY <1>2, <3>3, <3>4 DEF IsSet
  <2>8. ListenerWhole(env) => TlsComplaints(next) = {}
    BY <2>4, <2>5, <2>7 DEF TlsComplaints, When, IsSet
  <2> QED
    BY <2>4, <2>6, <2>8 DEF ListenerWhole
<1>5. CASE NotGiven(env, Listener) # Listener
  <2>1. NotGiven(env, Listener) \subseteq Complaints(env)
    <3>1. NotGiven(env, Listener) # {} => TlsComplaints(env) = NotGiven(env, Listener)
      BY <1>5 DEF TlsComplaints
    <3> QED
      BY <1>1, <3>1
  <2>2. NotGiven(next, Listener) = {}
    BY <1>2, <2>1, MendedGiven
  <2>3. ASSUME ListenerWhole(env) PROVE TlsComplaints(next) = {}
    <3>1. NotGiven(env, Listener) = {}
      BY <1>5, <2>3 DEF ListenerWhole
    <3>2. UnreadableFiles(env, TlsPaths) \subseteq Complaints(env)
      BY <1>1, <1>2, <3>1 DEF TlsComplaints
    <3>3. UnreadableFiles(next, TlsPaths) = {}
      BY <3>2, MendedFiles
    <3> QED
      BY <1>2, <2>2, <3>3 DEF TlsComplaints
  <2> QED
    BY <2>2, <2>3 DEF ListenerWhole
<1> QED
  BY <1>4, <1>5

LEMMA SccMends ==
  ASSUME NEW env, NEW next, NEW other \in BOOLEAN, Mended(env, other, next),
         SccComplaints(env) \subseteq Complaints(env)
  PROVE  SccComplaints(next) = {}
<1>1. /\ OutOfRange(next, IntegerVar, SccOnly) = {}
      /\ OutOfRange(next, WordVar, SccOnly) = {}
  BY MendedRange DEF SccComplaints
<1>2. NotGiven(next, SccRequired) = {}
  <2>1. SccRequired \subseteq Variables /\ "METRICS_TLS_CLIENT_CA_PATH" \notin SccRequired
    BY DEF SccRequired, SccOnly, Variables
  <2> QED
    BY <2>1, MendedGiven DEF SccComplaints
<1>3. Value(next, "SCC_BASE_URL") \notin {Malformed, "http:"}
  <2>1. Malformed # "https:"
    BY EnvironmentAssumption DEF EnvironmentAssumption, Words
  <2>2. \A c : Named(c) = "SCC_BASE_URL" => c = "SCC_BASE_URL"
    BY DEF Named
  <2>3. Named("SCC_BASE_URL") = "SCC_BASE_URL"
    BY DEF Named
  <2>4. \/ /\ "SCC_BASE_URL" \notin Complaints(env)
           /\ Value(next, "SCC_BASE_URL") = Value(env, "SCC_BASE_URL")
        \/ Value(next, "SCC_BASE_URL") = "https:"
    BY <2>2, <2>3, SoundValues DEF Mended
  <2>5. Value(env, "SCC_BASE_URL") \in {Malformed, "http:"} => "SCC_BASE_URL" \in SccComplaints(env)
    BY DEF SccComplaints, When
  <2> QED
    BY <2>1, <2>4, <2>5
<1> QED
  BY <1>1, <1>2, <1>3 DEF SccComplaints, When

LEMMA FmcMends ==
  ASSUME NEW env, NEW next, NEW other \in BOOLEAN, Mended(env, other, next),
         FmcComplaints(env) \subseteq Complaints(env)
  PROVE  FmcComplaints(next) \subseteq {"SKIP_VERIFY_WITH_BUNDLE"}
<1>1. /\ OutOfRange(next, IntegerVar, FmcOnly) = {}
      /\ OutOfRange(next, WordVar, FmcOnly) = {}
  BY MendedRange DEF FmcComplaints
<1>2. NotGiven(next, FmcRequired) = {}
  <2>1. FmcRequired \subseteq Variables /\ "METRICS_TLS_CLIENT_CA_PATH" \notin FmcRequired
    BY DEF FmcRequired, FmcOnly, Variables
  <2> QED
    BY <2>1, MendedGiven DEF FmcComplaints
<1>3. UnreadableFiles(next, {"FMC_CA_BUNDLE_PATH"}) = {}
  BY MendedFiles DEF FmcComplaints
<1>4. BadFamilies(next) = {}
  <2> DEFINE var == "FMC_METRIC_FAMILIES"
             f == CHOOSE g \in MetricFamilies : TRUE
  <2>1. /\ \A c : Named(c) = var => c = var
        /\ Named(var) = var
    BY DEF Named
  <2>2. \/ var \notin Complaints(env) /\ Value(next, var) = Value(env, var)
        \/ Value(next, var) = <<f>>
    BY <2>1, SoundValues DEF Mended
  <2>3. f \in MetricFamilies
    BY EnvironmentAssumption DEF EnvironmentAssumption
  <2>4. <<f>> # <<>> /\ \A i \in DOMAIN <<f>> : <<f>>[i] \in MetricFamilies
    BY <2>3
  <2>5. BadFamilies(env) # {} => var \in BadFamilies(env)
    BY DEF BadFamilies, When
  <2>6. CASE Value(next, var) = <<f>>
    BY <2>4, <2>6 DEF BadFamilies, When
  <2>7. CASE var \notin Complaints(env) /\ Value(next, var) = Value(env, var)
    <3>1. BadFamilies(env) = {}
      BY <2>5, <2>7 DEF FmcComplaints
    <3> QED
      BY <2>7, <3>1 DEF BadFamilies, When, IsSet
  <2> QED
    BY <2>2, <2>6, <2>7
<1>5. Contradiction(next) \subseteq {"SKIP_VERIFY_WITH_BUNDLE"}
  BY DEF Contradiction, When
<1> QED
  BY <1>1, <1>2, <1>3, <1>4, <1>5 DEF FmcComplaints

\* How far an environment has come after one and after two corrections; after
\* three there is nothing left to complain of.
AfterOne(env) ==
  /\ BackendType(env) \in {"scc", "fmc"}
  /\ OutOfRange(env, IntegerVar, Common) = {}
  /\ OutOfRange(env, WordVar, Common \cup {"METRICS_TLS_MIN_VERSION"}) = {}
  /\ PollFits(env)
  /\ ListenerWhole(env)

AfterTwo(env) ==
  /\ AfterOne(env)
  /\ BadPollInterval(env) = {}
  /\ TlsComplaints(env) = {}
  /\ BackendType(env) = "scc" => SccComplaints(env) = {}
  /\ BackendType(env) = "fmc" => FmcComplaints(env) \subseteq {"SKIP_VERIFY_WITH_BUNDLE"}

Corrected(n, env) ==
  /\ n >= 1 => AfterOne(env)
  /\ n >= 2 => AfterTwo(env)
  /\ n >= 3 => Complaints(env) = {}

LEMMA FirstCorrection ==
  ASSUME NEW env, NEW next, NEW other \in BOOLEAN, Mended(env, other, next)
  PROVE  AfterOne(next)
<1>1. /\ OutOfRange(env, IntegerVar, Common) \subseteq Complaints(env)
      /\ OutOfRange(env, WordVar, Common \cup {"METRICS_TLS_MIN_VERSION"}) \subseteq Complaints(env)
  BY DEF Complaints
<1> QED
  BY <1>1, KindFound, PollMends, TlsMends, MendedRange DEF AfterOne

LEMMA SecondCorrection ==
  ASSUME NEW env, NEW next, NEW other \in BOOLEAN, Mended(env, other, next), AfterOne(env)
  PROVE  AfterTwo(next)
<1>1. BackendType(env) # "none" /\ BackendType(next) = BackendType(env)
  BY KindFound DEF AfterOne
<1>2. BackendType(env) = "scc" => SccComplaints(env) \subseteq Complaints(env)
  BY DEF Complaints, When
<1>3. BackendType(env) = "fmc" => FmcComplaints(env) \subseteq Complaints(env)
  BY DEF Complaints, When
<1>4. BadPollInterval(next) = {} /\ TlsComplaints(next) = {}
  BY <1>1, PollMends, TlsMends DEF AfterOne
<1>5. BackendType(next) = "scc" => SccComplaints(next) = {}
  BY <1>1, <1>2, SccMends
<1>6. BackendType(next) = "fmc" => FmcComplaints(next) \subseteq {"SKIP_VERIFY_WITH_BUNDLE"}
  BY <1>1, <1>3, FmcMends
<1> QED
  BY <1>4, <1>5, <1>6, FirstCorrection DEF AfterTwo

LEMMA ThirdCorrection ==
  ASSUME NEW env, NEW next, NEW other \in BOOLEAN, Mended(env, other, next), AfterTwo(env),
         Complaints(env) # {}
  PROVE  Complaints(next) = {}
<1> DEFINE skip == "SKIP_VERIFY_WITH_BUNDLE"
           var == "FMC_TLS_INSECURE_SKIP_VERIFY"
<1>1. Complaints(env) = {skip} /\ BackendType(env) = "fmc"
  BY DEF AfterTwo, AfterOne, Complaints, When
<1>2. AfterTwo(next) /\ BackendType(next) = "fmc"
  BY <1>1, SecondCorrection, KindFound DEF AfterTwo
<1>3. Value(next, var) = "false"
  <2>1. Named(skip) = var /\ skip # "CLIENT_CA_WITHOUT_LISTENER"
    BY DEF Named
  <2>2. \E c \in Complaints(env) :
          /\ Named(c) = var
          /\ Value(next, var) = IF c = "CLIENT_CA_WITHOUT_LISTENER" THEN Unset ELSE Sound(c, other)
    BY <1>1, <2>1 DEF Mended
  <2> QED
    BY <1>1, <2>1, <2>2, SoundValues
<1>4. Contradiction(next) = {}
  BY <1>3 DEF Contradiction, When, SkipsVerification, Is
<1>5. FmcComplaints(next) = {}
  <2>1. skip \notin FmcOnly
    BY DEF FmcOnly, FmcRequired, FmcDefaulted
  <2>2. skip \notin FmcComplaints(next)
    BY <1>4, <2>1 DEF FmcComplaints, OutOfRange, NotGiven, BadFamilies, UnreadableFiles, When, FmcOnly
  <2>3. FmcComplaints(next) \subseteq {skip}
    BY <1>2 DEF AfterTwo
  <2> QED
    BY <2>2, <2>3
<1> QED
  BY <1>2, <1>5 DEF AfterTwo, AfterOne, Complaints, When

LEMMA CorrectionRanks ==
  ASSUME NEW env, NEW next, NEW other \in BOOLEAN, Mended(env, other, next),
         NEW n \in 1..3, Corrected(n - 1, env), Complaints(env) # {}
  PROVE  Corrected(n, next)
<1>1. n >= 2 => AfterOne(env)
  <2>1. n >= 2 => n - 1 >= 1
    OBVIOUS
  <2> QED
    BY <2>1 DEF Corrected
<1>2. n >= 3 => AfterTwo(env)
  <2>1. n >= 3 => n - 1 >= 2
    OBVIOUS
  <2> QED
    BY <2>1 DEF Corrected
<1> QED
  BY <1>1, <1>2, FirstCorrection, SecondCorrection, ThirdCorrection DEF Corrected

\* The invariant: environments, and what a refusal, however often, leaves to name.
Refusals ==
  /\ refusals \in 0..3
  /\ phase = "starting" => /\ Corrected(refusals, Effective)
                           /\ refusals >= 1 => ~EnvFileFails
  /\ phase = "refused" =>
       \/ complaints = {"--env-file"} /\ refusals = 0
       \/ /\ complaints = Complaints(Effective)
          /\ complaints # {}
          /\ ~EnvFileFails
          /\ refusals >= 1
          /\ Corrected(refusals - 1, Effective)

ConfigInv ==
  /\ Environment(process)
  /\ Environment(dotenv.vars)
  /\ phase = "accepted" => /\ Complaints(Effective) = {}
                           /\ config = Config(Effective)
  /\ Refusals

LEMMA EffectiveTyped ==
  ASSUME Environment(process), Environment(dotenv.vars)
  PROVE  Environment(Effective)
BY DEF Environment, Effective

LEMMA CorrectionTyped ==
  ASSUME NEW other \in BOOLEAN, complaints \subseteq AllComplaints, CorrectVariables(other),
         Environment(process)
  PROVE  Environment(process')
<1> DEFINE names == {Named(c) : c \in complaints}
           chosen(var) == CHOOSE c \in complaints : Named(c) = var
<1>1. /\ DOMAIN process' = DOMAIN process \cup names
      /\ \A var \in names : process'[var] = Sound(chosen(var), other)
      /\ \A var \in DOMAIN process \ names : process'[var] = process[var]
  BY DEF CorrectVariables
<1>2. \A var \in names : chosen(var) \in AllComplaints /\ Named(chosen(var)) = var
  OBVIOUS
<1>3. names \subseteq Variables
  BY NamedIsVariable
<1> HIDE DEF names, chosen
<1>4. \A var \in names : process'[var] # Unset
  BY <1>1, <1>2, SoundTyped
<1>5. "FMC_METRIC_FAMILIES" \in names => process'["FMC_METRIC_FAMILIES"] \in Seq(STRING)
  BY <1>1, <1>2, SoundTyped
<1> QED
  BY <1>1, <1>3, <1>4, <1>5 DEF Environment

LEMMA ConfigInvInit == Init => ConfigInv
<1> SUFFICES ASSUME Init PROVE ConfigInv
  OBVIOUS
<1>1. Environment(process) /\ Environment(dotenv.vars)
  BY EnvironmentAssumption DEF Init, ConfigInit, EnvironmentAssumption
<1>2. refusals = 0 /\ phase = "starting"
  BY DEF Init, ConfigInit
<1> QED
  BY <1>1, <1>2 DEF ConfigInv, Refusals, Corrected

LEMMA ConfigInvCorrect == ConfigInv /\ Correct => ConfigInv'
<1> SUFFICES ASSUME ConfigInv, Correct PROVE ConfigInv'
  OBVIOUS
<1>1. /\ phase = "refused" /\ phase' = "starting" /\ refusals' = refusals
      /\ refusals \in 0..3
  BY DEF Correct, ConfigInv, Refusals
<1>2. CASE CorrectEnvFile
  <2>1. "--env-file" \notin Complaints(Effective)
    BY ComplaintsKnown, NamedIsVariable
  <2>2. refusals = 0
    BY <1>1, <1>2, <2>1 DEF CorrectEnvFile, ConfigInv, Refusals
  <2>3. Environment(process)' /\ Environment(dotenv.vars)'
    BY <1>2, EnvironmentAssumption DEF CorrectEnvFile, ConfigInv, EnvironmentAssumption
  <2> QED
    BY <1>1, <2>2, <2>3 DEF ConfigInv, Refusals, Corrected
<1>3. ASSUME NEW other \in BOOLEAN, CorrectVariables(other) PROVE ConfigInv'
  <2>1. /\ complaints = Complaints(Effective)
        /\ complaints # {}
        /\ ~EnvFileFails
        /\ refusals >= 1
        /\ Corrected(refusals - 1, Effective)
    BY <1>1, <1>3 DEF CorrectVariables, ConfigInv, Refusals
  <2>2. Corrected(refusals, Effective')
    <3>1. Mended(Effective, other, Effective')
      BY <1>3, <2>1, CorrectionMends
    <3>2. refusals \in 1..3
      BY <1>1, <2>1
    <3> QED
      BY <2>1, <3>1, <3>2, CorrectionRanks
  <2>3. ~EnvFileFails'
    BY <1>3, <2>1 DEF CorrectVariables, EnvFileFails
  <2>4. Environment(process)'
    BY <1>3, <2>1, ComplaintsKnown, CorrectionTyped DEF ConfigInv
  <2>5. Environment(dotenv.vars)'
    BY <1>3 DEF CorrectVariables, ConfigInv
  <2> QED
    BY <1>1, <2>2, <2>3, <2>4, <2>5 DEF ConfigInv, Refusals
<1> QED
  BY <1>2, <1>3 DEF Correct

LEMMA ConfigInvStep == ConfigInv /\ [Next]_vars => ConfigInv'
<1> SUFFICES ASSUME ConfigInv, [Next]_vars PROVE ConfigInv'
  OBVIOUS
<1>1. CASE RefuseEnvFile
  <2>1. refusals = 0
    BY <1>1 DEF RefuseEnvFile, ConfigInv, Refusals
  <2> QED
    BY <1>1, <2>1 DEF RefuseEnvFile, ConfigInv, Refusals
<1>2. CASE Refuse
  <2>1. refusals \in 0..2 /\ refusals' = refusals + 1
    BY <1>2 DEF Refuse, ConfigInv, Refusals, Corrected
  <2>2. refusals' \in 0..3 /\ refusals' >= 1 /\ refusals' - 1 = refusals
    BY <2>1
  <2>3. Effective' = Effective /\ EnvFileFails' = EnvFileFails
    BY <1>2 DEF Refuse, Effective, EnvFileFails
  <2>4. Corrected(refusals, Effective)
    BY <1>2 DEF Refuse, ConfigInv, Refusals
  <2>5. Refusals'
    BY <1>2, <2>2, <2>3, <2>4 DEF Refuse, Refusals
  <2> QED
    BY <1>2, <2>5 DEF Refuse, ConfigInv
<1>3. CASE Accept
  BY <1>3 DEF Accept, ConfigInv, Effective, Refusals
<1>4. CASE CreateBackend
  <2>1. Environment(<<>>)
    BY DEF Environment
  <2> QED
    BY <1>4, <2>1 DEF CreateBackend, ConfigInv, Refusals
<1>5. CASE Correct
  BY <1>5, ConfigInvCorrect
<1>6. CASE UNCHANGED configVars
  <2>1. Effective' = Effective /\ EnvFileFails' = EnvFileFails
    BY <1>6 DEF configVars, Effective, EnvFileFails
  <2>2. Refusals'
    BY <1>6, <2>1 DEF configVars, ConfigInv, Refusals
  <2> QED
    BY <1>6, <2>1, <2>2 DEF configVars, ConfigInv
<1>7. Configures \/ UNCHANGED configVars
  BY DEF Next, vars, FmcFetch, SccFetch, InventoryRefresh, LicenseRefresh, Asks,
         CertificateRefresh, FamilyAnswered, BuildSnapshots, HealthAnswered, InventoryAnswered,
         LicenseAnswered, CertificatesAnswered, Ends
<1> QED
  BY <1>1, <1>2, <1>3, <1>4, <1>5, <1>6, <1>7 DEF Configures, ConfigNext

\* Whatever the first environment, three corrections of everything a refusal names
\* suffice (validate.ts:73, load.ts:95): the first leaves what depended on the
\* kind of backend and on the listener's other file, the second the bundle
\* that a skipped verification contradicts.
THEOREM RefusalsAreBounded == Spec => []RefusalsBounded
<1>1. ConfigInv => RefusalsBounded
  BY DEF ConfigInv, Refusals, RefusalsBounded
<1> QED
  BY <1>1, ConfigInvInit, ConfigInvStep, PTL DEF Spec

\* Whatever environments and env files there are, and however the refusals are
\* answered, what validate() accepts can be run as it was meant (validate.ts:213, 283,
\* 548, 604, 614).
THEOREM AcceptedUsable == Spec => []AcceptedIsUsable
<1>1. ConfigInv => AcceptedIsUsable
  <2>1. CASE phase = "accepted"
    BY <2>1, ConfigUsable, EffectiveTyped DEF ConfigInv
  <2>2. CASE phase # "accepted"
    BY <2>2 DEF AcceptedIsUsable
  <2> QED
    BY <2>1, <2>2
<1> QED
  BY <1>1, ConfigInvInit, ConfigInvStep, PTL DEF Spec

\* A family that is in the list is asked for once at least.
LEMMA ListedIsAsked ==
  ASSUME NEW env, Environment(env), BadFamilies(env) = {},
         "FMC_METRIC_FAMILIES" \in DOMAIN env, env["FMC_METRIC_FAMILIES"] # Whitespace,
         NEW i \in DOMAIN env["FMC_METRIC_FAMILIES"]
  PROVE  Families(env)[env["FMC_METRIC_FAMILIES"][i]] > 0
<1> DEFINE list == env["FMC_METRIC_FAMILIES"]
           places == {j \in DOMAIN list : list[j] = list[i]}
<1>1. list \in Seq(STRING)
  BY DEF Environment
<1>2. Value(env, "FMC_METRIC_FAMILIES") = list /\ IsSet(env, "FMC_METRIC_FAMILIES")
  BY DEF Value, IsSet, Environment
<1>3. list[i] \in MetricFamilies
  BY <1>2 DEF BadFamilies, When
<1>4. Families(env)[list[i]] = Cardinality(places)
  BY <1>2, <1>3 DEF Families
<1>5. DOMAIN list = 1..Len(list) /\ Len(list) \in Nat
  <2> HIDE DEF list
  <2> QED
    BY <1>1, SMT
<1>6. IsFiniteSet(DOMAIN list)
  BY <1>5, FS_Interval
<1>7. IsFiniteSet(places) /\ places # {}
  BY <1>6, FS_Subset
<1>8. Cardinality(places) \in Nat /\ Cardinality(places) # 0
  BY <1>7, FS_EmptySet, FS_CardinalityType
<1> QED
  BY <1>4, <1>8

LEMMA NothingIgnored ==
  ASSUME NEW env, Environment(env), Complaints(env) = {}, env = Effective,
         config = Config(env), NEW var \in DOMAIN env, env[var] # Whitespace
  PROVE  \/ Used(var)
         \/ var \in config.warnings \cup ShippedFilledIn
         \/ /\ var = "METRICS_TLS_MIN_VERSION"
            /\ \A path \in TlsPaths : ~IsSet(env, path)
<1> DEFINE kind == BackendType(env)
           held == Common \cup Block(kind)
                     \cup When(NotGiven(env, Listener) = {}, TlsPaths \cup {"METRICS_TLS_MIN_VERSION"})
<1>0. config.kind = kind /\ config.warnings = Warnings(env)
  BY DEF Config
<1>1. Value(env, var) = env[var] /\ IsSet(env, var)
  BY DEF Value, IsSet, Environment
<1>2. DOMAIN config.settings = held /\ \A v \in held : config.settings[v] = Setting(env, v)
  BY DEF Config
<1>3. ASSUME var \in held PROVE Used(var)
  <2>1. CASE var = "FMC_METRIC_FAMILIES"
    <3>1. kind = "fmc"
      BY <1>3, <2>1 DEF When, Block, Common, SccOnly, SccRequired, SccDefaulted, TlsPaths
    <3>2. BadFamilies(env) = {}
      BY <3>1 DEF Complaints, When, FmcComplaints
    <3>3. config.settings[var] = Families(env)
      BY <1>2, <1>3, <2>1 DEF Setting
    <3> HIDE DEF held, kind
    <3>4. \A i \in DOMAIN env[var] : Families(env)[env[var][i]] > 0
      BY <2>1, <3>2, ListedIsAsked
    <3> QED
      BY <1>2, <1>3, <2>1, <3>3, <3>4 DEF Used
  <2>2. CASE var # "FMC_METRIC_FAMILIES"
    <3>1. Setting(env, var) = env[var]
      BY <1>1, <2>2 DEF Setting
    <3> QED
      BY <1>2, <1>3, <2>2, <3>1 DEF Used
  <2> QED
    BY <2>1, <2>2
<1>4. kind \in {"scc", "fmc"}
  BY Passed
<1>5. CrossBackendVars(env) \subseteq Warnings(env)
  BY DEF Warnings
<1>6. CASE var \in Common
  BY <1>3, <1>6
<1>7. CASE var \in SccOnly
  <2>1. kind = "scc" => var \in held
    BY <1>7 DEF Block
  <2>2. kind = "fmc" => var \in SccDefaulted \/ var \in CrossBackendVars(env)
    BY <1>1, <1>7 DEF CrossBackendVars, WrongBlock
  <2> QED
    BY <1>0, <1>3, <1>4, <1>5, <2>1, <2>2 DEF ShippedFilledIn
<1>8. CASE var \in FmcOnly
  <2>1. kind = "fmc" => var \in held
    BY <1>8 DEF Block
  <2>2. kind = "scc" => var \in FmcDefaulted \/ var \in CrossBackendVars(env)
    BY <1>1, <1>8 DEF CrossBackendVars, WrongBlock
  <2> QED
    BY <1>0, <1>3, <1>4, <1>5, <2>1, <2>2 DEF ShippedFilledIn
<1>9. ASSUME NEW path \in TlsPaths, IsSet(env, path)
      PROVE  TlsPaths \cup {"METRICS_TLS_MIN_VERSION"} \subseteq held
  <2>1. TlsComplaints(env) = {}
    BY Passed
  <2>2. NotGiven(env, Listener) = {}
    BY <1>9, <2>1, ListenerHeld
  <2> QED
    BY <2>2 DEF When
<1>10. CASE var \in TlsPaths
  BY <1>1, <1>3, <1>9, <1>10
<1>11. CASE var = "METRICS_TLS_MIN_VERSION"
  BY <1>3, <1>9, <1>11
<1>12. CASE var = "BACKEND_TYPE"
  <2>1. kind = env[var]
    BY <1>1, <1>4, <1>12 DEF BackendType
  <2> QED
    BY <1>0, <1>12, <2>1 DEF Used
<1> QED
  BY <1>6, <1>7, <1>8, <1>10, <1>11, <1>12 DEF Environment, Variables

\* A blank has no value: what is held of it is the default.
LEMMA BlankIsDefault ==
  ASSUME NEW env, config = Config(env), NEW var \in DOMAIN env, env[var] = Whitespace
  PROVE  LeftToDefault(var)
<1>1. ~IsSet(env, var)
  BY DEF IsSet, Value
<1>2. Setting(env, var) = IF var = "FMC_METRIC_FAMILIES" THEN [f \in MetricFamilies |-> 1]
                                                        ELSE Default(var)
  BY <1>1 DEF Setting, Families
<1>3. var \in DOMAIN config.settings => config.settings[var] = Setting(env, var)
  BY DEF Config
<1> QED
  BY <1>2, <1>3 DEF LeftToDefault

\* Whatever is set, in whichever of the two places, it is used or the operator is told,
\* but for what example.env ships filled in and a TLS version alone; and a blank is
\* no value, whatever it hides (validate.ts:124, 179, 604).
THEOREM NothingIsIgnored == Spec => []NothingIgnoredSilently
<1>1. ConfigInv => NothingIgnoredSilently
  <2> SUFFICES ASSUME ConfigInv, phase = "accepted", NEW var \in DOMAIN Effective
               PROVE  IF Effective[var] = Whitespace THEN LeftToDefault(var)
                      ELSE \/ Used(var)
                           \/ var \in config.warnings \cup ShippedFilledIn
                           \/ /\ var = "METRICS_TLS_MIN_VERSION"
                              /\ \A path \in TlsPaths : ~IsSet(Effective, path)
    BY DEF NothingIgnoredSilently
  <2>1. Environment(Effective) /\ Complaints(Effective) = {} /\ config = Config(Effective)
    BY EffectiveTyped DEF ConfigInv
  <2>2. CASE Effective[var] = Whitespace
    BY <2>1, <2>2, BlankIsDefault
  <2>3. CASE Effective[var] # Whitespace
    BY <2>1, <2>3, NothingIgnored
  <2> QED
    BY <2>2, <2>3
<1> QED
  BY <1>1, ConfigInvInit, ConfigInvStep, PTL DEF Spec

-----------------------------------------------------------------------------
(***************************************************************************)
(* The answers.  First the mappers: every fact is a genuine value of what  *)
(* the answer states of the device.                                        *)
(***************************************************************************)
LEMMA PartSays ==
  ASSUME NEW g, g # "certificate", NEW raw, NEW i \in DOMAIN raw.parts,
         NEW fact \in PartFacts(g, i, raw.parts[i])
  PROVE  StatedIn(raw, g, fact)
<1> DEFINE part == raw.parts[i]
<1>1. ~Dropped(g, part)
  BY DEF PartFacts
<1>2. part.object
  BY <1>1 DEF Dropped
<1>3. \A key \in DOMAIN part.has : key \in Readable(g, part) => Genuine(g, part, key)
  BY <1>2 DEF Readable, Unreadable, Genuine
<1>4. CASE \E key \in Readable(g, part) : fact = <<i, key, part.has[key]>>
  <2>1. PICK key \in Readable(g, part) : fact = <<i, key, part.has[key]>>
    BY <1>4
  <2>2. Genuine(g, part, key)
    BY <1>3, <2>1 DEF Readable
  <2> QED
    BY <2>1, <2>2 DEF StatedIn
<1>5. CASE fact \in Fallback(g, i, part)
  <2>1. /\ g = "interface" /\ "interfaceName" \notin Readable(g, part)
        /\ fact = <<i, "interfaceName", part.has["interface"]>>
    BY <1>5 DEF Fallback
  <2>2. ~Genuine(g, part, "interfaceName")
    BY <2>1 DEF Genuine, Readable, Unreadable
  <2> QED
    BY <2>1, <2>2 DEF StatedIn
<1> QED
  BY <1>1, <1>4, <1>5 DEF PartFacts

LEMMA GroupSays ==
  ASSUME NEW g, g # "certificate", NEW raw, NEW fact \in GroupFacts(g, raw)
  PROVE  StatedIn(raw, g, fact)
BY PartSays DEF GroupFacts

\* An FMC answer that gives a group is about the device that was asked for.
LEMMA FamilySays ==
  ASSUME NEW d, NEW f, NEW reply, MapFmcFamilyResponse(d, f, reply).given
  PROVE  /\ About(d, reply)
         /\ MapFmcFamilyResponse(d, f, reply).group = FamilyGroup[f]
         /\ MapFmcFamilyResponse(d, f, reply).facts
              = GroupFacts(FamilyGroup[f], reply.items[1].groups[FamilyGroup[f]])
<1>1. \A errors : ~Nothing(errors).given
  BY DEF Nothing
<1>2. ~Refused(d, reply) /\ ~IsEmptyFamilyResponse(reply)
  BY <1>1 DEF MapFmcFamilyResponse
<1>3. MapFmcFamilyResponse(d, f, reply) = MapItem(d, f, reply.items[1])
  BY <1>2 DEF MapFmcFamilyResponse
<1>4. About(d, reply)
  BY <1>2 DEF Refused, IsEmptyFamilyResponse, Misaddressed, About
<1> QED
  BY <1>3, <1>4 DEF MapItem

\* The last of a group's results exists, since they are finitely many.
LEMMA LatestExists ==
  ASSUME NEW n \in Nat, NEW T \in SUBSET (1..n), T # {}
  PROVE  \E x \in T : \A y \in T : y <= x
<1> DEFINE Below == OpToRel(<, Nat)
           Bounds == {k \in Nat : \A y \in T : y <= k}
<1>1. IsWellFoundedOn(Below, Nat)
  BY NatLessThanWellFounded
<1>2. Bounds \subseteq Nat /\ Bounds # {}
  <2>1. n \in Bounds
    OBVIOUS
  <2> QED
    BY <2>1
<1> HIDE DEF Below, Bounds
<1>3. PICK k \in Bounds : \A b \in Bounds : ~(<<b, k>> \in Below)
  BY <1>1, <1>2, WFMin, Zenon
<1>4. \A b \in Bounds : ~(b < k)
  BY <1>2, <1>3 DEF Below, OpToRel
<1>5. k \in Nat /\ \A y \in T : y <= k
  BY DEF Bounds
<1>6. k \in T
  <2> SUFFICES ASSUME k \notin T PROVE FALSE
    OBVIOUS
  <2>1. \A y \in T : y \in Int /\ 1 <= y /\ y < k
    <3> SUFFICES ASSUME NEW y \in T PROVE y \in Int /\ 1 <= y /\ y < k
      OBVIOUS
    <3>1. y \in 1..n /\ y <= k /\ y # k
      BY <1>5
    <3> QED
      BY <1>5, <3>1
  <2>2. k - 1 \in Nat
    <3>1. PICK y \in T : y \in Int /\ 1 <= y /\ y < k
      BY <2>1
    <3> QED
      BY <1>5, <3>1
  <2>3. \A z \in T : z <= k - 1
    BY <1>5, <2>1
  <2>4. k - 1 \in Bounds
    BY <2>2, <2>3 DEF Bounds
  <2> QED
    BY <1>4, <1>5, <2>4
<1> QED
  BY <1>5, <1>6

LEMMA LastOfContributes ==
  ASSUME NEW S, NEW list \in Seq(S), NEW g, Contributors(list, g) # {}
  PROVE  LastOf(list, g) \in Contributors(list, g)
<1>1. Contributors(list, g) \in SUBSET (1..Len(list)) /\ Len(list) \in Nat
  BY DEF Contributors
<1>2. \E i \in Contributors(list, g) : \A j \in Contributors(list, g) : j <= i
  BY <1>1, LatestExists
<1> QED
  BY <1>2 DEF LastOf

-----------------------------------------------------------------------------
(***************************************************************************)
(* Then the fetch: what arrived is what was heard, and what is shown is    *)
(* made of what arrived.                                                   *)
(***************************************************************************)
Partials(d) == {MapFmcFamilyResponse(d, f, r) : f \in MetricFamilies, r \in Replies}

Tenants == {"health", "inventory", "license", "certificates"}

OfFamily(task) ==
  task.of = "family" /\ task.device \in Devices /\ task.family \in MetricFamilies

AskedTyped ==
  \/ \A task \in asked : OfFamily(task)
  \/ \E of \in Tenants : asked = {Request(of)}

HeardTyped ==
  /\ DOMAIN heard \subseteq asked
  /\ \A task \in DOMAIN heard : task.of = "family" => heard[task] \in Replies
  /\ \A of \in Tenants : Request(of) \in DOMAIN heard => ended

ResultsTyped ==
  /\ DOMAIN results = Devices
  /\ \A d \in Devices : results[d] \in Seq(Partials(d))

ResultsHeard ==
  \A d \in Devices : \A i \in DOMAIN results[d] :
    \E task \in DOMAIN heard :
      /\ task.of = "family" /\ task.device = d
      /\ results[d][i] = MapFmcFamilyResponse(d, task.family, heard[task])

HeardResulted ==
  \A task \in DOMAIN heard : task.of = "family" =>
    \E i \in DOMAIN results[task.device] :
      results[task.device][i] = MapFmcFamilyResponse(task.device, task.family, heard[task])

Merged == {MergeFmcFamilies(d, results[d]) : d \in {e \in Devices : Contributed(results[e]) # {}}}

MergedErrors ==
  UNION {UNION {results[d][i].errors : i \in DOMAIN results[d]} : d \in Devices}

\* The answer for the tenant, and what became of it.
Answered(of, payloads) ==
  asked = {Request(of)} /\ Request(of) \in DOMAIN heard /\ heard[Request(of)] \in payloads

Became(snapshots, errors) == shown = snapshots /\ reported = errors

Outcome ==
  \/ asked = {} /\ Became({}, {})
  \/ ~ended /\ Became({}, {})
  \/ (\A task \in asked : OfFamily(task)) /\ asked = DOMAIN heard /\ Became(Merged, MergedErrors)
  \/ /\ Answered("health", HealthLists)
     /\ Became(MapSccResponse(heard[Request("health")]), SccErrors(heard[Request("health")]))
  \/ /\ Answered("inventory", Inventories)
     /\ Became(MapSccInventoryResponse(heard[Request("inventory")]),
               InventoryErrors(heard[Request("inventory")]))
  \/ /\ Answered("license", Licenses)
     /\ Became(MapLicenseResponse(heard[Request("license")]),
               LicenseErrors(heard[Request("license")]))
  \/ /\ Answered("certificates", Certificates)
     /\ Became(MapCertificates(heard[Request("certificates")]),
               CertificateErrors(heard[Request("certificates")]))

FetchInv ==
  /\ AskedTyped
  /\ HeardTyped
  /\ ResultsTyped
  /\ ResultsHeard
  /\ HeardResulted
  /\ Outcome

LEMMA FetchInvInit == Init => FetchInv
BY DEF Init, FetchInv, AskedTyped, HeardTyped, ResultsTyped, ResultsHeard, HeardResulted,
       Outcome, Became

LEMMA FetchInvAsks ==
  ASSUME NEW requests, Asks(requests),
         \/ \A task \in requests : OfFamily(task)
         \/ \E of \in Tenants : requests = {Request(of)}
  PROVE  FetchInv'
<1>1. AskedTyped'
  BY DEF Asks, AskedTyped, OfFamily, Request
<1>2. (HeardTyped /\ ResultsTyped /\ ResultsHeard /\ HeardResulted)'
  BY DEF Asks, HeardTyped, ResultsTyped, ResultsHeard, HeardResulted
<1>3. Outcome'
  BY DEF Asks, Outcome, Became
<1> QED
  BY <1>1, <1>2, <1>3 DEF FetchInv

LEMMA HearsExtends ==
  ASSUME NEW request, NEW answer, Hears(request, answer)
  PROVE  /\ request \notin DOMAIN heard
         /\ request \in asked
         /\ DOMAIN heard' = DOMAIN heard \cup {request}
         /\ heard'[request] = answer
         /\ \A r \in DOMAIN heard : heard'[r] = heard[r]
BY DEF Hears

\* An answer for the tenant replaces what is shown and leaves the results alone.
LEMMA ResultsStay ==
  ASSUME FetchInv, NEW of \in Tenants, NEW answer, Hears(Request(of), answer),
         UNCHANGED <<asked, results>>, ended'
  PROVE  (AskedTyped /\ HeardTyped /\ ResultsTyped /\ ResultsHeard /\ HeardResulted)'
<1> DEFINE request == Request(of)
<1>1. request.of # "family"
  BY DEF Request, Tenants
<1>2. /\ request \in asked
      /\ DOMAIN heard' = DOMAIN heard \cup {request}
      /\ \A r \in DOMAIN heard : heard'[r] = heard[r]
  BY HearsExtends
<1> HIDE DEF request
<1>3. ResultsHeard'
  <2> SUFFICES ASSUME NEW d \in Devices, NEW i \in DOMAIN results[d]
               PROVE  \E task \in DOMAIN heard' :
                        /\ task.of = "family" /\ task.device = d
                        /\ results[d][i] = MapFmcFamilyResponse(d, task.family, heard'[task])
    BY DEF ResultsHeard
  <2>1. PICK task \in DOMAIN heard :
          /\ task.of = "family" /\ task.device = d
          /\ results[d][i] = MapFmcFamilyResponse(d, task.family, heard[task])
    BY DEF FetchInv, ResultsHeard
  <2> QED
    BY <2>1, <1>2
<1>4. HeardResulted'
  BY <1>1, <1>2 DEF FetchInv, HeardResulted
<1>5. HeardTyped'
  BY <1>1, <1>2 DEF FetchInv, HeardTyped
<1>6. AskedTyped'
  BY DEF FetchInv, AskedTyped, Request, OfFamily
<1> QED
  BY <1>3, <1>4, <1>5, <1>6 DEF FetchInv, ResultsTyped

LEMMA FetchInvTenant ==
  ASSUME FetchInv, NEW of \in Tenants, NEW payloads, NEW answer \in payloads,
         Request(of) \in asked,
         Hears(Request(of), answer), UNCHANGED <<asked, results>>, ended'
  PROVE  /\ (AskedTyped /\ HeardTyped /\ ResultsTyped /\ ResultsHeard /\ HeardResulted)'
         /\ Answered(of, payloads)' /\ heard'[Request(of)] = answer
<1>1. asked = {Request(of)}
  <2>1. Request(of).of = of /\ of # "family"
    BY DEF Request, Tenants
  <2> QED
    BY <2>1 DEF FetchInv, AskedTyped, OfFamily
<1> QED
  BY <1>1, ResultsStay, HearsExtends DEF Answered, Request

LEMMA FetchInvFamily ==
  ASSUME FetchInv, NEW task \in asked, NEW reply \in Replies, FamilyAnswered(task, reply)
  PROVE  FetchInv'
<1> DEFINE d == task.device
           partial == MapFmcFamilyResponse(d, task.family, reply)
<1>1. /\ task.of = "family" /\ Hears(task, reply)
      /\ results' = [results EXCEPT ![d] = Append(@, partial)]
      /\ UNCHANGED <<asked, shown, reported, ended>>
  BY DEF FamilyAnswered
<1>2. d \in Devices /\ task.family \in MetricFamilies /\ \A t \in asked : OfFamily(t)
  <2>1. \A of \in Tenants : Request(of).of # "family"
    BY DEF Request, Tenants
  <2>2. \A t \in asked : OfFamily(t)
    BY <1>1, <2>1 DEF FetchInv, AskedTyped
  <2> QED
    BY <2>2 DEF OfFamily
<1>3. /\ task \notin DOMAIN heard
      /\ DOMAIN heard' = DOMAIN heard \cup {task}
      /\ heard'[task] = reply
      /\ \A r \in DOMAIN heard : heard'[r] = heard[r]
  BY <1>1, HearsExtends
<1>4. partial \in Partials(d)
  BY <1>2 DEF Partials
<1>5. /\ DOMAIN results = Devices
      /\ \A e \in Devices : results[e] \in Seq(Partials(e))
  BY DEF FetchInv, ResultsTyped
<1> HIDE DEF d, partial
<1>6. /\ DOMAIN results' = Devices
      /\ results'[d] = Append(results[d], partial)
      /\ \A e \in Devices \ {d} : results'[e] = results[e]
  BY <1>1, <1>2, <1>5
<1>7. AskedTyped' /\ HeardTyped'
  <2>1. asked' = asked
    BY <1>1
  <2>2. AskedTyped'
    BY <1>2, <2>1 DEF AskedTyped, OfFamily
  <2>3. \A of \in Tenants : Request(of) # task
    BY <1>1 DEF Request, Tenants
  <2>4. HeardTyped'
    BY <1>1, <1>3, <2>1, <2>3 DEF FetchInv, HeardTyped, Request
  <2> QED
    BY <2>2, <2>4
<1>8. ResultsTyped'
  <2>1. results'[d] \in Seq(Partials(d))
    BY <1>2, <1>4, <1>5, <1>6
  <2> QED
    BY <1>5, <1>6, <2>1 DEF ResultsTyped, Partials
<1>9. ResultsHeard'
  <2> SUFFICES ASSUME NEW e \in Devices, NEW i \in DOMAIN results'[e]
               PROVE  \E t \in DOMAIN heard' :
                        /\ t.of = "family" /\ t.device = e
                        /\ results'[e][i] = MapFmcFamilyResponse(e, t.family, heard'[t])
    BY DEF ResultsHeard
  <2>1. CASE e = d /\ i = Len(results[d]) + 1
    <3>1. results'[e][i] = partial
      BY <1>2, <1>4, <1>5, <1>6, <2>1
    <3> QED
      BY <1>1, <1>3, <2>1, <3>1 DEF d, partial
  <2>2. CASE i \in DOMAIN results[e] /\ results'[e][i] = results[e][i]
    <3>1. PICK t \in DOMAIN heard :
            /\ t.of = "family" /\ t.device = e
            /\ results[e][i] = MapFmcFamilyResponse(e, t.family, heard[t])
      BY <2>2 DEF FetchInv, ResultsHeard
    <3> QED
      BY <1>3, <2>2, <3>1
  <2>3. CASE e # d
    BY <1>6, <2>2, <2>3
  <2>4. CASE e = d /\ i # Len(results[d]) + 1
    <3>1. i \in DOMAIN results[d] /\ results'[d][i] = results[d][i]
      BY <1>2, <1>4, <1>5, <1>6, <2>4
    <3> QED
      BY <2>2, <2>4, <3>1
  <2> QED
    BY <2>1, <2>3, <2>4
<1>10. HeardResulted'
  <2> SUFFICES ASSUME NEW t \in DOMAIN heard', t.of = "family"
               PROVE  \E i \in DOMAIN results'[t.device] :
                        results'[t.device][i] = MapFmcFamilyResponse(t.device, t.family, heard'[t])
    BY DEF HeardResulted
  <2>1. CASE t = task
    <3>1. /\ Len(results[d]) + 1 \in DOMAIN results'[d]
          /\ results'[d][Len(results[d]) + 1] = partial
      BY <1>2, <1>4, <1>5, <1>6
    <3> QED
      BY <1>3, <2>1, <3>1 DEF d, partial
  <2>2. CASE t \in DOMAIN heard
    <3>1. t.device \in Devices
      BY <1>2, <2>2 DEF FetchInv, HeardTyped, OfFamily
    <3>2. PICK i \in DOMAIN results[t.device] :
            results[t.device][i] = MapFmcFamilyResponse(t.device, t.family, heard[t])
      BY <2>2 DEF FetchInv, HeardResulted
    <3>3. i \in DOMAIN results'[t.device] /\ results'[t.device][i] = results[t.device][i]
      <4>1. CASE t.device = d
        BY <1>2, <1>4, <1>5, <1>6, <3>1, <3>2, <4>1
      <4>2. CASE t.device # d
        BY <1>6, <3>1, <3>2, <4>2
      <4> QED
        BY <4>1, <4>2
    <3> QED
      BY <1>3, <2>2, <3>2, <3>3
  <2> QED
    BY <1>3, <2>1, <2>2
<1>11. Outcome'
  <2>1. asked # DOMAIN heard /\ asked # {} /\ UNCHANGED <<asked, shown, reported, ended>>
    BY <1>1, <1>3
  <2>2. \A of \in Tenants : asked # {Request(of)}
    BY <1>1 DEF Request, Tenants
  <2>3. ~ended /\ Became({}, {})
    BY <2>1, <2>2 DEF FetchInv, Outcome, Answered, Tenants
  <2> QED
    BY <2>1, <2>3 DEF Outcome, Became
<1> QED
  BY <1>7, <1>8, <1>9, <1>10, <1>11 DEF FetchInv

LEMMA FetchInvStep == FetchInv /\ [Next]_vars => FetchInv'
<1> SUFFICES ASSUME FetchInv, [Next]_vars PROVE FetchInv'
  OBVIOUS
<1>1. CASE UNCHANGED fetchVars
  <2>1. /\ asked' = asked /\ heard' = heard /\ results' = results /\ shown' = shown
        /\ reported' = reported /\ ended' = ended
    BY <1>1 DEF fetchVars
  <2>2. (AskedTyped /\ HeardTyped /\ ResultsTyped)'
    BY <2>1 DEF FetchInv, AskedTyped, HeardTyped, ResultsTyped
  <2>3. (ResultsHeard /\ HeardResulted)'
    BY <2>1 DEF FetchInv, ResultsHeard, HeardResulted
  <2>4. Outcome'
    BY <2>1 DEF FetchInv, Outcome, Answered, Became, Merged, MergedErrors
  <2> QED
    BY <2>2, <2>3, <2>4 DEF FetchInv
<1>2. CASE FmcFetch
  <2>1. PICK fleet \in Fleets :
          Asks({Task(t[1], t[2], t[3]) : t \in
                 {u \in Devices \X MetricFamilies \X (1..MaxRepeats) :
                    u[3] <= fleet[u[1]] * backend.families[u[2]]}})
    BY <1>2 DEF FmcFetch
  <2>2. \A n : \A d \in Devices, f \in MetricFamilies : OfFamily(Task(d, f, n))
    BY DEF Task, OfFamily
  <2> QED
    BY <2>1, <2>2, FetchInvAsks
<1>3. CASE SccFetch \/ InventoryRefresh \/ LicenseRefresh \/ CertificateRefresh
  <2>1. \E of \in Tenants : Asks({Request(of)})
    BY <1>3 DEF SccFetch, InventoryRefresh, LicenseRefresh, CertificateRefresh, Tenants
  <2> QED
    BY <2>1, FetchInvAsks
<1>4. CASE \E task \in asked, reply \in Replies : FamilyAnswered(task, reply)
  BY <1>4, FetchInvFamily
<1>5. CASE BuildSnapshots
  <2>1. /\ UNCHANGED <<asked, heard, results>> /\ ~ended /\ asked = DOMAIN heard
        /\ Became(Merged, MergedErrors)'
    BY <1>5 DEF BuildSnapshots, Became, Merged, MergedErrors
  <2>2. \A task \in asked : OfFamily(task)
    <3>1. ASSUME NEW of \in Tenants, asked = {Request(of)} PROVE FALSE
      BY <2>1, <3>1 DEF FetchInv, HeardTyped
    <3> QED
      BY <3>1 DEF FetchInv, AskedTyped
  <2>3. Outcome'
    BY <2>1, <2>2 DEF Outcome, OfFamily
  <2>4. ended'
    BY <1>5 DEF BuildSnapshots
  <2>5. AskedTyped' /\ HeardTyped'
    BY <2>1, <2>4 DEF FetchInv, AskedTyped, HeardTyped, OfFamily, Request
  <2>6. (ResultsTyped /\ ResultsHeard /\ HeardResulted)'
    BY <2>1 DEF FetchInv, ResultsTyped, ResultsHeard, HeardResulted, Partials
  <2> QED
    BY <2>3, <2>5, <2>6 DEF FetchInv
<1>6. CASE HealthAnswered
  <2>1. PICK payload \in HealthLists :
          Hears(Request("health"), payload) /\ Ends(MapSccResponse(payload), SccErrors(payload))
    BY <1>6 DEF HealthAnswered
  <2>2. /\ UNCHANGED <<asked, results>> /\ ended'
        /\ shown' = MapSccResponse(payload) /\ reported' = SccErrors(payload)
    BY <2>1 DEF Ends
  <2>3. /\ (AskedTyped /\ HeardTyped /\ ResultsTyped /\ ResultsHeard /\ HeardResulted)'
        /\ Answered("health", HealthLists)' /\ heard'[Request("health")] = payload
    BY <1>6, <2>1, <2>2, FetchInvTenant DEF Tenants, HealthAnswered
  <2> QED
    BY <2>2, <2>3 DEF FetchInv, Outcome, Became
<1>7. CASE InventoryAnswered
  <2>1. PICK payload \in Inventories :
          /\ Hears(Request("inventory"), payload)
          /\ Ends(MapSccInventoryResponse(payload), InventoryErrors(payload))
    BY <1>7 DEF InventoryAnswered
  <2>2. /\ UNCHANGED <<asked, results>> /\ ended'
        /\ shown' = MapSccInventoryResponse(payload) /\ reported' = InventoryErrors(payload)
    BY <2>1 DEF Ends
  <2>3. /\ (AskedTyped /\ HeardTyped /\ ResultsTyped /\ ResultsHeard /\ HeardResulted)'
        /\ Answered("inventory", Inventories)' /\ heard'[Request("inventory")] = payload
    BY <1>7, <2>1, <2>2, FetchInvTenant DEF Tenants, InventoryAnswered
  <2> QED
    BY <2>2, <2>3 DEF FetchInv, Outcome, Became
<1>8. CASE LicenseAnswered
  <2>1. PICK payload \in Licenses :
          Hears(Request("license"), payload) /\ Ends(MapLicenseResponse(payload), LicenseErrors(payload))
    BY <1>8 DEF LicenseAnswered
  <2>2. /\ UNCHANGED <<asked, results>> /\ ended'
        /\ shown' = MapLicenseResponse(payload) /\ reported' = LicenseErrors(payload)
    BY <2>1 DEF Ends
  <2>3. /\ (AskedTyped /\ HeardTyped /\ ResultsTyped /\ ResultsHeard /\ HeardResulted)'
        /\ Answered("license", Licenses)' /\ heard'[Request("license")] = payload
    BY <1>8, <2>1, <2>2, FetchInvTenant DEF Tenants, LicenseAnswered
  <2> QED
    BY <2>2, <2>3 DEF FetchInv, Outcome, Became
<1>9. CASE CertificatesAnswered
  <2>1. PICK payload \in Certificates :
          /\ Hears(Request("certificates"), payload)
          /\ Ends(MapCertificates(payload), CertificateErrors(payload))
    BY <1>9 DEF CertificatesAnswered
  <2>2. /\ UNCHANGED <<asked, results>> /\ ended'
        /\ shown' = MapCertificates(payload) /\ reported' = CertificateErrors(payload)
    BY <2>1 DEF Ends
  <2>3. /\ (AskedTyped /\ HeardTyped /\ ResultsTyped /\ ResultsHeard /\ HeardResulted)'
        /\ Answered("certificates", Certificates)' /\ heard'[Request("certificates")] = payload
    BY <1>9, <2>1, <2>2, FetchInvTenant DEF Tenants, CertificatesAnswered
  <2> QED
    BY <2>2, <2>3 DEF FetchInv, Outcome, Became
<1>10. Configures \/ UNCHANGED vars => UNCHANGED fetchVars
  BY DEF Configures, vars
<1> QED
  BY <1>1, <1>2, <1>3, <1>4, <1>5, <1>6, <1>7, <1>8, <1>9, <1>10 DEF Next

-----------------------------------------------------------------------------
LEMMA GroupsAreOther == "certificate" \notin Groups
BY DEF Groups, OneObject

\* What one statement about the snapshot's device says of a group.
Backed(s, g) ==
  \E stated \in Statements(s.device) :
    stated[1] = g /\ \A fact \in s.groups[g] : StatedIn(stated[2], g, fact)

LEMMA FmcBacked ==
  ASSUME FetchInv, NEW s \in Merged, NEW g \in DOMAIN s.groups
  PROVE  Backed(s, g)
<1>1. PICK d \in Devices : s = MergeFmcFamilies(d, results[d])
  BY DEF Merged
<1> DEFINE list == results[d]
           last == LastOf(list, g)
<1>2. /\ s.device = d
      /\ g \in Contributed(list)
      /\ s.groups[g] = list[last].facts
  BY <1>1 DEF MergeFmcFamilies
<1>10. g # "certificate"
  BY <1>2, GroupsAreOther DEF Contributed
<1>3. last \in Contributors(list, g)
  BY <1>2, LastOfContributes DEF Contributed, FetchInv, ResultsTyped
<1>4. last \in DOMAIN list /\ list[last].given /\ list[last].group = g
  BY <1>3 DEF Contributors
<1>5. PICK task \in DOMAIN heard :
        /\ task.of = "family" /\ task.device = d
        /\ list[last] = MapFmcFamilyResponse(d, task.family, heard[task])
  BY <1>4 DEF FetchInv, ResultsHeard
<1> HIDE DEF list, last
<1>6. /\ About(d, heard[task])
      /\ g = FamilyGroup[task.family]
      /\ list[last].facts = GroupFacts(g, heard[task].items[1].groups[g])
  BY <1>4, <1>5, FamilySays
<1>7. task \in Answers(d)
  BY <1>5, <1>6 DEF Answers, TasksOf
<1>8. Said(task) \in Statements(d)
  BY <1>7 DEF Statements
<1>9. Said(task) = <<g, heard[task].items[1].groups[g]>>
  BY <1>6 DEF Said
<1> QED
  BY <1>2, <1>6, <1>8, <1>9, <1>10, GroupSays DEF Backed

LEMMA SccBacked ==
  ASSUME Request("health") \in DOMAIN heard,
         NEW s \in MapSccResponse(heard[Request("health")]), NEW g \in DOMAIN s.groups
  PROVE  Backed(s, g)
<1> DEFINE payload == heard[Request("health")]
<1>1. PICK i \in DOMAIN payload.parts :
        Rooted(payload.parts[i]) /\ s = MapSccDevice(payload.parts[i])
  BY DEF MapSccResponse
<1> DEFINE entry == payload.parts[i]
<1>2. /\ s.device = entry.id
      /\ g \in Groups
      /\ s.groups[g] = GroupFacts(g, entry.groups[g])
  BY <1>1 DEF MapSccDevice
<1>3. entry \in PartsOf("health") /\ Identified(entry)
  BY <1>1 DEF PartsOf, Rooted, Identified
<1>4. <<g, entry.groups[g]>> \in Statements(s.device)
  BY <1>2, <1>3 DEF Statements
<1> QED
  BY <1>2, <1>4, GroupSays, GroupsAreOther DEF Backed

LEMMA InventoryBacked ==
  ASSUME Request("inventory") \in DOMAIN heard,
         NEW s \in MapSccInventoryResponse(heard[Request("inventory")]), NEW g \in DOMAIN s.groups
  PROVE  Backed(s, g)
<1> DEFINE payload == heard[Request("inventory")]
<1>1. PICK i \in DOMAIN payload.parts :
        /\ IsFtd(payload.parts[i]) /\ ~Dropped("inventory", payload.parts[i])
        /\ s = MapInventoryItem(payload.parts[i])
  BY DEF MapSccInventoryResponse
<1> DEFINE item == payload.parts[i]
<1>2. /\ s.device = item.has["uid"]
      /\ g \in {"inventory", "haNode"}
      /\ s.groups["inventory"] = PartFacts("inventory", 1, item)
      /\ s.groups["haNode"] = NodeFacts(item.ha.parts)
  BY <1>1 DEF MapInventoryItem
<1>3. Managed(item) /\ item \in PartsOf("inventory")
  BY <1>1 DEF IsFtd, Dropped, Unreadable, Managed, Genuine, PartsOf
<1>4. InventoryOf(item) \subseteq Statements(s.device)
  BY <1>2, <1>3 DEF Statements
<1>5. CASE g = "inventory"
  <2>1. /\ 1 \in DOMAIN Single(item).parts
        /\ Single(item).parts[1] = item
    BY DEF Single
  <2>2. \A fact \in s.groups[g] : StatedIn(Single(item), g, fact)
    BY <1>2, <1>5, <2>1, PartSays
  <2>3. <<g, Single(item)>> \in InventoryOf(item)
    BY <1>5 DEF InventoryOf
  <2> QED
    BY <1>4, <2>2, <2>3 DEF Backed
<1>6. CASE g = "haNode"
  <2>1. \A fact \in s.groups[g] : \E j \in DOMAIN item.ha.parts :
          fact \in PartFacts(g, j, item.ha.parts[j])
    BY <1>2, <1>6 DEF NodeFacts, KeptNodes
  <2>2. \A fact \in s.groups[g] : StatedIn(item.ha, g, fact)
    BY <1>6, <2>1, PartSays
  <2>3. <<g, item.ha>> \in InventoryOf(item)
    BY <1>6 DEF InventoryOf
  <2> QED
    BY <1>4, <2>2, <2>3 DEF Backed
<1> QED
  BY <1>2, <1>5, <1>6

LEMMA LicenseBacked ==
  ASSUME Request("license") \in DOMAIN heard,
         NEW s \in MapLicenseResponse(heard[Request("license")]), NEW g \in DOMAIN s.groups
  PROVE  Backed(s, g)
<1> DEFINE payload == heard[Request("license")]
<1>1. PICK i \in DOMAIN payload.parts :
        /\ s.device = Missing
        /\ s.groups = [license |-> PartFacts("license", 1, payload.parts[i])]
  BY DEF MapLicenseResponse
<1> DEFINE part == payload.parts[i]
<1>2. g = "license" /\ s.groups[g] = PartFacts("license", 1, part)
  BY <1>1
<1>3. /\ 1 \in DOMAIN Single(part).parts
      /\ Single(part).parts[1] = part
  BY DEF Single
<1>4. \A fact \in s.groups[g] : StatedIn(Single(part), g, fact)
  BY <1>2, <1>3, PartSays
<1>5. <<"license", Single(part)>> \in Statements(s.device)
  BY <1>1 DEF Statements, PartsOf
<1> QED
  BY <1>2, <1>4, <1>5 DEF Backed

\* A component is enrolled only if its certificate dates it.
LEMMA EnrolledIsDated ==
  ASSUME NEW part, NEW c \in Components, Applies(part, c)
  PROVE  Dated(part, c) /\ CertName(part) = Label(part)
<1>1. Required["certificate"] = {}
  BY SMT DEF Required
<1>2. \A i \in 1..2 : /\ part.object
                      /\ c[i] \in DOMAIN part.has
                      /\ part.has[c[i]] # Wrong
                      /\ Field(part, c[i]) = part.has[c[i]]
  <2>1. \A i \in 1..2 : Field(part, c[i]) \notin {Wrong, Missing}
    BY DEF Applies
  <2> QED
    BY <2>1 DEF Field
<1>3. \A key : key \in Required["certificate"] => FALSE
  BY <1>1
<1>4. Dated(part, c)
  BY <1>2, <1>3 DEF Dated, Genuine, Applies, NotApplicable, Sentinel
<1>5. CertName(part) = Label(part)
  BY <1>2, <1>3 DEF CertName, Label, Readable, Unreadable, Genuine
<1> QED
  BY <1>4, <1>5

LEMMA CertificatesBacked ==
  ASSUME Request("certificates") \in DOMAIN heard,
         NEW s \in MapCertificates(heard[Request("certificates")]), NEW g \in DOMAIN s.groups
  PROVE  Backed(s, g)
<1> DEFINE payload == heard[Request("certificates")]
<1>1. PICK i \in DOMAIN payload.parts :
        /\ Joined(payload.parts[i], payload.joined)
        /\ s.device = payload.joined[payload.parts[i].has["id"]]
        /\ s.groups = [certificate |-> CertificateFacts(payload.parts[i].certificates.parts)]
  BY DEF MapCertificates
<1> DEFINE record == payload.parts[i]
           parts == record.certificates.parts
<1>2. g = "certificate" /\ s.groups[g] = CertificateFacts(parts)
  BY <1>1
<1>3. RecordOf(record, s.device)
  BY <1>1 DEF Joined, RecordOf
<1>4. <<g, record.certificates>> \in Statements(s.device)
  BY <1>2, <1>3 DEF Statements, PartsOf
<1>5. \A fact \in s.groups[g] : StatedIn(record.certificates, g, fact)
  <2> SUFFICES ASSUME NEW fact \in CertificateFacts(parts)
               PROVE  \E j \in DOMAIN parts : CertificateSays(parts[j], fact)
    BY <1>2 DEF StatedIn
  <2>1. PICK entry \in Enrolled(parts) : fact \in EntryFacts(parts[entry[1]], entry[2])
    BY DEF CertificateFacts
  <2> DEFINE part == parts[entry[1]]
             c == entry[2]
  <2>2. entry[1] \in DOMAIN parts /\ c \in Components /\ Applies(part, c)
    BY DEF Enrolled
  <2>3. \/ fact = <<CertName(part), c[1], part.has[c[1]]>>
        \/ fact = <<CertName(part), c[2], part.has[c[2]]>>
    <3> HIDE DEF part, c
    <3>1. fact \in EntryFacts(part, c)
      BY <2>1 DEF part, c
    <3> QED
      BY <3>1 DEF EntryFacts
  <2>4. Dated(part, c) /\ CertName(part) = Label(part)
    BY <2>2, EnrolledIsDated
  <2>5. CertificateSays(part, fact)
    <3> HIDE DEF part, c
    <3>1. fact[1] = Label(part)
      BY <2>3, <2>4
    <3>2. \E k \in 1..2 : <<fact[2], fact[3]>> = <<c[k], part.has[c[k]]>>
      <4>1. CASE fact = <<CertName(part), c[1], part.has[c[1]]>>
        BY <4>1
      <4>2. CASE fact = <<CertName(part), c[2], part.has[c[2]]>>
        BY <4>2
      <4> QED
        BY <2>3, <4>1, <4>2
    <3> QED
      BY <2>2, <2>4, <3>1, <3>2 DEF CertificateSays
  <2> QED
    BY <2>2, <2>5
<1> QED
  BY <1>2, <1>4, <1>5 DEF Backed

\* Whatever upstream answers, in whatever order, a snapshot says of a device in a
\* group only what one statement about that device said (fmc/map.ts:98).
THEOREM NothingIsInvented == Spec => []NothingInvented
<1>1. FetchInv => NothingInvented
  <2> SUFFICES ASSUME FetchInv, NEW s \in shown, NEW g \in DOMAIN s.groups
               PROVE  Backed(s, g)
    BY DEF NothingInvented, Backed
  <2> QED
    BY FmcBacked, SccBacked, InventoryBacked, LicenseBacked, CertificatesBacked
    DEF FetchInv, Outcome, Became, Answered
<1> QED
  BY <1>1, FetchInvInit, FetchInvStep, PTL DEF Spec
-----------------------------------------------------------------------------
(***************************************************************************)
(* The window of a snapshot.                                               *)
(***************************************************************************)
\* Of a fleet's requests none is for the tenant, and what is shown, if
\* anything, is what their results merge to.
LEMMA PolledOutcome ==
  ASSUME FetchInv, NEW d, TasksOf(d) # {}
  PROVE  /\ \A task \in asked : OfFamily(task)
         /\ \/ ~ended /\ Became({}, {})
            \/ asked = DOMAIN heard /\ Became(Merged, MergedErrors)
<1>1. PICK task \in DOMAIN heard : task.of = "family"
  BY DEF TasksOf
<1>2. task \in asked
  BY <1>1 DEF FetchInv, HeardTyped
<1>3. \A of \in Tenants : asked # {Request(of)}
  BY <1>1, <1>2 DEF Request, Tenants
<1>4. \A other \in asked : OfFamily(other)
  BY <1>3 DEF FetchInv, AskedTyped
<1>5. \/ ~ended /\ Became({}, {})
      \/ asked = DOMAIN heard /\ Became(Merged, MergedErrors)
  BY <1>2, <1>3 DEF FetchInv, Outcome, Answered, Tenants
<1> QED
  BY <1>4, <1>5

\* An answer's window is that of its one item, if it is about the device.
LEMMA WindowSays ==
  ASSUME NEW d, NEW f, NEW reply \in Replies
  PROVE  LET partial == MapFmcFamilyResponse(d, f, reply)
             item == reply.items[1]
         IN  /\ partial.end \in Nat
             /\ partial.end # 0 =>
                  /\ About(d, reply)
                  /\ partial.end = item.end
                  /\ partial.start = IF item.start = Garbled THEN 0 ELSE item.start
             /\ About(d, reply) /\ item.end \notin {0, Garbled} => partial.end = item.end
<1> DEFINE partial == MapFmcFamilyResponse(d, f, reply)
           item == reply.items[1]
<1>1. Garbled = -1
  BY DEF Garbled
<1>2. ASSUME reply.items # <<>>
      PROVE  {item.start, item.end} \subseteq Nat \cup {Garbled}
  BY <1>2, AnswersAssumption DEF AnswersAssumption
<1>3. CASE Refused(d, reply) \/ IsEmptyFamilyResponse(reply)
  <2>1. partial.end = 0
    BY <1>3 DEF MapFmcFamilyResponse, Nothing
  <2>2. ~About(d, reply)
    BY <1>3 DEF About, Refused, IsEmptyFamilyResponse, Misaddressed
  <2> QED
    BY <2>1, <2>2
<1>4. CASE ~Refused(d, reply) /\ ~IsEmptyFamilyResponse(reply)
  <2>1. partial = MapItem(d, f, item)
    BY <1>4 DEF MapFmcFamilyResponse
  <2>2. About(d, reply)
    BY <1>4 DEF Refused, IsEmptyFamilyResponse, Misaddressed, About
  <2>3. {item.start, item.end} \subseteq Nat \cup {Garbled}
    BY <1>2, <2>2 DEF About
  <2>4. partial.end = Parsed(item.end) /\ partial.start = Parsed(item.start)
    BY <2>1 DEF MapItem
  <2>5. \A time \in Nat \cup {Garbled} :
          /\ Parsed(time) \in Nat
          /\ Parsed(time) # 0 => Parsed(time) = time
          /\ time \notin {0, Garbled} => Parsed(time) = time
          /\ Parsed(time) = IF time = Garbled THEN 0 ELSE time
    BY <1>1 DEF Parsed, Known
  <2> QED
    BY <2>2, <2>3, <2>4, <2>5
<1> QED
  BY <1>3, <1>4

\* Of finitely many windows one is the newest, and the first of those.
LEMMA FirstNewestExists ==
  ASSUME NEW n \in Nat, NEW T \in SUBSET (1..n), T # {},
         NEW list, \A i \in T : list[i].end \in Nat
  PROVE  \E i \in T : \A j \in T :
           \/ list[j].end < list[i].end
           \/ list[j].end = list[i].end /\ i <= j
<1> DEFINE Leads(i, j) == \/ list[j].end < list[i].end
                          \/ list[j].end = list[i].end /\ i <= j
           Led(k) == \E i \in T : i <= k /\ \A j \in T : j <= k => Leads(i, j)
           Bad == {k \in Nat : (\E t \in T : t <= k) /\ ~Led(k)}
           Below == OpToRel(<, Nat)
<1>0. \A t \in T : t \in Int /\ 1 <= t /\ t <= n
  <2>1. \A t \in T : t \in 1..n
    BY Zenon
  <2>2. \A t \in 1..n : t \in Int /\ 1 <= t /\ t <= n
    BY SMT
  <2> QED
    BY <2>1, <2>2, Zenon
<1>1. SUFFICES ASSUME ~\E i \in T : \A j \in T : Leads(i, j) PROVE FALSE
  OBVIOUS
<1>2. n \in Bad
  <2>1. ~Led(n)
    BY <1>1, <1>0
  <2> HIDE DEF Led
  <2> QED
    BY <1>0, <2>1
<1>3. IsWellFoundedOn(Below, Nat)
  BY NatLessThanWellFounded, Zenon
<1>4. Bad \subseteq Nat
  OBVIOUS
<1>5. PICK k \in Bad : \A b \in Bad : ~(<<b, k>> \in Below)
  <2> HIDE DEF Bad, Below
  <2> QED
    BY <1>2, <1>3, <1>4, WFMin, Zenon
<1>6. k \in Nat /\ (\E t \in T : t <= k) /\ ~Led(k)
  <2> HIDE DEF Led
  <2> QED
    OBVIOUS
<1>7. k - 1 \in Nat /\ k - 1 \notin Bad
  <2> HIDE DEF Led, Bad
  <2>1. k - 1 \in Nat
    BY <1>0, <1>6
  <2>2. <<k - 1, k>> \in Below
    BY <1>6, <2>1 DEF OpToRel
  <2> HIDE DEF Below
  <2> QED
    BY <1>5, <2>1, <2>2
<1> HIDE DEF Below
<1>8. \A t \in T : t \in Int /\ (t <= k <=> t <= k - 1 \/ t = k)
  <2>1. k \in Nat
    BY <1>6
  <2>2. \A t \in Int : t <= k <=> t <= k - 1 \/ t = k
    BY <2>1
  <2> QED
    BY <1>0, <2>2
<1>9. CASE ~\E t \in T : t <= k - 1
  <2>1. k \in T /\ \A j \in T : j <= k => j = k
    BY <1>6, <1>8, <1>9
  <2>2. Leads(k, k)
    BY <1>6
  <2>3. Led(k)
    BY <1>6, <2>1, <2>2
  <2> QED
    BY <1>6, <2>3
<1>10. CASE Led(k - 1)
  <2>1. PICK i \in T : i <= k - 1 /\ \A j \in T : j <= k - 1 => Leads(i, j)
    BY <1>10
  <2>2. i <= k
    BY <1>8, <2>1
  <2>3. CASE k \notin T \/ Leads(i, k)
    BY <1>6, <1>8, <2>1, <2>2, <2>3
  <2>4. CASE k \in T /\ ~Leads(i, k)
    <3>1. list[i].end < list[k].end
      <4>1. list[i].end \in Nat /\ list[k].end \in Nat
        BY <2>4
      <4> QED
        BY <2>2, <2>4, <4>1
    <3>2. \A j \in T : j <= k => Leads(k, j)
      <4> SUFFICES ASSUME NEW j \in T, j <= k PROVE Leads(k, j)
        OBVIOUS
      <4>1. CASE j = k
        BY <1>6, <4>1
      <4>2. CASE j <= k - 1
        <5>1. list[j].end <= list[i].end
          <6>1. Leads(i, j) /\ list[i].end \in Nat /\ list[j].end \in Nat
            BY <2>1, <4>2
          <6> QED
            BY <6>1
        <5>2. list[j].end \in Nat /\ list[i].end \in Nat /\ list[k].end \in Nat
          BY <2>4
        <5> QED
          BY <3>1, <5>1, <5>2
      <4> QED
        BY <1>8, <4>1, <4>2
    <3> QED
      BY <1>6, <2>4, <3>2
  <2> QED
    BY <2>3, <2>4
<1> QED
  BY <1>6, <1>7, <1>9, <1>10

LEMMA NewestLeads ==
  ASSUME NEW S, NEW list \in Seq(S), \A p \in S : p.end \in Nat, Windows(list) # {}
  PROVE  /\ Newest(list) \in Windows(list)
         /\ \A j \in Windows(list) : list[j].end <= list[Newest(list)].end
<1>1. /\ Windows(list) \in SUBSET (1..Len(list)) /\ Len(list) \in Nat
      /\ \A i \in Windows(list) : list[i].end \in Nat
  BY DEF Windows
<1>2. \E i \in Windows(list) : \A j \in Windows(list) :
        \/ list[j].end < list[i].end
        \/ list[j].end = list[i].end /\ i <= j
  BY <1>1, FirstNewestExists
<1>3. /\ Newest(list) \in Windows(list)
      /\ \A j \in Windows(list) : \/ list[j].end < list[Newest(list)].end
                                  \/ list[j].end = list[Newest(list)].end
  BY <1>2 DEF Newest
<1> QED
  BY <1>1, <1>3

LEMMA NewestShown ==
  ASSUME FetchInv, NEW d \in Devices, NEW s, s = MergeFmcFamilies(d, results[d]),
         \A task \in asked : OfFamily(task)
  PROVE  /\ \A end \in Ended(d) : end <= s.end
         /\ s.end = 0 <=> Ended(d) = {}
         /\ s.end # 0 =>
              \E task \in Answers(d) : LET item == heard[task].items[1]
                                       IN  item.end = s.end /\ s.start = IF item.start = Garbled THEN 0 ELSE item.start
<1> DEFINE list == results[d]
<1>1. /\ \A p \in Partials(d) : p.end \in Nat
      /\ list \in Seq(Partials(d))
  BY WindowSays DEF Partials, FetchInv, ResultsTyped
<1>2. \A i \in DOMAIN list : list[i].end \in Nat
  BY <1>1
<1>3. \A i \in DOMAIN list : i \in Windows(list) <=> list[i].end # 0
  <2>1. \A time \in Nat : Known(time) <=> time # 0
    BY DEF Known
  <2> QED
    BY <1>2, <2>1 DEF Windows
<1>4. ASSUME NEW end \in Ended(d)
      PROVE  end # 0 /\ \E i \in Windows(list) : list[i].end = end
  <2>1. PICK task \in Answers(d) : end = heard[task].items[1].end /\ end \notin {0, Garbled}
    BY <1>4 DEF Ended
  <2>2. /\ task \in DOMAIN heard /\ task.of = "family" /\ task.device = d
        /\ About(d, heard[task]) /\ heard[task] \in Replies
    BY <2>1 DEF Answers, TasksOf, FetchInv, HeardTyped
  <2>3. PICK i \in DOMAIN list : list[i] = MapFmcFamilyResponse(d, task.family, heard[task])
    BY <2>2 DEF FetchInv, HeardResulted
  <2>4. list[i].end = end
    BY <2>1, <2>2, <2>3, WindowSays
  <2> QED
    BY <1>3, <2>1, <2>4
<1>5. ASSUME NEW i \in Windows(list)
      PROVE  /\ list[i].end # 0 /\ list[i].end \in Ended(d)
             /\ \E task \in Answers(d) :
                  LET item == heard[task].items[1]
                  IN  /\ item.end = list[i].end
                      /\ list[i].start = IF item.start = Garbled THEN 0 ELSE item.start
  <2>1. i \in DOMAIN list /\ list[i].end # 0 /\ list[i].end \in Nat
    BY <1>2, <1>3 DEF Windows
  <2>2. PICK task \in DOMAIN heard :
          /\ task.of = "family" /\ task.device = d
          /\ list[i] = MapFmcFamilyResponse(d, task.family, heard[task])
    BY <2>1 DEF FetchInv, ResultsHeard
  <2>3. heard[task] \in Replies
    BY <2>2 DEF FetchInv, HeardTyped
  <2>4. /\ About(d, heard[task]) /\ list[i].end = heard[task].items[1].end
        /\ list[i].start = IF heard[task].items[1].start = Garbled
                           THEN 0 ELSE heard[task].items[1].start
    <3> HIDE DEF list
    <3> QED
      BY <2>1, <2>2, <2>3, WindowSays
  <2>5. task \in Answers(d)
    BY <2>2, <2>4 DEF Answers, TasksOf
  <2>6. list[i].end \notin {0, Garbled}
    BY <2>1 DEF Garbled
  <2> HIDE DEF list
  <2> QED
    BY <2>1, <2>4, <2>5, <2>6 DEF Ended
<1> HIDE DEF list
<1>6. CASE Windows(list) = {}
  <2>1. s.end = 0
    BY <1>6 DEF MergeFmcFamilies, list
  <2> QED
    BY <1>4, <1>6, <2>1
<1>7. CASE Windows(list) # {}
  <2>1. s.end = list[Newest(list)].end /\ s.start = list[Newest(list)].start
    BY <1>7 DEF MergeFmcFamilies, list
  <2>2. /\ Newest(list) \in Windows(list)
        /\ \A j \in Windows(list) : list[j].end <= list[Newest(list)].end
    BY <1>1, <1>7, NewestLeads
  <2>3. /\ list[Newest(list)].end # 0
        /\ list[Newest(list)].end \in Ended(d)
        /\ \E task \in Answers(d) :
             LET item == heard[task].items[1]
             IN  /\ item.end = list[Newest(list)].end
                 /\ list[Newest(list)].start = IF item.start = Garbled THEN 0 ELSE item.start
    BY <1>5, <2>2
  <2>4. \A end \in Ended(d) : end <= s.end
    BY <1>4, <2>1, <2>2
  <2> QED
    BY <2>1, <2>3, <2>4
<1> QED
  BY <1>6, <1>7

\* A snapshot is as fresh as its newest window, whatever arrived in whatever
\* order, and its start is of an answer that ends then (fmc/map.ts:279).
THEOREM WindowOfNewest == Spec => []WindowIsNewest
<1>1. FetchInv => WindowIsNewest
  <2> SUFFICES ASSUME FetchInv, NEW d \in Polled, NEW s \in Snapshots(d)
               PROVE  /\ \A end \in Ended(d) : end <= s.end
                      /\ s.end = 0 <=> Ended(d) = {}
                      /\ s.end # 0 =>
                           \E task \in Answers(d) :
                             LET item == heard[task].items[1]
                             IN  item.end = s.end /\ s.start = IF item.start = Garbled THEN 0 ELSE item.start
    BY DEF WindowIsNewest
  <2>1. d \in Devices /\ TasksOf(d) # {}
    BY DEF Polled
  <2>2. s \in shown /\ s.device = d
    BY DEF Snapshots
  <2>3. /\ \A task \in asked : OfFamily(task)
        /\ s \in Merged
    BY <2>1, <2>2, PolledOutcome DEF Became
  <2>4. s = MergeFmcFamilies(d, results[d])
    BY <2>2, <2>3 DEF Merged, MergeFmcFamilies
  <2> QED
    BY <2>1, <2>3, <2>4, NewestShown
<1> QED
  BY <1>1, FetchInvInit, FetchInvStep, PTL DEF Spec
-----------------------------------------------------------------------------
(***************************************************************************)
(* A healthy fleet is quiet: what each mapper makes of a flawless answer.  *)
(***************************************************************************)
LEMMA WholeIsFlawless ==
  ASSUME NEW g, NEW part, Whole(g, part)
  PROVE  ~Flawed(g, part)
BY DEF Whole, Genuine, Flawed, Dropped, Unreadable

LEMMA FlawlessIsQuiet ==
  ASSUME NEW d, NEW g, NEW raw, Flawless(<<g, raw>>)
  PROVE  GroupErrors(d, g, raw) = {}
<1>1. raw.shape # "wrong" /\ \A i \in DOMAIN raw.parts : Whole(g, raw.parts[i])
  BY DEF Flawless
<1> QED
  BY <1>1, WholeIsFlawless DEF GroupErrors

LEMMA TimelyIsQuiet ==
  ASSUME NEW d, NEW about, NEW item, Timely(item)
  PROVE  WindowErrors(d, about, item) = {}
BY DEF Timely, WindowErrors

\* The errors of an answer for a device are that device's, and a healthy one has none.
LEMMA ReplyErrors ==
  ASSUME NEW d, NEW f, NEW reply
  PROVE  /\ \A error \in MapFmcFamilyResponse(d, f, reply).errors : error[1] = d
         /\ \/ Absence(reply)
            \/ /\ About(d, reply) /\ Timely(reply.items[1])
               /\ Flawless(<<FamilyGroup[f], reply.items[1].groups[FamilyGroup[f]]>>)
            => MapFmcFamilyResponse(d, f, reply).errors = {}
<1> DEFINE partial == MapFmcFamilyResponse(d, f, reply)
           g == FamilyGroup[f]
           item == reply.items[1]
<1>1. CASE Refused(d, reply)
  <2>1. partial.errors = {<<d, f>>}
    BY <1>1 DEF MapFmcFamilyResponse, Nothing
  <2>2. ~Absence(reply) /\ ~About(d, reply)
    BY <1>1 DEF Refused, IsEmptyFamilyResponse, Misaddressed, Absence, About
  <2> QED
    BY <2>1, <2>2
<1>2. CASE ~Refused(d, reply) /\ IsEmptyFamilyResponse(reply)
  BY <1>2 DEF MapFmcFamilyResponse, Nothing
<1>3. CASE ~Refused(d, reply) /\ ~IsEmptyFamilyResponse(reply)
  <2>1. partial.errors = WindowErrors(d, f, item) \cup GroupErrors(d, g, item.groups[g])
    BY <1>3 DEF MapFmcFamilyResponse, MapItem
  <2>2. ~Absence(reply)
    BY <1>3 DEF Absence, IsEmptyFamilyResponse
  <2>3. \A error \in WindowErrors(d, f, item) : error = <<d, f>>
    BY DEF WindowErrors
  <2>4. \A error \in GroupErrors(d, g, item.groups[g]) : error = <<d, g>>
    BY DEF GroupErrors
  <2> HIDE DEF partial, g, item
  <2>5. \A error \in partial.errors : error[1] = d
    BY <2>1, <2>3, <2>4
  <2>6. Timely(item) /\ Flawless(<<g, item.groups[g]>>) => partial.errors = {}
    BY <2>1, FlawlessIsQuiet, TimelyIsQuiet
  <2> QED
    BY <2>2, <2>5, <2>6 DEF partial, g, item
<1> QED
  BY <1>1, <1>2, <1>3

\* Each error of a fleet's fetch is one of an answer for its device.
LEMMA MergedErrorsHeard ==
  ASSUME FetchInv, NEW error \in MergedErrors
  PROVE  \E d \in Polled : \E task \in TasksOf(d) :
           error \in MapFmcFamilyResponse(d, task.family, heard[task]).errors
<1>1. PICK d \in Devices : \E i \in DOMAIN results[d] : error \in results[d][i].errors
  BY DEF MergedErrors
<1>2. PICK i \in DOMAIN results[d] : error \in results[d][i].errors
  BY <1>1
<1>3. PICK task \in DOMAIN heard :
        /\ task.of = "family" /\ task.device = d
        /\ results[d][i] = MapFmcFamilyResponse(d, task.family, heard[task])
  BY <1>2 DEF FetchInv, ResultsHeard
<1> QED
  BY <1>2, <1>3 DEF Polled, TasksOf

LEMMA HealthyTaskIsQuiet ==
  ASSUME NEW d, NEW task, HealthyTask(d, task)
  PROVE  MapFmcFamilyResponse(d, task.family, heard[task]).errors = {}
BY ReplyErrors DEF HealthyTask, Said

LEMMA HealthyEntryIsQuiet ==
  ASSUME NEW entry, HealthyEntry(entry)
  PROVE  SccDeviceErrors(entry) = {}
<1>1. Rooted(entry)
  BY DEF HealthyEntry, Identified, Rooted
<1>2. WindowErrors(entry.id, "window", entry) = {}
  BY TimelyIsQuiet DEF HealthyEntry
<1>3. \A g \in Groups : GroupErrors(entry.id, g, entry.groups[g]) = {}
  BY FlawlessIsQuiet DEF HealthyEntry
<1> QED
  BY <1>1, <1>2, <1>3 DEF SccDeviceErrors

LEMMA ManagedIsMapped ==
  ASSUME NEW item
  PROVE  Managed(item) <=> IsFtd(item) /\ ~Dropped("inventory", item)
<1>1. \A key \in Required["inventory"] :
        Genuine("inventory", item, key) <=>
          item.object /\ key \in DOMAIN item.has /\ ~Unreadable("inventory", item, key)
  BY DEF Genuine, Unreadable
<1>2. "inventory" \in KeyByKey
  BY DEF KeyByKey
<1> QED
  BY <1>1, <1>2 DEF Managed, IsFtd, Dropped

LEMMA HealthyItemIsQuiet ==
  ASSUME NEW item, Listed(item.ha), HealthyItem(item)
  PROVE  InventoryItemErrors(item) = {}
<1>1. CASE Another(item)
  BY <1>1 DEF Another, InventoryItemErrors, IsFtd
<1>2. CASE ~Another(item)
  <2>1. /\ Managed(item)
        /\ \A stated \in InventoryOf(item) : Flawless(stated)
        /\ \A i, j \in DOMAIN item.ha.parts :
             item.ha.parts[i].has["name"] = item.ha.parts[j].has["name"] => i = j
    BY <1>2 DEF HealthyItem
  <2> DEFINE nodes == item.ha.parts
  <2>2. IsFtd(item) /\ ~Dropped("inventory", item)
    BY <2>1, ManagedIsMapped
  <2>3. ~Flawed("inventory", item)
    <3>1. Flawless(<<"inventory", Single(item)>>)
      BY <2>1 DEF InventoryOf
    <3>2. Whole("inventory", item)
      BY <3>1 DEF Flawless, Single
    <3> QED
      BY <3>2, WholeIsFlawless
  <2>4. item.ha.shape # "wrong" /\ \A i \in DOMAIN nodes : ~Flawed("haNode", nodes[i])
    <3>1. Flawless(<<"haNode", item.ha>>)
      BY <2>1 DEF InventoryOf
    <3> QED
      BY <3>1, WholeIsFlawless DEF Flawless
  <2>5. \A i \in DOMAIN nodes : i \in KeptNodes(nodes)
    <3> SUFFICES ASSUME NEW i \in DOMAIN nodes
                 PROVE  \A j \in 1..(i - 1) : ~SameName(nodes, i, j)
      BY <2>4 DEF KeptNodes, Flawed
    <3> SUFFICES ASSUME NEW j \in 1..(i - 1)
                 PROVE  ~SameName(nodes, i, j)
      OBVIOUS
    <3>1. j \in DOMAIN nodes /\ i # j
      <4>1. nodes \in Seq({nodes[k] : k \in DOMAIN nodes})
        BY DEF Listed
      <4> HIDE DEF nodes
      <4>2. DOMAIN nodes = 1..Len(nodes) /\ Len(nodes) \in Nat
        BY <4>1
      <4> QED
        BY <4>2
    <3> QED
      BY <2>1, <3>1 DEF SameName
  <2>6. ~FlawedItem(item)
    BY <2>3, <2>4, <2>5 DEF FlawedItem
  <2> QED
    BY <2>2, <2>6 DEF InventoryItemErrors
<1> QED
  BY <1>1, <1>2

LEMMA HealthyLicenseIsQuiet ==
  ASSUME NEW payload, Listed(payload), payload.shape # "wrong", ~(Len(payload.parts) > 1),
         \A i \in DOMAIN payload.parts : Whole("license", payload.parts[i])
  PROVE  LicenseErrors(payload) = {}
<1> DEFINE parts == payload.parts
<1>1. parts # <<>> => 1 \in DOMAIN parts
  <2>1. parts \in Seq({parts[k] : k \in DOMAIN parts})
    BY DEF Listed
  <2> HIDE DEF parts
  <2> QED
    BY <2>1
<1> QED
  BY <1>1, WholeIsFlawless DEF LicenseErrors

\* The values of a record's certificates are none of them the sign for absence.
Valued(parts) ==
  \A j \in DOMAIN parts : \A key \in DOMAIN parts[j].has : parts[j].has[key] # Missing

LEMMA VacantIsInapplicable ==
  ASSUME NEW part, part.object, NEW c \in Components, Vacant(part, c)
  PROVE  Inapplicable(part, c)
<1>1. CASE {c[1], c[2]} \cap DOMAIN part.has = {}
  <2>1. Field(part, c[1]) = Missing /\ Field(part, c[2]) = Missing
    BY <1>1 DEF Field
  <2> QED
    BY <2>1 DEF Inapplicable
<1>2. CASE {c[1], c[2]} \cap DOMAIN part.has # {}
  <2>1. /\ c[1] \in DOMAIN part.has
        /\ part.has[c[1]] = "NOT_APPLICABLE"
        /\ c[2] \in DOMAIN part.has => part.has[c[2]] = "-"
    BY <1>2 DEF Vacant, Genuine
  <2>2. Field(part, c[1]) = NotApplicable /\ Field(part, c[2]) \in {Missing, Sentinel}
    BY <2>1 DEF Field, NotApplicable, Sentinel
  <2> QED
    BY <2>2 DEF Inapplicable
<1> QED
  BY <1>1, <1>2

LEMMA DatedIsEnrolled ==
  ASSUME NEW part, \A key \in DOMAIN part.has : part.has[key] # Missing,
         NEW c \in Components, Dated(part, c)
  PROVE  Applies(part, c)
<1>1. \A i \in 1..2 : /\ part.object
                      /\ c[i] \in DOMAIN part.has
                      /\ part.has[c[i]] # Wrong
  BY DEF Dated, Genuine
<1>2. /\ Field(part, c[1]) = part.has[c[1]]
      /\ Field(part, c[2]) = part.has[c[2]]
  BY <1>1 DEF Field
<1> QED
  BY <1>1, <1>2 DEF Dated, Applies, NotApplicable, Sentinel

LEMMA HealthyRecordIsQuiet ==
  ASSUME NEW record, NEW joined, Listed(record.certificates),
         Valued(record.certificates.parts),
         joined = heard[Request("certificates")].joined, HealthyRecord(record)
  PROVE  RecordErrors(record, joined) = {}
<1> DEFINE raw == record.certificates
           parts == raw.parts
<1>1. Joined(record, joined)
  BY DEF HealthyRecord, RecordOf, Joined
<1>2. /\ raw.shape # "wrong"
      /\ \A i \in DOMAIN parts : \A c \in Components :
           /\ parts[i].object
           /\ Vacant(parts[i], c) \/ Dated(parts[i], c)
           /\ \A j \in DOMAIN parts \ {i} :
                Dated(parts[i], c) /\ Dated(parts[j], c) => Label(parts[i]) # Label(parts[j])
  BY DEF HealthyRecord
<1>3. ASSUME NEW i \in DOMAIN parts, NEW c \in Components, ~Inapplicable(parts[i], c)
      PROVE  <<i, c>> \in Enrolled(parts)
  <2>1. Dated(parts[i], c)
    BY <1>2, <1>3, VacantIsInapplicable
  <2>2. Applies(parts[i], c)
    BY <2>1, DatedIsEnrolled DEF Valued
  <2>3. ~Taken(parts, i, c)
    <3> SUFFICES ASSUME NEW j \in 1..(i - 1), Applies(parts[j], c)
                 PROVE  CertName(parts[j]) # CertName(parts[i])
      BY DEF Taken
    <3>1. j \in DOMAIN parts \ {i}
      <4>1. parts \in Seq({parts[k] : k \in DOMAIN parts})
        BY DEF Listed
      <4> HIDE DEF parts
      <4>2. DOMAIN parts = 1..Len(parts) /\ Len(parts) \in Nat
        BY <4>1
      <4> QED
        BY <4>2
    <3>2. Dated(parts[j], c) /\ CertName(parts[j]) = Label(parts[j])
      BY EnrolledIsDated
    <3>3. CertName(parts[i]) = Label(parts[i])
      BY <2>2, EnrolledIsDated
    <3> QED
      BY <1>2, <2>1, <3>1, <3>2, <3>3
  <2> HIDE DEF parts
  <2> QED
    BY <2>2, <2>3 DEF Enrolled
<1>4. ~FlawedCertificates(raw)
  <2>1. Components # {}
    BY DEF Components
  <2> QED
    BY <1>2, <1>3, <2>1 DEF FlawedCertificates
<1> QED
  BY <1>1, <1>4 DEF RecordErrors

LEMMA PayloadIsAnswer ==
  ASSUME NEW of \in Tenants, NEW payloads, Answered(of, payloads)
  PROVE  /\ Request(of) \in DOMAIN heard
         /\ heard[Request(of)] \in payloads
         /\ \A i \in DOMAIN heard[Request(of)].parts : heard[Request(of)].parts[i] \in PartsOf(of)
BY DEF Answered, PartsOf

\* A fleet or a tenant that answers what it does not have by an absence, and the
\* rest without a flaw, is not reported (fmc/empty.ts:4, DESIGN.md 4.8).
THEOREM HealthyFleetIsQuiet == Spec => []HealthyIsQuiet
<1>1. ASSUME FetchInv, NEW d \in Polled, \A task \in TasksOf(d) : HealthyTask(d, task),
             NEW error \in reported
      PROVE  error[1] # d
  <2>1. TasksOf(d) # {}
    BY <1>1 DEF Polled
  <2>2. error \in MergedErrors
    BY <1>1, <2>1, PolledOutcome DEF Became
  <2>3. PICK e \in Polled : \E task \in TasksOf(e) :
          error \in MapFmcFamilyResponse(e, task.family, heard[task]).errors
    BY <1>1, <2>2, MergedErrorsHeard
  <2>4. PICK task \in TasksOf(e) :
          error \in MapFmcFamilyResponse(e, task.family, heard[task]).errors
    BY <2>3
  <2>5. error[1] = e
    BY <2>4, ReplyErrors
  <2>6. e # d
    BY <1>1, <2>4, HealthyTaskIsQuiet
  <2> QED
    BY <2>5, <2>6
<1>2. ASSUME FetchInv, reported # {},
             \A d \in Polled : \A task \in TasksOf(d) : HealthyTask(d, task),
             \A of \in Tenants : Request(of) \in DOMAIN heard => heard[Request(of)].shape # "wrong",
             \A entry \in PartsOf("health") : HealthyEntry(entry),
             \A item \in PartsOf("inventory") : HealthyItem(item),
             \A part \in PartsOf("license") : Whole("license", part),
             \A record \in PartsOf("certificates") : HealthyRecord(record),
             Request("license") \in DOMAIN heard => ~(Len(heard[Request("license")].parts) > 1)
      PROVE  FALSE
  <2> DEFINE payload(of) == heard[Request(of)]
  <2>1. CASE reported = MergedErrors
    <3>1. PICK error \in MergedErrors : TRUE
      BY <1>2, <2>1
    <3>2. PICK d \in Polled : \E task \in TasksOf(d) :
            error \in MapFmcFamilyResponse(d, task.family, heard[task]).errors
      BY <1>2, MergedErrorsHeard
    <3> QED
      BY <1>2, <3>2, HealthyTaskIsQuiet
  <2>2. CASE Answered("health", HealthLists) /\ reported = SccErrors(payload("health"))
    <3>1. /\ payload("health").shape # "wrong"
          /\ \A i \in DOMAIN payload("health").parts : HealthyEntry(payload("health").parts[i])
      BY <1>2, <2>2, PayloadIsAnswer DEF Tenants
    <3> HIDE DEF payload
    <3>2. SccErrors(payload("health")) = {}
      BY <3>1, HealthyEntryIsQuiet DEF SccErrors
    <3> QED
      BY <1>2, <2>2, <3>2
  <2>3. CASE Answered("inventory", Inventories) /\ reported = InventoryErrors(payload("inventory"))
    <3>1. /\ payload("inventory").shape # "wrong"
          /\ \A i \in DOMAIN payload("inventory").parts : HealthyItem(payload("inventory").parts[i])
          /\ payload("inventory") \in Inventories
      BY <1>2, <2>3, PayloadIsAnswer DEF Tenants
    <3> HIDE DEF payload
    <3>2. \A i \in DOMAIN payload("inventory").parts : Listed(payload("inventory").parts[i].ha)
      BY <3>1, AnswersAssumption DEF AnswersAssumption
    <3>3. InventoryErrors(payload("inventory")) = {}
      BY <3>1, <3>2, HealthyItemIsQuiet DEF InventoryErrors
    <3> QED
      BY <1>2, <2>3, <3>3
  <2>4. CASE Answered("license", Licenses) /\ reported = LicenseErrors(payload("license"))
    <3>1. /\ payload("license").shape # "wrong"
          /\ \A i \in DOMAIN payload("license").parts : Whole("license", payload("license").parts[i])
          /\ payload("license") \in Licenses
          /\ ~(Len(payload("license").parts) > 1)
      BY <1>2, <2>4, PayloadIsAnswer DEF Tenants
    <3> HIDE DEF payload
    <3>2. Listed(payload("license"))
      BY <3>1, AnswersAssumption DEF AnswersAssumption
    <3>3. LicenseErrors(payload("license")) = {}
      BY <3>1, <3>2, HealthyLicenseIsQuiet
    <3> QED
      BY <1>2, <2>4, <3>3
  <2>5. CASE /\ Answered("certificates", Certificates)
             /\ reported = CertificateErrors(payload("certificates"))
    <3>1. /\ payload("certificates").shape # "wrong"
          /\ \A i \in DOMAIN payload("certificates").parts :
               HealthyRecord(payload("certificates").parts[i])
          /\ payload("certificates") \in Certificates
      BY <1>2, <2>5, PayloadIsAnswer DEF Tenants
    <3>2. \A i \in DOMAIN payload("certificates").parts :
            LET raw == payload("certificates").parts[i].certificates
            IN  Listed(raw) /\ Valued(raw.parts)
      BY <3>1, AnswersAssumption DEF AnswersAssumption, Valued
    <3>3. \A i \in DOMAIN payload("certificates").parts :
            RecordErrors(payload("certificates").parts[i], payload("certificates").joined) = {}
      BY <3>1, <3>2, HealthyRecordIsQuiet
    <3> HIDE DEF payload
    <3>4. CertificateErrors(payload("certificates")) = {}
      BY <3>1, <3>3 DEF CertificateErrors
    <3> QED
      BY <1>2, <2>5, <3>4
  <2> QED
    BY <1>2, <2>1, <2>2, <2>3, <2>4, <2>5 DEF FetchInv, Outcome, Became
<1>3. FetchInv => HealthyIsQuiet
  BY <1>1, <1>2 DEF HealthyIsQuiet, Tenants
<1> QED
  BY <1>3, FetchInvInit, FetchInvStep, PTL DEF Spec
-----------------------------------------------------------------------------
(***************************************************************************)
(* Nothing is lost: each genuine value is shown, or its group reported.    *)
(***************************************************************************)
LEMMA FlawlessFacts ==
  ASSUME NEW g, NEW i, NEW part, ~Flawed(g, part)
  PROVE  /\ part.object
         /\ \A key \in DOMAIN part.has : <<i, key, part.has[key]>> \in PartFacts(g, i, part)
<1>1. ~Dropped(g, part) /\ \A key \in DOMAIN part.has : key \in Readable(g, part)
  BY DEF Flawed, Readable
<1> QED
  BY <1>1 DEF Dropped, PartFacts

\* What is given, and not reported, is in the snapshot if its facts are.
LEMMA FactsKept ==
  ASSUME NEW d, NEW g, NEW raw, GroupErrors(d, g, raw) = {}, Listed(raw),
         raw.shape = "right" =>
           \E s \in Snapshots(d) : g \in DOMAIN s.groups /\ GroupFacts(g, raw) \subseteq s.groups[g]
  PROVE  Kept(d, <<g, raw>>)
<1>1. raw.shape # "wrong" /\ \A i \in DOMAIN raw.parts : ~Flawed(g, raw.parts[i])
  BY DEF GroupErrors
<1>2. CASE raw.shape # "right"
  <2>1. DOMAIN raw.parts = {}
    BY <1>2 DEF Listed
  <2> QED
    BY <1>1, <2>1 DEF Kept
<1>3. CASE raw.shape = "right"
  <2>1. PICK s \in Snapshots(d) : g \in DOMAIN s.groups /\ GroupFacts(g, raw) \subseteq s.groups[g]
    BY <1>3
  <2>2. ASSUME NEW i \in DOMAIN raw.parts
        PROVE  /\ raw.parts[i].object
               /\ \A key \in DOMAIN raw.parts[i].has : <<i, key, raw.parts[i].has[key]>> \in s.groups[g]
    <3>1. PartFacts(g, i, raw.parts[i]) \subseteq s.groups[g]
      BY <2>1 DEF GroupFacts
    <3> QED
      BY <1>1, <3>1, FlawlessFacts
  <2> QED
    BY <1>1, <2>1, <2>2 DEF Kept
<1> QED
  BY <1>2, <1>3

LEMMA QuietIsGiven ==
  ASSUME NEW d, NEW g, NEW raw, GroupErrors(d, g, raw) = {}, raw.shape = "right"
  PROVE  Given(g, raw)
BY DEF GroupErrors, Given, Flawed

\* Each family has a group of its own.
LEMMA FamilyOfGroup ==
  /\ \A f \in DOMAIN FamilyGroup : FamilyGroup[f] \in Groups
  /\ \A f, h \in DOMAIN FamilyGroup : FamilyGroup[f] = FamilyGroup[h] => f = h
<1>1. DOMAIN FamilyGroup = {"CPU", "MEM", "DISK_STATS", "CHASSIS_STATS", "INTERFACE"}
  BY DEF FamilyGroup
<1>2. /\ FamilyGroup["CPU"] = "cpu" /\ FamilyGroup["MEM"] = "memory"
      /\ FamilyGroup["DISK_STATS"] = "disk" /\ FamilyGroup["CHASSIS_STATS"] = "chassis"
      /\ FamilyGroup["INTERFACE"] = "interface"
  BY DEF FamilyGroup
<1> QED
  BY <1>1, <1>2 DEF Groups, OneObject

LEMMA TaskIsAccounted ==
  ASSUME FetchInv, ended, NEW d \in Polled, NEW task \in TasksOf(d)
  PROVE  TaskAccounted(d, task)
<1> DEFINE reply == heard[task]
           f == task.family
           g == FamilyGroup[f]
           raw == reply.items[1].groups[g]
           list == results[d]
           partial == MapFmcFamilyResponse(d, f, reply)
<1>1. /\ d \in Devices /\ task \in DOMAIN heard /\ task.of = "family" /\ task.device = d
      /\ TasksOf(d) # {}
  BY DEF Polled, TasksOf
<1>2. /\ \A other \in asked : OfFamily(other)
      /\ shown = Merged /\ reported = MergedErrors
  BY <1>1, PolledOutcome DEF Became
<1>3. reply \in Replies /\ f \in DOMAIN FamilyGroup /\ \A other \in DOMAIN heard : OfFamily(other)
  <2>1. /\ reply \in Replies /\ f \in MetricFamilies
        /\ \A other \in DOMAIN heard : OfFamily(other)
    BY <1>1, <1>2 DEF FetchInv, HeardTyped, OfFamily
  <2> QED
    BY <2>1, AnswersAssumption DEF AnswersAssumption
<1>4. PICK n \in DOMAIN list : list[n] = partial
  BY <1>1 DEF FetchInv, HeardResulted
<1>5. partial.errors \subseteq reported
  BY <1>1, <1>2, <1>4 DEF MergedErrors
<1>6. CASE Refused(d, reply)
  <2>1. <<d, f>> \in partial.errors
    BY <1>6 DEF MapFmcFamilyResponse, Nothing
  <2> QED
    BY <1>5, <2>1 DEF TaskAccounted, Reported
<1>7. CASE ~Refused(d, reply) /\ IsEmptyFamilyResponse(reply)
  <2>1. Absence(reply)
    BY <1>7 DEF Refused, IsEmptyFamilyResponse, Absence
  <2> QED
    BY <2>1 DEF TaskAccounted
<1>8. CASE ~Refused(d, reply) /\ ~IsEmptyFamilyResponse(reply)
  <2>1. About(d, reply)
    BY <1>8 DEF Refused, IsEmptyFamilyResponse, Misaddressed, About
  <2>2. /\ GroupErrors(d, g, raw) \subseteq partial.errors
        /\ partial.group = g /\ partial.facts = GroupFacts(g, raw)
        /\ partial.given = Given(g, raw)
    BY <1>8 DEF MapFmcFamilyResponse, MapItem
  <2>3. Said(task) = <<g, raw>>
    BY DEF Said
  <2>4. g \in Groups /\ Listed(raw)
    <3>1. g \in Groups
      BY <1>3, FamilyOfGroup
    <3>2. 1 \in DOMAIN reply.items
      BY <1>3, <2>1, AnswersAssumption DEF AnswersAssumption, About
    <3> QED
      BY <1>3, <3>1, <3>2, AnswersAssumption DEF AnswersAssumption
  <2> HIDE DEF partial, raw, g, list, reply, f
  <2>5. CASE GroupErrors(d, g, raw) # {}
    <3>1. <<d, g>> \in reported
      BY <1>5, <2>2, <2>5 DEF GroupErrors
    <3> QED
      BY <2>1, <3>1 DEF TaskAccounted, Reported, g, f, reply
  <2>6. CASE GroupErrors(d, g, raw) = {} /\ raw.shape # "right"
    <3>1. Kept(d, <<g, raw>>)
      BY <2>4, <2>6, FactsKept
    <3> QED
      BY <2>1, <2>3, <3>1 DEF TaskAccounted, reply
  <2>7. CASE GroupErrors(d, g, raw) = {} /\ raw.shape = "right"
    <3> DEFINE last == LastOf(list, g)
               s == MergeFmcFamilies(d, list)
    <3>1. n \in Contributors(list, g) /\ g \in Contributed(list)
      <4>1. partial.given
        BY <2>2, <2>7, QuietIsGiven
      <4> QED
        BY <1>4, <2>2, <2>4, <4>1 DEF Contributors, Contributed
    <3>2. s \in Snapshots(d)
      <4>1. s \in Merged
        BY <1>1, <3>1 DEF Merged, list
      <4>2. s.device = d
        BY DEF MergeFmcFamilies
      <4> QED
        BY <1>2, <4>1, <4>2 DEF Snapshots
    <3>3. g \in DOMAIN s.groups /\ s.groups[g] = list[last].facts
      BY <3>1 DEF MergeFmcFamilies
    <3>4. last \in Contributors(list, g)
      BY <1>1, <3>1, LastOfContributes DEF FetchInv, ResultsTyped, list
    <3> HIDE DEF last, s
    <3>5. last \in DOMAIN list /\ list[last].given /\ list[last].group = g
      BY <3>4 DEF Contributors
    <3>6. PICK other \in DOMAIN heard :
            /\ other.of = "family" /\ other.device = d
            /\ list[last] = MapFmcFamilyResponse(d, other.family, heard[other])
      BY <1>1, <3>5 DEF FetchInv, ResultsHeard, list
    <3>7. other.family = f
      <4>1. FamilyGroup[other.family] = g
        BY <3>5, <3>6, FamilySays
      <4>2. other.family \in DOMAIN FamilyGroup
        BY <1>3, <3>6, AnswersAssumption DEF OfFamily, AnswersAssumption
      <4> QED
        BY <1>3, <4>1, <4>2, FamilyOfGroup DEF g
    <3>8. CASE other = task
      <4>1. GroupFacts(g, raw) \subseteq s.groups[g]
        BY <2>2, <3>3, <3>6, <3>7, <3>8 DEF partial, reply
      <4>2. Kept(d, <<g, raw>>)
        BY <2>4, <2>7, <3>2, <3>3, <4>1, FactsKept
      <4> QED
        BY <2>1, <2>3, <4>2 DEF TaskAccounted, reply
    <3>9. CASE other # task
      <4>1. Superseded(task)
        BY <1>1, <3>6, <3>7, <3>9 DEF Superseded, f
      <4> QED
        BY <2>1, <3>2, <4>1 DEF TaskAccounted, reply
    <3> QED
      BY <3>8, <3>9
  <2> QED
    BY <2>5, <2>6, <2>7
<1> QED
  BY <1>6, <1>7, <1>8

\* What became of an answer for the tenant.
LEMMA TenantOutcome ==
  ASSUME FetchInv, ended, NEW of \in Tenants, Request(of) \in DOMAIN heard
  PROVE  LET payload == heard[Request(of)]
         IN  /\ of = "health" => /\ payload \in HealthLists
                                 /\ Became(MapSccResponse(payload), SccErrors(payload))
             /\ of = "inventory" => /\ payload \in Inventories
                                    /\ Became(MapSccInventoryResponse(payload), InventoryErrors(payload))
             /\ of = "license" => /\ payload \in Licenses
                                  /\ Became(MapLicenseResponse(payload), LicenseErrors(payload))
             /\ of = "certificates" => /\ payload \in Certificates
                                       /\ Became(MapCertificates(payload), CertificateErrors(payload))
<1>1. Request(of) \in asked /\ Request(of).of = of
  BY DEF FetchInv, HeardTyped, Request
<1>2. ~OfFamily(Request(of))
  BY <1>1 DEF OfFamily, Tenants
<1>3. \A other \in Tenants : asked = {Request(other)} => other = of
  BY <1>1 DEF Request
<1> QED
  BY <1>1, <1>2, <1>3 DEF FetchInv, Outcome, Answered, Tenants

LEMMA EntryIsAccounted ==
  ASSUME FetchInv, ended, NEW entry \in PartsOf("health")
  PROVE  EntryAccounted(entry)
<1> DEFINE payload == heard[Request("health")]
<1>1. Request("health") \in DOMAIN heard /\ \E i \in DOMAIN payload.parts : entry = payload.parts[i]
  BY DEF PartsOf
<1>2. PICK i \in DOMAIN payload.parts : entry = payload.parts[i]
  BY <1>1
<1>3. /\ payload \in HealthLists
      /\ shown = MapSccResponse(payload) /\ reported = SccErrors(payload)
  BY <1>1, TenantOutcome DEF Tenants, Became
<1>4. Listed(payload) /\ \A g \in Groups : Listed(entry.groups[g])
  BY <1>2, <1>3, AnswersAssumption DEF AnswersAssumption
<1> HIDE DEF payload
<1>5. SccDeviceErrors(entry) \subseteq reported
  <2>1. payload.shape # "wrong"
    BY <1>2, <1>4 DEF Listed
  <2> QED
    BY <1>2, <1>3, <2>1 DEF SccErrors
<1>6. Identified(entry) <=> Rooted(entry)
  BY DEF Identified, Rooted
<1>7. CASE ~Rooted(entry)
  BY <1>5, <1>6, <1>7 DEF SccDeviceErrors, EntryAccounted, Reported
<1>8. CASE Rooted(entry)
  <2> SUFFICES ASSUME NEW g \in Groups, ~Reported(entry.id, g)
               PROVE  Kept(entry.id, <<g, entry.groups[g]>>)
    BY <1>6, <1>8 DEF EntryAccounted
  <2> DEFINE raw == entry.groups[g]
             s == MapSccDevice(entry)
  <2>1. GroupErrors(entry.id, g, raw) = {}
    <3>1. GroupErrors(entry.id, g, raw) \subseteq reported
      BY <1>5, <1>8 DEF SccDeviceErrors
    <3> QED
      BY <3>1 DEF Reported, GroupErrors
  <2>2. s \in Snapshots(entry.id)
    <3>1. s \in shown
      BY <1>2, <1>3, <1>8 DEF MapSccResponse
    <3> QED
      BY <3>1 DEF Snapshots, MapSccDevice
  <2>3. ASSUME raw.shape = "right"
        PROVE  g \in DOMAIN s.groups /\ s.groups[g] = GroupFacts(g, raw)
    <3>1. Given(g, raw)
      BY <2>1, <2>3, QuietIsGiven
    <3> QED
      BY <3>1 DEF MapSccDevice
  <2> HIDE DEF s, raw
  <2>4. Listed(raw)
    BY <1>4 DEF raw
  <2>5. Kept(entry.id, <<g, raw>>)
    BY <2>1, <2>2, <2>3, <2>4, FactsKept
  <2> QED
    BY <2>5 DEF raw
<1> QED
  BY <1>7, <1>8
LEMMA ItemIsAccounted ==
  ASSUME FetchInv, ended, NEW item \in PartsOf("inventory")
  PROVE  ItemAccounted(item)
<1> DEFINE payload == heard[Request("inventory")]
<1>1. Request("inventory") \in DOMAIN heard /\ \E i \in DOMAIN payload.parts : item = payload.parts[i]
  BY DEF PartsOf
<1>2. PICK i \in DOMAIN payload.parts : item = payload.parts[i]
  BY <1>1
<1>3. /\ payload \in Inventories
      /\ shown = MapSccInventoryResponse(payload) /\ reported = InventoryErrors(payload)
  BY <1>1, TenantOutcome DEF Tenants, Became
<1>4. Listed(payload)
  BY <1>3, AnswersAssumption DEF AnswersAssumption
<1> HIDE DEF payload
<1>5. InventoryItemErrors(item) \subseteq reported
  <2>1. payload.shape # "wrong"
    BY <1>2, <1>4 DEF Listed
  <2> QED
    BY <1>2, <1>3, <2>1 DEF InventoryErrors
<1>6. CASE ~Managed(item)
  <2>1. Another(item) \/ <<Missing, "inventory">> \in InventoryItemErrors(item)
    BY <1>6, ManagedIsMapped DEF Another, InventoryItemErrors, IsFtd
  <2> QED
    BY <1>5, <1>6, <2>1 DEF ItemAccounted, Reported
<1>7. CASE Managed(item)
  <2> DEFINE uid == item.has["uid"]
             nodes == item.ha.parts
             s == MapInventoryItem(item)
  <2>1. IsFtd(item) /\ ~Dropped("inventory", item)
    BY <1>7, ManagedIsMapped
  <2>2. CASE FlawedItem(item)
    BY <1>5, <1>7, <2>1, <2>2 DEF InventoryItemErrors, IsFtd, ItemAccounted, Reported
  <2>3. CASE ~FlawedItem(item)
    <3>1. s \in Snapshots(uid)
      <4>1. s \in shown
        BY <1>2, <1>3, <2>1 DEF MapSccInventoryResponse
      <4> QED
        BY <4>1 DEF Snapshots, MapInventoryItem
    <3>2. /\ {"inventory", "haNode"} \subseteq DOMAIN s.groups
          /\ s.groups["inventory"] = PartFacts("inventory", 1, item)
          /\ s.groups["haNode"] = NodeFacts(nodes)
      BY DEF MapInventoryItem
    <3>3. /\ ~Flawed("inventory", item)
          /\ item.ha.shape # "wrong"
          /\ \A n \in DOMAIN nodes : n \in KeptNodes(nodes) /\ ~Flawed("haNode", nodes[n])
      BY <2>3 DEF FlawedItem
    <3> HIDE DEF uid, s
    <3>4. Kept(uid, <<"inventory", Single(item)>>)
      <4>1. DOMAIN Single(item).parts = {1} /\ Single(item).parts[1] = item
        BY DEF Single
      <4>2. /\ item.object
            /\ \A key \in DOMAIN item.has : <<1, key, item.has[key]>> \in s.groups["inventory"]
        BY <3>2, <3>3, FlawlessFacts
      <4>3. Single(item).shape # "wrong"
        BY DEF Single
      <4> QED
        BY <3>1, <3>2, <4>1, <4>2, <4>3 DEF Kept
    <3>5. Kept(uid, <<"haNode", item.ha>>)
      <4>1. ASSUME NEW n \in DOMAIN nodes
            PROVE  /\ nodes[n].object
                   /\ \A key \in DOMAIN nodes[n].has : <<n, key, nodes[n].has[key]>> \in s.groups["haNode"]
        <5>1. PartFacts("haNode", n, nodes[n]) \subseteq s.groups["haNode"]
          BY <3>2, <3>3 DEF NodeFacts
        <5> QED
          BY <3>3, <5>1, FlawlessFacts
      <4> QED
        BY <3>1, <3>2, <3>3, <4>1 DEF Kept
    <3> QED
      BY <1>7, <3>4, <3>5 DEF ItemAccounted, InventoryOf, uid
  <2> QED
    BY <2>2, <2>3
<1> QED
  BY <1>6, <1>7

LEMMA LicenseIsAccounted ==
  ASSUME FetchInv, ended, NEW part \in PartsOf("license"), ~Reported(Missing, "license")
  PROVE  Kept(Missing, <<"license", Single(part)>>)
<1> DEFINE payload == heard[Request("license")]
           s == [device |-> Missing, groups |-> [license |-> PartFacts("license", 1, part)],
                 start |-> 0, end |-> 0]
<1>1. Request("license") \in DOMAIN heard /\ \E i \in DOMAIN payload.parts : part = payload.parts[i]
  BY DEF PartsOf
<1>2. PICK i \in DOMAIN payload.parts : part = payload.parts[i]
  BY <1>1
<1>3. /\ payload \in Licenses
      /\ shown = MapLicenseResponse(payload) /\ reported = LicenseErrors(payload)
  BY <1>1, TenantOutcome DEF Tenants, Became
<1>4. payload.parts \in Seq({payload.parts[k] : k \in DOMAIN payload.parts})
  BY <1>3, AnswersAssumption DEF AnswersAssumption, Listed
<1> HIDE DEF payload
<1>5. /\ ~(Len(payload.parts) > 1)
      /\ payload.parts # <<>> => ~Flawed("license", payload.parts[1])
  BY <1>3 DEF LicenseErrors, Reported
<1>6. i = 1 /\ payload.parts # <<>>
  BY <1>4, <1>5
<1>7. ~Flawed("license", part)
  BY <1>2, <1>5, <1>6
<1>8. s \in Snapshots(Missing)
  <2>1. ~Dropped("license", payload.parts[1]) /\ 1 \in DOMAIN payload.parts \cap {1}
    BY <1>2, <1>6, <1>7 DEF Flawed
  <2>2. s \in shown
    BY <1>2, <1>3, <1>6, <2>1 DEF MapLicenseResponse
  <2> QED
    BY <2>2 DEF Snapshots
<1>9. "license" \in DOMAIN s.groups /\ s.groups["license"] = PartFacts("license", 1, part)
  OBVIOUS
<1> HIDE DEF s
<1>10. DOMAIN Single(part).parts = {1} /\ Single(part).parts[1] = part /\ Single(part).shape # "wrong"
  BY DEF Single
<1>11. /\ part.object
       /\ \A key \in DOMAIN part.has : <<1, key, part.has[key]>> \in s.groups["license"]
  BY <1>7, <1>9, FlawlessFacts
<1> QED
  BY <1>8, <1>9, <1>10, <1>11 DEF Kept

LEMMA InapplicableIsVacant ==
  ASSUME NEW part, part.object, \A key \in DOMAIN part.has : part.has[key] # Missing,
         NEW c \in Components, Inapplicable(part, c)
  PROVE  Vacant(part, c)
<1>1. \A i \in 1..2 : c[i] \in DOMAIN part.has => Field(part, c[i]) = part.has[c[i]] /\ part.has[c[i]] # Missing
  BY DEF Field
<1>2. \A i \in 1..2 : c[i] \notin DOMAIN part.has => Field(part, c[i]) = Missing
  BY DEF Field
<1>3. CASE Field(part, c[1]) = Missing /\ Field(part, c[2]) = Missing
  BY <1>1, <1>3 DEF Vacant
<1>4. CASE Field(part, c[1]) = NotApplicable /\ Field(part, c[2]) \in {Missing, Sentinel}
  <2>1. c[1] \in DOMAIN part.has /\ part.has[c[1]] = "NOT_APPLICABLE"
    BY <1>1, <1>2, <1>4 DEF NotApplicable, Missing
  <2>2. c[2] \in DOMAIN part.has => part.has[c[2]] = "-"
    BY <1>1, <1>4 DEF Sentinel
  <2>3. \A key : key \notin Required["certificate"]
    BY SMT DEF Required
  <2>4. Genuine("certificate", part, c[1])
    BY <2>1, <2>3 DEF Genuine, Wrong
  <2> QED
    BY <2>1, <2>2, <2>4 DEF Vacant
<1> QED
  BY <1>3, <1>4 DEF Inapplicable

\* The keys of the components are distinct: one tells which it is of.
LEMMA KeysOfComponents ==
  ASSUME NEW c \in Components, NEW b \in Components, NEW i \in 1..2, NEW k \in 1..2, c[i] = b[k]
  PROVE  c = b /\ i = k
<1>1. /\ c = <<"caCertificateStatus", "caCertExpiryDate">> \/ c = <<"identityCertificateStatus", "identityCertExpiryDate">>
      /\ b = <<"caCertificateStatus", "caCertExpiryDate">> \/ b = <<"identityCertificateStatus", "identityCertExpiryDate">>
      /\ i = 1 \/ i = 2
      /\ k = 1 \/ k = 2
  BY DEF Components
<1> QED
  BY <1>1

\* Within a record the series of an enrolled certificate is its own.
LEMMA EnrolledAlone ==
  ASSUME NEW parts, parts \in Seq({parts[k] : k \in DOMAIN parts}),
         NEW i, NEW c, <<i, c>> \in Enrolled(parts), NEW k \in 1..2,
         NEW other \in CertificateFacts(parts),
         other[1] = CertName(parts[i]), other[2] = c[k]
  PROVE  other = <<CertName(parts[i]), c[k], parts[i].has[c[k]]>>
<1>1. PICK entry \in Enrolled(parts) : other \in EntryFacts(parts[entry[1]], entry[2])
  BY DEF CertificateFacts
<1> DEFINE j == entry[1]
           b == entry[2]
<1>2. /\ i \in DOMAIN parts /\ c \in Components
      /\ Applies(parts[i], c) /\ ~Taken(parts, i, c)
  BY DEF Enrolled
<1>3. /\ j \in DOMAIN parts /\ b \in Components
      /\ Applies(parts[j], b) /\ ~Taken(parts, j, b)
  BY DEF Enrolled
<1>4. other \in EntryFacts(parts[j], b)
  BY <1>1
<1> HIDE DEF j, b
<1>5. PICK m \in 1..2 : other = <<CertName(parts[j]), b[m], parts[j].has[b[m]]>>
  BY <1>4 DEF EntryFacts
<1>6. CertName(parts[j]) = CertName(parts[i]) /\ b = c /\ m = k
  BY <1>2, <1>3, <1>5, KeysOfComponents
<1>7. i = j
  <2>1. i \in Nat /\ j \in Nat /\ 1 <= i /\ 1 <= j
    BY <1>2, <1>3
  <2>2. ~(i < j)
    BY <1>2, <1>3, <1>6, <2>1 DEF Taken
  <2>3. ~(j < i)
    BY <1>2, <1>3, <1>6, <2>1 DEF Taken
  <2> QED
    BY <2>1, <2>2, <2>3
<1> QED
  BY <1>5, <1>6, <1>7

LEMMA RecordIsAccounted ==
  ASSUME FetchInv, ended, NEW record \in PartsOf("certificates")
  PROVE  RecordAccounted(record)
<1> DEFINE payload == heard[Request("certificates")]
           raw == record.certificates
           parts == raw.parts
           d == payload.joined[record.has["id"]]
<1>1. /\ Request("certificates") \in DOMAIN heard
      /\ \E n \in DOMAIN payload.parts : record = payload.parts[n]
  BY DEF PartsOf
<1>2. PICK n \in DOMAIN payload.parts : record = payload.parts[n]
  BY <1>1
<1>3. /\ payload \in Certificates
      /\ shown = MapCertificates(payload) /\ reported = CertificateErrors(payload)
  BY <1>1, TenantOutcome DEF Tenants, Became
<1>4. /\ Listed(payload) /\ Listed(raw) /\ Valued(parts)
      /\ \A id \in DOMAIN payload.joined : payload.joined[id] \in Devices
  BY <1>2, <1>3, AnswersAssumption DEF AnswersAssumption, Valued
<1>5. RecordErrors(record, payload.joined) \subseteq reported
  <2>1. payload.shape # "wrong"
    BY <1>2, <1>4 DEF Listed
  <2> QED
    BY <1>2, <1>3, <2>1 DEF CertificateErrors
<1>6. CASE ~Joined(record, payload.joined)
  BY <1>5, <1>6 DEF RecordErrors, RecordAccounted, Reported
<1>7. CASE Joined(record, payload.joined)
  <2>1. d \in Devices /\ RecordOf(record, d)
    BY <1>4, <1>7 DEF Joined, RecordOf
  <2>2. CASE FlawedCertificates(raw)
    <3>1. <<d, "certificate">> \in reported
      BY <1>5, <1>7, <2>2 DEF RecordErrors
    <3> QED
      BY <2>1, <3>1 DEF RecordAccounted, Reported
  <2>3. CASE ~FlawedCertificates(raw)
    <3>1. /\ raw.shape # "wrong"
          /\ \A i \in DOMAIN parts :
               /\ parts[i].object
               /\ \A c \in Components : <<i, c>> \in Enrolled(parts) \/ Inapplicable(parts[i], c)
      BY <2>3 DEF FlawedCertificates
    <3>2. ASSUME NEW i \in DOMAIN parts, NEW c \in Components, <<i, c>> \in Enrolled(parts)
          PROVE  Shows(d, parts[i], c)
      <4> DEFINE s == [device |-> d, groups |-> [certificate |-> CertificateFacts(parts)],
                       start |-> 0, end |-> 0]
      <4>1. s \in shown
        BY <1>2, <1>3, <1>7, <3>2 DEF MapCertificates
      <4>2. s.device = d /\ s.groups["certificate"] = CertificateFacts(parts)
        OBVIOUS
      <4>3. Applies(parts[i], c)
        BY <3>2 DEF Enrolled
      <4>4. CertName(parts[i]) = Label(parts[i])
        BY <4>3, EnrolledIsDated
      <4> HIDE DEF s, d, payload
      <4>5. parts \in Seq({parts[k] : k \in DOMAIN parts})
        BY <1>4 DEF Listed
      <4> HIDE DEF parts
      <4>6. ASSUME NEW k \in 1..2
            PROVE  \E fact \in s.groups["certificate"] :
                     /\ fact[2] = c[k] /\ fact[3] = parts[i].has[c[k]]
                     /\ fact[1] = Label(parts[i])
                     /\ \A other \in s.groups["certificate"] :
                          <<other[1], other[2]>> = <<fact[1], fact[2]>> => other = fact
        <5> DEFINE fact == <<CertName(parts[i]), c[k], parts[i].has[c[k]]>>
        <5>1. fact \in CertificateFacts(parts)
          <6>1. fact \in EntryFacts(parts[i], c)
            <7>1. k = 1 \/ k = 2
              OBVIOUS
            <7> QED
              BY <7>1 DEF EntryFacts
          <6> QED
            BY <3>2, <6>1 DEF CertificateFacts
        <5>2. fact[1] = CertName(parts[i]) /\ fact[2] = c[k] /\ fact[3] = parts[i].has[c[k]]
          OBVIOUS
        <5>3. \A other \in CertificateFacts(parts) :
                <<other[1], other[2]>> = <<fact[1], fact[2]>> => other = fact
          BY <3>2, <4>5, EnrolledAlone
        <5> HIDE DEF fact
        <5> QED
          BY <4>2, <4>4, <5>1, <5>2, <5>3
      <4>7. s \in Snapshots(d)
        BY <4>1, <4>2 DEF Snapshots
      <4> QED
        BY <4>6, <4>7 DEF Shows
    <3>3. ASSUME NEW i \in DOMAIN parts, NEW c \in Components
          PROVE  Vacant(parts[i], c) \/ Shows(d, parts[i], c)
      BY <1>4, <3>1, <3>2, InapplicableIsVacant DEF Valued
    <3> HIDE DEF d
    <3> QED
      BY <2>1, <3>1, <3>3 DEF RecordAccounted
  <2> QED
    BY <2>2, <2>3
<1> QED
  BY <1>6, <1>7

\* Of every answer that is neither an absence nor superseded by a second one, each
\* genuine value is shown or its device is reported for that group (fmc/map.ts:79,
\* fmc/empty.ts:23).
THEOREM NothingIsLost == Spec => []NothingLostSilently
<1>1. FetchInv => NothingLostSilently
  BY TaskIsAccounted, EntryIsAccounted, ItemIsAccounted, LicenseIsAccounted, RecordIsAccounted
  DEF NothingLostSilently
<1> QED
  BY <1>1, FetchInvInit, FetchInvStep, PTL DEF Spec
=============================================================================
