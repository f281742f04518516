--------------------------- MODULE Configuration ---------------------------
(***************************************************************************)
(* From the process environment and an env file to a backend:              *)
(* src/src/config/load.ts and validate.ts, the part of main() that exits   *)
(* over them, src/src/backend-factory.ts, and the operator who corrects    *)
(* what a refusal complains of and starts the process again.               *)
(*                                                                         *)
(* An environment is a function from the variables it sets to their        *)
(* values.  A value is what it reads as: a number, a word, a list of       *)
(* words; Malformed reads as none of what its variable takes.  A path      *)
(* reads as the "readable" or "unreadable" file it names.                  *)
(***************************************************************************)
EXTENDS Integers, Sequences, FiniteSets

CONSTANTS
  MetricFamilies,        \* METRIC_FAMILY_VALUES
  Environments,          \* bound: the process environments of the first start
  EnvFiles,              \* bound: the env files, and how argv asks for one
  Unset, Whitespace, Malformed

MaxTimerSeconds == 2147483647 \div 1000

\* The bounded integers; POLL_INTERVAL_SECONDS has rules of its own.
Port == [range |-> 1..65535, default |-> 10049]
Concurrency == [range |-> 1..10, default |-> 5]
Seconds(default) == [range |-> 1..MaxTimerSeconds, default |-> default]
IntegerVar ==
  [METRICS_PORT |-> Port,
   REQUEST_TIMEOUT_SECONDS |-> Seconds(30),
   SCC_INVENTORY_POLL_INTERVAL_SECONDS |-> Seconds(300),
   SCC_LICENSE_POLL_INTERVAL_SECONDS |-> Seconds(3600),
   SCC_CERTIFICATE_POLL_INTERVAL_SECONDS |-> Seconds(3600),
   FMC_MAX_CONCURRENT_REQUESTS |-> Concurrency,
   FMC_DISCOVERY_INTERVAL_SECONDS |-> Seconds(900),
   FMC_LICENSE_POLL_INTERVAL_SECONDS |-> Seconds(3600),
   FMC_CERTIFICATE_POLL_INTERVAL_SECONDS |-> Seconds(3600)]

\* The enumerations and the booleans.
TimeRange == [range |-> {"5m", "15m", "30m", "1h"}, default |-> "5m"]
WordVar ==
  [LOG_LEVEL |-> [range |-> {"error", "warn", "info", "debug"}, default |-> "info"],
   LOG_FORMAT |-> [range |-> {"json", "text"}, default |-> "json"],
   ENABLE_DEFAULT_METRICS |-> [range |-> {"true", "false"}, default |-> "true"],
   SCC_TIME_RANGE |-> TimeRange,
   FMC_TIME_RANGE |-> TimeRange,
   FMC_TLS_INSECURE_SKIP_VERIFY |-> [range |-> {"true", "false"}, default |-> "false"],
   METRICS_TLS_MIN_VERSION |-> [range |-> {"TLSv1.2", "TLSv1.3"}, default |-> "TLSv1.2"]]

SccRequired == {"SCC_BASE_URL", "SCC_API_TOKEN", "SCC_FMC_UID"}
FmcRequired == {"FMC_HOST", "FMC_USERNAME", "FMC_PASSWORD"}
SccDefaulted ==
  {"SCC_TIME_RANGE", "SCC_INVENTORY_POLL_INTERVAL_SECONDS",
   "SCC_LICENSE_POLL_INTERVAL_SECONDS", "SCC_CERTIFICATE_POLL_INTERVAL_SECONDS"}
FmcDefaulted ==
  {"FMC_TLS_INSECURE_SKIP_VERIFY", "FMC_MAX_CONCURRENT_REQUESTS",
   "FMC_DISCOVERY_INTERVAL_SECONDS", "FMC_METRIC_FAMILIES", "FMC_TIME_RANGE",
   "FMC_LICENSE_POLL_INTERVAL_SECONDS", "FMC_CERTIFICATE_POLL_INTERVAL_SECONDS"}
SccOnly == SccRequired \cup SccDefaulted
FmcOnly == FmcRequired \cup FmcDefaulted \cup {"FMC_DOMAIN_UUID", "FMC_CA_BUNDLE_PATH"}
TlsPaths == {"METRICS_TLS_CERT_PATH", "METRICS_TLS_KEY_PATH", "METRICS_TLS_CLIENT_CA_PATH"}
Common ==
  {"POLL_INTERVAL_SECONDS", "METRICS_BIND_ADDRESS", "METRICS_PORT", "REQUEST_TIMEOUT_SECONDS",
   "LOG_LEVEL", "LOG_FORMAT", "ENABLE_DEFAULT_METRICS"}
Variables ==
  SccOnly \cup FmcOnly \cup TlsPaths \cup Common \cup {"BACKEND_TYPE", "METRICS_TLS_MIN_VERSION"}

-----------------------------------------------------------------------------
(***************************************************************************)
(* validate()                                                              *)
(***************************************************************************)
\* nonEmpty: a value of blanks is none.
Value(env, var) ==
  IF var \notin DOMAIN env THEN Unset
  ELSE IF env[var] = Whitespace THEN Unset
  ELSE env[var]

IsSet(env, var) == Value(env, var) # Unset

BackendType(env) ==
  IF Value(env, "BACKEND_TYPE") \in {"scc", "fmc"} THEN Value(env, "BACKEND_TYPE") ELSE "none"

Is(env, var, value) == Value(env, var) = value

When(condition, set) == IF condition THEN set ELSE {}

\* The variables validate() reads for a backend, and those it warns about.
Block(kind) ==
  CASE kind = "scc" -> SccOnly
    [] kind = "fmc" -> FmcOnly
    [] OTHER -> {}

WrongBlock(kind) ==
  CASE kind = "scc" -> FmcOnly \ FmcDefaulted
    [] kind = "fmc" -> SccOnly \ SccDefaulted
    [] OTHER -> {}

CrossBackendVars(env) == {var \in WrongBlock(BackendType(env)) : IsSet(env, var)}

\* validatePositiveInt, validateEnum, validateBoolean.
OutOfRange(env, table, vars) ==
  {var \in DOMAIN table \cap vars : IsSet(env, var) /\ Value(env, var) \notin table[var].range}

\* validatePollInterval: the floor is the SCC endpoint's two requests a minute.
BelowSccFloor(env) ==
  /\ BackendType(env) = "scc"
  /\ IsSet(env, "POLL_INTERVAL_SECONDS")
  /\ Value(env, "POLL_INTERVAL_SECONDS") \in 1..29

BadPollInterval(env) ==
  When(/\ IsSet(env, "POLL_INTERVAL_SECONDS")
       /\ Value(env, "POLL_INTERVAL_SECONDS") \notin 1..MaxTimerSeconds,
       {"POLL_INTERVAL_SECONDS"})
    \cup When(BelowSccFloor(env), {"POLL_BELOW_FLOOR"})

\* checkReadablePath
UnreadableFiles(env, paths) == {var \in paths : Is(env, var, "unreadable")}

NotGiven(env, vars) == {var \in vars : ~IsSet(env, var)}

SccComplaints(env) ==
  OutOfRange(env, IntegerVar, SccOnly) \cup OutOfRange(env, WordVar, SccOnly)
    \cup NotGiven(env, SccRequired)
    \cup When(Value(env, "SCC_BASE_URL") \in {Malformed, "http:"}, {"SCC_BASE_URL"})

\* validateMetricFamilies: a list without a name in it is not the default list.
BadFamilies(env) ==
  LET list == Value(env, "FMC_METRIC_FAMILIES")
  IN  When(/\ IsSet(env, "FMC_METRIC_FAMILIES")
           /\ list = <<>> \/ \E i \in DOMAIN list : list[i] \notin MetricFamilies,
           {"FMC_METRIC_FAMILIES"})

SkipsVerification(env) == Is(env, "FMC_TLS_INSECURE_SKIP_VERIFY", "true")

Contradiction(env) ==
  When(SkipsVerification(env) /\ IsSet(env, "FMC_CA_BUNDLE_PATH"), {"SKIP_VERIFY_WITH_BUNDLE"})

FmcComplaints(env) ==
  OutOfRange(env, IntegerVar, FmcOnly) \cup OutOfRange(env, WordVar, FmcOnly)
    \cup NotGiven(env, FmcRequired) \cup BadFamilies(env)
    \cup UnreadableFiles(env, {"FMC_CA_BUNDLE_PATH"}) \cup Contradiction(env)

\* validateMetricsTls: the files are looked at once certificate and key are named.
Listener == {"METRICS_TLS_CERT_PATH", "METRICS_TLS_KEY_PATH"}

\* Faulty: a client CA without a listener is nothing to complain of.
TlsPairComplaints(env) ==
  IF NotGiven(env, Listener) = Listener THEN {}
  ELSE IF NotGiven(env, Listener) # {} THEN NotGiven(env, Listener)
  ELSE UnreadableFiles(env, TlsPaths)

\* Faulty: half a certificate is as good as none.
HalfPairComplaints(env) ==
  IF NotGiven(env, Listener) # {}
  THEN UnreadableFiles(env, {"METRICS_TLS_CLIENT_CA_PATH"})
         \cup When(IsSet(env, "METRICS_TLS_CLIENT_CA_PATH"), {"CLIENT_CA_WITHOUT_LISTENER"})
  ELSE UnreadableFiles(env, TlsPaths)

TlsComplaints(env) ==
  IF NotGiven(env, Listener) = Listener
  THEN UnreadableFiles(env, {"METRICS_TLS_CLIENT_CA_PATH"})
         \cup When(IsSet(env, "METRICS_TLS_CLIENT_CA_PATH"), {"CLIENT_CA_WITHOUT_LISTENER"})
  ELSE IF NotGiven(env, Listener) # {} THEN NotGiven(env, Listener)
  ELSE UnreadableFiles(env, TlsPaths)

\* Faulty: validate() returns at the first block of complaints.
FirstComplaints(env) ==
  IF BackendType(env) = "none" THEN {"BACKEND_TYPE"}
  ELSE IF BadPollInterval(env) # {} THEN BadPollInterval(env)
  ELSE IF TlsComplaints(env) # {} THEN TlsComplaints(env)
  ELSE IF BackendType(env) = "scc" THEN SccComplaints(env) ELSE FmcComplaints(env)

\* Everything validate() can tell, not only the first of it.
Complaints(env) ==
  When(BackendType(env) = "none", {"BACKEND_TYPE"})
    \cup OutOfRange(env, IntegerVar, Common)
    \cup OutOfRange(env, WordVar, Common \cup {"METRICS_TLS_MIN_VERSION"})
    \cup BadPollInterval(env)
    \cup When(BackendType(env) = "scc", SccComplaints(env))
    \cup When(BackendType(env) = "fmc", FmcComplaints(env))
    \cup TlsComplaints(env)

Warnings(env) ==
  CrossBackendVars(env)
    \cup When(BackendType(env) = "fmc" /\ SkipsVerification(env) /\ Contradiction(env) = {},
              {"FMC_TLS_INSECURE_SKIP_VERIFY"})
    \cup When(BackendType(env) = "scc" /\ Is(env, "SCC_BASE_URL", "https://edge"),
              {"SCC_BASE_URL"})

Default(var) ==
  IF var \in DOMAIN IntegerVar THEN IntegerVar[var].default
  ELSE IF var \in DOMAIN WordVar THEN WordVar[var].default
  ELSE IF var = "POLL_INTERVAL_SECONDS" THEN 60
  ELSE IF var = "METRICS_BIND_ADDRESS" THEN "0.0.0.0"
  ELSE Unset

\* How often each family is asked for: the list is not freed of repetitions.
Families(env) ==
  LET list == Value(env, "FMC_METRIC_FAMILIES")
  IN  IF IsSet(env, "FMC_METRIC_FAMILIES")
      THEN [f \in MetricFamilies |-> Cardinality({i \in DOMAIN list : list[i] = f})]
      ELSE [f \in MetricFamilies |-> 1]

Setting(env, var) ==
  IF var = "FMC_METRIC_FAMILIES" THEN Families(env)
  ELSE IF IsSet(env, var) THEN Value(env, var)
  ELSE Default(var)

\* The frozen AppConfig: what it does not hold has no effect.
Config(env) ==
  LET held == Common \cup Block(BackendType(env))
                \cup When(NotGiven(env, Listener) = {}, TlsPaths \cup {"METRICS_TLS_MIN_VERSION"})
  IN  [kind |-> BackendType(env),
       settings |-> [var \in held |-> Setting(env, var)],
       warnings |-> Warnings(env)]

-----------------------------------------------------------------------------
VARIABLES
  process,     \* process.env as the process is started
  dotenv,      \* the env file: what argv asks for, what is there
  phase,       \* starting, refused, accepted or running
  complaints,  \* what the last refusal named
  refusals,    \* how often validate() has refused
  config,      \* the accepted configuration
  backend      \* what createBackend() got of it

configVars == <<process, dotenv, phase, complaints, refusals, config, backend>>

NoConfig == [kind |-> "none"]
NoBackend == [kind |-> "none", families |-> [f \in MetricFamilies |-> 0]]

ConfigInit ==
  /\ process \in Environments
  /\ dotenv \in EnvFiles
  /\ phase = "starting"
  /\ complaints = {}
  /\ refusals = 0
  /\ config = NoConfig
  /\ backend = NoBackend

\* resolveEnvFilePath, loadEnvFile: only the default file may be missing.
EnvFileFails ==
  \/ dotenv.asked = "pathless"
  \/ dotenv.state = "unreadable"
  \/ dotenv.state = "missing" /\ dotenv.asked = "explicitly"

RefuseEnvFile ==
  /\ phase = "starting"
  /\ EnvFileFails
  /\ phase' = "refused"
  /\ complaints' = {"--env-file"}
  /\ UNCHANGED <<process, dotenv, refusals, config, backend>>

\* A variable the process has, even a blank one, hides the file's.
Effective ==
  [var \in DOMAIN process \cup DOMAIN dotenv.vars |->
     IF var \in DOMAIN process THEN process[var] ELSE dotenv.vars[var]]

Refuse ==
  /\ phase = "starting"
  /\ ~EnvFileFails
  /\ Complaints(Effective) # {}
  /\ phase' = "refused"
  /\ complaints' = Complaints(Effective)
  /\ refusals' = refusals + 1
  /\ UNCHANGED <<process, dotenv, config, backend>>

Accept ==
  /\ phase = "starting"
  /\ ~EnvFileFails
  /\ Complaints(Effective) = {}
  /\ phase' = "accepted"
  /\ config' = Config(Effective)
  /\ complaints' = {}
  /\ UNCHANGED <<process, dotenv, refusals, backend>>

\* createBackend: the adapter gets what its kind needs.  Nothing reads the
\* environment again, so the model forgets it.
CreateBackend ==
  /\ phase = "accepted"
  /\ phase' = "running"
  /\ backend' = [kind |-> config.kind,
                 families |-> IF config.kind = "fmc"
                              THEN config.settings["FMC_METRIC_FAMILIES"]
                              ELSE NoBackend.families]
  /\ process' = <<>>
  /\ dotenv' = [asked |-> "not", state |-> "missing", vars |-> <<>>]
  /\ config' = NoConfig
  /\ refusals' = 0
  /\ UNCHANGED complaints

-----------------------------------------------------------------------------
(***************************************************************************)
(* The operator, who believes the messages: everything named is corrected, *)
(* where it takes effect, and nothing else is touched.                     *)
(***************************************************************************)
Named(complaint) ==
  CASE complaint = "SKIP_VERIFY_WITH_BUNDLE" -> "FMC_TLS_INSECURE_SKIP_VERIFY"
    [] complaint = "CLIENT_CA_WITHOUT_LISTENER" -> "METRICS_TLS_CLIENT_CA_PATH"
    [] complaint = "POLL_BELOW_FLOOR" -> "POLL_INTERVAL_SECONDS"
    [] OTHER -> complaint

\* Values the message allows; there are two where it may lead to the next one.
Sound(complaint, other) ==
  CASE complaint = "BACKEND_TYPE" -> IF other THEN "fmc" ELSE "scc"
    [] complaint = "POLL_INTERVAL_SECONDS" -> IF other THEN 30 ELSE 1
    [] complaint = "POLL_BELOW_FLOOR" -> 30
    [] complaint = "FMC_TLS_INSECURE_SKIP_VERIFY" -> IF other THEN "true" ELSE "false"
    [] complaint = "SKIP_VERIFY_WITH_BUNDLE" -> "false"
    [] complaint = "CLIENT_CA_WITHOUT_LISTENER" -> Whitespace
    [] complaint = "FMC_METRIC_FAMILIES" -> <<CHOOSE f \in MetricFamilies : TRUE>>
    [] complaint = "SCC_BASE_URL" -> "https:"
    [] complaint \in TlsPaths \cup {"FMC_CA_BUNDLE_PATH"} -> "readable"
    [] complaint \in (DOMAIN IntegerVar \cup DOMAIN WordVar) \ {"FMC_TLS_INSECURE_SKIP_VERIFY"} ->
         Default(complaint)
    [] OTHER -> "given"

CorrectEnvFile ==
  /\ "--env-file" \in complaints
  /\ dotenv' \in {file \in EnvFiles : file.state = "readable" /\ file.asked = "explicitly"}
  /\ UNCHANGED process

CorrectVariables(other) ==
  /\ "--env-file" \notin complaints
  /\ process' = [var \in DOMAIN process \cup {Named(c) : c \in complaints} |->
                   IF \E c \in complaints : Named(c) = var
                   THEN Sound(CHOOSE c \in complaints : Named(c) = var, other)
                   ELSE process[var]]
  /\ UNCHANGED dotenv

Correct ==
  /\ phase = "refused"
  /\ CorrectEnvFile \/ \E other \in BOOLEAN : CorrectVariables(other)
  /\ phase' = "starting"
  /\ complaints' = {}
  /\ UNCHANGED <<refusals, config, backend>>

ConfigNext == RefuseEnvFile \/ Refuse \/ Accept \/ CreateBackend \/ Correct
=============================================================================
