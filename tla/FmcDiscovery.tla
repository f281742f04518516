---------------------------- MODULE FmcDiscovery ----------------------------
(***************************************************************************)
(* Start-up of the FMC adapter and its device discovery: init() of         *)
(* src/src/backends/fmc/adapter.ts, the domain of domain.ts, the           *)
(* pagination and the cached list of discovery.ts.                         *)
(*                                                                         *)
(* FMC sends no paging headers.  The client pages by the number of items   *)
(* it was sent and stops on a short page, which it must recognise whatever *)
(* the server says of its page size and of its total.                      *)
(***************************************************************************)
EXTENDS Integers, Sequences, FiniteSets

CONSTANTS
  Devices,      \* managed devices
  Junk,         \* items that are none: the appliance "0", a malformed entry
  PageLimit,    \* PAGE_LIMIT, what the client asks for
  MaxPages,     \* maxDiscoveryPages
  MaxFleet,     \* bound: items the server may list
  Caps,         \* page sizes the server honours
  Interval      \* discoveryIntervalSeconds, in ticks

ASSUME DiscoveryAssumption ==
  /\ PageLimit \in Nat \ {0} /\ MaxPages \in Nat \ {0} /\ Interval \in Nat \ {0} /\ MaxFleet \in Nat
  /\ Caps \subseteq 1..PageLimit /\ Devices \cap Junk = {}

Absent == -1
Never == -1

VARIABLES
  fleet,     \* FMC: the items it lists, in its order
  server,    \* FMC: its page size, and what paging.limit and .count say of it
  phase,     \* init()'s step, then whether the adapter came up
  run,       \* the discovery in flight: offset, items seen, devices, pages
  cached,    \* cachedDevices
  age,       \* time since lastSuccessAt, up to Interval
  failures,  \* parity of the onDiscoveryFailure calls
  changed    \* history: the fleet changed during this run

discoveryVars == <<fleet, server, phase, run, cached, age, failures, changed>>

Items == Devices \cup Junk

\* A list of devices is how often it names each: its order is nobody's concern.
NoDevices == [d \in Devices |-> 0]
Idle == [offset |-> 0, seen |-> 0, list |-> NoDevices, page |-> Absent]
FirstPage == [Idle EXCEPT !.page = 0]

\* The devices among some items: no malformed entry, not the appliance.
Managed(items) == [d \in Devices |-> Cardinality({i \in DOMAIN items : items[i] = d})]

Lists == [Devices -> 0..MaxPages * PageLimit]

DiscoveryTypeOK ==
  /\ fleet \in Seq(Items) /\ Len(fleet) <= MaxFleet
  /\ server \in [cap : Caps, limit : {Absent, 0, PageLimit} \cup Caps, count : BOOLEAN]
  /\ phase \in {"token", "domain", "discovery", "ready", "failed"}
  /\ run \in [offset : 0..MaxPages * PageLimit, seen : 0..MaxPages * PageLimit,
              list : Lists, page : Absent..MaxPages - 1]
  /\ cached \in Lists
  /\ age \in Never..Interval /\ failures \in {0, 1} /\ changed \in BOOLEAN

\* paging.limit is the page size, the limit asked for, nonsense or absent.
Servers ==
  UNION {[cap : {c}, limit : {Absent, 0, c, PageLimit}, count : BOOLEAN] : c \in Caps}

\* A list of distinct items, as long as the bound allows.
Fleets ==
  {s \in UNION {[1..n -> Items] : n \in 0..MaxFleet} :
     \A i, j \in DOMAIN s : s[i] = s[j] => i = j}

DiscoveryInit ==
  /\ fleet \in Fleets /\ server \in Servers
  /\ phase = "token" /\ run = Idle /\ cached = NoDevices /\ age = Never
  /\ failures = 0 /\ changed = FALSE

-----------------------------------------------------------------------------
(* init() up to the first discovery *)

\* The first login.
GetToken ==
  /\ phase = "token"
  /\ phase' \in {"domain", "failed"}
  /\ UNCHANGED <<fleet, server, run, cached, age, failures, changed>>

\* The domain is configured, in the login's headers or enumerated; init()
\* throws when it is none of these.
Begin == run' = FirstPage /\ changed' = FALSE
ResolveDomain ==
  /\ phase = "domain"
  /\ \/ phase' = "discovery" /\ Begin
     \/ phase' = "failed" /\ UNCHANGED <<run, changed>>
  /\ UNCHANGED <<fleet, server, cached, age, failures>>

-----------------------------------------------------------------------------
(* getDevices() *)

\* Wrong: the list is had once and for all.
OnlyOnce == age = Never
IsDue == age = Never \/ age >= Interval

\* A poll, or a certificate refresh, asks for the list when it is due.
GetDevices ==
  /\ phase = "ready" /\ run = Idle /\ IsDue
  /\ Begin
  /\ UNCHANGED <<fleet, server, phase, cached, age, failures>>

Ended == run' = Idle /\ changed' = FALSE

\* The first list must be had, or known to be empty, for init() to return.
Initialised(list, failed) ==
  phase' = IF phase # "discovery" THEN phase
           ELSE IF list = NoDevices /\ failed THEN "failed" ELSE "ready"

Succeeds(list) ==
  /\ cached' = list /\ age' = 0
  /\ Initialised(list, FALSE) /\ Ended
  /\ UNCHANGED failures

\* Wrong: a failure puts the next discovery off for an interval.
FailsForLong ==
  /\ failures' = 1 - failures
  /\ age' = 0
  /\ Initialised(cached, TRUE) /\ Ended
  /\ UNCHANGED cached

\* The list and the time of the last success stay.
Fails ==
  /\ failures' = 1 - failures
  /\ Initialised(cached, TRUE) /\ Ended
  /\ UNCHANGED <<cached, age>>

\* No token, a failed GET, or a page that cannot be read.
DiscoveryFails ==
  /\ run # Idle
  /\ Fails
  /\ UNCHANGED <<fleet, server>>

-----------------------------------------------------------------------------
(* fetchAllDeviceRecords() *)

\* FMC's answer to a GET at an offset.
Page(offset) ==
  SubSeq(fleet, offset + 1, IF offset + server.cap < Len(fleet) THEN offset + server.cap ELSE Len(fleet))

\* paging.count says that there is more.
NeverBelow(seen) == FALSE
StillBelowReportedCount(seen) == server.count /\ seen < Len(fleet)

\* Short for the page size the server reports, if that is one.
LooksShort(items) == Len(items) < (IF server.limit > 0 THEN server.limit ELSE PageLimit)

\* An empty page ends the list; a short one does unless the count says more.
IsLast(items, seen) ==
  \/ items = <<>>
  \/ LooksShort(items) /\ ~StillBelowReportedCount(seen)

\* Wrong: one page too many before giving up.
OnePageMore(page) == page = MaxPages
OutOfPages(page) == page = MaxPages - 1

PageArrives ==
  /\ run # Idle
  /\ LET items == Page(run.offset)
         seen == run.seen + Len(items)
         list == [d \in Devices |-> run.list[d] + Managed(items)[d]]
     IN  IF IsLast(items, seen) THEN Succeeds(list)
         ELSE IF OutOfPages(run.page) THEN Fails
         ELSE /\ run' = [offset |-> run.offset + Len(items), seen |-> seen,
                         list |-> list, page |-> run.page + 1]
              /\ UNCHANGED <<phase, cached, age, failures, changed>>
  /\ UNCHANGED <<fleet, server>>

-----------------------------------------------------------------------------
(* FMC's fleet, and time *)

FleetChanges ==
  /\ \/ \E i \in DOMAIN fleet : fleet' = SubSeq(fleet, 1, i - 1) \o SubSeq(fleet, i + 1, Len(fleet))
     \/ \E x \in Items \ {fleet[i] : i \in DOMAIN fleet} :
          Len(fleet) < MaxFleet /\ fleet' \in {Append(fleet, x), <<x>> \o fleet}
  /\ changed' = (run # Idle)
  /\ UNCHANGED <<server, phase, run, cached, age, failures>>

TimePasses ==
  /\ age \in 0..Interval - 1
  /\ age' = age + 1
  /\ UNCHANGED <<fleet, server, phase, run, cached, failures, changed>>

DiscoveryNext ==
  \/ GetToken \/ ResolveDomain \/ GetDevices
  \/ PageArrives \/ DiscoveryFails
  \/ FleetChanges \/ TimePasses

DiscoverySpec == DiscoveryInit /\ [][DiscoveryNext]_discoveryVars

\* The poll loop asks on, requests are answered and time passes.
FairDiscovery ==
  DiscoverySpec /\ WF_discoveryVars(GetDevices) /\ WF_discoveryVars(PageArrives) /\ WF_discoveryVars(TimePasses)

-----------------------------------------------------------------------------
(* Properties *)

\* A server is understood when it tells its page size or its total.
Understood == server.limit = server.cap \/ server.count

\* Against such a server, a discovery during which the fleet does not change
\* and no request fails ends with every managed device, each once: it neither
\* stops at a page that looks short nor pages on to the limit of pages.
ListIsComplete ==
  [][/\ PageArrives /\ run' = Idle /\ ~changed
     /\ Understood /\ Len(fleet) < MaxPages * server.cap
     => cached' = Managed(fleet)]_discoveryVars

\* A failed discovery leaves the last good list and stays due, so that the
\* next poll tries again; when there was no list yet, the adapter does not
\* come up as if the fleet were empty.
FailureKeepsList ==
  [][failures' # failures =>
       /\ cached' = cached /\ (age' = Never \/ age' >= Interval)
       /\ cached = NoDevices /\ phase = "discovery" => phase' = "failed"]_discoveryVars

\* Once the fleet rests and requests succeed, the adapter lists the fleet.
CatchesUp ==
  (Understood /\ <>(phase = "ready") /\ <>[][fleet' = fleet /\ failures' = failures]_discoveryVars)
    => <>[](cached = Managed(fleet))
=============================================================================
