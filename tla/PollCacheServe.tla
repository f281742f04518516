--------------------------- MODULE PollCacheServe ---------------------------
(***************************************************************************)
(* What the poller promises the scrape path, and nothing about how: one    *)
(* published entry, replaced only wholesale and only by a legitimate       *)
(* snapshot, kept through every failure, and frozen once the process has   *)
(* been told to stop.  Poller.tla is shown to implement this module.       *)
(***************************************************************************)
EXTENDS Naturals

CONSTANTS
  MaxDevices,    \* bound: devices in a snapshot
  MaxErrors,     \* bound: parse errors of a poll
  NoEntry        \* what MetricsCache.get() returns before any success

\* A snapshot as the scrape path can tell snapshots apart: how many devices
\* it holds, and how many health parse errors the poll that produced it met.
Snapshot == [devices : 0..MaxDevices, errors : 0..MaxErrors]

\* A poll that met parse errors and found no device produced no snapshot.
Legitimate(s) == s.devices = 0 => s.errors = 0

VARIABLES
  entry,      \* NoEntry or the published snapshot
  up,         \* ftd_exporter_up
  halted      \* stop() has been called

svars == <<entry, up, halted>>

Init ==
  /\ entry = NoEntry
  /\ up = 0
  /\ halted = FALSE

Publish(s) ==
  /\ ~halted
  /\ Legitimate(s)
  /\ entry' = s
  /\ up' = 1
  /\ UNCHANGED halted

Degrade ==
  /\ ~halted
  /\ up' = 0
  /\ UNCHANGED <<entry, halted>>

Halt ==
  /\ halted' = TRUE
  /\ UNCHANGED <<entry, up>>

Next == (\E s \in Snapshot : Publish(s)) \/ Degrade \/ Halt

Spec == Init /\ [][Next]_svars
=============================================================================
