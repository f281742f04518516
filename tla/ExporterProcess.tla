--------------------------- MODULE ExporterProcess ---------------------------
(***************************************************************************)
(* The life of the process: the startup order of main()                    *)
(* (src/src/index.ts), the shutdown sequence and its hard-exit backstop    *)
(* (src/src/lifecycle.ts), and the parts of the metrics server             *)
(* (src/src/server/server.ts), the poller and the backend those two drive. *)
(* A signal, an uncaught error or a failing init() may come at any step.   *)
(***************************************************************************)
EXTENDS Integers

CONSTANT MaxConns   \* bound: requests the metrics server is answering at once

ASSUME ProcessAssumption == MaxConns \in Nat

VARIABLES
  main,       \* where main() is
  installed,  \* lifecycle.install() has registered its handlers
  port,       \* the listening socket
  conns,      \* requests the server has accepted and not answered
  backend,    \* the backend's init()
  closing,    \* the backend's close()
  poller,     \* where the poll loop is
  aborted,    \* the poller's controller.signal.aborted
  cached,     \* a poll has succeeded
  shut,       \* the step the shutdown sequence awaits
  exitCode,   \* the code the sequence was started with
  trigger,    \* history: what started the sequence
  failed,     \* history: the steps of the sequence that threw
  proc        \* "alive", main() has returned, an exit code, or killed by a signal

net == <<port, conns>>
back == <<backend, closing>>
polling == <<poller, aborted, cached>>
shutdown == <<shut, exitCode, trigger, failed>>
vars == <<main, installed, net, back, polling, shutdown, proc>>

TypeOK ==
  /\ main \in {"loading", "starting", "init", "done"}
  /\ installed \in BOOLEAN
  /\ port \in {"unbound", "bound", "refusing", "closed"}
  /\ conns \in 0..MaxConns
  /\ backend \in {"new", "initializing", "ready", "failed"}
  /\ closing \in {"no", "closing", "closed"}
  /\ poller \in {"new", "waiting", "cycle", "ended"}
  /\ aborted \in BOOLEAN
  /\ cached \in BOOLEAN
  /\ shut \in {"none", "server", "backend", "over"}
  /\ exitCode \in {0, 1}
  /\ trigger \in {"none", "signal", "failure"}
  /\ failed \subseteq {"server", "poller", "backend"}
  /\ proc \in {"alive", "returned", "exit0", "exit1", "killed"}

Init ==
  /\ main = "loading" /\ installed = FALSE
  /\ port = "unbound" /\ conns = 0
  /\ backend = "new" /\ closing = "no"
  /\ poller = "new" /\ aborted = FALSE /\ cached = FALSE
  /\ shut = "none" /\ exitCode = 0 /\ trigger = "none"
  /\ failed = {}
  /\ proc = "alive"

Alive == proc = "alive"
Exit(code) == proc' = IF code = 0 THEN "exit0" ELSE "exit1"

-----------------------------------------------------------------------------
(* lifecycle.ts *)

\* poller.stop() and backend.close() follow the server's step, resolved or
\* broken, without a pause; poller.stop() may throw too, its signal set or not.
\* A wrong sequence has one catch for the first two steps.
CaughtTogether(broken) ==
  /\ shut' = "backend" /\ closing' = "closing"
  /\ aborted' = IF broken = {} THEN TRUE ELSE aborted
  /\ failed' = broken
GoesOn(broken) ==
  /\ shut' = "backend" /\ closing' = "closing"
  /\ \/ aborted' = TRUE /\ failed' = broken
     \/ aborted' \in {aborted, TRUE} /\ failed' = broken \cup {"poller"}

\* The timer is armed and server.stop() called: a socket that never listened
\* closes at once; a call that throws may have let go of the port or not.
Sequence(code, why) ==
  LET released == IF port = "unbound" THEN "closed" ELSE "refusing"
  IN  /\ exitCode' = code
      /\ trigger' = why
      /\ \/ /\ port' = released
            /\ shut' = "server" /\ failed' = {}
            /\ UNCHANGED <<aborted, closing>>
         \/ port' \in {port, released} /\ GoesOn({"server"})

\* A wrong shutdown(): a second call runs the sequence again.
RestartedShutdown(code, why) == Sequence(code, why)

\* shutdown(): a second call returns the promise of the first.
Shutdown(code, why) ==
  \/ shut = "none" /\ Sequence(code, why)
  \/ shut # "none" /\ UNCHANGED <<shutdown, port, aborted, closing>>

\* server.stop() resolves once every accepted request is answered.
Drained == conns = 0

ServerStopped ==
  /\ Alive /\ shut = "server" /\ Drained
  /\ port' = "closed"
  /\ GoesOn({})
  /\ UNCHANGED <<main, installed, conns, backend, poller, cached, exitCode, trigger, proc>>

\* The last step resolves or throws, and the code is the same.
BackendClosed ==
  /\ Alive /\ shut = "backend"
  /\ \/ closing' = "closed" /\ UNCHANGED failed
     \/ failed' = failed \cup {"backend"} /\ UNCHANGED closing
  /\ shut' = "over"
  /\ Exit(exitCode)
  /\ UNCHANGED <<main, installed, net, backend, polling, exitCode, trigger>>

\* The dispatcher's close() waits for the requests of a poll or of init().
Outstanding == poller = "cycle" \/ backend = "initializing"

\* The timer is armed before the first step, and is long enough for a step
\* that has nothing to wait for; a loop that was not stopped may keep the last
\* step waiting.  A wrong timer is armed after the server stops.
Hangs == shut = "backend" /\ (Outstanding \/ ~aborted)
LateBackstop == Hangs
Backstop == (shut = "server" /\ ~Drained) \/ Hangs

HardExit ==
  /\ Alive /\ Backstop
  /\ Exit(1)
  /\ UNCHANGED <<main, installed, net, back, polling, shutdown>>

\* SIGTERM or SIGINT: without a handler it ends the process by itself.
Signal ==
  /\ Alive
  /\ IF installed
       THEN Shutdown(0, "signal") /\ UNCHANGED proc
       ELSE proc' = "killed" /\ UNCHANGED <<shutdown, port, aborted, closing>>
  /\ UNCHANGED <<main, installed, conns, backend, poller, cached>>

\* uncaughtException and unhandledRejection.
Uncaught ==
  /\ Alive
  /\ IF installed
       THEN Shutdown(1, "failure") /\ UNCHANGED proc
       ELSE Exit(1) /\ UNCHANGED <<shutdown, port, aborted, closing>>
  /\ UNCHANGED <<main, installed, conns, backend, poller, cached>>

-----------------------------------------------------------------------------
(* main() *)

\* The Node version or the configuration is refused, the server cannot be
\* built, or a dump fails.
ConfigFails ==
  /\ Alive /\ main = "loading"
  /\ Exit(1)
  /\ UNCHANGED <<main, installed, net, back, polling, shutdown>>

\* --version, --help and --dump-raw: nothing is left for the event loop to do.
ReturnsEarly ==
  /\ Alive /\ main = "loading"
  /\ proc' = "returned"
  /\ UNCHANGED <<main, installed, net, back, polling, shutdown>>

\* install() comes before server.start().
InstallsFirst == TRUE

\* Everything is constructed, the handlers installed, server.start() called.
StartServer ==
  /\ Alive /\ main = "loading"
  /\ main' = "starting"
  /\ installed' = InstallsFirst
  /\ UNCHANGED <<net, back, polling, shutdown, proc>>

\* The socket is bound before start()'s promise resolves.
Binds ==
  /\ Alive /\ main = "starting" /\ port = "unbound"
  /\ port' = "bound"
  /\ UNCHANGED <<main, installed, conns, back, polling, shutdown, proc>>

BindFails ==
  /\ Alive /\ main = "starting" /\ port = "unbound"
  /\ Exit(1)
  /\ UNCHANGED <<main, installed, net, back, polling, shutdown>>

\* A wrong order: backend.init() awaited before the server is up.
InitsFirst == main = "starting"
Listening == main = "starting" /\ port \in {"bound", "refusing"}

InitBackend ==
  /\ Alive /\ Listening
  /\ main' = "init"
  /\ backend' = "initializing"
  /\ UNCHANGED <<installed, net, closing, polling, shutdown, proc>>

\* poller.start(), which a stop() may already have preceded.
InitSucceeds ==
  /\ Alive /\ main = "init"
  /\ main' = "done" /\ backend' = "ready"
  /\ poller' = "waiting"
  /\ UNCHANGED <<installed, net, closing, aborted, cached, shutdown, proc>>

InitFails ==
  /\ Alive /\ main = "init"
  /\ main' = "done" /\ backend' = "failed"
  /\ Shutdown(1, "failure")
  /\ UNCHANGED <<installed, conns, poller, cached, proc>>

-----------------------------------------------------------------------------
(* The poller's loop, as far as stopping it is concerned *)

\* A wrong loop: the signal is looked at only between cycles.
NeverDiscards == FALSE
Discards == aborted

Cycle ==
  /\ Alive /\ poller = "waiting" /\ ~aborted
  /\ poller' = "cycle"
  /\ UNCHANGED <<main, installed, net, back, aborted, cached, shutdown, proc>>

CycleEnds ==
  /\ Alive /\ poller = "cycle"
  /\ poller' = IF aborted THEN "ended" ELSE "waiting"
  /\ cached' \in IF Discards THEN {cached} ELSE {cached, TRUE}
  /\ UNCHANGED <<main, installed, net, back, aborted, shutdown, proc>>

LoopEnds ==
  /\ Alive /\ poller = "waiting" /\ aborted
  /\ poller' = "ended"
  /\ UNCHANGED <<main, installed, net, back, aborted, cached, shutdown, proc>>

-----------------------------------------------------------------------------
(* The metrics server's clients *)

\* server.maxConnections.
Accepts == conns < MaxConns

Request ==
  /\ Alive /\ port = "bound" /\ Accepts
  /\ conns' = conns + 1
  /\ UNCHANGED <<main, installed, port, back, polling, shutdown, proc>>

Answer ==
  /\ Alive /\ conns > 0
  /\ conns' = conns - 1
  /\ UNCHANGED <<main, installed, port, back, polling, shutdown, proc>>

-----------------------------------------------------------------------------
Startup == ConfigFails \/ ReturnsEarly \/ StartServer \/ Binds \/ BindFails
           \/ InitBackend \/ InitSucceeds \/ InitFails
Stopping == Signal \/ Uncaught \/ ServerStopped \/ BackendClosed \/ HardExit
Polling == Cycle \/ CycleEnds \/ LoopEnds
Serving == Request \/ Answer

Next == Startup \/ Stopping \/ Polling \/ Serving

Spec == Init /\ [][Next]_vars

\* The backstop fires and a step with nothing to wait for completes.  Nothing
\* else is sure to happen: a client may hold its connection, and a request of
\* the backend outlive the backstop.
Fairness ==
  /\ WF_vars(HardExit) /\ WF_vars(ServerStopped)
  /\ WF_vars(BackendClosed /\ ~Outstanding)

FairSpec == Spec /\ Fairness

-----------------------------------------------------------------------------
(* Properties *)

\* From the moment a probe or a supervisor can see the port, a signal shuts
\* the process down through the sequence instead of killing it; and /healthz
\* can be answered for the whole of a slow backend.init().
StartupOrder ==
  /\ port # "unbound" => installed /\ proc # "killed"
  /\ backend = "initializing" /\ shut = "none" => port = "bound"

\* A step of the teardown that throws costs that step alone (guardedStep();
\* test/unit/lifecycle.test.ts:138 and 170).  Exit code 0 promises that each
\* step had its turn, in order, and that what the process leaves behind - an
\* unanswered request, a running loop, an open backend - is what the step
\* responsible for it has thrown about; backend.close() is called in any case.
CleanExitIsComplete ==
  proc = "exit0" =>
    /\ (port = "closed" /\ conns = 0) \/ "server" \in failed
    /\ aborted \/ "poller" \in failed
    /\ closing = "closed" \/ (closing = "closing" /\ "backend" \in failed)

\* What went wrong first decides the exit code: a signal that arrives during
\* the teardown of a failed start does not turn it into a success, nor does a
\* failure caused by the teardown turn a clean stop into an error.
FirstCauseDecides ==
  /\ [](proc = "exit0" => trigger = "signal")
  /\ [][trigger # "none" => trigger' = trigger /\ exitCode' = exitCode]_vars

\* Nothing is published once the sequence has stopped the poller, although a
\* cycle may be in flight and start() may come after stop().
NothingAfterStop == [][aborted => cached' = cached]_vars

\* A shutdown that has begun ends the process, whatever hangs.
ShutdownEnds == shut # "none" ~> ~Alive

\* Refuted.  Whatever happens to an earlier step, backend.close() runs.
CloseAlwaysRuns == ~Alive /\ trigger # "none" => closing # "no"
=============================================================================
