----------------------- MODULE ExporterProcessProofs -----------------------
(***************************************************************************)
(* Proofs about ExporterProcess: the order of the startup, what a clean    *)
(* exit has torn down, which cause decides the exit code, and that nothing *)
(* is published after the poller was stopped, for any number of clients.   *)
(***************************************************************************)
EXTENDS ExporterProcess, TLAPS

\* The handlers are in place before main() awaits anything.
InstalledEarly == main # "loading" => installed

\* The port is let go by the shutdown sequence, and by it alone, unless
\* server.stop() throws; the sequence is begun by a handler, or by main()
\* after them.
LetGoByShutdown ==
  /\ port \in {"refusing", "closed"} => shut # "none"
  /\ shut # "none" => port \in {"refusing", "closed"} \/ "server" \in failed
  /\ shut # "none" => installed

\* Past server.stop(), the server is drained and the poller told to stop, or
\* the step has thrown; backend.close() is under way.
TornDown ==
  shut \in {"backend", "over"} =>
    /\ (port = "closed" /\ conns = 0) \/ "server" \in failed
    /\ aborted \/ "poller" \in failed
    /\ closing # "no"

\* The last step ends with the backend closed, or by throwing.
LastStep == shut = "over" => closing = "closed" \/ "backend" \in failed

\* The code of a sequence is that of the cause that began it.
CodeOfCause ==
  /\ shut = "none" <=> trigger = "none"
  /\ exitCode = 0 /\ shut # "none" => trigger = "signal"

\* A process that has exited with 0 has done so from the last step.
CleanExit == proc = "exit0" => shut = "over" /\ exitCode = 0

IInv ==
  /\ TypeOK
  /\ InstalledEarly
  /\ LetGoByShutdown
  /\ TornDown
  /\ LastStep
  /\ CodeOfCause
  /\ CleanExit
  /\ StartupOrder

LEMMA InitIInv == Init => IInv
<1> SUFFICES ASSUME Init PROVE IInv
  OBVIOUS
<1>1. 0 \in 0..MaxConns
  BY ProcessAssumption
<1>2. TypeOK
  BY <1>1 DEF Init, TypeOK
<1>3. main = "loading" /\ port = "unbound" /\ shut = "none" /\ trigger = "none" /\ proc = "alive"
      /\ backend = "new"
  BY DEF Init
<1> QED
  BY <1>2, <1>3
  DEF IInv, InstalledEarly, LetGoByShutdown, TornDown, LastStep, CodeOfCause, CleanExit,
      StartupOrder

\* Whatever threw before it, the pair of calls leaves the poller stopped or
\* itself among the broken steps, and backend.close() under way.
LEMMA GoesOnEffect ==
  ASSUME TypeOK, NEW broken \in SUBSET {"server"}, GoesOn(broken)
  PROVE  /\ shut' = "backend" /\ closing' = "closing"
         /\ aborted' \in BOOLEAN /\ failed' \subseteq {"server", "poller", "backend"}
         /\ broken \subseteq failed'
         /\ aborted' \/ "poller" \in failed'
<1>1. shut' = "backend" /\ closing' = "closing"
  BY DEF GoesOn
<1>2. CASE aborted' = TRUE /\ failed' = broken
  BY <1>1, <1>2
<1>3. CASE aborted' \in {aborted, TRUE} /\ failed' = broken \cup {"poller"}
  <2>1. aborted' \in BOOLEAN
    BY <1>3 DEF TypeOK
  <2> QED
    BY <1>1, <1>3, <2>1
<1> QED
  BY <1>2, <1>3 DEF GoesOn

\* The sequence begins, once, for the cause at hand.
LEMMA SequenceKeeps ==
  ASSUME IInv, installed, shut = "none", Alive,
         NEW code, NEW why, <<code, why>> \in {<<0, "signal">>, <<1, "failure">>},
         Sequence(code, why),
         UNCHANGED <<installed, conns, cached, proc>>,
         main' \in {"loading", "starting", "init", "done"},
         backend' \in {"new", "initializing", "ready", "failed"},
         poller' \in {"new", "waiting", "cycle", "ended"}
  PROVE  IInv'
<1> USE DEF Alive
<1>1. /\ exitCode' = code /\ trigger' = why
      /\ port' \in {"unbound", "bound", "refusing", "closed"}
      /\ shut' \in {"server", "backend"} /\ closing' \in {"no", "closing", "closed"}
      /\ aborted' \in BOOLEAN /\ failed' \subseteq {"server", "poller", "backend"}
      /\ port' \in {"refusing", "closed"} \/ "server" \in failed'
      /\ shut' = "backend" => /\ "server" \in failed' /\ closing' # "no"
                              /\ aborted' \/ "poller" \in failed'
  <2>0. exitCode' = code /\ trigger' = why
    BY DEF Sequence
  <2> DEFINE released == IF port = "unbound" THEN "closed" ELSE "refusing"
  <2>1. released \in {"refusing", "closed"} /\ port \in {"unbound", "bound", "refusing", "closed"}
    BY DEF IInv, TypeOK
  <2>2. CASE port' = released /\ shut' = "server" /\ failed' = {} /\ UNCHANGED <<aborted, closing>>
    <3>1. aborted' \in BOOLEAN /\ closing' \in {"no", "closing", "closed"}
      BY <2>2 DEF IInv, TypeOK
    <3> QED
      BY <2>0, <2>1, <2>2, <3>1
  <2>3. CASE port' \in {port, released} /\ GoesOn({"server"})
    <3>1. TypeOK
      BY DEF IInv
    <3> QED
      BY <2>0, <2>1, <2>3, <3>1, GoesOnEffect
  <2> QED
    BY <2>2, <2>3 DEF Sequence
<1>2. TypeOK'
  <2>1. conns' \in 0..MaxConns /\ installed' \in BOOLEAN /\ cached' \in BOOLEAN
        /\ proc' \in {"alive", "returned", "exit0", "exit1", "killed"}
    BY DEF IInv, TypeOK
  <2>2. exitCode' \in {0, 1} /\ trigger' \in {"none", "signal", "failure"}
    BY <1>1
  <2> QED
    BY <1>1, <2>1, <2>2 DEF TypeOK
<1>3. InstalledEarly' /\ LetGoByShutdown'
  BY <1>1 DEF InstalledEarly, LetGoByShutdown
<1>4. TornDown' /\ LastStep' /\ CleanExit'
  BY <1>1 DEF TornDown, LastStep, CleanExit
<1>5. CodeOfCause'
  BY <1>1 DEF CodeOfCause
<1>6. StartupOrder'
  BY <1>1 DEF StartupOrder
<1> QED
  BY <1>2, <1>3, <1>4, <1>5, <1>6 DEF IInv

LEMMA NextIInv == IInv /\ [Next]_vars => IInv'
<1> SUFFICES ASSUME IInv, [Next]_vars PROVE IInv'
  OBVIOUS
<1>1. CASE Startup
  <2> USE DEF IInv, TypeOK, InstalledEarly, LetGoByShutdown, TornDown, LastStep,
              CodeOfCause, CleanExit, StartupOrder, Alive, Exit, net, back, polling, shutdown
  <2>1. CASE ConfigFails
    BY <2>1 DEF ConfigFails
  <2>2. CASE ReturnsEarly
    BY <2>2 DEF ReturnsEarly
  <2>3. CASE StartServer
    <3>1. installed' /\ installed' \in BOOLEAN
      BY <2>3 DEF StartServer, InstallsFirst
    <3>2. TypeOK'
      BY <2>3, <3>1 DEF StartServer
    <3> QED
      BY <2>3, <3>1, <3>2 DEF StartServer
  <2>4. CASE Binds
    BY <2>4 DEF Binds
  <2>5. CASE BindFails
    BY <2>5 DEF BindFails
  <2>6. CASE InitBackend
    BY <2>6 DEF InitBackend, Listening
  <2>7. CASE InitSucceeds
    BY <2>7 DEF InitSucceeds
  <2>8. CASE InitFails
    <3> HIDE DEF IInv, TypeOK, InstalledEarly, LetGoByShutdown, TornDown, LastStep,
              CodeOfCause, CleanExit, StartupOrder, Alive, Exit, net, back, polling, shutdown
    <3>1. /\ Alive /\ main = "init" /\ main' = "done" /\ backend' = "failed"
          /\ UNCHANGED <<installed, conns, poller, cached, proc>>
      BY <2>8 DEF InitFails
    <3>2. CASE shut = "none"
      <4>1. installed /\ poller \in {"new", "waiting", "cycle", "ended"}
        BY <3>1 DEF IInv, InstalledEarly, TypeOK
      <4>2. Sequence(1, "failure")
        BY <2>8, <3>2 DEF InitFails, Shutdown
      <4> QED
        BY <3>1, <3>2, <4>1, <4>2, SequenceKeeps
    <3>3. CASE shut # "none"
      <4>1. UNCHANGED <<shut, exitCode, trigger, failed, port, aborted, closing>>
        BY <2>8, <3>3 DEF InitFails, Shutdown, shutdown
      <4> QED
        BY <3>1, <3>3, <4>1
        DEF IInv, TypeOK, InstalledEarly, LetGoByShutdown, TornDown, LastStep,
            CodeOfCause, CleanExit, StartupOrder, Alive
    <3> QED
      BY <3>2, <3>3
  <2> QED
    BY <1>1, <2>1, <2>2, <2>3, <2>4, <2>5, <2>6, <2>7, <2>8 DEF Startup
<1>2. CASE Stopping
  <2>1. ASSUME NEW code, NEW why, <<code, why>> \in {<<0, "signal">>, <<1, "failure">>},
               Alive, installed, Shutdown(code, why),
               UNCHANGED <<main, installed, conns, backend, poller, cached, proc>>
        PROVE  IInv'
    <3>1. CASE shut = "none"
      <4>1. Sequence(code, why)
        BY <2>1, <3>1 DEF Shutdown
      <4>2. /\ main \in {"loading", "starting", "init", "done"}
            /\ backend \in {"new", "initializing", "ready", "failed"}
            /\ poller \in {"new", "waiting", "cycle", "ended"}
        BY DEF IInv, TypeOK
      <4> QED
        BY <2>1, <3>1, <4>1, <4>2, SequenceKeeps
    <3>2. CASE shut # "none"
      <4>1. UNCHANGED <<shut, exitCode, trigger, failed, port, aborted, closing>>
        BY <2>1, <3>2 DEF Shutdown, shutdown
      <4> QED
        BY <2>1, <3>2, <4>1
        DEF IInv, TypeOK, InstalledEarly, LetGoByShutdown, TornDown, LastStep,
            CodeOfCause, CleanExit, StartupOrder
    <3> QED
      BY <3>1, <3>2
  <2> DEFINE Rest == UNCHANGED <<main, installed, conns, backend, poller, cached>>
  <2> DEFINE Quiet == UNCHANGED <<shut, exitCode, trigger, failed, port, aborted, closing>>
  <2>2. ASSUME Rest, Quiet, proc' \in {"killed", "exit1"}, proc' = "killed" => ~installed
        PROVE  IInv'
    BY <2>2
    DEF IInv, TypeOK, InstalledEarly, LetGoByShutdown, TornDown, LastStep, CodeOfCause, CleanExit,
        StartupOrder
  <2>3. CASE Signal
    <3>1. Alive /\ Rest
      BY <2>3 DEF Signal
    <3>2. CASE installed
      BY <2>1, <2>3, <3>1, <3>2 DEF Signal
    <3>3. CASE ~installed
      BY <2>2, <2>3, <3>1, <3>3 DEF Signal, shutdown
    <3> QED
      BY <3>2, <3>3
  <2>4. CASE Uncaught
    <3>1. Alive /\ Rest
      BY <2>4 DEF Uncaught
    <3>2. CASE installed
      BY <2>1, <2>4, <3>1, <3>2 DEF Uncaught
    <3>3. CASE ~installed
      BY <2>2, <2>4, <3>1, <3>3 DEF Uncaught, Exit, shutdown
    <3> QED
      BY <3>2, <3>3
  <2>5. CASE HardExit
    BY <2>2, <2>5 DEF HardExit, Exit, net, back, polling, shutdown
  <2>6. CASE ServerStopped
    <3>1. /\ Alive /\ shut = "server" /\ conns = 0 /\ port' = "closed" /\ GoesOn({})
          /\ UNCHANGED <<main, installed, conns, backend, poller, cached, exitCode, trigger, proc>>
      BY <2>6 DEF ServerStopped, Drained
    <3>2. TypeOK
      BY DEF IInv
    <3>3. /\ shut' = "backend" /\ closing' = "closing" /\ aborted' \in BOOLEAN
          /\ failed' \subseteq {"server", "poller", "backend"}
          /\ aborted' \/ "poller" \in failed'
      BY <3>1, <3>2, GoesOnEffect
    <3>4. TypeOK'
      BY <3>1, <3>2, <3>3 DEF TypeOK
    <3>5. TornDown' /\ LastStep'
      BY <3>1, <3>3 DEF TornDown, LastStep
    <3>6. InstalledEarly' /\ LetGoByShutdown' /\ CodeOfCause'
      BY <3>1, <3>3 DEF IInv, InstalledEarly, LetGoByShutdown, CodeOfCause
    <3>7. CleanExit' /\ StartupOrder'
      BY <3>1, <3>3 DEF IInv, CleanExit, StartupOrder, LetGoByShutdown, Alive
    <3> QED
      BY <3>4, <3>5, <3>6, <3>7 DEF IInv
  <2>7. CASE BackendClosed
    <3>1. /\ Alive /\ shut = "backend" /\ shut' = "over" /\ Exit(exitCode)
          /\ UNCHANGED <<main, installed, port, conns, backend, poller, aborted, cached, exitCode,
                         trigger>>
      BY <2>7 DEF BackendClosed, net, polling
    <3>2. \/ closing' = "closed" /\ failed' = failed
          \/ closing' = closing /\ failed' = failed \cup {"backend"}
      BY <2>7 DEF BackendClosed
    <3>3. /\ closing' # "no" \/ closing = "no"
          /\ closing' \in {"no", "closing", "closed"}
          /\ failed' \subseteq {"server", "poller", "backend"} /\ failed \subseteq failed'
          /\ closing' = "closed" \/ "backend" \in failed'
      BY <3>2 DEF IInv, TypeOK
    <3>4. proc' \in {"exit0", "exit1"} /\ (proc' = "exit0" => exitCode = 0)
      BY <3>1 DEF Exit
    <3>5. TypeOK'
      BY <3>1, <3>3, <3>4 DEF IInv, TypeOK
    <3>6. TornDown' /\ LastStep'
      BY <3>1, <3>3 DEF IInv, TornDown, LastStep
    <3>7. InstalledEarly' /\ LetGoByShutdown' /\ CodeOfCause'
      BY <3>1, <3>3 DEF IInv, InstalledEarly, LetGoByShutdown, CodeOfCause
    <3>8. CleanExit' /\ StartupOrder'
      BY <3>1, <3>4 DEF IInv, CleanExit, StartupOrder, Alive
    <3> QED
      BY <3>5, <3>6, <3>7, <3>8 DEF IInv
  <2> QED
    BY <1>2, <2>3, <2>4, <2>5, <2>6, <2>7 DEF Stopping
<1>3. CASE Polling
  <2> USE DEF IInv, TypeOK, InstalledEarly, LetGoByShutdown, TornDown, LastStep,
              CodeOfCause, CleanExit, StartupOrder, Alive, net, back, polling, shutdown
  <2>1. CASE Cycle
    BY <2>1 DEF Cycle
  <2>2. CASE CycleEnds
    <3>1. cached' \in BOOLEAN
      BY <2>2 DEF CycleEnds
    <3> QED
      BY <2>2, <3>1 DEF CycleEnds
  <2>3. CASE LoopEnds
    BY <2>3 DEF LoopEnds
  <2> QED
    BY <1>3, <2>1, <2>2, <2>3 DEF Polling
<1>4. CASE Serving
  <2> USE DEF IInv, TypeOK, InstalledEarly, LetGoByShutdown, TornDown, LastStep,
              CodeOfCause, CleanExit, StartupOrder, Alive, net, back, polling, shutdown
  <2>1. CASE Request
    BY <2>1, ProcessAssumption DEF Request, Accepts
  <2>2. CASE Answer
    BY <2>2, ProcessAssumption DEF Answer
  <2> QED
    BY <1>4, <2>1, <2>2 DEF Serving
<1>5. CASE UNCHANGED vars
  BY <1>5
  DEF vars, IInv, TypeOK, InstalledEarly, LetGoByShutdown, TornDown, LastStep,
      CodeOfCause, CleanExit, StartupOrder, net, back, polling, shutdown
<1> QED
  BY <1>1, <1>2, <1>3, <1>4, <1>5 DEF Next

LEMMA Inductive == Spec => []IInv
BY InitIInv, NextIInv, PTL DEF Spec

-----------------------------------------------------------------------------
\* Every variable keeps its type; no more than MaxConns requests are answered
\* at once (server.ts, maxConnections).
THEOREM TypeCorrect == Spec => []TypeOK
<1>1. IInv => TypeOK
  BY DEF IInv
<1> QED
  BY Inductive, <1>1, PTL

\* A bound port means handlers that catch a signal, and a backend that starts
\* up means a port that answers probes (index.ts, main()).
THEOREM StartupIsOrdered == Spec => []StartupOrder
<1>1. IInv => StartupOrder
  BY DEF IInv
<1> QED
  BY Inductive, <1>1, PTL

\* With exit code 0 the whole sequence of lifecycle.ts has run, also past a
\* step that threw, and what it has left undone is what that step was to do.
THEOREM CleanExitHolds == Spec => []CleanExitIsComplete
<1>1. IInv => CleanExitIsComplete
  BY DEF IInv, TypeOK, TornDown, LastStep, CleanExit, CleanExitIsComplete
<1> QED
  BY Inductive, <1>1, PTL

\* The shutdown() of lifecycle.ts keeps the code of its first call.
THEOREM FirstCauseHolds == Spec => FirstCauseDecides
<1>1. IInv => (proc = "exit0" => trigger = "signal")
  BY DEF IInv, CleanExit, CodeOfCause
<1>2. IInv /\ [Next]_vars
        => [trigger # "none" => trigger' = trigger /\ exitCode' = exitCode]_vars
  <2> SUFFICES ASSUME IInv, Next, trigger # "none"
               PROVE  trigger' = trigger /\ exitCode' = exitCode
    OBVIOUS
  <2>1. shut # "none"
    BY DEF IInv, CodeOfCause
  <2> QED
    BY <2>1
    DEF Next, Startup, Stopping, Polling, Serving, shutdown, Shutdown,
        ConfigFails, ReturnsEarly, StartServer, Binds, BindFails, InitBackend,
        InitSucceeds, InitFails,
        Signal, Uncaught, ServerStopped, BackendClosed, HardExit,
        Cycle, CycleEnds, LoopEnds, Request, Answer
<1> QED
  BY Inductive, <1>1, <1>2, PTL DEF Spec, FirstCauseDecides

\* A cycle that outlives poller.stop() publishes nothing, also when start()
\* follows stop() (poller.ts, runCycle).
THEOREM NothingFollowsStop == Spec => NothingAfterStop
<1>1. [Next]_vars => [aborted => cached' = cached]_vars
  <2> SUFFICES ASSUME Next, aborted PROVE cached' = cached
    OBVIOUS
  <2> QED
    BY DEF Next, Startup, Stopping, Polling, Serving, polling, Discards,
        ConfigFails, ReturnsEarly, StartServer, Binds, BindFails, InitBackend,
        InitSucceeds, InitFails,
        Signal, Uncaught, ServerStopped, BackendClosed, HardExit,
        Cycle, CycleEnds, LoopEnds, Request, Answer
<1> QED
  BY <1>1, PTL DEF Spec, NothingAfterStop
=============================================================================
