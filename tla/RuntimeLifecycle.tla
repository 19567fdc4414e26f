--------------------------- MODULE RuntimeLifecycle ---------------------------
(***************************************************************************)
(* The life of the server process (apps/server/src/index.ts): main(),      *)
(* which listens and starts the FinanceRuntime, and the shutdowns that     *)
(* signals begin, over the runtime's start() and stop() (packages/core,    *)
(* runtime.ts), the phases of its LifecycleManager (lifecycle.ts) and the  *)
(* registries it starts and stops (registries.ts).                         *)
(*                                                                         *)
(* Plugins and services may wait for I/O when they start and stop, one     *)
(* after the other in the order of their registration; the agents and the  *)
(* changes of phase do not.  So the phases registering, starting and       *)
(* stopping are over before anything else runs.  Phases have no hooks.     *)
(* Once the server listens, the API starts and stops agents in any phase   *)
(* (core/server.ts).                                                       *)
(***************************************************************************)
EXTENDS Naturals, Sequences

CONSTANTS Plugins,     \* the plugins, in the order of their registration
          Services,    \* and the services
          RuntimeAgent,
          Shutdown     \* the signals, each with its shutdown

\* start() goes through the plugins first, stop() through the services.
StartOrder == Plugins \o Services

StopOrder == Services \o Plugins

Infrastructure == {StartOrder[i] : i \in DOMAIN StartOrder}

Component == Infrastructure \cup RuntimeAgent

ASSUME LifecycleAssumption ==
    /\ Plugins \in Seq({Plugins[i] : i \in DOMAIN Plugins})
    /\ Services \in Seq({Services[i] : i \in DOMAIN Services})
    /\ RuntimeAgent \cap Infrastructure = {}
    /\ StartOrder # <<>>

VARIABLES lifecycle,  \* the phase of the LifecycleManager
          component,  \* the state of each component
          mainAt,     \* where main() is
          started,    \* how many of StartOrder start() has been through
          drained,    \* how many of StopOrder stop() has been through
          shutdown,   \* where each shutdown is
          asked,      \* history: the agents whose last order was an API stop
          exit        \* the exit code of the process

lifecycleVars ==
    <<lifecycle, component, mainAt, started, drained, shutdown, asked, exit>>

LifecycleTypeOK ==
    /\ lifecycle \in {"created", "initializing", "running", "draining", "stopped"}
    /\ component \in [Component -> {"registered", "active", "failed", "stopped"}]
    /\ mainAt \in {"listening", "starting", "started"}
    /\ {started, drained} \subseteq 0 .. Len(StartOrder)
    /\ shutdown \in [Shutdown -> {"none", "draining", "closing", "exited"}]
    /\ asked \subseteq RuntimeAgent
    /\ exit \in {"none", "success", "failure"}

LifecycleInit ==
    /\ lifecycle = "created"
    /\ component = [c \in Component |-> "registered"]
    /\ mainAt = "listening"
    /\ started = 0
    /\ drained = 0
    /\ shutdown = [d \in Shutdown |-> "none"]
    /\ asked = {}
    /\ exit = "none"

Alive == exit = "none"

-----------------------------------------------------------------------------
(* main().                                                                 *)

\* The server listens, and start() begins; the phase of a runtime that was
\* stopped before it started is reset.  Or main() fails before that.
Listen ==
    /\ Alive
    /\ mainAt = "listening"
    /\ \/ /\ lifecycle' = "initializing"
          /\ mainAt' = "starting"
          /\ UNCHANGED exit
       \/ /\ exit' = "failure"
          /\ UNCHANGED <<lifecycle, mainAt>>
    /\ UNCHANGED <<component, started, drained, shutdown, asked>>

\* Seeded fault: advance() does not look at the phase it leaves.
MayAdvance_Always == TRUE

\* advance() throws when a shutdown has taken the phase out of the startup.
MayAdvance == lifecycle = "initializing"

\* The next plugin or service has started, or has failed to.  After the
\* last one the agents start at once, and the runtime runs.
StartNext ==
    /\ Alive
    /\ mainAt = "starting"
    /\ started' = started + 1
    /\ \E outcome \in {"active", "failed"} :
         LET begun == [component EXCEPT ![StartOrder[started']] = outcome]
         IN  IF started' < Len(StartOrder)
             THEN /\ component' = begun
                  /\ UNCHANGED <<lifecycle, mainAt, asked, exit>>
             ELSE IF MayAdvance
             THEN /\ component' = [c \in Component |->
                         IF c \in RuntimeAgent THEN "active" ELSE begun[c]]
                  /\ lifecycle' = "running"
                  /\ mainAt' = "started"
                  /\ asked' = {}
                  /\ UNCHANGED exit
             ELSE /\ component' = begun
                  /\ exit' = "failure"
                  /\ UNCHANGED <<lifecycle, mainAt, asked>>
    /\ UNCHANGED <<drained, shutdown>>

-----------------------------------------------------------------------------
(* The shutdowns.                                                          *)

MoveShutdown(d, s) == shutdown' = [shutdown EXCEPT ![d] = s]

\* A signal before start(): the phases are gone through at once.
SignalCreated(d) ==
    /\ lifecycle = "created"
    /\ lifecycle' = "stopped"
    /\ MoveShutdown(d, "closing")
    /\ UNCHANGED <<component, drained, exit, asked>>

\* A signal once the runtime is stopped: stop() has nothing to do.
SignalStopped(d) ==
    /\ lifecycle = "stopped"
    /\ MoveShutdown(d, "closing")
    /\ UNCHANGED <<lifecycle, component, drained, exit, asked>>

\* A signal while the runtime starts or runs: the agents stop first.
SignalRunning(d) ==
    /\ lifecycle \in {"initializing", "running"}
    /\ lifecycle' = "draining"
    /\ component' = [c \in Component |->
                       IF c \in RuntimeAgent THEN "stopped" ELSE component[c]]
    /\ asked' = {}
    /\ drained' = 0
    /\ MoveShutdown(d, "draining")
    /\ UNCHANGED exit

\* A signal while another shutdown drains: stop() throws, as the phase cannot
\* go back to stopping, and the finally clause ends the process.
SignalDraining(d) ==
    /\ lifecycle = "draining"
    /\ MoveShutdown(d, "exited")
    /\ exit' = "success"
    /\ UNCHANGED <<lifecycle, component, drained, asked>>

ReceiveSignal(d) ==
    /\ Alive
    /\ shutdown[d] = "none"
    /\ SignalCreated(d) \/ SignalStopped(d) \/ SignalRunning(d) \/ SignalDraining(d)
    /\ UNCHANGED <<mainAt, started>>

\* The next service or plugin has stopped, or has failed to.  After the
\* last one the runtime is stopped, and the server is closed.
StopNext(d) ==
    /\ Alive
    /\ shutdown[d] = "draining"
    /\ drained' = drained + 1
    /\ \E outcome \in {"stopped", "failed"} :
         component' = [component EXCEPT ![StopOrder[drained']] = outcome]
    /\ IF drained' < Len(StopOrder)
       THEN UNCHANGED <<lifecycle, shutdown>>
       ELSE lifecycle' = "stopped" /\ MoveShutdown(d, "closing")
    /\ UNCHANGED <<mainAt, started, asked, exit>>

\* server.close() settles, and the process ends.
CloseServer(d) ==
    /\ Alive
    /\ shutdown[d] = "closing"
    /\ MoveShutdown(d, "exited")
    /\ exit' = "success"
    /\ UNCHANGED <<lifecycle, component, mainAt, started, drained, asked>>

-----------------------------------------------------------------------------
(* POST /api/agents/:id/start and /stop, whatever the phase.               *)

ApiServes == Alive /\ mainAt # "listening"

StartAgentByApi(c) ==
    /\ ApiServes
    /\ component' = [component EXCEPT ![c] = "active"]
    /\ asked' = asked \ {c}
    /\ UNCHANGED <<lifecycle, mainAt, started, drained, shutdown, exit>>

StopAgentByApi(c) ==
    /\ ApiServes
    /\ component' = [component EXCEPT ![c] = "stopped"]
    /\ asked' = asked \cup {c}
    /\ UNCHANGED <<lifecycle, mainAt, started, drained, shutdown, exit>>

LifecycleNext ==
    \/ Listen \/ StartNext
    \/ \E d \in Shutdown : ReceiveSignal(d) \/ StopNext(d) \/ CloseServer(d)
    \/ \E c \in RuntimeAgent : StartAgentByApi(c) \/ StopAgentByApi(c)

LifecycleSpec == LifecycleInit /\ [][LifecycleNext]_lifecycleVars

-----------------------------------------------------------------------------
(* Properties.                                                             *)

\* "Phases are strict" (lifecycle.ts:59): the runtime says "running" only
\* while every plugin and service has been started, or has failed to, and
\* none was stopped again; every agent runs but those that the API was asked
\* to stop since they all started; and no shutdown drains, whenever the
\* signals and the requests came.
RunningIsWhole ==
    lifecycle = "running" =>
        /\ \A c \in Infrastructure : component[c] \in {"active", "failed"}
        /\ \A c \in RuntimeAgent \ asked : component[c] = "active"
        /\ \A d \in Shutdown : shutdown[d] # "draining"
=============================================================================
