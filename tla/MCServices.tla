------------------------------ MODULE MCServices ------------------------------
(* The services around the trading core, each explored by itself from the    *)
(* initial state that moves it: they share no state and no action.  The      *)
(* AgentRuntime is explored twice, once for its registry and its file with   *)
(* one run, once for its runs with one coworker that comes and goes.         *)
EXTENDS FinanceGateway, Supervisor, AgentRuntime, CodingSessions,
        RuntimeLifecycle, ProviderConnections

CONSTANTS a1, a2, a3, k1, k2, i1, i2,      \* the gateway's
          j1, s1, s2, g1, g2, x1, x2,      \* the supervisor's
          w1, w2, r1, r2, r3,              \* the coworkers and their runs
          p1, v1, v2                       \* a plugin and two services

ASSUME MembersAssumption == w1 \in Coworker /\ r1 \in Run

VARIABLE part  \* the part that moves

\* Two requests of one idempotency key, and one more of their correlation id.
MCRequestKey == [r \in TradeRequest |-> IF r = a3 THEN k2 ELSE k1]

MCRequestCorr == [r \in TradeRequest |-> IF r = a2 THEN i2 ELSE i1]

\* Two signals and a plan share an id, and a correlation id.
MCProposalOf == [o \in Signal \cup Plan |-> IF o = g2 THEN x2 ELSE x1]

MCCorrelationOf == [o \in Signal \cup Plan |-> IF o = g2 THEN i1 ELSE j1]

\* The steps of the trade plan, and of a plan without a trade.
MCStepsOf == [p \in Plan |-> IF p = g1 THEN <<"tool", "tool", "trade", "tool">>
                                       ELSE <<"tool", "agent">>]

\* Two runs of one coworker, and one of the built-in one.
MCCoworkerOf == [r \in Run |-> IF r = r3 THEN w2 ELSE w1]

MCPlugins == <<p1>>

MCServiceOrder == <<v1, v2>>

ServicesInit ==
    /\ part \in {"gateway", "supervisor", "registry", "runs", "sessions",
                "lifecycle", "providers"}
    /\ GatewayInit
    /\ SupervisorInit
    /\ RuntimeInit
    /\ CodingInit
    /\ LifecycleInit
    /\ ProvidersInit

RegistryNext ==
    \/ RegistryStep
    \/ RestartRuntime
    \/ RunStep(r1)

RunsNext ==
    \/ RegisterAgent(w1) \/ Archive(w1) \/ DeleteAgent(w1)
    \/ \E c \in Coworker : StopAgentRun(c)
    \/ \E r \in Run : RunStep(r)

ServicesNext ==
    \/ /\ part = "gateway" /\ GatewayNext
       /\ UNCHANGED <<supervisorVars, runtimeVars, sessionVars,
                      lifecycleVars, providerVars, part>>
    \/ /\ part = "supervisor" /\ SupervisorNext
       /\ UNCHANGED <<gatewayVars, runtimeVars, sessionVars,
                      lifecycleVars, providerVars, part>>
    \/ /\ part = "registry" /\ RegistryNext
       /\ UNCHANGED <<gatewayVars, supervisorVars, sessionVars,
                      lifecycleVars, providerVars, part>>
    \/ /\ part = "runs" /\ RunsNext
       /\ UNCHANGED <<gatewayVars, supervisorVars, sessionVars,
                      lifecycleVars, providerVars, part>>
    \/ /\ part = "sessions" /\ CodingNext
       /\ UNCHANGED <<gatewayVars, supervisorVars, runtimeVars,
                      lifecycleVars, providerVars, part>>
    \/ /\ part = "lifecycle" /\ LifecycleNext
       /\ UNCHANGED <<gatewayVars, supervisorVars, runtimeVars,
                      sessionVars, providerVars, part>>
    \/ /\ part = "providers" /\ ProvidersNext
       /\ UNCHANGED <<gatewayVars, supervisorVars, runtimeVars,
                      sessionVars, lifecycleVars, part>>

servicesVars == <<gatewayVars, supervisorVars, runtimeVars, sessionVars,
                  lifecycleVars, providerVars, part>>

ServicesSpec == ServicesInit /\ [][ServicesNext]_servicesVars /\ GatewayFairness

\* The type invariants of the parts.
ServicesTypeOK ==
    /\ GatewayTypeOK
    /\ SupervisorTypeOK
    /\ RuntimeTypeOK
    /\ CodingTypeOK
    /\ LifecycleTypeOK
    /\ ProvidersTypeOK
=============================================================================
