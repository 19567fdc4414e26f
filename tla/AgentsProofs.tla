----------------------------- MODULE AgentsProofs -----------------------------
(***************************************************************************)
(* Proofs about the agents and what they ask for: the coworkers' runs of   *)
(* the AgentRuntime, the requests of the FinanceGateway and the plans of   *)
(* the Supervisor, for any coworkers, runs, requests, signals and plans,   *)
(* any limits and any number of restarts.                                  *)
(***************************************************************************)
EXTENDS AgentRuntime, FinanceGateway, Supervisor, FiniteSetTheorems, TLAPS

-----------------------------------------------------------------------------
(* The coworkers' runs.                                                    *)

\* The type invariant of the registry, and that of the runs.
RegistryTyped ==
    /\ registered \in Registry
    /\ agentsFile \in Registry
    /\ unread \in Registry
    /\ agentSaves \subseteq Registry
    /\ loading \in {"reading", "registering", "over"}
    /\ boots \in 0 .. MaxBoots

RunsTyped ==
    /\ active \in [Coworker -> Run \cup {NoRun}]
    /\ aborted \subseteq Run
    /\ stage \in [Run -> LiveStage \cup {"new", "over"}]
    /\ turns \in [Run -> 0 .. MaxIterations]
    /\ base \in [Run -> Seq(Run)]
    /\ conv \in [Coworker -> Seq(Run)]
    /\ convFile \in [Coworker -> Seq(Run)]

\* The lock has a run under its own coworker, and no other.
LockOfOwnCoworker ==
    \A c \in Coworker : active[c] # NoRun => CoworkerOf[active[c]] = c

RuntimeInv == RegistryTyped /\ RunsTyped /\ LockOfOwnCoworker

LEMMA RuntimeTyped == RuntimeInv => RuntimeTypeOK
BY DEF RuntimeInv, RegistryTyped, RunsTyped, RuntimeTypeOK

\* What a step does with the entries of the lock.
LockKept ==
    \A c \in Coworker : active[c] # NoRun =>
        \/ active'[c] # NoRun
        \/ active[c] \in aborted'
        \/ stage'[active[c]] \notin LiveStage

\* And what it does with aborted runs.
AbortedRest ==
    \A r \in aborted : /\ turns'[r] <= turns[r]
                       /\ stage'[r] = "tools" => stage[r] = "tools"

\* All that a step has to keep of the runs.
RunsKept ==
    RunsTyped' /\ LockOfOwnCoworker' /\ LockKept /\ AbortedRest

LEMMA RuntimeInvInit == RuntimeInit => RuntimeInv
<1> SUFFICES ASSUME RuntimeInit PROVE RuntimeInv
    OBVIOUS
<1>1. Defaults \in Registry /\ Nobody \in Registry
    BY DEF Defaults, Nobody, Registry
<1>2. RegistryTyped
    BY <1>1, AgentRuntimeAssumption DEF RuntimeInit, RegistryTyped
<1>3. RunsTyped /\ LockOfOwnCoworker
    BY AgentRuntimeAssumption DEF RuntimeInit, RunsTyped, LockOfOwnCoworker
<1> QED
    BY <1>2, <1>3 DEF RuntimeInv

-----------------------------------------------------------------------------
(* Steps of the registry.                                                  *)

LEMMA SetRegisteredTyped ==
    ASSUME RegistryTyped, NEW c \in Coworker,
           NEW status \in {"absent", "active", "archived"},
           SetRegistered(c, status)
    PROVE  RegistryTyped'
<1>1. registered' \in Registry
    BY DEF SetRegistered, RegistryTyped, Registry
<1> QED
    BY <1>1 DEF SetRegistered, RegistryTyped

LEMMA RunsUnchanged ==
    ASSUME RunsTyped, LockOfOwnCoworker, UNCHANGED runVars
    PROVE  RunsKept
BY DEF runVars, RunsKept, RunsTyped, LockOfOwnCoworker, LockKept, AbortedRest

LEMMA CancelAgentKeeps ==
    ASSUME RunsTyped, LockOfOwnCoworker, NEW c \in Coworker, CancelAgent(c)
    PROVE  RunsKept
<1>1. RunsTyped'
    BY DEF CancelAgent, RunsTyped
<1>2. LockOfOwnCoworker' /\ LockKept
    BY DEF CancelAgent, RunsTyped, LockOfOwnCoworker, LockKept
<1>3. AbortedRest
    BY DEF CancelAgent, RunsTyped, AbortedRest
<1> QED
    BY <1>1, <1>2, <1>3 DEF RunsKept

LEMMA RegistryStepKeeps ==
    ASSUME RuntimeInv, RegistryStep
    PROVE  RegistryTyped' /\ RunsKept
<1> RegistryTyped /\ RunsTyped /\ LockOfOwnCoworker
    BY DEF RuntimeInv
<1> USE RunsUnchanged, CancelAgentKeeps, SetRegisteredTyped
<1>1. ASSUME NEW c \in Coworker,
             \/ RegisterAgent(c) \/ UpdateAgent(c)
             \/ Archive(c) \/ Unarchive(c) \/ DeleteAgent(c)
      PROVE  RegistryTyped' /\ RunsKept
    <2>1. registered[c] \in {"absent", "active", "archived"}
        BY DEF RegistryTyped, Registry
    <2> QED
        BY <1>1, <2>1
        DEF RegisterAgent, UpdateAgent, Archive, Unarchive, DeleteAgent
<1>2. ASSUME NEW c \in Coworker, LoadAgent(c)
      PROVE  RegistryTyped' /\ RunsKept
    <2>1. registered' \in Registry /\ unread' \in Registry
        BY <1>2 DEF LoadAgent, RegistryTyped, Registry
    <2>2. RegistryTyped'
        BY <1>2, <2>1 DEF LoadAgent, LoadingAfter, RegistryTyped
    <2>3. RunsKept
        BY <1>2
        DEF LoadAgent, RunsKept, RunsTyped, LockOfOwnCoworker, LockKept,
            AbortedRest
    <2> QED
        BY <2>2, <2>3
<1>3. CASE ReadAgents
    BY <1>3 DEF ReadAgents, LoadingAfter, RegistryTyped
<1>4. ASSUME NEW saved \in agentSaves, WriteAgents(saved)
      PROVE  RegistryTyped' /\ RunsKept
    BY <1>4 DEF WriteAgents, RegistryTyped
<1> QED
    BY <1>1, <1>2, <1>3, <1>4 DEF RegistryStep

LEMMA RestartRuntimeKeeps ==
    ASSUME RuntimeInv, RestartRuntime
    PROVE  RegistryTyped' /\ RunsKept
<1>1. Defaults \in Registry /\ Nobody \in Registry
    BY DEF Defaults, Nobody, Registry
<1>2. RegistryTyped'
    BY <1>1, AgentRuntimeAssumption DEF RestartRuntime, RuntimeInv, RegistryTyped
<1>3. \A r \in Run : stage'[r] \in {"new", "over"} /\ turns'[r] = 0
    BY DEF RestartRuntime, RuntimeInv, RunsTyped, LiveStage
<1>4. RunsTyped'
    BY AgentRuntimeAssumption
    DEF RestartRuntime, RuntimeInv, RunsTyped, LiveStage
<1>5. LockOfOwnCoworker' /\ LockKept
    BY <1>3
    DEF RestartRuntime, RuntimeInv, RunsTyped, LockOfOwnCoworker, LockKept,
        LiveStage
<1>6. AbortedRest
    <2> SUFFICES ASSUME NEW r \in aborted
                 PROVE  turns'[r] <= turns[r] /\ stage'[r] # "tools"
        BY DEF AbortedRest
    <2>1. r \in Run /\ turns[r] \in 0 .. MaxIterations
        BY DEF RuntimeInv, RunsTyped
    <2> QED
        BY <1>3, <2>1, AgentRuntimeAssumption
<1> QED
    BY <1>2, <1>4, <1>5, <1>6 DEF RunsKept

-----------------------------------------------------------------------------
(* Steps of a run.                                                         *)

\* A run that takes the lock aborts the others it drops.
LEMMA TakeLockKeeps ==
    ASSUME RunsTyped, LockOfOwnCoworker, NEW r \in Run, TakeLock(r)
    PROVE  /\ active' \in [Coworker -> Run \cup {NoRun}]
           /\ aborted' \subseteq Run
           /\ LockOfOwnCoworker'
           /\ LockKept
<1>1. \A c \in Coworker : active[c] \in Run \cup {NoRun}
    BY DEF RunsTyped
<1>2. Others(r) \subseteq Run
    BY <1>1 DEF Others
<1>3. \A c \in Coworker : active[c] # NoRun /\ c # CoworkerOf[r] => active[c] \in aborted'
    BY DEF TakeLock, Others
<1>4. active'[CoworkerOf[r]] = r /\ r # NoRun
    BY AgentRuntimeAssumption DEF TakeLock
<1> QED
    BY <1>1, <1>2, <1>3, <1>4, AgentRuntimeAssumption
    DEF TakeLock, RunsTyped, LockOfOwnCoworker, LockKept

\* A step within a run changes its stage and the conversation.
LEMMA WithinRunKeeps ==
    ASSUME RunsTyped, LockOfOwnCoworker, NEW r \in Run,
           NEW s \in LiveStage, MoveTo(r, s),
           r \in aborted => s # "tools" /\ turns' = turns,
           turns' \in {turns, [turns EXCEPT ![r] = @ + 1]},
           turns' # turns => turns[r] < MaxIterations,
           base' \in [Run -> Seq(Run)],
           conv' \in [Coworker -> Seq(Run)],
           UNCHANGED <<active, aborted, convFile>>
    PROVE  RunsKept
<1>1. /\ stage' \in [Run -> LiveStage \cup {"new", "over"}]
      /\ \A q \in Run : q # r => stage'[q] = stage[q]
      /\ stage'[r] = s
    BY DEF MoveTo, RunsTyped
<1>2. /\ turns' \in [Run -> 0 .. MaxIterations]
      /\ \A q \in aborted : turns'[q] <= turns[q]
    <2>1. CASE turns' = turns
        BY <2>1, AgentRuntimeAssumption DEF RunsTyped
    <2>2. CASE turns' # turns /\ turns' = [turns EXCEPT ![r] = @ + 1]
        <3>1. r \notin aborted /\ turns[r] + 1 \in 0 .. MaxIterations
            BY <2>2, AgentRuntimeAssumption DEF RunsTyped
        <3> QED
            BY <2>2, <3>1, AgentRuntimeAssumption DEF RunsTyped
    <2> QED
        BY <2>1, <2>2
<1>3. RunsTyped'
    BY <1>1, <1>2 DEF RunsTyped
<1>4. LockOfOwnCoworker' /\ LockKept
    BY DEF LockOfOwnCoworker, LockKept
<1>5. AbortedRest
    BY <1>1, <1>2 DEF AbortedRest, RunsTyped
<1> QED
    BY <1>3, <1>4, <1>5 DEF RunsKept

\* A run that is over, and keeps or frees its own entry.
LEMMA FinishKeeps ==
    ASSUME RunsTyped, LockOfOwnCoworker, NEW r \in Run, Finish(r),
           active' \in {active, Unlocked(r)},
           convFile' \in [Coworker -> Seq(Run)], UNCHANGED conv
    PROVE  RunsKept
<1>1. /\ stage' \in [Run -> LiveStage \cup {"new", "over"}]
      /\ \A q \in Run : q # r => stage'[q] = stage[q]
      /\ stage'[r] = "over"
    BY DEF Finish, MoveTo, RunsTyped
<1>2. /\ active' \in [Coworker -> Run \cup {NoRun}]
      /\ \A c \in Coworker : active'[c] # active[c] => active[c] = r /\ active'[c] = NoRun
    BY AgentRuntimeAssumption DEF Unlocked, RunsTyped
<1>3. RunsTyped'
    <2>1. turns' \in [Run -> 0 .. MaxIterations] /\ base' \in [Run -> Seq(Run)]
        BY AgentRuntimeAssumption DEF Finish, RunsTyped
    <2> QED
        BY <1>1, <1>2, <2>1 DEF Finish, RunsTyped
<1>4. LockOfOwnCoworker' /\ LockKept
    BY <1>1, <1>2 DEF LockOfOwnCoworker, LockKept, LiveStage
<1>5. AbortedRest
    BY <1>1, AgentRuntimeAssumption DEF Finish, AbortedRest, RunsTyped
<1> QED
    BY <1>3, <1>4, <1>5 DEF RunsKept

LEMMA RunStepKeeps ==
    ASSUME RuntimeInv, NEW r \in Run, RunStep(r)
    PROVE  RunsKept
<1> RunsTyped /\ LockOfOwnCoworker
    BY DEF RuntimeInv
<1> DEFINE c == CoworkerOf[r]
<1>1. c \in Coworker
    BY AgentRuntimeAssumption
<1> HIDE DEF c
<1>2. CASE StartRun(r)
    <2>1. stage' \in [Run -> LiveStage \cup {"new", "over"}]
        BY <1>2 DEF StartRun, MoveTo, RunsTyped, LiveStage
    <2>2. TakeLock(r) /\ UNCHANGED <<turns, base, conv, convFile>>
        BY <1>2 DEF StartRun
    <2>3. RunsTyped' /\ LockOfOwnCoworker' /\ LockKept
        BY <2>1, <2>2, TakeLockKeeps DEF RunsTyped
    <2>4. AbortedRest
        BY <1>2 DEF StartRun, MoveTo, AbortedRest, RunsTyped
    <2> QED
        BY <2>3, <2>4 DEF RunsKept
<1>3. CASE Regenerate(r)
    <2>1. /\ conv[c] \in Seq(Run) \ {<<>>}
          /\ conv' = [conv EXCEPT ![c] = SubSeq(@, 1, Len(@) - 1)]
        BY <1>1, <1>3 DEF Regenerate, RunsTyped, c
    <2>2. SubSeq(conv[c], 1, Len(conv[c]) - 1) \in Seq(Run)
        BY <2>1
    <2>3. conv' \in [Coworker -> Seq(Run)] /\ base' \in [Run -> Seq(Run)]
        BY <1>1, <1>3, <2>1, <2>2 DEF Regenerate, RunsTyped, c
    <2> QED
        BY <1>3, <2>3, WithinRunKeeps DEF Regenerate, LiveStage
<1>4. CASE Rerun(r)
    <2>1. stage' \in [Run -> LiveStage \cup {"new", "over"}]
        BY <1>4 DEF Rerun, MoveTo, RunsTyped, LiveStage
    <2>2. convFile' \in [Coworker -> Seq(Run)]
        BY <1>4 DEF Rerun, RunsTyped
    <2>3. TakeLock(r) /\ UNCHANGED <<turns, base, conv>>
        BY <1>4 DEF Rerun
    <2>4. RunsTyped' /\ LockOfOwnCoworker' /\ LockKept
        BY <2>1, <2>2, <2>3, TakeLockKeeps DEF RunsTyped
    <2>5. AbortedRest
        BY <1>4 DEF Rerun, MoveTo, AbortedRest, RunsTyped
    <2> QED
        BY <2>4, <2>5 DEF RunsKept
<1>5. CASE RouteFails(r)
    BY <1>5, FinishKeeps DEF RouteFails, RunsTyped
<1>6. ASSUME BeginTurn(r), base' \in [Run -> Seq(Run)],
             UNCHANGED <<active, aborted, convFile>>
      PROVE  RunsKept
    BY <1>6, WithinRunKeeps DEF BeginTurn, TakesTurn, RunsTyped, LiveStage
<1>7. ASSUME NEW history \in Seq(Run), BeginSave(r, history),
             base' \in [Run -> Seq(Run)], UNCHANGED <<active, aborted, convFile>>
      PROVE  RunsKept
    <2>1. Append(history, r) \in Seq(Run)
        OBVIOUS
    <2>2. conv' \in [Coworker -> Seq(Run)]
        BY <1>7, <2>1 DEF BeginSave, RunsTyped
    <2> QED
        BY <1>7, <2>2, WithinRunKeeps DEF BeginSave, LiveStage
<1>8. CASE Route(r)
    <2>1. base' \in [Run -> Seq(Run)] /\ base'[r] \in Seq(Run)
        BY <1>1, <1>8 DEF Route, RunsTyped, c
    <2> QED
        BY <1>6, <1>7, <1>8, <2>1 DEF Route
<1>9. CASE CallTools(r)
    BY <1>9, WithinRunKeeps DEF CallTools, MayCallTools, RunsTyped, LiveStage
<1>10. CASE EndTurns(r)
    BY <1>7, <1>10 DEF EndTurns, RunsTyped
<1>11. CASE Abandon(r)
    BY <1>11, FinishKeeps DEF Abandon, RunsTyped
<1>12. CASE ToolsAnswer(r)
    BY <1>6, <1>7, <1>12 DEF ToolsAnswer, RunsTyped
<1>13. CASE EndRun(r)
    <2>1. Append(base[r], r) \in Seq(Run)
        BY DEF RunsTyped
    <2>2. convFile' \in [Coworker -> Seq(Run)]
        BY <1>13, <2>1 DEF EndRun, RunsTyped
    <2> QED
        BY <1>13, <2>2, FinishKeeps DEF EndRun
<1> QED
    BY <1>2, <1>3, <1>4, <1>5, <1>8, <1>9, <1>10, <1>11, <1>12, <1>13 DEF RunStep

LEMMA RuntimeInvStep ==
    ASSUME RuntimeInv, [RuntimeNext]_runtimeVars
    PROVE  RuntimeInv' /\ LockKept /\ AbortedRest
<1>1. ASSUME UNCHANGED registryVars
      PROVE  RegistryTyped'
    BY <1>1 DEF registryVars, RuntimeInv, RegistryTyped
<1>2. ASSUME NEW c \in Coworker, StopAgentRun(c)
      PROVE  RegistryTyped' /\ RunsKept
    BY <1>1, <1>2, CancelAgentKeeps DEF StopAgentRun, RuntimeInv
<1>3. ASSUME NEW r \in Run, RunStep(r)
      PROVE  RegistryTyped' /\ RunsKept
    BY <1>1, <1>3, RunStepKeeps DEF RunStep
<1>4. CASE UNCHANGED runtimeVars
    <2>1. UNCHANGED registryVars /\ UNCHANGED runVars
        BY <1>4 DEF runtimeVars
    <2> QED
        BY <1>1, <2>1, RunsUnchanged DEF RuntimeInv, RunsKept
<1> QED
    BY <1>2, <1>3, <1>4, RegistryStepKeeps, RestartRuntimeKeeps
    DEF RuntimeNext, RuntimeInv, RunsKept

LEMMA RuntimeInvAlways == RuntimeSpec => []RuntimeInv
BY RuntimeInvInit, RuntimeInvStep, PTL DEF RuntimeSpec

\* The registry, its saves and its file know the same coworkers, and the
\* runs are in stages the code names (AgentRuntime, agent-runtime.ts:92).
THEOREM RuntimeTypeCorrect == RuntimeSpec => []RuntimeTypeOK
BY RuntimeTyped, RuntimeInvAlways, PTL

\* An aborted run begins no LLM turn and no tool call, wherever the abort
\* meets it (runAgentStream, agent-runtime.ts:839).
THEOREM AbortedRunsStopActingAlways == RuntimeSpec => AbortedRunsStopActing
<1>1. RuntimeInv /\ [RuntimeNext]_runtimeVars =>
        [\A r \in aborted : /\ turns'[r] <= turns[r]
                            /\ stage'[r] = "tools" => stage[r] = "tools"]_runtimeVars
    BY RuntimeInvStep DEF AbortedRest
<1> QED
    BY <1>1, RuntimeInvAlways, PTL DEF RuntimeSpec, AbortedRunsStopActing

\* A run leaves the lock by being over, aborted, or replaced by a newer run
\* of its coworker, and frees no entry but its own
\* (runAgentStream, agent-runtime.ts:935).
THEOREM LockHeldByTheLatestAlways == RuntimeSpec => LockHeldByTheLatest
<1>1. RuntimeInv /\ [RuntimeNext]_runtimeVars =>
        [\A r \in Run : \E c \in Coworker :
            (\A d \in Coworker : active[d] # r) \/
            /\ active[c] = r
            /\ \/ active'[c] \in Run
               \/ r \in aborted' \/ stage'[r] \notin LiveStage]_runtimeVars
    <2> SUFFICES ASSUME RuntimeInv, [RuntimeNext]_runtimeVars, NEW r \in Run
                 PROVE  \E c \in Coworker :
                          (\A d \in Coworker : active[d] # r) \/
                          /\ active[c] = r
                          /\ \/ active'[c] \in Run
                             \/ r \in aborted' \/ stage'[r] \notin LiveStage
        OBVIOUS
    <2>1. CASE \A d \in Coworker : active[d] # r
        BY <2>1, AgentRuntimeAssumption
    <2>2. ASSUME NEW c \in Coworker, active[c] = r
          PROVE  \/ active'[c] \in Run
                 \/ r \in aborted' \/ stage'[r] \notin LiveStage
        BY <2>2, RuntimeInvStep, AgentRuntimeAssumption
        DEF LockKept, RuntimeInv, RunsTyped
    <2> QED
        BY <2>1, <2>2
<1> QED
    BY <1>1, RuntimeInvAlways, PTL DEF RuntimeSpec, LockHeldByTheLatest

-----------------------------------------------------------------------------
(* The finance gateway.                                                    *)

\* A promise in the map is that of a waiting request of its correlation id.
PendingWaits ==
    \A c \in CorrelationId : pendingBy[c] # NoRequest =>
        /\ phase[pendingBy[c]] = "waiting"
        /\ RequestCorr[pendingBy[c]] = c

\* The type invariant of the requests, of the agents and of the trades.
RequestsTyped ==
    /\ phase \in [TradeRequest -> {"idle", "waiting", "joined", "answered"}]
    /\ decision \in [TradeRequest -> Decisions \cup {"none", "refused"}]
    /\ dedup \in [IdempotencyKey -> Decisions \cup {"none"}]
    /\ pendingBy \in [CorrelationId -> TradeRequest \cup {NoRequest}]
    /\ dailyTrades \in Nat

AgentsTyped ==
    /\ listeners \in [Agent -> 0 .. MaxListeners]
    /\ subscribed \in [Agent -> BOOLEAN]
    /\ doubled \subseteq Agent
    /\ held \in BOOLEAN

TradesTyped == {inExecution, fills, position, approvals} \subseteq Nat

\* An agent that knows its latest subscription has one to undo.
SubscribedListens == \A a \in Agent : subscribed[a] => listeners[a] > 0

\* What every step keeps, however often agents are started.
GatewayInv ==
    /\ RequestsTyped
    /\ AgentsTyped
    /\ TradesTyped
    /\ signals \in 0 .. MaxSignals
    /\ PendingWaits
    /\ SubscribedListens

LEMMA GatewayTyped == GatewayInv => GatewayTypeOK
BY DEF GatewayInv, RequestsTyped, AgentsTyped, TradesTyped, GatewayTypeOK

\* An agent that was never started while it ran hears an event once.
HearsOnce ==
    \A a \in Agent \ doubled : listeners[a] = IF subscribed[a] THEN 1 ELSE 0

\* A step with answers keeps the answers given.
AnswersKept ==
    \A k \in IdempotencyKey :
        /\ dedup[k] # "none"
        /\ \A r \in PendingRequests : RequestKey[r] # k
        => dedup'[k] = dedup[k]

LEMMA GatewayInvInit == GatewayInit => GatewayInv /\ HearsOnce /\ OneTradePerApproval
<1> SUFFICES ASSUME GatewayInit
             PROVE  GatewayInv /\ HearsOnce /\ OneTradePerApproval
    OBVIOUS
<1>1. RequestsTyped /\ PendingWaits
    BY DEF GatewayInit, RequestsTyped, PendingWaits
<1>2. AgentsTyped /\ SubscribedListens /\ HearsOnce
    <2>1. \A a \in Agent : listeners[a] = 1 /\ subscribed[a]
        BY DEF GatewayInit
    <2>2. AgentsTyped
        <3>1. 1 \in 0 .. MaxListeners
            BY GatewayAssumption
        <3>2. listeners \in [Agent -> 0 .. MaxListeners]
            BY <3>1 DEF GatewayInit
        <3>3. subscribed \in [Agent -> BOOLEAN]
            BY DEF GatewayInit
        <3>4. held \in BOOLEAN /\ doubled \subseteq Agent
            BY DEF GatewayInit
        <3> QED
            BY <3>2, <3>3, <3>4 DEF AgentsTyped
    <2> QED
        BY <2>1, <2>2 DEF SubscribedListens, HearsOnce
<1>3. TradesTyped /\ OneTradePerApproval /\ signals \in 0 .. MaxSignals
    BY GatewayAssumption DEF GatewayInit, TradesTyped, OneTradePerApproval
<1> QED
    BY <1>1, <1>2, <1>3 DEF GatewayInv

-----------------------------------------------------------------------------
(* Answers.                                                                *)

LEMMA AnsweredTyped ==
    ASSUME RequestsTyped, NEW rs \in SUBSET TradeRequest,
           NEW answer \in Decisions \cup {"refused"}, Answered(rs, answer)
    PROVE  /\ phase' \in [TradeRequest -> {"idle", "waiting", "joined", "answered"}]
           /\ decision' \in [TradeRequest -> Decisions \cup {"none", "refused"}]
           /\ \A s \in TradeRequest : s \notin rs => phase'[s] = phase[s]
<1>1. phase' \in [TradeRequest -> {"idle", "waiting", "joined", "answered"}]
    BY DEF RequestsTyped, Answered
<1>2. decision' \in [TradeRequest -> Decisions \cup {"none", "refused"}]
    BY DEF RequestsTyped, Answered
<1>3. \A s \in TradeRequest : s \notin rs => phase'[s] = phase[s]
    BY DEF Answered
<1> QED
    BY <1>1, <1>2, <1>3

\* The decision of a request that waits, or of one that nothing answered
\* before, tells its holders and no one else.
LEMMA DecideKeeps ==
    ASSUME RequestsTyped, PendingWaits,
           NEW r \in TradeRequest, NEW answer \in Decisions, Decide(r, answer),
           \/ Waiting(r)
           \/ dedup[RequestKey[r]] = "none" /\ pendingBy[RequestCorr[r]] = NoRequest
    PROVE  RequestsTyped' /\ PendingWaits' /\ AnswersKept
<1>1. /\ RequestKey[r] \in IdempotencyKey
      /\ RequestCorr[r] \in CorrelationId
      /\ Holders(r) \subseteq TradeRequest
      /\ Answered(Holders(r), answer)
    BY GatewayAssumption DEF Holders, Decide
<1>2. /\ phase' \in [TradeRequest -> {"idle", "waiting", "joined", "answered"}]
      /\ decision' \in [TradeRequest -> Decisions \cup {"none", "refused"}]
      /\ \A s \in TradeRequest : s \notin Holders(r) => phase'[s] = phase[s]
    BY <1>1, AnsweredTyped
<1>3. /\ dedup' = [dedup EXCEPT ![RequestKey[r]] = answer]
      /\ pendingBy' = [pendingBy EXCEPT ![RequestCorr[r]] = NoRequest]
      /\ dailyTrades' \in {dailyTrades, dailyTrades + 1}
    BY DEF Decide, Forgotten
<1>4. RequestsTyped'
    <2>1. /\ dedup' \in [IdempotencyKey -> Decisions \cup {"none"}]
          /\ pendingBy' \in [CorrelationId -> TradeRequest \cup {NoRequest}]
          /\ dailyTrades' \in Nat
        BY <1>1, <1>3 DEF RequestsTyped
    <2> QED
        BY <1>2, <2>1 DEF RequestsTyped
<1>5. PendingWaits'
    <2> SUFFICES ASSUME NEW c \in CorrelationId, pendingBy'[c] # NoRequest
                 PROVE  /\ phase'[pendingBy'[c]] = "waiting"
                        /\ RequestCorr[pendingBy'[c]] = c
        BY DEF PendingWaits
    <2> DEFINE s == pendingBy[c]
    <2>1. c # RequestCorr[r] /\ pendingBy'[c] = s /\ s \in TradeRequest
        BY <1>1, <1>3 DEF RequestsTyped
    <2>2. phase[s] = "waiting" /\ RequestCorr[s] = c
        BY <2>1 DEF PendingWaits
    <2>3. s \notin Holders(r)
        BY <2>1, <2>2 DEF Holders
    <2> QED
        BY <1>2, <2>1, <2>2, <2>3
<1>6. AnswersKept
    BY <1>1, <1>3 DEF AnswersKept, RequestsTyped, PendingRequests
<1> QED
    BY <1>4, <1>5, <1>6

LEMMA RequestsUnchanged ==
    ASSUME RequestsTyped, PendingWaits, UNCHANGED requestVars
    PROVE  RequestsTyped' /\ PendingWaits' /\ AnswersKept
BY DEF requestVars, RequestsTyped, PendingWaits, AnswersKept

-----------------------------------------------------------------------------
(* The trades.                                                             *)

\* A verdict is heard once by the portfolio agent, and its order once by the
\* execution agent, unless they hear twice.
LEMMA RiskPublishesKeeps ==
    ASSUME TradesTyped, AgentsTyped, NEW verdict, NEW decides,
           RiskPublishes(verdict, decides), UNCHANGED <<fills, position, doubled>>
    PROVE  /\ TradesTyped'
           /\ HearsOnce /\ OneTradePerApproval => OneTradePerApproval'
<1> DEFINE A == listeners["portfolio"]
           E == listeners["execution"]
<1>1. A \in Nat /\ E \in Nat
    BY GatewayAssumption DEF AgentsTyped, Agent
<1>2. HearsOnce /\ doubled \cap {"portfolio", "execution"} = {}
          => A \in {0, 1} /\ E \in {0, 1}
    BY DEF HearsOnce, Agent
<1>3. listeners["risk"] \in Nat
    BY GatewayAssumption DEF AgentsTyped, Agent
<1> HIDE DEF A, E
<1>4. PICK yes \in 0 .. listeners["risk"] :
         /\ approvals' = approvals + yes
         /\ inExecution' = inExecution + yes * 1 * A * E
    BY DEF RiskPublishes, OrdersTaken, A, E
<1>5. yes \in Nat
    BY <1>3, <1>4
<1>6. yes * 1 * A \in Nat
    BY <1>1, <1>5
<1>7. yes * 1 * A * E \in Nat
    BY <1>1, <1>6
<1>8. HearsOnce /\ doubled \cap {"portfolio", "execution"} = {}
          => yes * 1 * A * E <= yes
    BY <1>2, <1>5
<1>9. TradesTyped'
    BY <1>4, <1>5, <1>7 DEF TradesTyped
<1>10. ASSUME HearsOnce, OneTradePerApproval
       PROVE  OneTradePerApproval'
    BY <1>4, <1>5, <1>7, <1>8, <1>10 DEF OneTradePerApproval, TradesTyped
<1> QED
    BY <1>9, <1>10

-----------------------------------------------------------------------------
(* The steps.                                                              *)

\* What a step keeps; an agent has to be doubled to hear twice.
StepKeeps ==
    /\ GatewayInv'
    /\ AnswersKept
    /\ HearsOnce /\ OneTradePerApproval => HearsOnce' /\ OneTradePerApproval'

LEMMA SubmitRequestKeeps ==
    ASSUME GatewayInv, NEW r \in TradeRequest, SubmitRequest(r)
    PROVE  StepKeeps
<1> USE DEF GatewayInv
<1>1. signals' = signals /\ UNCHANGED agentVars
    BY DEF SubmitRequest, ReturnPrior, JoinPending, RefuseRequest,
           DecideAtOnce, StartWaiting
<1>2. AgentsTyped' /\ SubscribedListens' /\ signals' \in 0 .. MaxSignals
    BY <1>1 DEF agentVars, AgentsTyped, SubscribedListens
<1>3. HearsOnce => HearsOnce'
    BY <1>1 DEF agentVars, HearsOnce
<1>4. RequestKey[r] \in IdempotencyKey /\ RequestCorr[r] \in CorrelationId
    BY GatewayAssumption
<1>5. ASSUME NEW answer \in Decisions \cup {"refused"}, phase[r] = "idle",
             Answered({r}, answer), UNCHANGED <<dedup, pendingBy, dailyTrades>>
      PROVE  RequestsTyped' /\ PendingWaits' /\ AnswersKept
    <2>1. /\ phase' \in [TradeRequest -> {"idle", "waiting", "joined", "answered"}]
          /\ decision' \in [TradeRequest -> Decisions \cup {"none", "refused"}]
          /\ \A s \in TradeRequest : s # r => phase'[s] = phase[s]
        BY <1>5, AnsweredTyped
    <2> QED
        BY <1>5, <2>1 DEF RequestsTyped, PendingWaits, AnswersKept
<1>6. CASE ReturnPrior(r)
    <2>1. Prior(r) \in Decisions
        BY <1>4, <1>6 DEF ReturnPrior, Prior, RequestsTyped
    <2>2. RequestsTyped' /\ PendingWaits' /\ AnswersKept
        BY <1>5, <1>6, <2>1 DEF ReturnPrior
    <2>3. UNCHANGED tradeVars
        BY <1>6 DEF ReturnPrior
    <2> QED
        BY <1>1, <1>2, <1>3, <2>2, <2>3
        DEF StepKeeps, agentVars, tradeVars, TradesTyped, OneTradePerApproval
<1>7. CASE JoinPending(r)
    <2>1. /\ phase' = [phase EXCEPT ![r] = "joined"]
          /\ phase[r] = "idle"
          /\ UNCHANGED <<decision, dedup, pendingBy, dailyTrades>>
          /\ UNCHANGED tradeVars
        BY <1>7 DEF JoinPending
    <2>2. RequestsTyped' /\ PendingWaits' /\ AnswersKept
        BY <2>1 DEF RequestsTyped, PendingWaits, AnswersKept
    <2> QED
        BY <1>1, <1>2, <1>3, <2>1, <2>2
        DEF StepKeeps, agentVars, tradeVars, TradesTyped, OneTradePerApproval
<1>8. CASE RefuseRequest(r)
    <2>1. RequestsTyped' /\ PendingWaits' /\ AnswersKept
        BY <1>5, <1>8 DEF RefuseRequest, IsNew
    <2>2. UNCHANGED tradeVars
        BY <1>8 DEF RefuseRequest
    <2> QED
        BY <1>1, <1>2, <1>3, <2>1, <2>2
        DEF StepKeeps, agentVars, tradeVars, TradesTyped, OneTradePerApproval
<1>9. CASE DecideAtOnce(r)
    <2>1. PICK verdict \in {"approved", "rejected"} :
             Decide(r, verdict) /\ RiskPublishes(verdict, TRUE)
        BY <1>9 DEF DecideAtOnce
    <2>2. RequestsTyped' /\ PendingWaits' /\ AnswersKept
        BY <1>9, <2>1, DecideKeeps DEF DecideAtOnce, IsNew, Prior, Decisions
    <2>3. UNCHANGED <<fills, position>>
        BY <1>9 DEF DecideAtOnce
    <2>4. /\ TradesTyped'
          /\ HearsOnce /\ OneTradePerApproval => OneTradePerApproval'
        BY <1>1, <2>1, <2>3, RiskPublishesKeeps DEF agentVars
    <2> QED
        BY <1>2, <1>3, <2>2, <2>4 DEF StepKeeps
<1>10. CASE StartWaiting(r)
    <2>1. /\ phase' = [phase EXCEPT ![r] = "waiting"]
          /\ pendingBy' = [pendingBy EXCEPT ![RequestCorr[r]] = r]
          /\ phase[r] = "idle"
          /\ UNCHANGED <<decision, dedup, dailyTrades>>
          /\ UNCHANGED tradeVars
        BY <1>10 DEF StartWaiting, IsNew
    <2>2. RequestsTyped' /\ AnswersKept
        BY <1>4, <2>1 DEF RequestsTyped, AnswersKept
    <2>3. PendingWaits'
        BY <1>4, <2>1 DEF RequestsTyped, PendingWaits
    <2> QED
        BY <1>1, <1>2, <1>3, <2>1, <2>2, <2>3
        DEF StepKeeps, agentVars, tradeVars, TradesTyped, OneTradePerApproval
<1> QED
    BY <1>6, <1>7, <1>8, <1>9, <1>10 DEF SubmitRequest

LEMMA EvaluateSignalKeeps ==
    ASSUME GatewayInv, NEW c \in CorrelationId, EvaluateSignal(c)
    PROVE  StepKeeps
<1> USE DEF GatewayInv
<1>1. PICK verdict \in {"approved", "rejected"} :
         /\ RiskPublishes(verdict, pendingBy[c] # NoRequest)
         /\ IF pendingBy[c] # NoRequest
            THEN Decide(pendingBy[c], verdict)
            ELSE UNCHANGED requestVars
    BY DEF EvaluateSignal
<1>2. RequestsTyped' /\ PendingWaits' /\ AnswersKept
    <2>1. CASE pendingBy[c] = NoRequest
        BY <1>1, <2>1, RequestsUnchanged
    <2>2. CASE pendingBy[c] # NoRequest
        <3>1. pendingBy[c] \in TradeRequest /\ Waiting(pendingBy[c])
            BY <2>2 DEF PendingWaits, RequestsTyped, Waiting
        <3> QED
            BY <1>1, <2>2, <3>1, DecideKeeps DEF Decisions
    <2> QED
        BY <2>1, <2>2
<1>3. UNCHANGED agentVars /\ UNCHANGED <<fills, position>>
    BY DEF EvaluateSignal
<1>4. /\ TradesTyped'
      /\ HearsOnce /\ OneTradePerApproval => OneTradePerApproval'
    BY <1>1, <1>3, RiskPublishesKeeps DEF agentVars
<1>5. AgentsTyped' /\ SubscribedListens' /\ (HearsOnce => HearsOnce')
    BY <1>3 DEF agentVars, AgentsTyped, SubscribedListens, HearsOnce
<1>6. signals' \in 0 .. MaxSignals
    BY GatewayAssumption DEF EvaluateSignal
<1> QED
    BY <1>2, <1>4, <1>5, <1>6 DEF StepKeeps

LEMMA GatewayInvStep ==
    ASSUME GatewayInv, [GatewayNext]_gatewayVars
    PROVE  StepKeeps
<1> USE DEF GatewayInv
<1>1. ASSUME NEW r \in TradeRequest, TimeOut(r)
      PROVE  StepKeeps
    <2>1. RequestsTyped' /\ PendingWaits' /\ AnswersKept
        BY <1>1, DecideKeeps DEF TimeOut, Decisions
    <2>2. UNCHANGED agentVars /\ UNCHANGED tradeVars /\ signals' = signals
        BY <1>1 DEF TimeOut
    <2> QED
        BY <2>1, <2>2
        DEF StepKeeps, agentVars, tradeVars, AgentsTyped, TradesTyped,
            SubscribedListens, HearsOnce, OneTradePerApproval
<1>2. ASSUME NEW a \in Agent, StartAgent(a) \/ StopAgent(a)
      PROVE  StepKeeps
    <2>1. /\ UNCHANGED requestVars /\ UNCHANGED tradeVars
          /\ signals' = signals /\ held' = held
          /\ StopAgent(a) => doubled' = doubled
        BY <1>2 DEF StartAgent, StopAgent
    <2>2. subscribed' \in [Agent -> BOOLEAN]
        BY <1>2 DEF StartAgent, StopAgent, AgentsTyped
    <2>3. CASE StartAgent(a)
        <3>1. listeners' \in [Agent -> 0 .. MaxListeners]
            BY <2>3, GatewayAssumption DEF StartAgent, AgentsTyped
        <3>2. SubscribedListens'
            BY <2>3, GatewayAssumption DEF StartAgent, AgentsTyped, SubscribedListens
        <3>3. doubled \subseteq doubled' /\ doubled' \subseteq Agent
            BY <2>3 DEF StartAgent, AgentsTyped
        <3>4. HearsOnce => HearsOnce'
            BY <2>3, <3>3, GatewayAssumption DEF StartAgent, AgentsTyped, HearsOnce
        <3>5. TradesTyped' /\ (OneTradePerApproval => OneTradePerApproval')
            BY <2>1, <3>3 DEF tradeVars, TradesTyped, OneTradePerApproval
        <3> QED
            BY <2>1, <2>2, <3>1, <3>2, <3>3, <3>4, <3>5, RequestsUnchanged
            DEF StepKeeps, AgentsTyped
    <2>4. CASE StopAgent(a)
        <3>1. listeners[a] > 0
            BY <2>4 DEF StopAgent, SubscribedListens
        <3>2. listeners' \in [Agent -> 0 .. MaxListeners] /\ SubscribedListens'
            BY <2>4, <3>1, GatewayAssumption
            DEF StopAgent, AgentsTyped, SubscribedListens
        <3>3. HearsOnce => HearsOnce'
            BY <2>4, GatewayAssumption DEF StopAgent, AgentsTyped, HearsOnce
        <3> QED
            BY <2>1, <2>2, <2>4, <3>2, <3>3, RequestsUnchanged
            DEF StepKeeps, tradeVars, AgentsTyped, TradesTyped,
                OneTradePerApproval
    <2> QED
        BY <1>2, <2>3, <2>4
<1>3. CASE SwitchHold
    <2>1. /\ UNCHANGED requestVars /\ UNCHANGED tradeVars
          /\ UNCHANGED <<listeners, subscribed, doubled, signals>>
          /\ held' \in BOOLEAN
        BY <1>3 DEF SwitchHold
    <2> QED
        BY <2>1, RequestsUnchanged
        DEF StepKeeps, tradeVars, AgentsTyped, TradesTyped, SubscribedListens,
            HearsOnce,
            OneTradePerApproval
<1>4. CASE FillOrder
    <2>1. /\ UNCHANGED requestVars /\ UNCHANGED agentVars /\ signals' = signals
          /\ inExecution > 0 /\ inExecution' = inExecution - 1
          /\ fills' = fills + 1 /\ approvals' = approvals
          /\ position' = position + listeners["portfolio"]
        BY <1>4 DEF FillOrder
    <2>2. /\ listeners["portfolio"] \in Nat
          /\ HearsOnce /\ "portfolio" \notin doubled => listeners["portfolio"] <= 1
        BY GatewayAssumption DEF AgentsTyped, Agent, HearsOnce
    <2>3. TradesTyped' /\ (HearsOnce /\ OneTradePerApproval => OneTradePerApproval')
        BY <2>1, <2>2 DEF agentVars, TradesTyped, OneTradePerApproval
    <2> QED
        BY <2>1, <2>3, RequestsUnchanged
        DEF StepKeeps, agentVars, AgentsTyped, SubscribedListens, HearsOnce
<1>5. CASE UNCHANGED gatewayVars
    <2>1. /\ UNCHANGED requestVars /\ UNCHANGED agentVars
          /\ UNCHANGED tradeVars /\ signals' = signals
        BY <1>5 DEF gatewayVars
    <2> QED
        BY <2>1, RequestsUnchanged
        DEF StepKeeps, agentVars, tradeVars, AgentsTyped, TradesTyped,
            SubscribedListens, HearsOnce, OneTradePerApproval
<1> QED
    BY <1>1, <1>2, <1>3, <1>4, <1>5, SubmitRequestKeeps, EvaluateSignalKeeps
    DEF GatewayNext

-----------------------------------------------------------------------------
(* The theorems.                                                           *)

LEMMA GatewayInvAlways == GatewaySpec => []GatewayInv
<1>1. GatewayInv /\ [GatewayNext]_gatewayVars => GatewayInv'
    BY GatewayInvStep DEF StepKeeps
<1> QED
    BY <1>1, GatewayInvInit, PTL DEF GatewaySpec

\* Requests, subscriptions and counters stay what the code declares them to
\* be; no agent undoes a subscription it does not have (finance-gateway.ts:91).
THEOREM GatewayTypeCorrect == GatewaySpec => []GatewayTypeOK
BY GatewayTyped, GatewayInvAlways, PTL

\* However agents are stopped and started, an approval is executed at most
\* once unless the portfolio or the execution agent was started while it ran,
\* and a fill booked at most once unless the portfolio agent was, whoever
\* publishes the order (waitForRiskDecision, finance-gateway.ts:272).
THEOREM OneTradePerApprovalAlways == GatewaySpec => []OneTradePerApproval
<1> DEFINE Inv == GatewayInv /\ HearsOnce /\ OneTradePerApproval
<1>1. GatewayInit => Inv
    BY GatewayInvInit
<1>2. Inv /\ [GatewayNext]_gatewayVars => Inv'
    BY GatewayInvStep DEF StepKeeps
<1>3. Inv => OneTradePerApproval
    OBVIOUS
<1> QED
    BY <1>1, <1>2, <1>3, PTL DEF GatewaySpec

\* The answer of an idempotency key that no waiting request has stands: a
\* late decision or a timeout of another request does not change it
\* (submitRequest, finance-gateway.ts:147).
THEOREM AnswerStandsAlways == GatewaySpec => AnswerStands
<1>1. GatewayInv /\ [GatewayNext]_gatewayVars =>
         [\A k \in IdempotencyKey :
            /\ dedup[k] # "none"
            /\ \A r \in PendingRequests : RequestKey[r] # k
            => dedup'[k] = dedup[k]]_gatewayVars
    BY GatewayInvStep DEF StepKeeps, AnswersKept
<1> QED
    BY <1>1, GatewayInvAlways, PTL DEF GatewaySpec, AnswerStands

-----------------------------------------------------------------------------
(* The supervisor: the loop guard's depth.                                 *)

\* The proposals of a correlation id that are in the pipeline.
InPipeline(c) ==
    {o \in Orchestration : CorrelationOf[o] = c /\ orch[o] = "executing"}

\* The type invariant of the loop guard, and that of the plans.
GuardTyped ==
    /\ orch \in [Orchestration -> {"idle", "guarded", "executing", "executed",
                                   "rejected", "error"}]
    /\ seen \subseteq ProposalId
    /\ hot \in BOOLEAN
    /\ depth \in [Correlation -> 0 .. MaxRecursionDepth]

StepResults == Seq({"completed", "failed"})

PlansTyped ==
    /\ step \in [Plan -> Nat]
    /\ \A p \in Plan : step[p] <= Len(StepsOf[p])
    /\ results \in [Plan -> StepResults]
    /\ execution \in [Plan -> {"none", "success", "failure"}]

LEMMA InPipelineFinite ==
    ASSUME NEW c
    PROVE  /\ IsFiniteSet(InPipeline(c))
           /\ Cardinality(InPipeline(c)) \in Nat
<1>1. InPipeline(c) \subseteq Orchestration
    BY DEF InPipeline
<1> QED
    BY <1>1, SupervisorAssumption, FS_Subset, FS_CardinalityType

\* A call that passes the guards is one more of its correlation id.
LEMMA OrchestrateKeeps ==
    ASSUME GuardTyped, DepthBalanced, NEW o \in Orchestration, Orchestrate(o)
    PROVE  GuardTyped' /\ DepthBalanced'
<1> DEFINE k == CorrelationOf[o]
<1>1. k \in Correlation
    BY DEF Correlation
<1>2. depth[k] \in 0 .. MaxRecursionDepth /\ depth[k] + 1 <= MaxRecursionDepth
    BY <1>1, SupervisorAssumption DEF GuardTyped, Orchestrate, Guarded, TooDeep
<1>3. GuardTyped'
    <2>1. orch' \in [Orchestration -> {"idle", "guarded", "executing",
                                       "executed", "rejected", "error"}]
        BY DEF GuardTyped, Orchestrate
    <2>2. depth' \in [Correlation -> 0 .. MaxRecursionDepth]
        BY <1>1, <1>2, SupervisorAssumption DEF GuardTyped, Orchestrate
    <2>3. hot' \in BOOLEAN /\ seen' \subseteq ProposalId
        BY DEF GuardTyped, Orchestrate, CooldownAfter, Duplicate
    <2> QED
        BY <2>1, <2>2, <2>3 DEF GuardTyped
<1>4. \A c : c # k => InPipeline(c)' = InPipeline(c)
    BY DEF InPipeline, Orchestrate, GuardTyped
<1>5. InPipeline(k)' = InPipeline(k) \cup {o} /\ o \notin InPipeline(k)
    BY DEF InPipeline, Orchestrate, GuardTyped
<1>6. Cardinality(InPipeline(k)') = Cardinality(InPipeline(k)) + 1
    BY <1>5, InPipelineFinite, FS_AddElement
<1>7. \A c \in Correlation : depth[c] = Cardinality(InPipeline(c))
    BY DEF DepthBalanced, InPipeline
<1>8. \A c \in Correlation : depth'[c] = IF c = k THEN depth[c] + 1 ELSE depth[c]
    BY DEF Orchestrate, GuardTyped
<1>9. \A c \in Correlation : depth'[c] = Cardinality(InPipeline(c)')
    BY <1>4, <1>6, <1>7, <1>8
<1> QED
    BY <1>3, <1>9 DEF DepthBalanced, InPipeline

\* A refusal changes no depth.
LEMMA RefuseByGuardKeeps ==
    ASSUME GuardTyped, DepthBalanced, NEW o \in Orchestration, RefuseByGuard(o)
    PROVE  GuardTyped' /\ DepthBalanced'
<1>1. orch' \in [Orchestration -> {"idle", "guarded", "executing",
                                   "executed", "rejected", "error"}]
    BY DEF GuardTyped, RefuseByGuard
<1>2. depth' = depth /\ seen' = seen /\ hot' \in BOOLEAN
    BY DEF GuardTyped, RefuseByGuard, CooldownAfter, Duplicate, DepthAfterRefusal
<1>3. \A c : InPipeline(c)' = InPipeline(c)
    BY DEF InPipeline, RefuseByGuard, GuardTyped
<1>4. \A c \in Correlation : depth[c] = Cardinality(InPipeline(c))
    BY DEF DepthBalanced, InPipeline
<1>5. \A c \in Correlation : depth'[c] = Cardinality(InPipeline(c)')
    BY <1>2, <1>3, <1>4
<1>6. GuardTyped'
    BY <1>1, <1>2 DEF GuardTyped
<1> QED
    BY <1>5, <1>6 DEF DepthBalanced, InPipeline

\* A call that settles is one less, and had a level to give back.
LEMMA SettleKeeps ==
    ASSUME GuardTyped, DepthBalanced, NEW o \in Orchestration, NEW outcome,
           Settle(o, outcome)
    PROVE  GuardTyped' /\ DepthBalanced'
<1> DEFINE k == CorrelationOf[o]
<1>1. k \in Correlation
    BY DEF Correlation
<1>2. \A c : c # k => InPipeline(c)' = InPipeline(c)
    BY DEF InPipeline, Settle, GuardTyped
<1>3. InPipeline(k)' = InPipeline(k) \ {o} /\ o \in InPipeline(k)
    BY DEF InPipeline, Settle, GuardTyped
<1>4. Cardinality(InPipeline(k)') = Cardinality(InPipeline(k)) - 1
    BY <1>3, InPipelineFinite, FS_RemoveElement
<1>5. /\ Cardinality(InPipeline(k)) \in Nat
      /\ Cardinality(InPipeline(k)) # 0
    BY <1>3, InPipelineFinite, FS_EmptySet
<1>6. \A c \in Correlation : depth[c] = Cardinality(InPipeline(c))
    BY DEF DepthBalanced, InPipeline
<1>7. \A c \in Correlation : depth'[c] = IF c = k THEN depth[c] - 1 ELSE depth[c]
    BY <1>1, <1>5, <1>6 DEF Settle, ExitTrace, GuardTyped
<1>8. \A c \in Correlation : depth'[c] = Cardinality(InPipeline(c)')
    BY <1>2, <1>4, <1>6, <1>7
<1>9. GuardTyped'
    <2>1. orch' \in [Orchestration -> {"idle", "guarded", "executing",
                                       "executed", "rejected", "error"}]
        BY DEF GuardTyped, Settle
    <2>2. depth' \in [Correlation -> 0 .. MaxRecursionDepth]
        <3>1. depth[k] \in 0 .. MaxRecursionDepth
            BY <1>1 DEF GuardTyped
        <3>2. (IF depth[k] <= 1 THEN 0 ELSE depth[k] - 1) \in 0 .. MaxRecursionDepth
            BY <3>1, SupervisorAssumption
        <3> QED
            BY <1>1, <3>2 DEF GuardTyped, Settle, ExitTrace
    <2>3. seen' \subseteq ProposalId /\ hot' = hot
        BY SupervisorAssumption DEF GuardTyped, Settle
    <2> QED
        BY <2>1, <2>2, <2>3 DEF GuardTyped
<1> QED
    BY <1>8, <1>9 DEF DepthBalanced, InPipeline

-----------------------------------------------------------------------------
(* The supervisor: the plans.                                              *)

\* A plan has a result for every step before the one under way, all of them
\* completed, and one more when it is over.
ResultsFollowSteps ==
    \A p \in Plan :
        /\ step[p] = 0 => results[p] = <<>> /\ execution[p] = "none"
        /\ execution[p] = "none" /\ step[p] > 0 => Len(results[p]) = step[p] - 1
        /\ execution[p] # "none" => Len(results[p]) = step[p]
        /\ \A j \in 1 .. step[p] - 1 : results[p][j] = "completed"
        /\ execution[p] = "success" =>
              /\ step[p] = Len(StepsOf[p])
              /\ Success(p, results[p])

\* A plan is in the pipeline, or was, only with the trade it has reached, and
\* a completed trade was executed.
TradesFollowSteps ==
    \A p \in Plan :
        /\ orch[p] # "idle" =>
              \E i \in 1 .. step[p] : StepsOf[p][i] = "trade"
        /\ \A i \in 1 .. Len(results[p]) :
              StepsOf[p][i] = "trade" /\ results[p][i] = "completed" =>
                 orch[p] = "executed"

SupervisorInv ==
    /\ GuardTyped
    /\ DepthBalanced
    /\ PlansTyped
    /\ ResultsFollowSteps
    /\ TradesFollowSteps

LEMMA SupervisorTyped == SupervisorInv => SupervisorTypeOK
BY SupervisorAssumption
DEF SupervisorInv, GuardTyped, PlansTyped, StepResults, SupervisorTypeOK

\* The order of a plan's trade follows: it has but one trade step.
LEMMA TradesInOrder == SupervisorInv => PlanTradesInOrder
<1> SUFFICES ASSUME SupervisorInv, NEW p \in Plan,
                    NEW i \in 1 .. Len(StepsOf[p]), StepsOf[p][i] = "trade"
             PROVE  /\ orch[p] # "idle" =>
                          \A j \in 1 .. i - 1 : results[p][j] = "completed"
                    /\ execution[p] = "success" => orch[p] = "executed"
    BY DEF PlanTradesInOrder
<1>1. /\ StepsOf[p] \in Seq({"tool", "agent", "trade"})
      /\ step[p] \in Nat /\ step[p] <= Len(StepsOf[p])
    BY SupervisorAssumption DEF SupervisorInv, PlansTyped
<1>2. ASSUME orch[p] # "idle", NEW j \in 1 .. i - 1
      PROVE  results[p][j] = "completed"
    <2>1. PICK n \in 1 .. step[p] : StepsOf[p][n] = "trade"
        BY <1>2 DEF SupervisorInv, TradesFollowSteps
    <2>2. n = i
        BY <1>1, <2>1, SupervisorAssumption
    <2>3. j \in 1 .. step[p] - 1
        BY <1>1, <2>1, <2>2
    <2> QED
        BY <2>3 DEF SupervisorInv, ResultsFollowSteps
<1>3. ASSUME execution[p] = "success"
      PROVE  orch[p] = "executed"
    <2>1. /\ Len(results[p]) = Len(StepsOf[p])
          /\ Success(p, results[p])
        BY <1>3 DEF SupervisorInv, ResultsFollowSteps
    <2>2. results[p][i] = "completed"
        BY <2>1 DEF Success
    <2> QED
        BY <2>1, <2>2 DEF SupervisorInv, TradesFollowSteps
<1> QED
    BY <1>2, <1>3

LEMMA SupervisorInvInit == SupervisorInit => SupervisorInv
<1> SUFFICES ASSUME SupervisorInit PROVE SupervisorInv
    OBVIOUS
<1>1. GuardTyped
    <2>1. 0 \in 0 .. MaxRecursionDepth
        BY SupervisorAssumption
    <2>2. depth \in [Correlation -> 0 .. MaxRecursionDepth]
        BY <2>1 DEF SupervisorInit
    <2>3. seen = {} /\ hot \in BOOLEAN
        BY DEF SupervisorInit
    <2>4. orch = [o \in Orchestration |-> "idle"]
        BY DEF SupervisorInit
    <2> QED
        BY <2>2, <2>3, <2>4 DEF GuardTyped
<1>2. DepthBalanced
    <2>1. \A c : {o \in Orchestration : CorrelationOf[o] = c
                                        /\ orch[o] = "executing"} = {}
        BY DEF SupervisorInit
    <2> QED
        BY <2>1, FS_EmptySet DEF SupervisorInit, DepthBalanced
<1>3. PlansTyped
    BY SupervisorAssumption DEF SupervisorInit, PlansTyped, StepResults
<1>4. ResultsFollowSteps /\ TradesFollowSteps
    <2>1. \A p \in Plan : /\ step[p] = 0 /\ results[p] = <<>>
                          /\ execution[p] = "none" /\ orch[p] = "idle"
        BY DEF SupervisorInit, Orchestration
    <2>2. Len(<<>>) = 0
        OBVIOUS
    <2> QED
        BY <2>1, <2>2 DEF ResultsFollowSteps, TradesFollowSteps
<1> QED
    BY <1>1, <1>2, <1>3, <1>4 DEF SupervisorInv

\* The end of a step: the results it leaves, and the step after it.
LEMMA EndStepKeeps ==
    ASSUME PlansTyped, ResultsFollowSteps, NEW p \in Plan, Running(p),
           NEW status \in {"completed", "failed"}, EndStep(p, status)
    PROVE  /\ PlansTyped'
           /\ ResultsFollowSteps'
           /\ step'[p] >= step[p]
           /\ \A q \in Plan : q # p => step'[q] = step[q] /\ results'[q] = results[q]
           /\ results'[p] = Append(results[p], status)
           /\ Len(results[p]) + 1 = step[p]
<1> DEFINE now == Append(results[p], status)
<1>1. /\ results[p] \in StepResults
      /\ step[p] \in Nat /\ step[p] > 0 /\ step[p] <= Len(StepsOf[p])
      /\ Len(StepsOf[p]) \in Nat
      /\ execution[p] = "none"
      /\ Len(results[p]) + 1 = step[p]
    BY SupervisorAssumption DEF PlansTyped, ResultsFollowSteps, Running, StepResults
<1>2. /\ now \in StepResults
      /\ Len(now) = step[p]
      /\ now[step[p]] = status
      /\ \A j \in 1 .. step[p] - 1 : now[j] = results[p][j]
    BY <1>1 DEF StepResults
<1>3. \A j \in 1 .. step[p] - 1 : now[j] = "completed"
    BY <1>2 DEF ResultsFollowSteps
<1> HIDE DEF now
<1>4. results' = [results EXCEPT ![p] = now]
    BY DEF EndStep, now
<1>5. CASE Stops(p, status)
    <2>1. PICK valid \in BOOLEAN :
             execution' = [execution EXCEPT ![p] =
                 IF valid /\ Success(p, now) THEN "success" ELSE "failure"]
        BY <1>5 DEF EndStep, now
    <2>2. step' = step
        BY <1>5 DEF EndStep
    <2>3. PlansTyped'
        BY <1>2, <1>4, <2>1, <2>2 DEF PlansTyped
    <2>4. execution'[p] # "none" /\ (execution'[p] = "success" => Success(p, now))
        BY <2>1 DEF PlansTyped
    <2>5. Success(p, now) => step[p] = Len(StepsOf[p])
        BY <1>1, <1>2, <1>5 DEF Success, Stops
    <2>6. ResultsFollowSteps'
        <3> SUFFICES ASSUME NEW q \in Plan
                     PROVE  /\ step'[q] = 0 => results'[q] = <<>> /\ execution'[q] = "none"
                            /\ execution'[q] = "none" /\ step'[q] > 0 =>
                                  Len(results'[q]) = step'[q] - 1
                            /\ execution'[q] # "none" => Len(results'[q]) = step'[q]
                            /\ \A j \in 1 .. step'[q] - 1 : results'[q][j] = "completed"
                            /\ execution'[q] = "success" =>
                                  /\ step'[q] = Len(StepsOf[q])
                                  /\ Success(q, results'[q])
            BY DEF ResultsFollowSteps, Success
        <3>1. CASE q = p
            BY <1>1, <1>2, <1>3, <1>4, <2>2, <2>4, <2>5, <3>1 DEF PlansTyped
        <3>2. CASE q # p
            <4>1. /\ step'[q] = step[q] /\ results'[q] = results[q]
                  /\ execution'[q] = execution[q]
                BY <1>4, <2>1, <2>2, <3>2 DEF PlansTyped
            <4> QED
                BY <4>1 DEF ResultsFollowSteps
        <3> QED
            BY <3>1, <3>2
    <2> QED
        BY <1>1, <1>4, <2>2, <2>3, <2>6 DEF PlansTyped, now
<1>6. CASE ~Stops(p, status)
    <2>1. /\ step' = [step EXCEPT ![p] = step[p] + 1]
          /\ execution' = execution
        BY <1>6 DEF EndStep
    <2>2. status = "completed" /\ step[p] # Len(StepsOf[p])
        BY <1>6 DEF Stops
    <2>3. PlansTyped'
        BY <1>1, <1>2, <1>4, <2>1, <2>2 DEF PlansTyped
    <2>4. \A j \in 1 .. step[p] : now[j] = "completed"
        BY <1>1, <1>2, <1>3, <2>2
    <2>5. ResultsFollowSteps'
        <3> SUFFICES ASSUME NEW q \in Plan
                     PROVE  /\ step'[q] = 0 => results'[q] = <<>> /\ execution'[q] = "none"
                            /\ execution'[q] = "none" /\ step'[q] > 0 =>
                                  Len(results'[q]) = step'[q] - 1
                            /\ execution'[q] # "none" => Len(results'[q]) = step'[q]
                            /\ \A j \in 1 .. step'[q] - 1 : results'[q][j] = "completed"
                            /\ execution'[q] = "success" =>
                                  /\ step'[q] = Len(StepsOf[q])
                                  /\ Success(q, results'[q])
            BY DEF ResultsFollowSteps, Success
        <3>1. CASE q = p
            BY <1>1, <1>2, <1>4, <2>1, <2>4, <3>1 DEF PlansTyped
        <3>2. CASE q # p
            <4>1. /\ step'[q] = step[q] /\ results'[q] = results[q]
                  /\ execution'[q] = execution[q]
                BY <1>4, <2>1, <3>2 DEF PlansTyped
            <4> QED
                BY <4>1 DEF ResultsFollowSteps
        <3> QED
            BY <3>1, <3>2
    <2> QED
        BY <1>1, <1>4, <2>1, <2>3, <2>5 DEF PlansTyped, now
<1> QED
    BY <1>5, <1>6

\* So the trades stay in order when a step ends, unless it says of a trade
\* that it was completed and it was not executed.
LEMMA EndStepTrades ==
    ASSUME SupervisorInv, NEW p \in Plan, Running(p),
           NEW status \in {"completed", "failed"}, EndStep(p, status),
           \A q \in Plan : q # p => orch'[q] = orch[q],
           Kind(p) # "trade" => orch'[p] = orch[p],
           Kind(p) = "trade" => orch[p] # "executed"
               /\ (status = "completed" => orch'[p] = "executed")
    PROVE  PlansTyped' /\ ResultsFollowSteps' /\ TradesFollowSteps'
<1>1. /\ PlansTyped /\ ResultsFollowSteps
      /\ PlansTyped' /\ ResultsFollowSteps'
      /\ step'[p] >= step[p]
      /\ \A q \in Plan : q # p => step'[q] = step[q] /\ results'[q] = results[q]
      /\ results'[p] = Append(results[p], status)
      /\ Len(results[p]) + 1 = step[p]
    BY EndStepKeeps DEF SupervisorInv
<1>2. ASSUME NEW q \in Plan, q # p
      PROVE  /\ orch'[q] # "idle" =>
                   \E i \in 1 .. step'[q] : StepsOf[q][i] = "trade"
             /\ \A i \in 1 .. Len(results'[q]) :
                   StepsOf[q][i] = "trade" /\ results'[q][i] = "completed" =>
                      orch'[q] = "executed"
    BY <1>1, <1>2 DEF SupervisorInv, TradesFollowSteps
<1>3. /\ step[p] \in Nat /\ step[p] > 0 /\ step'[p] \in Nat
      /\ results[p] \in StepResults
    BY <1>1 DEF PlansTyped, Running
<1>4. orch'[p] # "idle" => \E i \in 1 .. step'[p] : StepsOf[p][i] = "trade"
    <2>1. CASE Kind(p) = "trade"
        BY <1>1, <1>3, <2>1 DEF Kind
    <2>2. CASE Kind(p) # "trade"
        <3>1. orch[p] # "idle" => \E i \in 1 .. step[p] : StepsOf[p][i] = "trade"
            BY DEF SupervisorInv, TradesFollowSteps
        <3>2. 1 .. step[p] \subseteq 1 .. step'[p]
            BY <1>1, <1>3
        <3> QED
            BY <2>2, <3>1, <3>2
    <2> QED
        BY <2>1, <2>2
<1>5. ASSUME NEW i \in 1 .. Len(results'[p]), StepsOf[p][i] = "trade",
             results'[p][i] = "completed"
      PROVE  orch'[p] = "executed"
    <2>1. CASE i = step[p]
        BY <1>1, <1>3, <1>5, <2>1 DEF Kind, StepResults
    <2>2. CASE i # step[p]
        <3>1. i \in 1 .. Len(results[p]) /\ results'[p][i] = results[p][i]
            BY <1>1, <1>3, <2>2 DEF StepResults
        <3>2. orch[p] = "executed"
            BY <1>5, <3>1 DEF SupervisorInv, TradesFollowSteps
        <3> QED
            BY <3>2
    <2> QED
        BY <2>1, <2>2
<1> QED
    BY <1>1, <1>2, <1>4, <1>5 DEF TradesFollowSteps

LEMMA SupervisorInvStep ==
    SupervisorInv /\ [SupervisorNext]_supervisorVars => SupervisorInv'
<1> SUFFICES ASSUME SupervisorInv, [SupervisorNext]_supervisorVars
             PROVE  SupervisorInv'
    OBVIOUS
<1> GuardTyped /\ DepthBalanced /\ PlansTyped
    BY DEF SupervisorInv
<1>1. ASSUME UNCHANGED <<step, results, execution>>,
             \A p \in Plan : \/ orch'[p] = orch[p]
                             \/ orch[p] # "executed" /\ Running(p) /\ Kind(p) = "trade"
      PROVE  PlansTyped' /\ ResultsFollowSteps' /\ TradesFollowSteps'
    <2>1. PlansTyped' /\ ResultsFollowSteps'
        BY <1>1 DEF SupervisorInv, PlansTyped, ResultsFollowSteps, Success
    <2>2. ASSUME NEW p \in Plan, orch[p] # "executed", Running(p), Kind(p) = "trade"
          PROVE  \E i \in 1 .. step[p] : StepsOf[p][i] = "trade"
        BY <2>2 DEF Running, Kind, PlansTyped
    <2>3. TradesFollowSteps'
        BY <1>1, <2>2 DEF SupervisorInv, TradesFollowSteps
    <2> QED
        BY <2>1, <2>3
<1>2. ASSUME UNCHANGED <<orch, depth>>, seen' \subseteq ProposalId, hot' \in BOOLEAN
      PROVE  GuardTyped' /\ DepthBalanced'
    BY <1>2 DEF GuardTyped, DepthBalanced
<1>3. ASSUME NEW o \in Orchestration,
             \/ Orchestrate(o) \/ RefuseByGuard(o)
             \/ \E outcome \in {"executed", "rejected", "error"} : Settle(o, outcome)
      PROVE  /\ GuardTyped' /\ DepthBalanced'
             /\ \A q \in Orchestration : q # o => orch'[q] = orch[q]
             /\ orch[o] \in {"idle", "executing"}
    <2>1. GuardTyped' /\ DepthBalanced'
        BY <1>3, OrchestrateKeeps, RefuseByGuardKeeps, SettleKeeps
    <2>2. /\ \A q \in Orchestration : q # o => orch'[q] = orch[q]
          /\ orch[o] \in {"idle", "executing"}
        BY <1>3 DEF Orchestrate, RefuseByGuard, Settle, GuardTyped
    <2> QED
        BY <2>1, <2>2
<1>4. ASSUME NEW s \in Signal, OrchestrateSignal(s)
      PROVE  SupervisorInv'
    <2>1. s \in Orchestration /\ s \notin Plan
        BY SupervisorAssumption DEF Orchestration
    <2>2. /\ GuardTyped' /\ DepthBalanced'
          /\ \A q \in Orchestration : q # s => orch'[q] = orch[q]
        BY <1>3, <1>4, <2>1 DEF OrchestrateSignal
    <2>3. \A p \in Plan : orch'[p] = orch[p]
        BY <2>1, <2>2 DEF Orchestration
    <2>4. PlansTyped' /\ ResultsFollowSteps' /\ TradesFollowSteps'
        BY <1>1, <1>4, <2>3 DEF OrchestrateSignal
    <2> QED
        BY <2>2, <2>4 DEF SupervisorInv
<1>5. ASSUME NEW p \in Plan, SubmitTask(p)
      PROVE  SupervisorInv'
    <2>1. GuardTyped' /\ DepthBalanced'
        BY <1>2, <1>5 DEF SubmitTask, GuardTyped
    <2>2. Len(StepsOf[p]) \in Nat /\ Len(StepsOf[p]) >= 1
        BY SupervisorAssumption
    <2>3. /\ step[p] = 0 /\ step' = [step EXCEPT ![p] = 1]
          /\ UNCHANGED <<orch, results, execution>>
        BY <1>5 DEF SubmitTask
    <2>4. PlansTyped'
        BY <2>2, <2>3 DEF PlansTyped
    <2>5. ResultsFollowSteps'
        BY <2>3 DEF SupervisorInv, PlansTyped, ResultsFollowSteps, Success
    <2>6. TradesFollowSteps'
        BY <2>3 DEF SupervisorInv, PlansTyped, TradesFollowSteps
    <2> QED
        BY <2>1, <2>4, <2>5, <2>6 DEF SupervisorInv
<1>6. ASSUME NEW p \in Plan, ToolStep(p) \/ AgentStep(p)
      PROVE  SupervisorInv'
    <2>1. PICK status \in {"completed", "failed"} : EndStep(p, status)
        BY <1>6 DEF ToolStep, AgentStep
    <2>2. Running(p) /\ Kind(p) # "trade" /\ UNCHANGED <<orch, seen, hot, depth>>
        BY <1>6 DEF ToolStep, AgentStep
    <2>3. PlansTyped' /\ ResultsFollowSteps' /\ TradesFollowSteps'
        BY <2>1, <2>2, EndStepTrades
    <2>4. GuardTyped' /\ DepthBalanced'
        BY <1>2, <2>2 DEF GuardTyped
    <2> QED
        BY <2>3, <2>4 DEF SupervisorInv
<1>7. ASSUME NEW p \in Plan, TradeStep(p)
      PROVE  SupervisorInv'
    <2>1. p \in Orchestration /\ Running(p) /\ Kind(p) = "trade"
        BY <1>7 DEF Orchestration, TradeStep
    <2>2. /\ GuardTyped' /\ DepthBalanced'
          /\ \A q \in Orchestration : q # p => orch'[q] = orch[q]
          /\ orch[p] \in {"idle", "executing"}
        BY <1>3, <1>7, <2>1 DEF TradeStep
    <2>3. \A q \in Plan : q # p => orch'[q] = orch[q]
        BY <2>2 DEF Orchestration
    <2>4. CASE Orchestrate(p) /\ UNCHANGED <<step, results, execution>>
        <3>1. PlansTyped' /\ ResultsFollowSteps' /\ TradesFollowSteps'
            BY <1>1, <2>1, <2>2, <2>3, <2>4
        <3> QED
            BY <2>2, <3>1 DEF SupervisorInv
    <2>5. CASE RefuseByGuard(p) /\ EndStep(p, "failed")
        <3>1. PlansTyped' /\ ResultsFollowSteps' /\ TradesFollowSteps'
            BY <2>1, <2>2, <2>3, <2>5, EndStepTrades
        <3> QED
            BY <2>2, <3>1 DEF SupervisorInv
    <2>6. ASSUME NEW outcome \in {"executed", "rejected", "error"},
                 Settle(p, outcome), EndStep(p, StatusOfTrade(outcome))
          PROVE  SupervisorInv'
        <3>1. /\ StatusOfTrade(outcome) \in {"completed", "failed"}
              /\ StatusOfTrade(outcome) = "completed" => orch'[p] = "executed"
            BY <2>1, <2>6 DEF StatusOfTrade, Settle, GuardTyped
        <3>2. PlansTyped' /\ ResultsFollowSteps' /\ TradesFollowSteps'
            BY <2>1, <2>2, <2>3, <2>6, <3>1, EndStepTrades
        <3> QED
            BY <2>2, <3>2 DEF SupervisorInv
    <2> QED
        BY <1>7, <2>4, <2>5, <2>6 DEF TradeStep
<1>8. CASE CoolDown \/ \E i \in ProposalId : ForgetEvent(i)
    <2>1. /\ UNCHANGED <<orch, depth, step, results, execution>>
          /\ seen' \subseteq ProposalId /\ hot' \in BOOLEAN
        BY <1>8 DEF CoolDown, ForgetEvent, GuardTyped
    <2> QED
        BY <1>1, <1>2, <2>1 DEF SupervisorInv
<1>9. CASE UNCHANGED supervisorVars
    <2>1. UNCHANGED <<orch, depth, step, results, execution, seen, hot>>
        BY <1>9 DEF supervisorVars
    <2> QED
        BY <1>1, <1>2, <2>1 DEF SupervisorInv, GuardTyped
<1> QED
    BY <1>4, <1>5, <1>6, <1>7, <1>8, <1>9 DEF SupervisorNext

LEMMA SupervisorInvAlways == SupervisorSpec => []SupervisorInv
BY SupervisorInvInit, SupervisorInvStep, PTL DEF SupervisorSpec

\* The guard's depth stays within its limit, and a plan within its steps
\* (enterTrace, loop-guard.ts:64).
THEOREM SupervisorTypeCorrect == SupervisorSpec => []SupervisorTypeOK
BY SupervisorTyped, SupervisorInvAlways, PTL

\* No refusal, error or repetition leaks a level of the recursion depth or
\* gives one back twice (orchestrateTradeProposal, supervisor/index.ts:480).
THEOREM DepthBalancedAlways == SupervisorSpec => []DepthBalanced
<1>1. SupervisorInv => DepthBalanced
    BY DEF SupervisorInv
<1> QED
    BY <1>1, SupervisorInvAlways, PTL

\* A plan trades after completed steps only, and succeeds only if its trade
\* was executed (executePlan, supervisor/index.ts:650).
THEOREM PlanTradesInOrderAlways == SupervisorSpec => []PlanTradesInOrder
BY TradesInOrder, SupervisorInvAlways, PTL
=============================================================================
