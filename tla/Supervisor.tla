------------------------------ MODULE Supervisor ------------------------------
(***************************************************************************)
(* The SupervisorAgent (agents/supervisor/index.ts): plans that run step   *)
(* by step, and trade proposals that pass the LoopGuard                    *)
(* (core/loop-guard.ts) before they go to the ExecutionPipeline.           *)
(*                                                                         *)
(* A proposal comes from a signal or from the trade step of a plan.  The   *)
(* pipeline is known here by its promise only: a call settles, and calls   *)
(* that repeat a proposal share one execution (ExecutionPipeline shows     *)
(* it).  Supervisor and pipeline run in one event loop, so what happens    *)
(* between two awaits is one action.  All proposals are for one symbol and *)
(* well formed (others change nothing), and plans fail fast.               *)
(***************************************************************************)
EXTENDS Naturals, FiniteSets, Sequences

CONSTANTS Signal,         \* proposals that arrive as signals
          Plan,           \* plans; a plan's trade has the plan's id
          ProposalId,
          ProposalOf,     \* the proposal id of each signal and plan
          CorrelationOf,  \* its correlation id
          StepsOf,        \* the kinds of a plan's steps
          MaxRecursionDepth

Orchestration == Signal \cup Plan

Correlation == {CorrelationOf[o] : o \in Orchestration}

\* The planner (planner.ts) makes no empty plan, and none with two trades.
ASSUME SupervisorAssumption ==
    /\ Signal \cap Plan = {}
    /\ ProposalOf \in [Orchestration -> ProposalId]
    /\ StepsOf \in [Plan -> Seq({"tool", "agent", "trade"}) \ {<<>>}]
    /\ \A p \in Plan : \A i, j \in DOMAIN StepsOf[p] :
         StepsOf[p][i] = "trade" /\ StepsOf[p][j] = "trade" => i = j
    /\ IsFiniteSet(Orchestration)
    /\ MaxRecursionDepth \in Nat

VARIABLES orch,      \* where each orchestration is
          seen,      \* processedEvents of the LoopGuard
          hot,       \* the symbol is in its burst cooldown
          depth,     \* correlationDepths
          step,      \* the step each plan is at, 0 before it starts
          results,   \* the status of each step a plan has done
          execution  \* the outcome of each plan

supervisorVars == <<orch, seen, hot, depth, step, results, execution>>

SupervisorTypeOK ==
    /\ orch \in [Orchestration -> {"idle", "guarded", "executing", "executed",
                                   "rejected", "error"}]
    /\ seen \subseteq ProposalId
    /\ hot \in BOOLEAN
    /\ depth \in [Correlation -> 0 .. MaxRecursionDepth]
    /\ \A p \in Plan : /\ step[p] \in 0 .. Len(StepsOf[p])
                       /\ results[p] \in Seq({"completed", "failed"})
    /\ execution \in [Plan -> {"none", "success", "failure"}]

SupervisorInit ==
    /\ orch = [o \in Orchestration |-> "idle"]
    /\ seen = {}
    /\ hot = FALSE
    /\ depth = [c \in Correlation |-> 0]
    /\ step = [p \in Plan |-> 0]
    /\ results = [p \in Plan |-> <<>>]
    /\ execution = [p \in Plan |-> "none"]

-----------------------------------------------------------------------------
(* orchestrateTradeProposal().                                             *)

\* The guards in their order: duplicate, cooldown (which a plan skips and
\* which starts anew when it lets a signal pass), recursion depth.
Duplicate(o) == ProposalOf[o] \in seen

CoolsDown(o) == o \in Signal /\ hot

\* Seeded fault: the depth is compared before it is raised.
TooDeep_OffByOne(o) == depth[CorrelationOf[o]] > MaxRecursionDepth

TooDeep(o) == depth[CorrelationOf[o]] + 1 > MaxRecursionDepth

Guarded(o) == Duplicate(o) \/ CoolsDown(o) \/ TooDeep(o)

\* checkSymbolCooldown is reached by a signal that is no duplicate, and
\* notes the time although the depth may refuse the signal afterwards.
CooldownAfter(o) == hot \/ (o \in Signal /\ ~Duplicate(o))

\* exitTrace: one level less.
ExitTrace(o) == [depth EXCEPT ![CorrelationOf[o]] = IF @ <= 1 THEN 0 ELSE @ - 1]

\* Passes the guards: the call of the pipeline is under way.
Orchestrate(o) ==
    /\ orch[o] = "idle"
    /\ ~Guarded(o)
    /\ orch' = [orch EXCEPT ![o] = "executing"]
    /\ depth' = [depth EXCEPT ![CorrelationOf[o]] = @ + 1]
    /\ hot' = CooldownAfter(o)
    /\ UNCHANGED seen

\* Seeded fault: the refusal leaves the trace as well.
Depth_AfterRefusal(o) == ExitTrace(o)

DepthAfterRefusal(o) == depth

\* Refused by a guard, before the trace is entered.
RefuseByGuard(o) ==
    /\ orch[o] = "idle"
    /\ Guarded(o)
    /\ orch' = [orch EXCEPT ![o] = "guarded"]
    /\ depth' = DepthAfterRefusal(o)
    /\ hot' = CooldownAfter(o)
    /\ UNCHANGED seen

\* The pipeline's promise settles: executed, rejected at a stage, or an
\* error.  Only now is the proposal id recorded as processed.
Settle(o, outcome) ==
    /\ orch[o] = "executing"
    /\ outcome \in {"executed", "rejected", "error"}
    /\ orch' = [orch EXCEPT ![o] = outcome]
    /\ depth' = ExitTrace(o)
    /\ seen' = seen \cup {ProposalOf[o]}
    /\ UNCHANGED hot

\* symbolCooldownMs passes.
CoolDown ==
    /\ hot
    /\ hot' = FALSE
    /\ UNCHANGED <<orch, seen, depth, step, results, execution>>

\* historyTtlMs passes: the id is looked up in vain, or cleaned up.
ForgetEvent(i) ==
    /\ i \in seen
    /\ seen' = seen \ {i}
    /\ UNCHANGED <<orch, hot, depth, step, results, execution>>

OrchestrateSignal(s) ==
    /\ \/ Orchestrate(s)
       \/ RefuseByGuard(s)
       \/ \E outcome \in {"executed", "rejected", "error"} : Settle(s, outcome)
    /\ UNCHANGED <<step, results, execution>>

-----------------------------------------------------------------------------
(* executePlan().                                                          *)

Kind(p) == StepsOf[p][step[p]]

Running(p) == step[p] > 0 /\ execution[p] = "none"

\* submitTask: plan, validate, and the first step.
SubmitTask(p) ==
    /\ step[p] = 0
    /\ step' = [step EXCEPT ![p] = 1]
    /\ UNCHANGED <<orch, seen, hot, depth, results, execution>>

\* Seeded fault: a failed step does not stop the plan.
Stops_Never(p, status) == step[p] = Len(StepsOf[p])

\* failFast: the plan stops at a failed step, or after its last one.
Stops(p, status) == status = "failed" \/ step[p] = Len(StepsOf[p])

Success(p, statuses) ==
    \A i \in 1 .. Len(statuses) : statuses[i] = "completed"

\* The step under way ends with a status; the next one starts or the plan
\* is over.  A plan that validate() found to lack an agent or a tool runs
\* all the same, but never succeeds.
EndStep(p, status) ==
    LET statuses == Append(results[p], status)
    IN  /\ results' = [results EXCEPT ![p] = statuses]
        /\ IF Stops(p, status)
           THEN /\ \E valid \in BOOLEAN :
                     execution' = [execution EXCEPT ![p] =
                       IF valid /\ Success(p, statuses) THEN "success" ELSE "failure"]
                /\ UNCHANGED step
           ELSE /\ step' = [step EXCEPT ![p] = @ + 1]
                /\ UNCHANGED execution

\* A tool returns, throws or is not registered.
ToolStep(p) ==
    /\ Running(p) /\ Kind(p) = "tool"
    /\ \E status \in {"completed", "failed"} : EndStep(p, status)
    /\ UNCHANGED <<orch, seen, hot, depth>>

\* A step without a tool is completed as it is.
AgentStep(p) ==
    /\ Running(p) /\ Kind(p) = "agent"
    /\ EndStep(p, "completed")
    /\ UNCHANGED <<orch, seen, hot, depth>>

StatusOfTrade(outcome) == IF outcome = "executed" THEN "completed" ELSE "failed"

\* The trade of a plan: refused by a guard at once, or executed.
TradeStep(p) ==
    /\ Running(p) /\ Kind(p) = "trade"
    /\ \/ Orchestrate(p) /\ UNCHANGED <<step, results, execution>>
       \/ RefuseByGuard(p) /\ EndStep(p, "failed")
       \/ \E outcome \in {"executed", "rejected", "error"} :
            Settle(p, outcome) /\ EndStep(p, StatusOfTrade(outcome))

SupervisorNext ==
    \/ \E s \in Signal : OrchestrateSignal(s)
    \/ \E p \in Plan : SubmitTask(p) \/ ToolStep(p) \/ AgentStep(p) \/ TradeStep(p)
    \/ CoolDown
    \/ \E i \in ProposalId : ForgetEvent(i)

SupervisorSpec == SupervisorInit /\ [][SupervisorNext]_supervisorVars

-----------------------------------------------------------------------------
(* Properties.                                                             *)

\* The LoopGuard's depth of a correlation id is the number of its proposals
\* that are in the pipeline: no refusal, error or repetition leaks a level
\* (which would in the end block the correlation id) or gives one back twice.
DepthBalanced ==
    \A c \in Correlation :
        depth[c] = Cardinality({o \in Orchestration :
                                  CorrelationOf[o] = c /\ orch[o] = "executing"})

\* A plan trades only after every step before its trade was completed, the
\* risk step among them, and it reports success only if it did trade.
PlanTradesInOrder ==
    \A p \in Plan : \A i \in 1 .. Len(StepsOf[p]) : StepsOf[p][i] = "trade" =>
        /\ orch[p] # "idle" => \A j \in 1 .. i - 1 : results[p][j] = "completed"
        /\ execution[p] = "success" => orch[p] = "executed"
=============================================================================
