# Finance Agent OS: a TLA+ development

This directory models the trading core of Finance Agent OS (`src/` is the
repository) and the services around it, checks the models with TLC on small
instances, and proves the safety properties of the order book, the pipeline, the trade
workflow and the provider connections with TLAPS for every instance. Paths below
are relative to `apps/server/src/` unless they start with `packages/`.

What stands between a decision to trade and a filled order:

    user ─────────> TradeWorkflow ─┐
                    Approvals ─────┼─> ExecutionPipeline ─> OrderManager ─> orders.json
    signal, plan ─> Supervisor ────┘    │ KillSwitch, limits    │ events
                                        └─> broker (external)   └─> TradeEngine

    request ─> FinanceGateway ─> risk agent ─> portfolio agent ─> execution agent

and beside it `AgentRuntime` (the coworkers and their runs), `CodingSessions`
(conversations with coding CLIs), `ProviderConnections` (the language-model endpoints)
and `RuntimeLifecycle` (the process itself).

## 1. Inventory

Node runs all of this in one process and one thread: code is interleaved only at
an `await`, a timer or an event callback, and bus events are delivered
synchronously. What is hard here is therefore not data races but what happens
*during an await*, what a *restart* forgets, and *repeated or late* requests.

| Part | State | Operations | What makes it correct |
|---|---|---|---|
| OrderManager (`order-manager/`) | orders, indexes by client id and idempotency key, applied fill ids, `orders.json` | createOrder, updateStatus, cancel/reject/fail/retryOrder, applyFill, load, persist, clear | one order per key; fills add up, never exceed the order; closed is final; one event per version; the file survives a restart |
| TradeEngine (`trade-engine/`) | trades, by order and by symbol, fills seen | on fill_applied, closeTrade | each fill in the trade of its order, once; a settled trade is final |
| ExecutionPipeline (`execution-pipeline/`) | calls in flight, remembered results, remembered signals, daily counts | execute, cancelOrder, rejectOrder, resetDailyCounts | one execution per repeated call, everyone answered, limits hold, nothing passes a halt |
| KillSwitch, HardLimits (`safety/`) | ARMED, TRIGGERED, DISARMED | trigger, reset, disarm, evaluate | a halted book stays closed; counts hold over overlaps |
| Trade workflow (`orchestrator/`) | runs in memory, one file per run, an index, ids in flight | startRun, approve, reject, recoverAfterRestart | an order only after a recorded approval, once; no run stuck; settled records final |
| Approval service (`approvals/`) | proposals with their expiry, decision and result | propose, approve, reject, sweep | one order per proposal; refusals stand; status and result agree with the broker |
| FinanceGateway with the risk, portfolio and execution agents (`gateway/`, `agents/`) | pending requests, decisions by key, subscriptions | submitRequest, the decision or its timeout, start, stop | one answer per request, which stands; one trade per approval |
| Supervisor, loop guard (`agents/supervisor/`, `core/loop-guard.ts`) | plans and their steps, depths by correlation id | executePlan, orchestrateTradeProposal, enterTrace, exitTrace | depth balanced; a plan trades only after the steps before its trade |
| LLM runtime (`llm/agent-runtime.ts`, `llm/persistence.ts`) | coworkers and `agents.json`, active runs, conversations | register, archive, delete, run, stop, regenerate | an aborted run stops acting; the lock belongs to the newest run |
| Provider connections (`llm/connections.ts`, `llm/registry.ts`) | connections, removed ids, their file, registered providers | create, edit, delete, validate, health | what was deleted stays deleted |
| Coding sessions, CLI manager (`coding/`, `cli/`) | sessions, running turns, child processes | create, streamTurn, cancel, close; over the API, tasks and stops of the same CLI sessions | no session stuck in running; turns of a session never overlap |
| Runtime and process (`packages/core/src/`, `index.ts`) | phase, state of plugins, services and agents | main, start, stop, shutdown; over the API, start and stop of an agent | running means whole |
| Safety lifecycle manager, reconciliation (`safety/`), state recovery and history (`state/`), tickets (`risk-engine/`) | snapshots, operations in flight | not used by the server, see section 6 | |
| Market data, strategies, lab, backtests | ticks, buffers | numeric | floating-point functions of their input |
| Event bus, chat, memory, bots, tools, server routes, dashboard, CLI, schema | records | create, read, update, delete | no protocol of their own |

Interactions: the workflow, the approval service, the supervisor and the HTTP server call
`pipeline.execute` and await it; the pipeline calls the order manager and the kill
switch synchronously and awaits the broker; the order manager publishes events that
the trade engine, the agents and the chat consume within the same call; the gateway and
its agents talk through events, re-entrantly, with a timer on the gateway's side and a
latency on the execution agent's; the AgentRuntime and the coding sessions await
providers and child processes while requests abort them.
`PROJECT.json` lists every part with its status, and every hazard at its line.

Two facts about this commit matter when reading the results. `core/runtime.ts`
(L394-400) wires the pipeline without a broker, an order manager or a kill switch,
and the paper broker itself is not in the repository: `ExecutionPipeline` models the
pipeline with these parts given, as its constructor and the documentation foresee,
and the broker is external. And `index.ts` (L22-26) lets the server listen before
the runtime starts, so requests may meet services that have not recovered yet: the
models let them come then.

## 2. Modules

| Module | What it is |
|---|---|
| `CanonicalOrder` | an order and what the calls do to it: the status table, fills, versions, events (`canonical.ts` and the pure part of `order-manager.ts`) |
| `OrderManager` | the book with its indexes, fill ids and file; one action per method, `Restart` |
| `OrderLedger` | the abstract promise of the book: place, fill, close, no files, no restarts |
| `TradeEngine` | extends `OrderManager`: each step of the book with what the trade engine does at its events, `CloseTrade`, a restart that forgets the trades and not the orders |
| `ExecutionPipeline` | `execute` split at its one await, with the kill switch, the limits, the orders (through `CanonicalOrder`) and the broker |
| `Approvals` | extends `ExecutionPipeline`: the proposals around `execute`; a call is one request to approve, a proposal's id the id of its signal |
| `TradeWorkflow` | the orchestrator and its store, split at every await; the pipeline is reduced to how often it sends a run's order |
| `FinanceGateway` | requests, their keys and timeouts, and the risk, portfolio and execution agents |
| `Supervisor` | plans step by step, proposals under the loop guard; the pipeline by its promise |
| `AgentRuntime` | the registry and its file, the lock, and each run split at its awaits |
| `CodingSessions` | sessions, turns, the CLI session and process under each, the tasks and stops of the API on the same CLI session, the records after a restart |
| `RuntimeLifecycle` | `main()`, the signals, the agents that the API starts and stops, and the runtime's start and stop, split at the services' awaits |
| `ProviderConnections` | the connections in memory, in their file and in the registry, with health requests |
| `CanonicalOrderProofs` | lemmas about one order, for any ids and quantities, used by the proofs below |
| `OrderManagerProofs`, `TradeEngineProofs`, `ExecutionPipelineProofs`, `ApprovalsProofs`, `TradeWorkflowProofs` | theorems about the component of that name (section 5) |
| `AgentsProofs` | theorems about `AgentRuntime`, `FinanceGateway` and `Supervisor` |
| `ServicesProofs` | theorems about `ProviderConnections`, `CodingSessions` and `RuntimeLifecycle`, and about the composition `MCServices` |
| `MCOrderManager`, `MCTradeEngine`, `MCExecutionPipeline`, `MCApprovals` | constants and symmetry for TLC |
| `MCServices` | the six components from `FinanceGateway` to `ProviderConnections`, each explored from the initial states in which `part` names it; they share no state, and one run checks them all |

Correspondence. Every method of the OrderManager is synchronous, so it is one action
that changes memory, publishes (`out`) and writes the file; a write may fail where
`WriteOutcomes` says so, and a process killed between the change and the write is that
failed write followed by `Restart`. A load rebuilds the indexes and, as in the code,
not the applied fill ids. `execute` is `ReturnCompleted`, `JoinInflight`, `Refuse` or
`Submit` (everything before the await is one step), then `BrokerActs` and `Resume`;
`CrashMidSubmit` is a process dying between the writes of one submission. What
validation, risk and permission say of a signal's data is a free choice
(`DataRefusals`); what depends on the state (halt, counts) is computed.
In `TradeWorkflow` each asynchronous piece of work is a task (the startRun of a run, a
request that decides, recovery), and each save takes three steps: the file, reading
the index, replacing the index. Requests and `startRun` wait for nobody: they come before
recovery, between any two of its awaits and after it. A run object is loaded as a second
object by recovery, since `hydrate` replaces what the map holds while a running `startRun`
and the requests that came before keep their own; the history variable `replaced` has the
runs to which that happened.

`Approvals` and `TradeEngine` compose by conjunction: an approval is a step of the
pipeline together with what `approve()` does before or after it in the same turn of the
event loop, and a fill is a step of the book together with the trade engine's handler,
since the bus delivers synchronously. In `FinanceGateway` one action goes as far as the
re-entrant publications go: a request that the risk agent evaluates at once is decided,
ordered and taken by the execution agent within `SubmitRequest`. `AgentRuntime` keeps
each run at a `stage` between two awaits; its saves of `agents.json` make a directory
before they queue, so `agentSaves` is a set from which any is written next.
`CodingSessions` keeps the three lives under a turn apart, the record (`status`), the CLI
session (`cli`) and its process (`task`), because a stop ends them at different times.
Tasks that the API sends to the CLI session of a turn are counted (`resolving`, `spawned`):
what they do to the turn is to share its executable, to fail or revive the CLI session and
to take the turn's place as what a stop kills (`activeAbort`). A
connection in `ProviderConnections` is its membership in the sets of a store; a write
may fail, and then the route fails and the memory stays ahead of the file.

Names ending in `_Something` after a modelled definition's name (`FillSeen_Never`,
`Waiting_First`, ...) are seeded faults: each is a plausible bug in that definition,
kept so that a property can be shown to notice it. No specification uses them.

## 3. Runs

| Run | Bounds | Shows |
|---|---|---|
| `om_durable` | 2 orders, 2 keys, 2 fill ids, quantities 1-2, 5 versions, 1 restart, symmetric | the book, indexes, events and file agree; fills add up; closed is final; it implements `OrderLedger`; trades follow the orders and are final once settled |
| `om_failing_writes` | 1 order, 2 fill ids, 6 versions, 2 restarts, any write may fail | the file is only ever an older version of the book |
| `om_fill_after_restart` | 1 order, 1 restart | counterexample: a fill id is booked twice after a restart |
| `pl_safety` | 4 calls on 2 signals and 2 correlation ids, 2 interruptions, at most 1 open and 2 daily orders | duplicate protection, halted book closed, open orders accounted for |
| `pl_daily_limit` | 3 calls, a limit of 1 | counterexample: overlapping calls exceed the daily limit |
| `pl_halt_in_flight` | 1 call, 1 halt | counterexample: an order rests at the broker after the halt |
| `ap_approvals` | 2 approvals of one proposal and 1 of another, 1 interruption, fair | one order per proposal, refusals stand, status and result agree with the broker, every caller is answered |
| `tw_workflow` | a run, 2 requests, 2 restarts, fair | files catch up; no run is stuck in `running`; unless recovery replaced the object of the run, its order is sent only after its approval is on disk, and once, and its settled record stays |
| `tw_two_objects` | 1 run, 2 requests, no restart | counterexample: a run started before recovery gets a second object, and its order is sent twice |
| `sv_services` | see below; fair timers | the properties of the six services of `MCServices` |
| `ag_started_twice` | those of `sv_services` | counterexample: an agent hears each event twice |
| `ar_agents_lost` | the registry's, 1 restart | counterexample: a coworker is gone from `agents.json` after a restart |

`sv_services` has: three requests (two of one key, two of one correlation id), one waiting
at a time, two daily trades, one foreign signal and one agent at a time that was started
while it ran, with at most two subscriptions, for the gateway; two signals and two plans
over two proposal ids and two correlation ids, at depth 2, for the supervisor; two
coworkers, one of them built in, one run for the registry with a restart and three saves
under way, and three runs of at most two turns without it; a coding session with two
tasks of the API at a time and two restarts; a plugin, two services, an agent and two
signals; a built-in preset and a custom provider, one health request at a time and one
restart.

Why the bounds are enough. The book treats orders independently except for the two
indexes, so two orders and two keys give every sharing of keys; quantity 2 with fills of
1 and 2 has partial, exact and excessive fills, two fill ids a repetition and a second
fill, and five versions the longest path with a failure and a retry. Four calls are a
call, its repetition, its retry under another correlation id and a call of another
signal, which compete for one open and two daily orders; two interruptions give a halt
followed by a re-arm, a reset after a reset, or a restart during either. Two
requests are the fewest that can decide one run at the same time; the second restart
recovers what was recovered before. Two runs, which share nothing but the index and the
order in which recovery goes through them, are beyond TLC with requests during recovery:
they are covered by the theorems, and an index that loses a run shows in one run as well,
as a file that is not loaded. Signals of more than one agent would only give independent
daily counts. Among the services, two is where one actor first meets another: two
requests of a key, two runs of a coworker (and one more, of another), a turn and a task of
the API, two signals during one shutdown; a plan of four steps has a step before, and one
after, its trade. Coding sessions meet only when one is created, and a refused creation
changes nothing, so one is enough.

What the counterexamples say of the code is in `PROJECT.json` under `findings`, with the
line of the documentation each contradicts. Two passing properties are what is left of
what a counterexample refutes. `tw_two_objects` shows `SentOnce` false: a run started and
approved while recovery loads its file ends up with two objects, and an approval of each
hands the order to the pipeline, which does not recognise the second because the
orchestrator passes no correlation id. So `OrderHasRecordedApproval`, `SentOnceUndivided`
and `SettledRecordIsFinal` speak of the runs that recovery has not replaced; they hold of
all others, whatever requests come during recovery. `ag_started_twice` shows that an agent
started while it runs hears twice; `OneTradePerApproval` says which agents have to be
started so for an approval to be executed, or a fill booked, twice, and that it does not
happen otherwise.

## 4. Fairness

`Spec` has none. `ApprovalsFairness`, in `ApprovalsSpec`, assumes that the broker settles
each `createOrder` and that the event loop resumes the caller. The
second is Node's; the first is an assumption about the broker, since the await at
`pipeline.ts:341` has no timeout, and `EveryCallEnds` would fail without it. `FairSpec` of
`TradeWorkflow` assumes that disk operations, agent turns and the pipeline's answer come
to an end, task by task; agent turns end because the engines have timeouts, the
pipeline's answer by `EveryCallEnds`. `GatewayFairness` assumes that the 15 s timer of a
waiting request fires, no more: neither the risk agent's answer nor a start of it.
Requests, restarts, halts, resets, aborts and health answers are never assumed to happen.

## 5. Proofs

Each theorem holds for every value of its module's constants, from the assumptions that
the modules name, all of them about the shape of the constants, and from the hypotheses
in the last column, which is about the disk:

| Proofs | Assumed of the constants | Hypotheses |
|---|---|---|
| `OrderManagerProofs`, `TradeEngineProofs` | `ConstantAssumption`: quantities are positive, `NoId` is not an order id, write outcomes are Booleans | `Durable` (writes succeed) where the theorem says so |
| `ExecutionPipelineProofs` | `PipelineAssumption` (each call has a signal and a correlation id, the bounds are naturals); `FiniteSignals`: orders are counted, so there are finitely many | |
| `ApprovalsProofs` | these two, and `OneCorrelationPerProposal`: `approve` passes the plan or the id of the proposal | |
| `TradeWorkflowProofs` | `WorkflowAssumption`: tasks are told apart, an absent object is none | |
| `AgentsProofs` | `AgentRuntimeAssumption`, `GatewayAssumption`; `SupervisorAssumption`: a plan is not empty and has one trade at most, as the planner's do, and finitely many signals and plans, which are counted | |
| `ServicesProofs` | those, `ProviderAssumption` (presets and built-in providers are provider ids), `CodingAssumption`, `LifecycleAssumption` (plugins and services are lists, there is something to start and to stop); for the composition, `MembersAssumption` | |

Every invariant the passing runs check is a theorem, and so is every action property and
the refinement. Below, for each, what had to be added to make it inductive.

### The order book and the trades

`OrderManagerProofs`, whether or not writes fail: `TypeCorrect`,
`FillsMatchStatusAlways` (status and filled quantity agree, no order is over-filled),
`FileNeverAheadAlways` (an order in the file is an older version of the one in memory, or
the same one) and `OneEventPerVersionAlways` (an order changes only with its version, and
each new version is announced once).

None of the first three is inductive alone. A `Load` or `Restart` brings the file's
orders into memory, so the invariant says of the file what it says of memory
(`FileFillsMatch`); and two versions with the same number must be the same order, which
needs that an uuid once in the file or in memory is never handed out again (`IdsIssued`).
The inductive invariant is their conjunction:
`Inv == TypeOK /\ FillsMatchStatus /\ FileFillsMatch /\ FileNeverAhead /\ IdsIssued`.
The proof of the step goes action by action, over the lemmas of `CanonicalOrderProofs`
about what the operators of `CanonicalOrder` do to one order.

When writes succeed (`Durable`), from `DurableInv`, which ties the file and the
indexes to memory:

- `DurableOnReturnAlways`: the file equals memory after every call.
- `IndexesAgreeAlways`: both indexes name exactly the orders held.
- `ClosedIsFinalAlways`: a closed order never changes, over reloads and restarts.
- `FillsAddUpAlways`: the filled quantity is the sum of the fills listed. The sum is a
  recursive function on `0 .. n`; that it exists and is unique is shown through the least
  number where two sums would differ (`LeastElement`, `SumExists`, `SumUnique`), since
  induction itself is out of reach, and that one more fill adds its quantity is
  `LotsOfOneMore`.
- `ManagerImplementsLedger`: `Spec => Ledger!LedgerSpec`. A creation maps to `Place` (the
  indexes are what tells that no other order has the key), a fill to `Fill`, a
  cancellation or rejection to `Close`, a clear to `Wipe`, and everything else,
  reloads and restarts included, to a stutter.

`TradeEngineProofs`: `TradesTypeCorrect`, `SettledTradeIsFinalAlways`,
`TradesFollowOrdersAlways` (with `Durable`) and `TradesImplementLedger`. Every step of the
trade engine is a step of the book with something added, or leaves the book alone, so all
that is proved of the book carries over. `TradesInv` adds that no fill event was seen of
a version the order has not reached (`FillsSeen`: so the event of a new version is
never taken for a repetition) and that an id never handed out has no trade
(`NewIsUntraded`).

### The pipeline and the approvals

`ExecutionPipelineProofs`, in three invariants, one on top of the other:

- `Typed == TypeOK /\ OrdersWhole` gives `PipelineTypeCorrect`. `TypeOK` alone is not
  inductive: a fill of an order that was partly filled before could exceed it. The
  pipeline fills whole orders only, so an open order has nothing filled.
- `CallsInv` gives `NobodyJoinsTheDeadAlways`, `SentOncePerKeyAlways` and
  `SameKeySameResultAlways`. What a call finds in `inflight` must be a call of its own
  key that still awaits (`InflightAwaits`), a joined call must wait for such a one
  (`CallsInOrder`), and as long as no restart forgot anything, a call under way or done
  must have left its trace in one of the two maps (`CallsTraced`): that is why a second
  call of the key cannot come to the broker.
- `BookInv` gives `HaltedBookIsClosedAlways`, `OpenOrdersCappedAlways`,
  `OpenOrdersAccountedAlways` and `FilledWasExecutedAlways`. The counting argument is
  three lemmas on cardinalities: no step but a submission opens an order, a submission
  opens one at most, and only below the cap.

`ApprovalsProofs`: `ApprovalsImplementPipeline` shows that an approval never drives the
pipeline where `execute` could not go by itself, so `CallsInv` holds under the approvals.
On top of it `ApprovalsInv` gives `ApprovalsTypeCorrect`, `ProposalSentOnceAlways`,
`TradedIsNotShownAsRejectedAlways`, `NotedResultIsRealAlways` and `RefusalsStandAlways`.
The pipeline's `CallsTraced` ends at a restart, and `SentOncePerKey` with it; here it is needed
after a restart too. It survives for the proposals of the new process
(`ProposalTraced`), since the ids of the old ones are gone with their calls
(`GoneIsOver`). A remembered result is true of the broker (`RememberedIsReal`), or
`NotedResultIsReal` would not hold of an approval that is answered at once.

### The workflow

`TradeWorkflowProofs`, from one invariant `WorkflowInv`, for any number of runs, requests
and restarts, with requests at any time: `WorkflowTypeCorrect`,
`OrderHasRecordedApprovalAlways`, `SentOnceUndividedAlways`, `RunningIsDrivenAlways`,
`FileCatchesUpAlways`, `SettledRecordIsFinalAlways`. Its parts beside these properties:

- `BootFirst`: what recovery may find. Until it fills the map, the map has the runs this
  process started and no others, and what was loaded of a run that the map does not have
  is still what its file says. That is why a run whose object is not replaced meets
  recovery only in its own object, or only in the loaded one.
- `Aimed` and `IsOf`: a task that saves or decides works on the object that the map holds,
  or on the one that recovery replaced.
- `RunSteps`: a run in its stages has no approval and no order; it is `running`, or
  `interrupted` when recovery went over it meanwhile.
- `RequestSteps`: a request that carries an approved run has it to itself, its order is not
  sent before the pipeline is called, and after its save the file says that it was approved.
  `SentOnceUndivided` rests on this exclusion: the approval takes the run out of
  `awaiting_approval` in the same step that reads it, and recovery never puts it back.
- `Records`: a settled file is what the map shows, and an order once sent leaves its
  approval in the file for good, also over the restart that forgets everything else.

### The agents

`AgentsProofs` has one invariant for each of three components:

- `RuntimeInv` (`AgentRuntime`): the types, and `LockOfOwnCoworker`: a run holds no lock but
  that of its coworker, so a run that ends frees no other's. With it
  `AbortedRunsStopActingAlways` and `LockHeldByTheLatestAlways` hold of each step.
- `GatewayInv` (`FinanceGateway`): the types, `PendingWaits` (a promise in the map is that
  of a waiting request of its correlation id, so no answer overwrites a given one:
  `AnswerStandsAlways`) and `SubscribedListens`. `OneTradePerApprovalAlways` needs
  `HearsOnce` beside it: an agent that was never started while it ran hears an event
  once, however often it was stopped and started.
- `SupervisorInv` (`Supervisor`): `DepthBalancedAlways` is a counting argument, the depth
  of a correlation id against the set of its proposals in the pipeline (`InPipeline`);
  `PlanTradesInOrderAlways` needs that the results follow the steps
  (`ResultsFollowSteps`) and that only the trade of a plan moves its proposal, so that a
  completed one was executed (`TradesFollowSteps`).

### The sessions, the runtime and the providers

`ServicesProofs`:

- `CodingInv` gives `RunningHasATaskAlways` and `TurnsNeverOverlapAlways`. `StopsAreFinal`
  is the heart of it: a task without its turn exists only under a CLI session that a stop
  has closed for good, and such a session accepts no turn; a failed one, which a task of
  the API can make ready again, has none.
- `LifecycleInv` gives `RunningIsWholeAlways`: the phase follows `main()`
  (`PhaseFollowsMain`), the components are started in their order up to where `start()`
  is (`StartedInOrder`), and at most one shutdown drains, in the phase `draining`
  (`OneDrains`), which a startup that comes back from its await cannot leave. What the API
  does to agents moves neither.
- `ProvidersInv` gives `DeletedStaysDeletedAlways`. A restart lists what the file lists
  and seeds what the file does not know as removed, so the invariant says of the file what it
  says of the memory, and that a confirmed deletion is among the removed ids of both
  (`DeletionKept`): the confirmation is given after a write that succeeded, and no later
  write forgets a removed id.
- `ServicesRunEach` shows that the composition of `MCServices` runs each of the six
  services by its own specification, so that every theorem about one of them holds of
  it; `ServicesTypeCorrect` is the first that follows.

`IndexesAgree`, `OpenOrdersCapped` and `FilledWasExecuted` are proved for every instance
and need no run of their own.

### Only model-checked

Liveness under fairness, which needs `ENABLED` and is out of the prover's reach:
`EveryCallEnds`, `EveryRunSettles` and `EveryRequestAnswered`. The six counterexamples are
TLC's too. The workflow's, the supervisor's and the pipeline's models are each treated on
their own; that the promise the first two rely on is what the third one gives (a call
settles, and repetitions share one execution) is `EveryCallEnds`, `SentOncePerKey` and
`SameKeySameResult`.

## 6. Abstractions, and what is not modelled

- Prices, fees, timestamps and texts; quantities are lots.
- The content of agent answers, proposals, market data and risk checks: they accept or
  refuse freely.
- Live trading: the pipeline is modelled in paper mode, its only mode at this commit.
- In `TradeWorkflow`: requests of a run that is not in the map (they are answered that it is
  unknown), failing writes (`saveRun` swallows an error of the disk,
  `store.ts:51`, so approve hands the order on although the approval is not on disk), a
  torn `index.json` of two writers on one temporary file, and the limits of 100 loaded
  and 500 indexed runs.
- In `ExecutionPipeline`: the write of `orders.json` succeeds (failures are the subject
  of `om_failing_writes`), and all signals are of one agent.
- In `AgentRuntime`: one conversation per coworker; the abort through a signal of the
  caller's (`agent-runtime.ts:727`), which no caller passes, and the runs of names that are
  not registered (`agent-runtime.ts:701`), which take no lock.
- In `Approvals`: the proposal status `failed`. `execute` turns the errors of the risk
  check and of the broker into an answer, so `approve` does not meet an exception of it.
- In `ProviderConnections`: a file that cannot be parsed, which the code takes for no
  file; the store's atomic write never leaves one.
- In `CodingSessions`: worktrees. Making and removing one are git commands that change no
  status; removing one asks that the session does not say `running`. A turn that a stop ends
  may be given the outcome `failed` as well as `idle`: a failure of a task of the API on the
  same event stream makes the difference (`sessions.ts:420`).
- In `RuntimeLifecycle`: an agent's subscriptions, which are in `FinanceGateway`.
- Persistent CLI transports, the legacy CLI sessions (`llm/cli-session.ts`) and the
  process runner's limits.
- The parts of section 1 that `PROJECT.json` marks `not_modelled`, with the reason. Most
  are numeric or keep plain records. Some have a protocol and are not modelled because
  nothing in the server runs it: `safety/lifecycle-manager.ts` (its cancel, drain and
  cleanup; no code creates it), `verifyRiskTicket` (single redemption of a ticket; only
  tests call it), the reconnection of `market/binance-ws.ts` (no code creates the
  adapter), `state/state-recovery.ts` (nobody reads the recovered state), and the flush
  of `memory/agent-memory.ts` (no file is configured).

### Divergences without a run

Met while modelling, shown by a model or by reading, and not among the findings because
no statement of the repository contradicts them, because they are a single assignment, or
because a run says the same of another place:

- A fill takes an order from CREATED to FILLED at once, past the status table
  (`order-manager.ts:274`), and a partially filled broker answer is booked with the full
  quantity (`pipeline.ts:369`): `FILLED` may mean partially filled at the broker, and
  `FilledWasExecuted` says no more than that the broker reported one of the two.
- The kill switch forgets a halt over a restart (`kill-switch.ts:136`).
- A retry of a signal under another correlation id, or after a restart, is sent again
  although the first order is closed (`pipeline.ts:133`, `311`).
- A run may be missing from `index.json`, and so from the runs after a restart, when two
  saves overlapped (`store.ts:56`, `59`).
- A second run of a coworker replaces the first one's entry of the lock without aborting
  it (`agent-runtime.ts:726`): both go on, the first can no longer be stopped, and each
  saves the conversation without the other's exchange (`agent-runtime.ts:933`). An
  error of the routing, which is chosen outside the `try`, keeps the lock
  (`agent-runtime.ts:739`).
- Tasks of one CLI session are not "dispatched sequentially" (`cli/cli-manager.ts:97`):
  `runTask` never looks at `busy`, so `POST /api/cli/sessions/:id/tasks` (`server.ts:914`)
  runs a task beside a turn or another task. The last one to spawn is the one a stop kills,
  and none after one of them has ended (`cli-manager.ts:323`); a task that ends makes ready a
  session that another has failed (`cli-manager.ts:354`). `CodingSessions` has this behaviour.
- `DELETE /api/cli/sessions/:id` (`server.ts:933`) ends a turn as if it had succeeded, and
  leaves its session `idle` over a stopped CLI session.
- Recovery marks a run as "interrupted before execution", with the advice to run it again,
  although its order was sent: after a restart (`orchestrator.ts:316`), and while an
  approval that came during recovery is executed. `SettledRecordIsFinal` leaves `interrupted`
  out for that reason.
- An agent that the API starts while a shutdown drains runs on (`server.ts:179`); only the
  end of the process stops it.
- Two idle coding sessions of one project may run turns in one working tree, as the check
  is made at their creation (`sessions.ts:198`, against the comment at 196).
- A second signal while a shutdown drains ends the process at once (`index.ts:37`).
- A deleted provider that the registry registers by itself (`openai`, `ollama`) is back in
  the registry after a restart, though not among the connections
  (`registry.ts:22`); a health answer about a configuration is recorded on
  the edited connection (`server.ts:1904`).
- Two prompts of one coworker share the entry of the legacy CLI sessions: the second
  terminates the session of the first, which fails if it has not been sent yet
  (`cli-session.ts:721`), and `terminateAll` leaves the processes of one-shot prompts
  running.
- A trade proposal of the chat can be approved after its rejection, or twice, and is
  announced as filled 600 ms after its approval, rejected meanwhile or not; its
  `order.submitted` event has no subscriber that trades (`dialogue-engine.ts:390`).

## 7. Plan

The modelled components are complete up to the abstractions above, and every safety
property of a passing run is proved. What is left to prove, in this order:

1. The promises between the models: that the pipeline as the workflow and the supervisor
   see it, a call that is answered once and an order sent at most once per key, is an
   abstract specification which `ExecutionPipeline` implements.
2. The findings as theorems about the weaker property that does hold: what bounds the
   daily count when calls overlap, and what a halt leaves at the broker.
3. What holds of a run whose object recovery has replaced: its order is sent at most twice.
