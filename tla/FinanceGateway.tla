---------------------------- MODULE FinanceGateway ----------------------------
(***************************************************************************)
(* The FinanceGateway (gateway/finance-gateway.ts) and the agents at the   *)
(* other end of the bus: the risk agent that evaluates its requests, the   *)
(* portfolio agent that turns an approval into an order, and the execution *)
(* agent that fills orders after its latency.                              *)
(*                                                                         *)
(* The bus delivers synchronously and re-entrantly, so a submitRequest     *)
(* that the risk agent evaluates at once is decided inside its own publish *)
(* of gateway.trade_request.  It has to wait when nobody evaluates it: the *)
(* risk agent is stopped, or holds signals for approval.  Then the answer  *)
(* is the timeout, or the decision about another signal of the same        *)
(* correlation id.                                                         *)
(*                                                                         *)
(* One agent asks for one symbol; an order of the portfolio agent is one   *)
(* lot.  The verdict of the risk checks is left open.  The agents can be   *)
(* stopped and started over the API (core/server.ts), running ones too.    *)
(***************************************************************************)
EXTENDS Naturals, FiniteSets

CONSTANTS TradeRequest,
          IdempotencyKey,
          CorrelationId,
          RequestKey,         \* the idempotency key of each request
          RequestCorr,        \* the correlation id of each request
          NoRequest,
          MaxPendingRequests,
          MaxDailyTrades,     \* maxDailyOrders of the agent's permissions
          MaxListeners,       \* bound on the subscriptions of an agent
          MaxDoubled,         \* bound on the agents started while they run
          MaxSignals          \* bound on the signals of other origin

ASSUME GatewayAssumption ==
    /\ RequestKey \in [TradeRequest -> IdempotencyKey]
    /\ RequestCorr \in [TradeRequest -> CorrelationId]
    /\ NoRequest \notin TradeRequest
    /\ MaxPendingRequests \in Nat /\ MaxDailyTrades \in Nat
    /\ MaxListeners \in Nat \ {0} /\ MaxSignals \in Nat
    /\ MaxDoubled \in Nat

Agent == {"risk", "portfolio", "execution"}

VARIABLES phase,       \* where each submitRequest is
          decision,    \* what it was answered
          dedup,       \* dedupByIdempotency
          pendingBy,   \* pendingByCorrelation, the promise named by its request
          dailyTrades, \* agentDailyOrders
          listeners,   \* the bus subscriptions of each agent
          subscribed,  \* the agent knows its latest one: it was started last
          doubled,     \* history: the agents started while they ran
          held,        \* signals are held for approval
          inExecution, \* orders in the execution agent's latency
          fills,       \* the fills of the execution agent
          position,    \* lots the portfolio agent has booked
          approvals,   \* history: risk.approved events
          signals      \* bounded by MaxSignals

requestVars == <<phase, decision, dedup, pendingBy, dailyTrades>>

agentVars == <<listeners, subscribed, doubled, held>>

tradeVars == <<inExecution, fills, position, approvals>>

gatewayVars == <<requestVars, agentVars, tradeVars, signals>>

Decisions == {"approved", "rejected", "timeout"}

GatewayTypeOK ==
    /\ phase \in [TradeRequest -> {"idle", "waiting", "joined", "answered"}]
    /\ decision \in [TradeRequest -> Decisions \cup {"none", "refused"}]
    /\ dedup \in [IdempotencyKey -> Decisions \cup {"none"}]
    /\ pendingBy \in [CorrelationId -> TradeRequest \cup {NoRequest}]
    /\ {dailyTrades, inExecution, fills, position, approvals} \subseteq Nat
    /\ listeners \in [Agent -> 0 .. MaxListeners]
    /\ subscribed \in [Agent -> BOOLEAN]
    /\ doubled \subseteq Agent
    /\ held \in BOOLEAN
    /\ signals \in 0 .. MaxSignals

GatewayInit ==
    /\ phase = [r \in TradeRequest |-> "idle"]
    /\ decision = [r \in TradeRequest |-> "none"]
    /\ dedup = [k \in IdempotencyKey |-> "none"]
    /\ pendingBy = [c \in CorrelationId |-> NoRequest]
    /\ dailyTrades = 0
    /\ listeners = [a \in Agent |-> 1]
    /\ subscribed = [a \in Agent |-> TRUE]
    /\ doubled = {}
    /\ held = FALSE
    /\ inExecution = 0
    /\ fills = 0
    /\ position = 0
    /\ approvals = 0
    /\ signals = 0

-----------------------------------------------------------------------------
(* Answers.                                                                *)

Waiting(r) == phase[r] = "waiting"

\* Seeded fault: who joined a promise is not told.
Holders_First(r) == {r}

\* The requests that hold the promise of r.
Holders(r) == {r} \cup {s \in TradeRequest :
                           phase[s] = "joined" /\ RequestCorr[s] = RequestCorr[r]}

Answered(rs, answer) ==
    /\ phase' = [r \in TradeRequest |-> IF r \in rs THEN "answered" ELSE phase[r]]
    /\ decision' = [r \in TradeRequest |-> IF r \in rs THEN answer ELSE decision[r]]

\* The map of promises when that of r is deleted.
Forgotten(r) == [pendingBy EXCEPT ![RequestCorr[r]] = NoRequest]

\* r is decided: everyone who holds its promise learns the answer, which
\* becomes the answer of the idempotency key, a timeout as well.
Decide(r, answer) ==
    /\ Answered(Holders(r), answer)
    /\ dedup' = [dedup EXCEPT ![RequestKey[r]] = answer]
    /\ pendingBy' = Forgotten(r)
    /\ dailyTrades' = IF answer = "approved" THEN dailyTrades + 1 ELSE dailyTrades

\* Seeded fault: the gateway's own order is taken by the execution agent.
OrdersTaken_Both(decides) == IF decides THEN 2 ELSE 1

\* The orders for one risk.approved that the execution agent can take.  The
\* portfolio agent places one.  A gateway that waits for the decision
\* publishes an order.created of its own, which validateOrder refuses: it
\* carries quantity where the agent reads qty.
OrdersTaken(decides) == 1

RiskListens == listeners["risk"] > 0 /\ ~held

\* The risk agent evaluates a signal, once for each of its subscriptions, and
\* answers with a verdict first; decides says that a gateway request waits.
RiskPublishes(verdict, decides) ==
    \E yes \in 0 .. listeners["risk"] :
        /\ verdict = "approved" => yes > 0
        /\ verdict = "rejected" => yes < listeners["risk"]
        /\ approvals' = approvals + yes
        /\ inExecution' = inExecution + yes * OrdersTaken(decides)
                              * listeners["portfolio"] * listeners["execution"]

-----------------------------------------------------------------------------
(* submitRequest().                                                        *)

\* Seeded fault: the answer given before is not looked up.
Prior_Miss(r) == "none"

Prior(r) == dedup[RequestKey[r]]

ReturnPrior(r) ==
    /\ phase[r] = "idle"
    /\ Prior(r) # "none"
    /\ Answered({r}, Prior(r))
    /\ UNCHANGED <<dedup, pendingBy, dailyTrades, agentVars, tradeVars, signals>>

JoinPending(r) ==
    /\ phase[r] = "idle"
    /\ Prior(r) = "none"
    /\ pendingBy[RequestCorr[r]] # NoRequest
    /\ phase' = [phase EXCEPT ![r] = "joined"]
    /\ UNCHANGED <<decision, dedup, pendingBy, dailyTrades, agentVars,
                   tradeVars, signals>>

IsNew(r) ==
    /\ phase[r] = "idle"
    /\ Prior(r) = "none"
    /\ pendingBy[RequestCorr[r]] = NoRequest

PendingRequests == {r \in TradeRequest : Waiting(r)}

Permitted == dailyTrades < MaxDailyTrades

RoomToWait == Cardinality(PendingRequests) < MaxPendingRequests

\* A refusal before the risk check is not remembered.
RefuseRequest(r) ==
    /\ IsNew(r)
    /\ ~Permitted \/ ~RoomToWait
    /\ Answered({r}, "refused")
    /\ UNCHANGED <<dedup, pendingBy, dailyTrades, agentVars, tradeVars, signals>>

\* The risk agent answers inside the publish of gateway.trade_request.
DecideAtOnce(r) ==
    /\ IsNew(r) /\ Permitted /\ RoomToWait
    /\ RiskListens
    /\ \E verdict \in {"approved", "rejected"} :
         Decide(r, verdict) /\ RiskPublishes(verdict, TRUE)
    /\ UNCHANGED <<agentVars, fills, position, signals>>

\* Nobody answers: the request waits with its subscriptions and its timer.
StartWaiting(r) ==
    /\ IsNew(r) /\ Permitted /\ RoomToWait
    /\ ~RiskListens
    /\ phase' = [phase EXCEPT ![r] = "waiting"]
    /\ pendingBy' = [pendingBy EXCEPT ![RequestCorr[r]] = r]
    /\ UNCHANGED <<decision, dedup, dailyTrades, agentVars, tradeVars, signals>>

SubmitRequest(r) ==
    ReturnPrior(r) \/ JoinPending(r) \/ RefuseRequest(r) \/ DecideAtOnce(r)
    \/ StartWaiting(r)

\* requestTimeoutMs passes.
TimeOut(r) ==
    /\ Waiting(r)
    /\ Decide(r, "timeout")
    /\ UNCHANGED <<agentVars, tradeVars, signals>>

-----------------------------------------------------------------------------
(* The agents.                                                             *)

\* The risk agent evaluates another signal with correlation id c.  A request
\* of that id that waits is decided by it.
EvaluateSignal(c) ==
    /\ signals < MaxSignals
    /\ RiskListens
    /\ \E verdict \in {"approved", "rejected"} :
         /\ RiskPublishes(verdict, pendingBy[c] # NoRequest)
         /\ IF pendingBy[c] # NoRequest
            THEN Decide(pendingBy[c], verdict)
            ELSE UNCHANGED requestVars
    /\ signals' = signals + 1
    /\ UNCHANGED <<agentVars, fills, position>>

\* start(), over the API: the base class notices that the agent runs and
\* returns, and the agent subscribes all the same.
StartAgent(a) ==
    /\ listeners[a] < MaxListeners
    /\ doubled' = IF subscribed[a] THEN doubled \cup {a} ELSE doubled
    /\ Cardinality(doubled') <= MaxDoubled
    /\ listeners' = [listeners EXCEPT ![a] = @ + 1]
    /\ subscribed' = [subscribed EXCEPT ![a] = TRUE]
    /\ UNCHANGED <<requestVars, held, tradeVars, signals>>

\* stop(): the latest subscription is undone, if it was not before.
StopAgent(a) ==
    /\ subscribed[a]
    /\ listeners' = [listeners EXCEPT ![a] = @ - 1]
    /\ subscribed' = [subscribed EXCEPT ![a] = FALSE]
    /\ UNCHANGED <<requestVars, doubled, held, tradeVars, signals>>

\* The approval service holds signals, or no longer.
SwitchHold ==
    /\ held' = ~held
    /\ UNCHANGED <<requestVars, listeners, subscribed, doubled, tradeVars, signals>>

\* The latency passes: order.filled, which the portfolio agent books.
FillOrder ==
    /\ inExecution > 0
    /\ inExecution' = inExecution - 1
    /\ fills' = fills + 1
    /\ position' = position + listeners["portfolio"]
    /\ UNCHANGED <<requestVars, agentVars, approvals, signals>>

GatewayNext ==
    \/ \E r \in TradeRequest : SubmitRequest(r) \/ TimeOut(r)
    \/ \E c \in CorrelationId : EvaluateSignal(c)
    \/ \E a \in Agent : StartAgent(a) \/ StopAgent(a)
    \/ SwitchHold
    \/ FillOrder

\* The timers run.
GatewayFairness ==
    /\ \A r \in TradeRequest : WF_gatewayVars(TimeOut(r))
    /\ WF_gatewayVars(FillOrder)

GatewaySpec == GatewayInit /\ [][GatewayNext]_gatewayVars /\ GatewayFairness

-----------------------------------------------------------------------------
(* Properties.                                                             *)

\* One approval, one trade: both the portfolio agent and the gateway publish
\* an order.created for it, and agents are stopped and started meanwhile, but
\* it is executed at most once unless the portfolio or the execution agent
\* was once started while it ran.  A fill is booked at most once unless the
\* portfolio agent was.  A second start of the risk agent alone approves a
\* signal twice, and each approval still has one trade at most.
OneTradePerApproval ==
    /\ doubled \cap {"portfolio", "execution"} = {} =>
           inExecution + fills <= approvals
    /\ "portfolio" \notin doubled => position <= fills

\* agents/execution/AGENT.md says of start() and stop(): "subscribe/
\* unsubscribe lifecycle (idempotent)".  An agent hears an event once.
StartIsIdempotent == \A a \in Agent : listeners[a] <= 1

\* The answer of an idempotency key stands: once it is given and no request
\* of the key is waiting, no later request and no late decision changes it.
AnswerStands ==
    [][\A k \in IdempotencyKey :
        /\ dedup[k] # "none"
        /\ \A r \in PendingRequests : RequestKey[r] # k
        => dedup'[k] = dedup[k]]_gatewayVars

\* Whether the risk agent answers, is stopped or holds, and whatever other
\* decisions come by, each caller of submitRequest is answered.
EveryRequestAnswered ==
    \A r \in TradeRequest :
        phase[r] \in {"waiting", "joined"} ~> phase[r] = "answered"
=============================================================================
