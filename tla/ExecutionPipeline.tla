-------------------------- MODULE ExecutionPipeline --------------------------
(***************************************************************************)
(* The ExecutionPipeline (execution-pipeline/pipeline.ts) together with    *)
(* the parts it drives: the orders of the OrderManager, the KillSwitch     *)
(* (safety/kill-switch.ts) and a broker, which is external.                *)
(*                                                                         *)
(* execute() runs without a pause from its first line to the call of       *)
(* broker.createOrder, the one await; everything up to it is one action,   *)
(* and what follows the answer is another.  In between other calls, the    *)
(* kill switch, resetDailyCounts and a process restart may come.           *)
(*                                                                         *)
(* The signal id is the client order id and the idempotency key of its     *)
(* canonical order, so the OrderManager holds at most one order per        *)
(* signal: orders is indexed by signal.  A signal asks for one lot, and    *)
(* all the signals are of one agent.  orders.json is always written, so    *)
(* the orders outlive a restart.                                           *)
(***************************************************************************)
EXTENDS CanonicalOrder, FiniteSets

CONSTANTS Call,             \* the calls of execute()
          SignalId,
          Corr,             \* correlation ids
          SignalOf,         \* the signal each call carries
          CorrOf,           \* the correlation id of each call
          NoCall,
          DataRefusals,     \* stages that may refuse a call for its data
          MaxDailyOrders,
          MaxOpenOrders,
          MaxInterruptions  \* bound on restarts, halts, re-arms and resets

ASSUME PipelineAssumption ==
    /\ SignalOf \in [Call -> SignalId]
    /\ CorrOf \in [Call -> Corr]
    /\ NoCall \notin Call
    /\ DataRefusals \subseteq {"live_disabled", "validation", "hard_limits",
                               "risk", "permission"}
    /\ MaxDailyOrders \in Nat /\ MaxOpenOrders \in Nat
    /\ MaxInterruptions \in Nat

\* Only finitely many signals are ever seen.
ASSUME FiniteSignals == IsFiniteSet(SignalId)

VARIABLES pc,               \* where each call is
          leader,           \* the call whose promise a call waits for
          result,           \* the stage each call was answered with
          inflight,         \* Map key -> promise, named by its call
          completed,        \* completedByCorrelation: Map key -> result
          orderIdempotency, \* the signals whose order id is remembered
          dailyCount,       \* dailyCounts of the agent
          orders,           \* the OrderManager's order of each signal
          killSwitch,       \* state of the KillSwitch
          broker,           \* what the broker did with each call's order
          interruptions,    \* how many interruptions there were
          forgetful         \* history: results may have been forgotten

vars == <<pc, leader, result, inflight, completed, orderIdempotency,
          dailyCount, orders, killSwitch, broker, interruptions, forgetful>>

Key == Corr \X SignalId

KeyOf(c) == <<CorrOf[c], SignalOf[c]>>

\* "failed": createOrder threw and nothing was executed; "lost_answer": it
\* threw (a broken connection, a timeout) although the order was executed.
\* What becomes of the rest of a partially filled order is not followed.
BrokerOutcomes == {"filled", "partially_filled", "rejected", "open", "failed",
                   "lost_answer"}

\* The answers that report a fill.
FillReports == {"filled", "partially_filled"}

Stages == {"kill_switch", "live_disabled", "validation", "hard_limits",
           "risk", "permission", "paper", "completed"}

TypeOK ==
    /\ pc \in [Call -> {"idle", "awaiting", "joined", "done", "lost"}]
    /\ leader \in [Call -> Call \cup {NoCall}]
    /\ result \in [Call -> Stages \cup {"none"}]
    /\ inflight \in [Key -> Call \cup {NoCall}]
    /\ completed \in [Key -> Stages \cup {"none"}]
    /\ orderIdempotency \subseteq SignalId
    /\ dailyCount \in Nat
    /\ orders \in [SignalId -> OrderOf(SignalId, {1}) \cup {NoOrder}]
    /\ killSwitch \in {"ARMED", "TRIGGERED", "DISARMED"}
    /\ broker \in [Call -> BrokerOutcomes \cup {"none", "sent", "cancelled"}]
    /\ interruptions \in 0 .. MaxInterruptions
    /\ forgetful \in BOOLEAN

Init ==
    /\ pc = [c \in Call |-> "idle"]
    /\ leader = [c \in Call |-> NoCall]
    /\ result = [c \in Call |-> "none"]
    /\ inflight = [k \in Key |-> NoCall]
    /\ completed = [k \in Key |-> "none"]
    /\ orderIdempotency = {}
    /\ dailyCount = 0
    /\ orders = [s \in SignalId |-> NoOrder]
    /\ killSwitch = "ARMED"
    /\ broker = [c \in Call |-> "none"]
    /\ interruptions = 0
    /\ forgetful = FALSE

-----------------------------------------------------------------------------
(* The stages before the order.                                            *)

\* Seeded fault: the halt is not consulted.
Halted_Never == FALSE

Halted == killSwitch = "TRIGGERED"

OpenOrders == {s \in SignalId : IsOpen(orders[s].status)}

HardLimitReached ==
    \/ Cardinality(OpenOrders) >= MaxOpenOrders
    \/ dailyCount >= MaxDailyOrders

\* The stages at which the checks may end a call now, "accepted" when none
\* refuses it: what each check says of the signal's own data is left open.
Verdicts ==
    IF Halted THEN {"kill_switch"}
    ELSE (DataRefusals \cap {"live_disabled", "validation", "hard_limits"})
         \cup (IF HardLimitReached
               THEN {"hard_limits"}
               ELSE {"accepted"} \cup (DataRefusals \cap {"risk", "permission"}))

-----------------------------------------------------------------------------
(* Duplicate protection.                                                   *)

\* Seeded faults: a lookup that never finds what is there.
CompletedResult_Miss(c) == "none"

InflightCall_Miss(c) == NoCall

CompletedResult(c) == completed[KeyOf(c)]

InflightCall(c) == inflight[KeyOf(c)]

Answer(calls, stage) ==
    /\ pc' = [c \in Call |-> IF c \in calls THEN "done" ELSE pc[c]]
    /\ result' = [c \in Call |-> IF c \in calls THEN stage ELSE result[c]]

\* A known result is returned at once.
ReturnCompleted(c) ==
    /\ pc[c] = "idle"
    /\ CompletedResult(c) # "none"
    /\ Answer({c}, CompletedResult(c))
    /\ UNCHANGED <<leader, inflight, completed, orderIdempotency, dailyCount,
                   orders, killSwitch, broker, interruptions, forgetful>>

\* A call under way is joined: its promise is returned.
JoinInflight(c) ==
    /\ pc[c] = "idle"
    /\ CompletedResult(c) = "none"
    /\ InflightCall(c) # NoCall
    /\ pc' = [pc EXCEPT ![c] = "joined"]
    /\ leader' = [leader EXCEPT ![c] = InflightCall(c)]
    /\ UNCHANGED <<result, inflight, completed, orderIdempotency, dailyCount,
                   orders, killSwitch, broker, interruptions, forgetful>>

Fresh(c) ==
    /\ pc[c] = "idle"
    /\ CompletedResult(c) = "none"
    /\ InflightCall(c) = NoCall

\* A fresh call that a stage refuses; the refusal is remembered as well.
Refuse(c) ==
    /\ Fresh(c)
    /\ \E stage \in Verdicts \ {"accepted"} :
         /\ Answer({c}, stage)
         /\ completed' = [completed EXCEPT ![KeyOf(c)] = stage]
    /\ UNCHANGED <<leader, inflight, orderIdempotency, dailyCount, orders,
                   killSwitch, broker, interruptions, forgetful>>

-----------------------------------------------------------------------------
(* The order.                                                              *)

Pending(ord) == Updated(ord, "PENDING")

Submitted(ord) == Updated(Pending(ord), "SUBMITTED")

Remembered(s) ==
    s \in orderIdempotency /\ orders[s].status \notin {"REJECTED", "FAILED"}

\* The canonical order of a signal the pipeline is about to send: one it
\* remembers is taken as it is, whatever its status.  Otherwise createOrder
\* returns the order it already has for the signal or a new one, and only a
\* CREATED one is moved on.
Canonical(s) ==
    LET created == IF Present(orders[s]) THEN orders[s] ELSE NewOrder(s, s, 1)
    IN  IF Remembered(s) THEN orders[s]
        ELSE IF created.status = "CREATED" THEN Submitted(created)
        ELSE created

\* A fresh call that passes every stage sends the order to the broker.
Submit(c) ==
    /\ Fresh(c)
    /\ "accepted" \in Verdicts
    /\ orders' = [orders EXCEPT ![SignalOf[c]] = Canonical(SignalOf[c])]
    /\ orderIdempotency' = orderIdempotency \cup {SignalOf[c]}
    /\ pc' = [pc EXCEPT ![c] = "awaiting"]
    /\ leader' = [leader EXCEPT ![c] = c]
    /\ inflight' = [inflight EXCEPT ![KeyOf(c)] = c]
    /\ broker' = [broker EXCEPT ![c] = "sent"]
    /\ UNCHANGED <<result, completed, dailyCount, killSwitch, interruptions,
                   forgetful>>

\* The broker handles the order.  The caller learns of it later, or never.
BrokerActs(c) ==
    /\ broker[c] = "sent"
    /\ \E outcome \in BrokerOutcomes : broker' = [broker EXCEPT ![c] = outcome]
    /\ UNCHANGED <<pc, leader, result, inflight, completed, orderIdempotency,
                   dailyCount, orders, killSwitch, interruptions, forgetful>>

\* Seeded faults: the broker's status is given as the stage; an error counts
\* as completed; a rejection is not passed on to the canonical order.
StageOf_Raw(outcome) == outcome

StageOf_Hopeful(outcome) == IF outcome = "rejected" THEN "paper" ELSE "completed"

AfterAnswer_KeepRejected(ord, outcome) ==
    IF outcome \in FillReports /\ FillChanges(ord, 1) THEN Filled(ord, 1) ELSE ord

StageOf(outcome) ==
    IF outcome \in {"rejected", "failed", "lost_answer"} THEN "paper"
                                                         ELSE "completed"

\* What the answer does to the canonical order: a rejection and a fill are
\* passed on (and ignored when the order no longer takes them), a partial
\* fill as one of the whole quantity; a resting order and an error change
\* nothing.
AfterAnswer(ord, outcome) ==
    CASE outcome = "rejected" /\ RejectChanges(ord) -> Updated(ord, "REJECTED")
      [] outcome \in FillReports /\ FillChanges(ord, 1) -> Filled(ord, 1)
      [] OTHER -> ord

\* Seeded fault: only the first caller is answered.
Waiting_First(c) == {c}

\* The callers that hold the promise of call c.
Waiting(c) == {d \in Call : pc[d] \in {"awaiting", "joined"} /\ leader[d] = c}

\* The await returns: the call and those that joined it are answered, the
\* result is remembered, and whatever is in flight for the key is forgotten.
Resume(c) ==
    LET stage == StageOf(broker[c])
    IN  /\ pc[c] = "awaiting"
        /\ broker[c] # "sent"
        /\ orders' = [orders EXCEPT ![SignalOf[c]] = AfterAnswer(@, broker[c])]
        /\ dailyCount' = IF stage = "completed" THEN dailyCount + 1
                                                ELSE dailyCount
        /\ Answer(Waiting(c), stage)
        /\ completed' = [completed EXCEPT ![KeyOf(c)] = stage]
        /\ inflight' = [inflight EXCEPT ![KeyOf(c)] = NoCall]
        /\ UNCHANGED <<leader, orderIdempotency, killSwitch, broker,
                       interruptions, forgetful>>

-----------------------------------------------------------------------------
(* What may come in between.                                               *)

Interrupt ==
    /\ interruptions < MaxInterruptions
    /\ interruptions' = interruptions + 1

\* KillSwitch.trigger: every open canonical order and every order resting
\* at the broker is cancelled.  An order the broker has not answered yet is
\* not among those it lists.
Trigger ==
    /\ Interrupt
    /\ killSwitch' = "TRIGGERED"
    /\ orders' = [s \in SignalId |->
                    IF CancelChanges(orders[s])
                    THEN Updated(orders[s], "CANCELLED") ELSE orders[s]]
    /\ broker' = [c \in Call |-> IF broker[c] = "open" THEN "cancelled"
                                                       ELSE broker[c]]
    /\ UNCHANGED <<pc, leader, result, inflight, completed, orderIdempotency,
                   dailyCount, forgetful>>

\* The pipeline's cancelOrder and rejectOrder close a canonical order; the
\* broker is not told.
CloseOrder(s, status) ==
    /\ Interrupt
    /\ IsOpen(orders[s].status)
    /\ orders' = [orders EXCEPT ![s] = Updated(orders[s], status)]
    /\ UNCHANGED <<pc, leader, result, inflight, completed, orderIdempotency,
                   dailyCount, killSwitch, broker, forgetful>>

\* KillSwitch.reset and KillSwitch.disarm, with the right override key.
Rearm(state) ==
    /\ Interrupt
    /\ killSwitch' = state
    /\ UNCHANGED <<pc, leader, result, inflight, completed, orderIdempotency,
                   dailyCount, orders, broker, forgetful>>

\* resetDailyCounts also drops the results and the calls in flight: their
\* callers still get the answer, but a repetition no longer finds them.
ResetDailyCounts ==
    /\ Interrupt
    /\ dailyCount' = 0
    /\ completed' = [k \in Key |-> "none"]
    /\ inflight' = [k \in Key |-> NoCall]
    /\ forgetful' = TRUE
    /\ UNCHANGED <<pc, leader, result, orderIdempotency, orders, killSwitch,
                   broker>>

Unanswered == {c \in Call : pc[c] \in {"awaiting", "joined"}}

\* The process restarts: the calls in gone get no answer, and the orders are
\* read back from orders.json as ords.
RestartWith(gone, ords) ==
    /\ Interrupt
    /\ pc' = [c \in Call |-> IF c \in gone THEN "lost" ELSE pc[c]]
    /\ completed' = [k \in Key |-> "none"]
    /\ inflight' = [k \in Key |-> NoCall]
    /\ orderIdempotency' = {}
    /\ dailyCount' = 0
    /\ killSwitch' = "ARMED"
    /\ orders' = ords
    /\ forgetful' = TRUE
    /\ UNCHANGED <<leader, result, broker>>

Restart == RestartWith(Unanswered, orders)

\* The process dies between two of the writes of a first submission: the
\* order is in the file, as far as it got, and the broker never saw it.
CrashMidSubmit(c) ==
    /\ Fresh(c)
    /\ "accepted" \in Verdicts
    /\ ~Present(orders[SignalOf[c]])
    /\ \E ord \in {NewOrder(SignalOf[c], SignalOf[c], 1),
                   Pending(NewOrder(SignalOf[c], SignalOf[c], 1)),
                   Submitted(NewOrder(SignalOf[c], SignalOf[c], 1))} :
         RestartWith(Unanswered \cup {c},
                     [orders EXCEPT ![SignalOf[c]] = ord])

Execute(c) == ReturnCompleted(c) \/ JoinInflight(c) \/ Refuse(c) \/ Submit(c)

Next ==
    \/ \E c \in Call :
         Execute(c) \/ BrokerActs(c) \/ Resume(c) \/ CrashMidSubmit(c)
    \/ \E s \in SignalId, status \in {"CANCELLED", "REJECTED"} :
         CloseOrder(s, status)
    \/ Trigger
    \/ Rearm("ARMED")
    \/ Rearm("DISARMED")
    \/ ResetDailyCounts
    \/ Restart

Spec == Init /\ [][Next]_vars

-----------------------------------------------------------------------------
(* Safety.                                                                 *)

Sent(c) == broker[c] # "none"

\* Duplicate protection: as long as nothing was forgotten, of all the calls
\* that repeat a signal with its correlation id one reaches the broker.
SentOncePerKey ==
    ~forgetful => \A c, d \in Call :
        KeyOf(c) = KeyOf(d) /\ Sent(c) /\ Sent(d) => c = d

\* A retry is answered like the call it repeats, refusals included.
SameKeySameResult ==
    ~forgetful => \A c, d \in Call :
        KeyOf(c) = KeyOf(d) /\ pc[c] = "done" /\ pc[d] = "done"
            => result[c] = result[d]

\* A call that joined another waits for one that is still under way: a
\* reset that empties the maps leaves nobody with a promise that never
\* settles.
NobodyJoinsTheDead ==
    \A c \in Call : pc[c] = "joined" => pc[leader[c]] = "awaiting"

\* While the switch is triggered no canonical order is open, although calls
\* that were at the broker when it was triggered are answered afterwards.
HaltedBookIsClosed == killSwitch = "TRIGGERED" => OpenOrders = {}

\* "Maximum number of concurrently open/pending orders": the count is taken
\* and the order created in one go, so the limit holds for any overlap.
OpenOrdersCapped == Cardinality(OpenOrders) <= MaxOpenOrders

\* A canonical order is open only for a reason: a call of its signal is at
\* the broker, was lost in a restart, rests there or ended in an error.
OpenOrdersAccounted ==
    \A s \in OpenOrders : \E c \in Call :
        /\ SignalOf[c] = s
        /\ \/ pc[c] \in {"awaiting", "lost"}
           \/ broker[c] \in {"open", "cancelled", "failed", "lost_answer"}

\* An order the book calls FILLED was filled by the broker, or a part of it
\* was: the pipeline books both with the order's quantity.
FilledWasExecuted ==
    \A s \in SignalId : orders[s].status = "FILLED" =>
        \E c \in Call : SignalOf[c] = s /\ broker[c] \in FillReports

\* Claims of the source that the code does not keep.

\* "Maximum orders allowed per 24-hour window" (hard-limits.ts).
DailyLimitHolds == dailyCount <= MaxDailyOrders

\* "When triggered, all open orders in OrderManager and PaperBroker are
\* cancelled" (RISK_RULES.md): none is open afterwards.
HaltLeavesNothingOpen ==
    killSwitch = "TRIGGERED" =>
        OpenOrders = {} /\ \A c \in Call : broker[c] # "open"

-----------------------------------------------------------------------------
(* Liveness.                                                               *)

\* A call that waits, for its own order or for the one it joined, is answered
\* or its process is restarted, also when resetDailyCounts empties the maps
\* under it.
EveryCallEnds ==
    \A c \in Call : pc[c] \in {"awaiting", "joined"} ~> pc[c] \in {"done", "lost"}
=============================================================================
