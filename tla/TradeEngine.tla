----------------------------- MODULE TradeEngine -----------------------------
(***************************************************************************)
(* The TradeEngine (trade-engine/trade-engine.ts) beside the OrderManager  *)
(* whose order.fill_applied events it books.                               *)
(*                                                                         *)
(* The bus delivers synchronously, so the trades change in the step of the *)
(* OrderManager that publishes.  There is one trade per order at most, and *)
(* it is named by its order.  The trades and the fills seen live in memory *)
(* only: a restart empties them while the orders come back from the file,  *)
(* and clear() of the OrderManager does not touch them.                    *)
(***************************************************************************)
EXTENDS OrderManager, Functions

VARIABLES trades,        \* the trade of each order
          processedFills \* Set of `${orderId}:v${version}`

tradeVars == <<trades, processedFills>>

Trade == [status : {"open", "closed"}, quantity : Nat]

NoTrade == [status |-> "none", quantity |-> 0]

TradesTypeOK ==
    /\ TypeOK
    /\ trades \in [OrderId -> Trade \cup {NoTrade}]
    /\ processedFills \subseteq OrderId \X (1 .. MaxVersion + 2)

NoTrades == [o \in OrderId |-> NoTrade]

TradesInit ==
    /\ Init
    /\ trades = NoTrades
    /\ processedFills = {}

\* Seeded faults: a further fill of an order is taken for a repetition, or
\* gives the trade a status of its own.
WithFill_First(trade, q) ==
    IF trade = NoTrade THEN [status |-> "open", quantity |-> q] ELSE trade

WithFill_Partial(trade, q) ==
    IF trade = NoTrade THEN [status |-> "open", quantity |-> q]
                       ELSE [status |-> "partial", quantity |-> trade.quantity + q]

\* handleFill: the first fill opens the trade, a further one is added to it,
\* whether it is open or closed.
WithFill(trade, q) ==
    IF trade = NoTrade THEN [status |-> "open", quantity |-> q]
                       ELSE [trade EXCEPT !.quantity = @ + q]

\* What the handler of order.fill_applied does with the events of one step,
\* of which one at most is a fill: one seen before is ignored.
BookFills(events) ==
    LET fresh == {e \in Range(events) : /\ e.type = "fill_applied"
                                        /\ <<e.order, e.version>> \notin processedFills}
    IN  /\ trades' = [o \in OrderId |->
             IF \E e \in fresh : e.order = o
             THEN WithFill(trades[o], (CHOOSE e \in fresh : e.order = o).quantity)
             ELSE trades[o]]
        /\ processedFills' =
             processedFills \cup {<<e.order, e.version>> : e \in fresh}

\* A step of the OrderManager in the same process.
ManagerStep ==
    /\ \/ \E o \in OrderId : OrderStep(o)
       \/ Persist
       \/ Load
       \/ Clear
    /\ BookFills(out')

\* closeTrade: only an open trade; its profit is computed on the quantity it
\* has now.
CloseTrade(o) ==
    /\ trades[o].status = "open"
    /\ trades' = [trades EXCEPT ![o].status = "closed"]
    /\ UNCHANGED <<vars, processedFills>>

RestartBoth ==
    /\ Restart
    /\ trades' = NoTrades
    /\ processedFills' = {}

TradesNext ==
    \/ ManagerStep
    \/ \E o \in OrderId : CloseTrade(o)
    \/ RestartBoth

TradesSpec == TradesInit /\ [][TradesNext]_<<vars, tradeVars>>

-----------------------------------------------------------------------------
(* Properties.                                                             *)

\* "Consistent order/trade relationships, idempotent handling": within one
\* life of the process an order's trade holds exactly what its fills took,
\* through partial fills, failures, retries, reloads and closed trades.
\* After a restart it holds only the fills taken since.
TradesFollowOrders ==
    \A o \in OrderId : Present(orders[o]) =>
        /\ trades[o].quantity <= orders[o].filledQuantity
        /\ restarts = 0 => trades[o].quantity = orders[o].filledQuantity

\* A trade that is closed, with its order closed too, never changes again,
\* so its profit stays the one computed on its quantity.  (While the order is
\* open a late fill does change a closed trade.)
SettledTradeIsFinal ==
    [][\A o \in OrderId :
        trades[o].status = "closed" /\ IsTerminal(orders[o].status)
            => trades'[o] \in {trades[o], NoTrade}]_<<vars, tradeVars>>
=============================================================================
