--------------------------- MODULE TradeEngineProofs ---------------------------
(***************************************************************************)
(* Proofs about the TradeEngine beside the OrderManager: the trades stay   *)
(* typed and settled ones final whether or not writes can fail, and the    *)
(* trades hold what the fills took as long as the file equals memory.      *)
(***************************************************************************)
EXTENDS TradeEngine, OrderManagerProofs

USE ConstantAssumption

\* One step of one order, told by the methods that change it.
OneOrder(o) ==
    \/ \E c, k \in Key, q \in Quantity : CreateOrder(o, c, k, q)
    \/ \E s \in CallerStatus : UpdateStatus(o, s)
    \/ \E f \in FillId, q \in Quantity : ApplyFill(o, f, q)

LEMMA OrderStepIsOne ==
    ASSUME NEW o \in OrderId, OrderStep(o)
    PROVE  OneOrder(o)
  BY DEF OrderStep, OneOrder, PendingOrder, SubmitOrder, CancelOrder,
         RejectOrder, FailOrder, RetryOrder, CallerStatus

-----------------------------------------------------------------------------
(* What a step publishes.                                                  *)

IsFill(e) == e.type = "fill_applied"

LEMMA NoFillPublished ==
    ASSUME TradesTypeOK, NEW events, \A e \in Range(events) : ~IsFill(e),
           BookFills(events)
    PROVE  UNCHANGED tradeVars
  <1>1. {e \in Range(events) : /\ e.type = "fill_applied"
                               /\ <<e.order, e.version>> \notin processedFills} = {}
    BY DEF IsFill
  <1>2. trades' = [o \in OrderId |-> trades[o]]
    BY <1>1 DEF BookFills
  <1>3. processedFills' = processedFills
    BY <1>1 DEF BookFills
  <1>. QED
    BY <1>2, <1>3 DEF TradesTypeOK, tradeVars

LEMMA StatusIsNoFill ==
    ASSUME NEW o, NEW ord, ord.status \in Statuses
    PROVE  \A e \in Range(<<StatusEvent(o, ord)>>) : ~IsFill(e)
  BY DEF Range, StatusEvent, IsFill, Statuses

\* A fill publishes one fill event, beside the statuses on the way.
LEMMA FillPublished ==
    ASSUME NEW o \in OrderId, NEW ord \in OrderOf(Key, Quantity),
           NEW q \in Quantity
    PROVE  \A e : e \in Range(FillEvents(o, ord, q)) /\ IsFill(e)
                    <=> e = FillAppliedEvent(o, Filled(ord, q), q)
  <1>1. /\ Executable(ord).status \in Statuses
        /\ Filled(ord, q).status \in Statuses
    BY ExecutableType, FilledType DEF OrderOf
  <1> DEFINE a == StatusEvent(o, Executable(ord))
             b == StatusEvent(o, Filled(ord, q))
             f == FillAppliedEvent(o, Filled(ord, q), q)
  <1>2. ~IsFill(a) /\ ~IsFill(b) /\ IsFill(f)
    BY <1>1 DEF StatusEvent, FillAppliedEvent, IsFill, Statuses
  <1>3. Range(FillEvents(o, ord, q)) = {a, b, f} \/ Range(FillEvents(o, ord, q)) = {b, f}
    <2>1. CASE Executable(ord) # ord
      <3>1. FillEvents(o, ord, q) = <<a>> \o <<b, f>>
        BY <2>1 DEF FillEvents
      <3>2. \A x, y, z : Range(<<x>> \o <<y, z>>) = {x, y, z}
        BY DEF Range
      <3>. QED
        BY <3>1, <3>2
    <2>2. CASE Executable(ord) = ord
      <3>1. FillEvents(o, ord, q) = <<b, f>>
        BY <2>2 DEF FillEvents
      <3>. QED
        BY <3>1 DEF Range
    <2>. QED
      BY <2>1, <2>2
  <1>. QED
    BY <1>2, <1>3

\* Booking the fill of order o in version v, not seen before.
LEMMA FillBooked ==
    ASSUME TradesTypeOK, NEW o \in OrderId, NEW v, NEW q, NEW events, NEW e,
           e.order = o, e.version = v, e.quantity = q,
           \A d : d \in Range(events) /\ IsFill(d) <=> d = e,
           BookFills(events), <<o, v>> \notin processedFills
    PROVE  /\ trades' = [trades EXCEPT ![o] = WithFill(@, q)]
           /\ processedFills' = processedFills \cup {<<o, v>>}
  <1>1. {d \in Range(events) : /\ d.type = "fill_applied"
                               /\ <<d.order, d.version>> \notin processedFills} = {e}
    BY DEF IsFill
  <1>2. trades' = [p \in OrderId |->
             IF \E d \in {e} : d.order = p
             THEN WithFill(trades[p], (CHOOSE d \in {e} : d.order = p).quantity)
             ELSE trades[p]]
    BY <1>1 DEF BookFills
  <1>3. processedFills' = processedFills \cup {<<d.order, d.version>> : d \in {e}}
    BY <1>1 DEF BookFills
  <1>4. \A p \in OrderId : p = o => (CHOOSE d \in {e} : d.order = p) = e
    OBVIOUS
  <1>. QED
    BY <1>2, <1>3, <1>4 DEF TradesTypeOK

\* Booking it once more changes nothing.
LEMMA FillRepeated ==
    ASSUME TradesTypeOK, NEW e, NEW events,
           \A d : d \in Range(events) /\ IsFill(d) <=> d = e,
           BookFills(events), <<e.order, e.version>> \in processedFills
    PROVE  UNCHANGED tradeVars
  <1>1. {d \in Range(events) : /\ d.type = "fill_applied"
                               /\ <<d.order, d.version>> \notin processedFills} = {}
    BY DEF IsFill
  <1>2. trades' = [o \in OrderId |-> trades[o]]
    BY <1>1 DEF BookFills
  <1>3. processedFills' = processedFills
    BY <1>1 DEF BookFills
  <1>. QED
    BY <1>2, <1>3 DEF TradesTypeOK, tradeVars

-----------------------------------------------------------------------------
(* What a step does to the trades.                                         *)

\* The book steps: a fill is booked for the order it was applied to, or the
\* trades stay as they are.
FillStep(o, f, q) == ApplyFill(o, f, q) /\ BookFills(out')

QuietStep(o) ==
    /\ \/ \E c, k \in Key, q \in Quantity : CreateOrder(o, c, k, q)
       \/ \E s \in CallerStatus : UpdateStatus(o, s)
    /\ UNCHANGED tradeVars

LEMMA StepOnTrades ==
    ASSUME Inv, TradesTypeOK, ManagerStep
    PROVE  \/ (Persist \/ Load \/ Clear) /\ UNCHANGED tradeVars
           \/ \E o \in OrderId : QuietStep(o)
           \/ \E o \in OrderId, f \in FillId, q \in Quantity : FillStep(o, f, q)
  <1>0. BookFills(out')
    BY DEF ManagerStep
  <1>1. CASE Persist \/ Load \/ Clear
    <2>1. \A e \in Range(out') : ~IsFill(e)
      BY <1>1 DEF Persist, Load, Clear, Range
    <2>. QED
      BY <1>0, <1>1, <2>1, NoFillPublished
  <1>2. ASSUME NEW o \in OrderId, NEW c \in Key, NEW k \in Key,
               NEW q \in Quantity, CreateOrder(o, c, k, q)
        PROVE  QuietStep(o)
    <2>1. NewOrder(c, k, q).status \in Statuses
      BY DEF NewOrder, Statuses
    <2>2. \A e \in Range(out') : ~IsFill(e)
      BY <1>2, <2>1, StatusIsNoFill DEF CreateOrder
    <2>. QED
      BY <1>0, <1>2, <2>2, NoFillPublished DEF QuietStep
  <1>3. ASSUME NEW o \in OrderId, NEW s \in CallerStatus, UpdateStatus(o, s)
        PROVE  QuietStep(o)
    <2>1. orders[o] \in OrderOf(Key, Quantity) /\ s \in Statuses
      BY <1>3, UpdateOfHeld DEF Inv, TypeOK, UpdateStatus, CallerStatus, Statuses
    <2>2. Updated(orders[o], s).status \in Statuses
      BY <2>1, UpdatedFields
    <2>3. \A e \in Range(out') : ~IsFill(e)
      BY <1>3, <2>2, StatusIsNoFill DEF UpdateStatus, UpdateEvents
    <2>. QED
      BY <1>0, <1>3, <2>3, NoFillPublished DEF QuietStep
  <1>4. ASSUME NEW o \in OrderId, OrderStep(o)
        PROVE  QuietStep(o) \/ \E f \in FillId, q \in Quantity : FillStep(o, f, q)
    BY <1>0, <1>2, <1>3, <1>4, OrderStepIsOne DEF OneOrder, FillStep
  <1>. QED
    BY <1>1, <1>4 DEF ManagerStep

\* A fill leaves a newer order, and either was booked before or is now.
LEMMA FillOnTrades ==
    ASSUME Inv, TradesTypeOK, NEW o \in OrderId, NEW f \in FillId,
           NEW q \in Quantity, FillStep(o, f, q)
    PROVE  /\ orders[o] \in OrderOf(Key, Quantity) /\ Present(orders[o])
           /\ orders' = [orders EXCEPT ![o] = Filled(orders[o], q)]
           /\ Filled(orders[o], q) \in OrderOf(Key, Quantity)
           /\ Filled(orders[o], q).version \in 1 .. MaxVersion + 2
           /\ Filled(orders[o], q).version > orders[o].version
           /\ Filled(orders[o], q).filledQuantity = orders[o].filledQuantity + q
           /\ FillChanges(orders[o], q)
           /\ UNCHANGED <<issued, restarts>>
           /\ IF <<o, Filled(orders[o], q).version>> \in processedFills
              THEN UNCHANGED tradeVars
              ELSE /\ trades' = [trades EXCEPT ![o] = WithFill(@, q)]
                   /\ processedFills' = processedFills
                        \cup {<<o, Filled(orders[o], q).version>>}
  <1>1. /\ orders[o] \in Order /\ FillChanges(orders[o], q)
        /\ orders[o].version < MaxVersion
        /\ orders' = [orders EXCEPT ![o] = Filled(orders[o], q)]
        /\ out' = FillEvents(o, orders[o], q)
        /\ UNCHANGED <<issued, restarts>>
        /\ BookFills(out')
    BY DEF FillStep, ApplyFill, Inv, TypeOK, indexes
  <1>2. orders[o] \in OrderOf(Key, Quantity) /\ Present(orders[o])
    BY <1>1, FillOfHeld, HeldPresent
  <1> DEFINE n == Filled(orders[o], q)
             e == FillAppliedEvent(o, n, q)
  <1>3. /\ n \in OrderOf(Key, Quantity)
        /\ n.version > orders[o].version
        /\ n.version <= orders[o].version + 2
        /\ n.filledQuantity = orders[o].filledQuantity + q
    BY <1>2, FilledType, FilledFields
  <1>4. n.version \in Nat /\ orders[o].version \in Nat
    BY <1>2, <1>3 DEF OrderOf
  <1>5. n.version \in 1 .. MaxVersion + 2
    BY <1>1, <1>3, <1>4
  <1>6. e.order = o /\ e.version = n.version /\ e.quantity = q
    BY DEF FillAppliedEvent
  <1>7. \A d : d \in Range(out') /\ IsFill(d) <=> d = e
    BY <1>1, <1>2, FillPublished
  <1> HIDE DEF n, e
  <1>8. CASE <<o, n.version>> \in processedFills
    <2>1. UNCHANGED tradeVars
      BY <1>1, <1>6, <1>7, <1>8, FillRepeated
    <2>. QED
      BY <1>1, <1>2, <1>3, <1>5, <1>8, <2>1 DEF n
  <1>9. CASE <<o, n.version>> \notin processedFills
    <2>1. /\ trades' = [trades EXCEPT ![o] = WithFill(@, q)]
          /\ processedFills' = processedFills \cup {<<o, n.version>>}
      BY <1>1, <1>6, <1>7, <1>9, FillBooked
    <2>. QED
      BY <1>1, <1>2, <1>3, <1>5, <1>9, <2>1 DEF n
  <1>. QED
    BY <1>8, <1>9

-----------------------------------------------------------------------------
(* Types, and the trades that are final.                                   *)

LEMMA WithFillType ==
    ASSUME NEW trade \in Trade \cup {NoTrade}, NEW q \in Quantity
    PROVE  /\ WithFill(trade, q) \in Trade
           /\ WithFill(trade, q).quantity = trade.quantity + q
  <1>1. q \in Nat
    OBVIOUS
  <1>. QED
    BY <1>1 DEF WithFill, Trade, NoTrade

LEMMA TradesAreManagerSteps ==
    [TradesNext]_<<vars, tradeVars>> => [Next]_vars
  BY DEF TradesNext, ManagerStep, CloseTrade, RestartBoth, Next

LEMMA TradesTyped ==
    ASSUME Inv, Inv', TradesTypeOK, [TradesNext]_<<vars, tradeVars>>
    PROVE  TradesTypeOK'
  <1>0. TypeOK'
    BY DEF Inv
  <1>1. ASSUME UNCHANGED tradeVars PROVE TradesTypeOK'
    BY <1>0, <1>1 DEF TradesTypeOK, tradeVars
  <1>2. ASSUME NEW o \in OrderId, NEW f \in FillId, NEW q \in Quantity,
               FillStep(o, f, q)
        PROVE  TradesTypeOK'
    <2>1. CASE <<o, Filled(orders[o], q).version>> \in processedFills
      BY <1>1, <1>2, <2>1, FillOnTrades
    <2>2. CASE <<o, Filled(orders[o], q).version>> \notin processedFills
      <3>1. /\ trades' = [trades EXCEPT ![o] = WithFill(@, q)]
            /\ processedFills' = processedFills
                 \cup {<<o, Filled(orders[o], q).version>>}
            /\ Filled(orders[o], q).version \in 1 .. MaxVersion + 2
        BY <1>2, <2>2, FillOnTrades
      <3>2. WithFill(trades[o], q) \in Trade
        BY WithFillType DEF TradesTypeOK
      <3>. QED
        BY <1>0, <3>1, <3>2 DEF TradesTypeOK
    <2>. QED
      BY <2>1, <2>2
  <1>3. CASE ManagerStep
    BY <1>1, <1>2, <1>3, StepOnTrades DEF QuietStep
  <1>4. ASSUME NEW o \in OrderId, CloseTrade(o) PROVE TradesTypeOK'
    <2>1. trades[o] \in Trade
      BY <1>4 DEF CloseTrade, TradesTypeOK, NoTrade
    <2>2. [trades[o] EXCEPT !.status = "closed"] \in Trade
      BY <2>1 DEF Trade
    <2>. QED
      BY <1>0, <1>4, <2>2 DEF CloseTrade, TradesTypeOK
  <1>5. CASE RestartBoth
    BY <1>0, <1>5 DEF RestartBoth, TradesTypeOK, NoTrades
  <1>6. CASE UNCHANGED <<vars, tradeVars>>
    BY <1>1, <1>6
  <1>. QED
    BY <1>3, <1>4, <1>5, <1>6 DEF TradesNext

LEMMA InitTrades == TradesInit => Inv /\ TradesTypeOK
  <1> SUFFICES ASSUME TradesInit PROVE Inv /\ TradesTypeOK
    OBVIOUS
  <1>1. Inv
    BY InitInv DEF TradesInit
  <1>. QED
    BY <1>1 DEF TradesInit, TradesTypeOK, NoTrades, Inv

LEMMA TradesTypeInvariant == TradesSpec => [](Inv /\ TradesTypeOK)
  <1>1. Inv /\ TradesTypeOK /\ [TradesNext]_<<vars, tradeVars>>
          => (Inv /\ TradesTypeOK)'
    BY TradesAreManagerSteps, NextInv, TradesTyped
  <1>. QED
    BY <1>1, InitTrades, PTL DEF TradesSpec

\* The trades keep their types, and every fill that was seen names an order
\* and a version it may have (trade-engine.ts: handleFill).
THEOREM TradesTypeCorrect == TradesSpec => []TradesTypeOK
  <1>. QED
    BY TradesTypeInvariant, PTL

\* A closed trade of a closed order never changes again: no event that the
\* OrderManager still publishes for that order is a fill.
THEOREM SettledTradeIsFinalAlways == TradesSpec => SettledTradeIsFinal
  <1>1. ASSUME Inv, TradesTypeOK, [TradesNext]_<<vars, tradeVars>>
        PROVE  [\A o \in OrderId :
                  trades[o].status = "closed" /\ IsTerminal(orders[o].status)
                    => trades'[o] \in {trades[o], NoTrade}]_<<vars, tradeVars>>
    <2> SUFFICES ASSUME TradesNext, NEW o \in OrderId,
                        trades[o].status = "closed",
                        IsTerminal(orders[o].status)
                 PROVE  trades'[o] \in {trades[o], NoTrade}
      BY <1>1
    <2>1. ASSUME NEW p \in OrderId, NEW f \in FillId, NEW q \in Quantity,
                 FillStep(p, f, q)
          PROVE  trades'[o] = trades[o]
      <3>1. FillChanges(orders[p], q)
        BY <1>1, <2>1, FillOnTrades
      <3>2. p # o
        BY <3>1 DEF FillChanges, IsTerminal
      <3>3. \/ UNCHANGED tradeVars
            \/ trades' = [trades EXCEPT ![p] = WithFill(@, q)]
        BY <1>1, <2>1, FillOnTrades
      <3>. QED
        BY <1>1, <3>2, <3>3 DEF TradesTypeOK, tradeVars
    <2>2. CASE ManagerStep
      BY <1>1, <2>1, <2>2, StepOnTrades DEF QuietStep, tradeVars
    <2>3. ASSUME NEW p \in OrderId, CloseTrade(p) PROVE trades'[o] = trades[o]
      BY <1>1, <2>3 DEF CloseTrade, TradesTypeOK
    <2>4. CASE RestartBoth
      BY <2>4 DEF RestartBoth, NoTrades
    <2>. QED
      BY <2>2, <2>3, <2>4 DEF TradesNext
  <1>. QED
    BY <1>1, TradesTypeInvariant, PTL DEF TradesSpec, SettledTradeIsFinal

-----------------------------------------------------------------------------
(* The trades and the orders.  That a trade holds what the fills of its    *)
(* order took is inductive only if no fill to come was seen before, and if *)
(* an id yet to be issued has no trade.                                    *)

FillsSeen ==
    \A o \in OrderId, v \in 1 .. MaxVersion + 2 : <<o, v>> \in processedFills =>
        /\ o \in issued
        /\ Present(orders[o]) => v <= orders[o].version

NewIsUntraded == \A o \in OrderId : o \notin issued => trades[o] = NoTrade

TradesInv ==
    /\ DurableInv
    /\ TradesTypeOK
    /\ FillsSeen
    /\ NewIsUntraded
    /\ TradesFollowOrders

\* Each order is absent after a step that books nothing, or it is what it
\* was or newer with the same fills, or it is new and unfilled.
LEMMA UnbookedStep ==
    ASSUME TradesInv, DurableInv', TradesTypeOK',
           \A o \in OrderId : trades'[o].quantity = trades[o].quantity,
           \A o \in OrderId : trades[o] = NoTrade => trades'[o] = NoTrade,
           processedFills' = processedFills, restarts' = restarts,
           issued \subseteq issued',
           \A o \in OrderId : Present(orders'[o]) =>
              \/ /\ Present(orders[o])
                 /\ orders'[o].version >= orders[o].version
                 /\ orders'[o].filledQuantity = orders[o].filledQuantity
              \/ o \notin issued /\ orders'[o].filledQuantity = 0
    PROVE  TradesInv'
  <1>0. \A o \in OrderId :
           /\ Present(orders[o]) => orders[o].version \in Nat
           /\ Present(orders'[o]) => orders'[o].version \in Nat
    <2>1. \A o \in OrderId : orders[o] \in Order /\ orders'[o] \in Order
      BY DEF TradesInv, DurableInv, Inv, TypeOK
    <2>. QED
      BY <2>1, PresentHeld DEF OrderOf
  <1>1. FillsSeen'
    BY <1>0 DEF TradesInv, FillsSeen
  <1>2. NewIsUntraded'
    BY DEF TradesInv, NewIsUntraded
  <1>3. TradesFollowOrders'
    BY DEF TradesInv, TradesFollowOrders, NewIsUntraded, NoTrade
  <1>. QED
    BY <1>1, <1>2, <1>3 DEF TradesInv

LEMMA QuietStepInv ==
    ASSUME TradesInv, DurableInv', TradesTypeOK', NEW o \in OrderId, QuietStep(o)
    PROVE  TradesInv'
  <1>0. orders \in [OrderId -> Order] /\ issued \subseteq OrderId
    BY DEF TradesInv, DurableInv, Inv, TypeOK
  <1>1. ASSUME NEW c \in Key, NEW k \in Key, NEW q \in Quantity,
               CreateOrder(o, c, k, q)
        PROVE  TradesInv'
    <2>1. /\ orders' = [orders EXCEPT ![o] = NewOrder(c, k, q)]
          /\ o \notin issued /\ issued' = issued \cup {o}
          /\ UNCHANGED <<restarts, trades, processedFills>>
      BY <1>1 DEF CreateOrder, QuietStep, tradeVars
    <2>2. NewOrder(c, k, q).filledQuantity = 0
      BY DEF NewOrder
    <2>3. \A p \in OrderId : Present(orders[p]) => orders[p].version \in Nat
      BY <1>0, PresentHeld DEF OrderOf
    <2>. QED
      BY <1>0, <2>1, <2>2, <2>3, UnbookedStep
  <1>2. ASSUME NEW s \in CallerStatus, UpdateStatus(o, s)
        PROVE  TradesInv'
    <2>1. /\ orders' = [orders EXCEPT ![o] = Updated(orders[o], s)]
          /\ UNCHANGED <<issued, restarts, trades, processedFills>>
      BY <1>2 DEF UpdateStatus, QuietStep, tradeVars, indexes
    <2>2. orders[o] \in OrderOf(Key, Quantity) /\ s \in Statuses
      BY <1>0, <1>2, UpdateOfHeld DEF UpdateStatus, CallerStatus, Statuses
    <2>3. /\ Updated(orders[o], s).version = orders[o].version + 1
          /\ Updated(orders[o], s).filledQuantity = orders[o].filledQuantity
          /\ Present(orders[o])
      BY <2>2, UpdatedFields, HeldPresent
    <2>4. \A p \in OrderId : Present(orders[p]) => orders[p].version \in Nat
      BY <1>0, PresentHeld DEF OrderOf
    <2>. QED
      BY <1>0, <2>1, <2>3, <2>4, UnbookedStep
  <1>. QED
    BY <1>1, <1>2 DEF QuietStep

LEMMA FillStepInv ==
    ASSUME TradesInv, DurableInv', TradesTypeOK', NEW o \in OrderId,
           NEW f \in FillId, NEW q \in Quantity, FillStep(o, f, q)
    PROVE  TradesInv'
  <1> DEFINE n == Filled(orders[o], q)
  <1>0. /\ orders \in [OrderId -> Order] /\ trades \in [OrderId -> Trade \cup {NoTrade}]
        /\ Inv /\ TradesTypeOK
    BY DEF TradesInv, DurableInv, Inv, TypeOK, TradesTypeOK
  <1>1. /\ orders[o] \in OrderOf(Key, Quantity) /\ Present(orders[o])
        /\ orders' = [orders EXCEPT ![o] = n]
        /\ n \in OrderOf(Key, Quantity)
        /\ n.version \in 1 .. MaxVersion + 2
        /\ n.version > orders[o].version
        /\ n.filledQuantity = orders[o].filledQuantity + q
        /\ UNCHANGED <<issued, restarts>>
    BY <1>0, FillOnTrades
  <1>2. orders[o].version \in Nat /\ n.version \in Nat /\ o \in issued
    BY <1>0, <1>1 DEF OrderOf, Inv, IdsIssued
  \* The version is new, so the fill was not seen before.
  <1>3. <<o, n.version>> \notin processedFills
    BY <1>1, <1>2 DEF TradesInv, FillsSeen
  <1>4. /\ trades' = [trades EXCEPT ![o] = WithFill(@, q)]
        /\ processedFills' = processedFills \cup {<<o, n.version>>}
    BY <1>0, <1>3, FillOnTrades
  <1>5. /\ trades'[o].quantity = trades[o].quantity + q
        /\ orders'[o].filledQuantity = orders[o].filledQuantity + q
        /\ \A p \in OrderId : p # o => trades'[p] = trades[p] /\ orders'[p] = orders[p]
    BY <1>0, <1>1, <1>4, WithFillType
  <1> HIDE DEF n
  <1>6. FillsSeen'
    BY <1>0, <1>1, <1>2, <1>4, <1>5 DEF TradesInv, FillsSeen
  <1>7. NewIsUntraded'
    BY <1>1, <1>2, <1>5 DEF TradesInv, NewIsUntraded
  <1>8. TradesFollowOrders'
    <2>1. /\ trades[o].quantity \in Nat /\ orders[o].filledQuantity \in Nat
          /\ q \in Nat
      BY <1>0, <1>1 DEF Trade, NoTrade, OrderOf
    <2>. QED
      BY <1>1, <1>5, <2>1 DEF TradesInv, TradesFollowOrders
  <1>. QED
    BY <1>6, <1>7, <1>8 DEF TradesInv

LEMMA TradesPreserved ==
    ASSUME Durable, TradesInv, [TradesNext]_<<vars, tradeVars>>
    PROVE  TradesInv'
  <1>0. Inv /\ TradesTypeOK /\ DurableInv /\ DurableOnReturn
    BY DEF TradesInv, DurableInv
  <1>1. DurableInv' /\ TradesTypeOK'
    <2>1. DurableInv'
      BY <1>0, TradesAreManagerSteps, DurableNext
    <2>2. Inv'
      BY <1>0, TradesAreManagerSteps, NextInv
    <2>. QED
      BY <1>0, <2>1, <2>2, TradesTyped
  <1>2. DurableOnReturn'
    BY <1>1 DEF DurableInv
  <1>3. \A o \in OrderId : Present(orders[o]) => orders[o].version \in Nat
    BY <1>0, PresentHeld DEF Inv, TypeOK, OrderOf
  <1>4. ASSUME UNCHANGED <<orders, issued, restarts, trades, processedFills>>
        PROVE  TradesInv'
    BY <1>1, <1>3, <1>4, UnbookedStep
  <1>5. ASSUME Persist \/ Load \/ Clear, UNCHANGED tradeVars
        PROVE  TradesInv'
    <2>1. CASE Persist \/ Load
      <3>1. UNCHANGED <<issued, restarts>> /\ orders' = orders
        BY <1>0, <1>2, <2>1 DEF Persist, Load, indexes, DurableOnReturn
      <3>. QED
        BY <1>4, <1>5, <3>1 DEF tradeVars
    <2>2. CASE Clear
      <3>1. /\ \A o \in OrderId : ~Present(orders'[o])
            /\ UNCHANGED <<issued, restarts, trades, processedFills>>
        BY <1>5, <2>2, EmptyType DEF Clear, tradeVars
      <3>. QED
        BY <1>1, <3>1, UnbookedStep
    <2>. QED
      BY <1>5, <2>1, <2>2
  <1>6. CASE ManagerStep
    BY <1>0, <1>1, <1>5, <1>6, StepOnTrades, QuietStepInv, FillStepInv
  <1>7. ASSUME NEW o \in OrderId, CloseTrade(o) PROVE TradesInv'
    <2>1. /\ UNCHANGED <<orders, issued, restarts, processedFills>>
          /\ trades[o].status = "open"
          /\ trades' = [trades EXCEPT ![o].status = "closed"]
      BY <1>7 DEF CloseTrade, vars
    <2>2. trades[o] \in Trade /\ trades[o] # NoTrade
      BY <1>0, <2>1 DEF TradesTypeOK, NoTrade
    <2>3. /\ \A p \in OrderId : trades'[p].quantity = trades[p].quantity
          /\ \A p \in OrderId : trades[p] = NoTrade => trades'[p] = NoTrade
      BY <1>0, <2>1, <2>2 DEF TradesTypeOK, Trade
    <2>. QED
      BY <1>1, <1>3, <2>1, <2>3, UnbookedStep
  <1>8. CASE RestartBoth
    <2>1. /\ trades' = NoTrades /\ processedFills' = {}
          /\ restarts' = restarts + 1 /\ restarts \in Nat
          /\ orders' = orders
      BY <1>0, <1>2, <1>8 DEF RestartBoth, Restart, DurableOnReturn, Inv, TypeOK
    <2>2. FillsSeen' /\ NewIsUntraded'
      BY <2>1 DEF FillsSeen, NewIsUntraded, NoTrades
    <2>3. \A o \in OrderId : Present(orders[o]) => orders[o].filledQuantity \in Nat
      BY <1>0, PresentHeld DEF Inv, TypeOK, OrderOf
    <2>4. TradesFollowOrders'
      BY <2>1, <2>3 DEF TradesFollowOrders, NoTrades, NoTrade
    <2>. QED
      BY <1>1, <2>2, <2>4 DEF TradesInv
  <1>9. CASE UNCHANGED <<vars, tradeVars>>
    BY <1>4, <1>9 DEF vars, tradeVars
  <1>. QED
    BY <1>6, <1>7, <1>8, <1>9 DEF TradesNext

LEMMA InitTradesInv == TradesInit => TradesInv
  <1> SUFFICES ASSUME TradesInit PROVE TradesInv
    OBVIOUS
  <1>1. \A o \in OrderId : ~Present(orders[o])
    BY EmptyType DEF TradesInit, Init
  <1>2. FillsSeen /\ NewIsUntraded
    BY DEF TradesInit, FillsSeen, NewIsUntraded, NoTrades
  <1>3. TradesFollowOrders
    BY <1>1 DEF TradesFollowOrders
  <1>. QED
    BY <1>2, <1>3, InitTrades, DurableInit DEF TradesInit, TradesInv

\* Within one life of the process the trade of an order holds exactly what
\* the fills of the order took, whatever became of either, and after a
\* restart no more than that (when writes succeed): a fill is booked when it
\* is applied and never twice (trade-engine.ts: handleFill).
THEOREM TradesFollowOrdersAlways == Durable /\ TradesSpec => []TradesFollowOrders
  <1> SUFFICES ASSUME Durable PROVE TradesSpec => []TradesFollowOrders
    OBVIOUS
  <1>1. TradesInv => TradesFollowOrders
    BY DEF TradesInv
  <1>2. TradesInv /\ [TradesNext]_<<vars, tradeVars>> => TradesInv'
    BY TradesPreserved
  <1>. QED
    BY <1>1, <1>2, InitTradesInv, PTL DEF TradesSpec

\* Beside the TradeEngine the OrderManager still implements the ledger.
THEOREM TradesImplementLedger == Durable /\ TradesSpec => ImplementsLedger
  <1>1. TradesInit => Init
    BY DEF TradesInit
  <1>2. TradesSpec => Spec
    BY <1>1, TradesAreManagerSteps, PTL DEF TradesSpec, Spec
  <1>. QED
    BY <1>2, ManagerImplementsLedger
=============================================================================
