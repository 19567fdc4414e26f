----------------------------- MODULE MCTradeEngine -----------------------------
(* OrderManager and TradeEngine for TLC: orders, keys and fill ids are       *)
(* interchangeable.                                                          *)
EXTENDS TradeEngine, TLC

Symmetry == Permutations(OrderId) \cup Permutations(Key)
            \cup Permutations(FillId)
=============================================================================
