---------------------------- MODULE MCOrderManager ----------------------------
(* OrderManager for TLC: orders, keys and fill ids are interchangeable. *)
EXTENDS OrderManager, TLC

Symmetry == Permutations(OrderId) \cup Permutations(Key)
            \cup Permutations(FillId)
=============================================================================
