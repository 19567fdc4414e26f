---------------------------- MODULE CanonicalOrder ----------------------------
(***************************************************************************)
(* The canonical order and its state machine (order-manager/canonical.ts), *)
(* with what each method of the OrderManager does to one order.  The       *)
(* modules that hold orders (OrderManager, ExecutionPipeline, ...) build   *)
(* their steps from these operators.                                       *)
(*                                                                         *)
(* Quantities are whole lots, so the 1e-9 tolerance of the code, which     *)
(* absorbs floating-point error only, is an exact comparison here.         *)
(* Prices, fees, timestamps and reasons do not influence control and are   *)
(* left out.                                                               *)
(*                                                                         *)
(* A definition named X_Fault is X with a seeded fault; no definition uses *)
(* it.                                                                     *)
(***************************************************************************)
EXTENDS Naturals, Sequences

Statuses == {"CREATED", "PENDING", "SUBMITTED", "PARTIALLY_FILLED",
             "FILLED", "CANCELLED", "REJECTED", "FAILED"}

ValidTransitions ==
    ({"CREATED"}          \X {"PENDING", "CANCELLED", "REJECTED", "FAILED"})
    \cup
    ({"PENDING"}          \X {"SUBMITTED", "CANCELLED", "REJECTED", "FAILED"})
    \cup
    ({"SUBMITTED"}        \X {"PARTIALLY_FILLED", "FILLED", "CANCELLED",
                              "REJECTED", "FAILED"})
    \cup
    ({"PARTIALLY_FILLED"} \X {"PARTIALLY_FILLED", "FILLED", "CANCELLED",
                              "REJECTED", "FAILED"})
    \cup
    ({"FAILED"}           \X {"PENDING"})

CanTransition(from, to) == <<from, to>> \in ValidTransitions

IsTerminal(s) == s \in {"FILLED", "CANCELLED", "REJECTED"}

\* FAILED counts as open: a failed order can be retried.
IsOpen(s) ==
    s \in {"CREATED", "PENDING", "SUBMITTED", "PARTIALLY_FILLED", "FAILED"}

-----------------------------------------------------------------------------
(* One order.  NoOrder stands for an id the map does not hold.             *)

NoOrder == [status |-> "NONE", version |-> 0, quantity |-> 0,
            filledQuantity |-> 0, clientOrderId |-> "NONE",
            idempotencyKey |-> "NONE"]

NewOrder(c, k, q) == [status |-> "CREATED", version |-> 1, quantity |-> q,
                      filledQuantity |-> 0, clientOrderId |-> c,
                      idempotencyKey |-> k]

Present(ord) == ord.status # "NONE"

\* The orders a map may hold, with keys in K and quantities in Q.
OrderOf(K, Q) == [status : Statuses, version : Nat, quantity : Q,
                  filledQuantity : Nat, clientOrderId : K,
                  idempotencyKey : K]

-----------------------------------------------------------------------------
(* Each method as a guard that says when it changes the order, and the     *)
(* order it leaves.  When the guard is false the method returns (true for  *)
(* a repeated request, false for an illegal one) and changes nothing.      *)

UpdateChanges(ord, s) == ord.status # s /\ CanTransition(ord.status, s)

WithStatus(ord, s) == [ord EXCEPT !.status = s]

NextVersion(ord) == [ord EXCEPT !.version = @ + 1]

\* Seeded fault: the version is not bumped.
Updated_SameVersion(ord, s) == WithStatus(ord, s)

Updated(ord, s) == NextVersion(WithStatus(ord, s))

CancelChanges(ord) == ~IsTerminal(ord.status) /\ UpdateChanges(ord, "CANCELLED")

RejectChanges(ord) == ~IsTerminal(ord.status) /\ UpdateChanges(ord, "REJECTED")

FailChanges(ord) == UpdateChanges(ord, "FAILED")

RetryChanges(ord) == ord.status = "FAILED" /\ UpdateChanges(ord, "PENDING")

\* Seeded faults: a cancelled order takes fills; the capacity is not checked.
FillChanges_Cancelled(ord, q) ==
    /\ ord.status \in {"CREATED", "PENDING", "SUBMITTED", "PARTIALLY_FILLED",
                       "CANCELLED"}
    /\ q > 0
    /\ ord.filledQuantity + q <= ord.quantity

FillChanges_NoCap(ord, q) ==
    /\ ord.status \in {"CREATED", "PENDING", "SUBMITTED", "PARTIALLY_FILLED"}
    /\ q > 0

\* A fill of q lots is refused on a closed or failed order and when it
\* would exceed the order's quantity.
FillChanges(ord, q) ==
    /\ ord.status \in {"CREATED", "PENDING", "SUBMITTED", "PARTIALLY_FILLED"}
    /\ q > 0
    /\ ord.filledQuantity + q <= ord.quantity

\* applyFill first asks updateStatus for SUBMITTED.  Its answer is ignored:
\* from PENDING the order moves, from CREATED the request is refused and the
\* fill is applied all the same.
Executable(ord) ==
    IF ord.status \in {"CREATED", "PENDING"} /\ UpdateChanges(ord, "SUBMITTED")
    THEN Updated(ord, "SUBMITTED")
    ELSE ord

\* Seeded fault: an exactly filled order is still partial.
FillStatus_OffByOne(ord, q) ==
    IF ord.filledQuantity + q > ord.quantity THEN "FILLED"
                                             ELSE "PARTIALLY_FILLED"

FillStatus(ord, q) ==
    IF ord.filledQuantity + q >= ord.quantity THEN "FILLED"
                                              ELSE "PARTIALLY_FILLED"

\* Seeded fault: the fill replaces the filled quantity.
AddFilled_Replace(ord, q) == [ord EXCEPT !.filledQuantity = q]

AddFilled(ord, q) == [ord EXCEPT !.filledQuantity = @ + q]

Filled(ord, q) ==
    NextVersion(WithStatus(AddFilled(Executable(ord), q), FillStatus(ord, q)))

-----------------------------------------------------------------------------
(* What is published.  A status event is order.<status> with the version   *)
(* the order has at that point; "fill_applied" is the event the            *)
(* TradeEngine books.                                                      *)

StatusEvent(o, ord) == [type |-> ord.status, order |-> o,
                        version |-> ord.version]

FillAppliedEvent(o, ord, q) == [type |-> "fill_applied", order |-> o,
                                version |-> ord.version, quantity |-> q]

UpdateEvents(o, ord, s) == <<StatusEvent(o, Updated(ord, s))>>

\* Seeded fault: the SUBMITTED status on the way is not announced.
FillEvents_FinalOnly(o, ord, q) ==
    <<StatusEvent(o, Filled(ord, q)), FillAppliedEvent(o, Filled(ord, q), q)>>

FillEvents(o, ord, q) ==
    (IF Executable(ord) # ord THEN <<StatusEvent(o, Executable(ord))>>
                              ELSE <<>>)
    \o <<StatusEvent(o, Filled(ord, q)),
         FillAppliedEvent(o, Filled(ord, q), q)>>
=============================================================================
