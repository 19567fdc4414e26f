----------------------------- MODULE OrderManager -----------------------------
(***************************************************************************)
(* The OrderManager (order-manager/order-manager.ts): the orders in        *)
(* memory, the indexes by client order id and by idempotency key, the      *)
(* fill ids already applied, and orders.json on disk.                      *)
(*                                                                         *)
(* Every method is synchronous, so each is one action: change memory,      *)
(* publish, write the file.  The write can fail (the error is logged and   *)
(* swallowed), which leaves the file as it was.  A process killed between  *)
(* the change and the write is that outcome followed by Restart.           *)
(***************************************************************************)
EXTENDS CanonicalOrder, FiniteSets

CONSTANTS OrderId,      \* uuids
          Key,          \* client order ids and idempotency keys
          FillId,       \* fill ids (given by the broker, or the fill's hash)
          Quantity,     \* order quantities, in lots
          NoId,         \* an absent index entry
          WriteOutcomes,\* {TRUE}, or {TRUE, FALSE} when a write may fail
          MaxVersion,   \* bound: no call is made on an order at this version
          MaxRestarts   \* bound on the number of restarts

ASSUME ConstantAssumption ==
    /\ Quantity \subseteq Nat \ {0}
    /\ NoId \notin OrderId
    /\ WriteOutcomes \subseteq BOOLEAN
    /\ MaxVersion \in Nat
    /\ MaxRestarts \in Nat

VARIABLES orders,              \* Map id -> order
          ordersByClient,      \* Map client order id -> order id
          ordersByIdempotency, \* Map idempotency key -> order id
          fillDedup,           \* Set of `${orderId}:${fillId}`
          disk,                \* orders.json
          issued,              \* uuids handed out so far: none is repeated
          out,                 \* the events the last step published
          restarts,            \* how often the process was restarted
          booked               \* history: the fills each order has taken

vars == <<orders, ordersByClient, ordersByIdempotency, fillDedup, disk,
          issued, out, restarts, booked>>

indexes == <<ordersByClient, ordersByIdempotency, issued>>

Order == OrderOf(Key, Quantity) \cup {NoOrder}

Event == [type : Statuses, order : OrderId, version : Nat]
         \cup [type : {"fill_applied"}, order : OrderId, version : Nat,
               quantity : Nat]

TypeOK ==
    /\ orders \in [OrderId -> Order]
    /\ ordersByClient \in [Key -> OrderId \cup {NoId}]
    /\ ordersByIdempotency \in [Key -> OrderId \cup {NoId}]
    /\ fillDedup \subseteq OrderId \X FillId
    /\ disk \in [OrderId -> Order]
    /\ issued \subseteq OrderId
    /\ out \in Seq(Event)
    /\ restarts \in 0 .. MaxRestarts
    /\ booked \in [OrderId -> Seq(FillId \X Quantity)]

-----------------------------------------------------------------------------
(* Files and indexes.                                                      *)

Empty == [o \in OrderId |-> NoOrder]

NoIndex == [k \in Key |-> NoId]

NothingBooked == [o \in OrderId |-> <<>>]

\* persistSync when the memory is m: the file becomes m or stays.
PersistSync(m) == \E ok \in WriteOutcomes : disk' = IF ok THEN m ELSE disk

\* Seeded fault: the second write is forgotten.
PersistTwice_First(m1, m2) == disk' = m1

\* One method that writes twice, when the memory is m1 and when it is m2.
PersistTwice(m1, m2) ==
    \E ok1, ok2 \in WriteOutcomes :
        disk' = IF ok2 THEN m2 ELSE IF ok1 THEN m1 ELSE disk

InFile(o) == Present(disk[o])

\* What an index can be after a load: a key that orders of the file were
\* created with names one of them (the last one read), any other key is as
\* it was.
Reindexed(by, named) ==
    {idx \in [Key -> OrderId \cup {NoId}] :
        \A k \in Key : IF named[k] = {} THEN idx[k] = by[k]
                                       ELSE idx[k] \in named[k]}

\* loadSync on top of what is in memory: each order of the file is set under
\* its id, its client order id and its idempotency key.
LoadSync(mem, byClient, byKey) ==
    /\ orders' = [o \in OrderId |-> IF InFile(o) THEN disk[o] ELSE mem[o]]
    /\ ordersByClient' \in Reindexed(byClient,
         [c \in Key |-> {o \in OrderId : InFile(o) /\ disk[o].clientOrderId = c}])
    /\ ordersByIdempotency' \in Reindexed(byKey,
         [k \in Key |-> {o \in OrderId : InFile(o) /\ disk[o].idempotencyKey = k}])

-----------------------------------------------------------------------------
Init ==
    /\ orders = Empty
    /\ ordersByClient = NoIndex
    /\ ordersByIdempotency = NoIndex
    /\ fillDedup = {}
    /\ disk = Empty
    /\ issued = {}
    /\ out = <<>>
    /\ restarts = 0
    /\ booked = NothingBooked

\* createOrder: a known client order id or idempotency key returns the
\* order it names; otherwise a fresh order is stored, announced and saved.
CreateOrder(o, c, k, q) ==
    /\ ordersByClient[c] = NoId
    /\ ordersByIdempotency[k] = NoId
    /\ o \notin issued
    /\ orders' = [orders EXCEPT ![o] = NewOrder(c, k, q)]
    /\ ordersByClient' = [ordersByClient EXCEPT ![c] = o]
    /\ ordersByIdempotency' = [ordersByIdempotency EXCEPT ![k] = o]
    /\ issued' = issued \cup {o}
    /\ out' = <<StatusEvent(o, NewOrder(c, k, q))>>
    /\ PersistSync(orders')
    /\ UNCHANGED <<fillDedup, restarts, booked>>

\* updateStatus where it does change the order.
UpdateStatus(o, s) ==
    /\ orders[o].version < MaxVersion
    /\ UpdateChanges(orders[o], s)
    /\ orders' = [orders EXCEPT ![o] = Updated(orders[o], s)]
    /\ out' = UpdateEvents(o, orders[o], s)
    /\ PersistSync(orders')
    /\ UNCHANGED <<indexes, fillDedup, restarts, booked>>

\* The two statuses callers pass to updateStatus directly.
PendingOrder(o) == UpdateStatus(o, "PENDING")

SubmitOrder(o) == UpdateStatus(o, "SUBMITTED")

CancelOrder(o) == CancelChanges(orders[o]) /\ UpdateStatus(o, "CANCELLED")

RejectOrder(o) == RejectChanges(orders[o]) /\ UpdateStatus(o, "REJECTED")

FailOrder(o) == FailChanges(orders[o]) /\ UpdateStatus(o, "FAILED")

RetryOrder(o) == RetryChanges(orders[o]) /\ UpdateStatus(o, "PENDING")

FillSeen(o, f) == <<o, f>> \in fillDedup

\* applyFill: a fill id seen before is acknowledged and not applied again.
ApplyFill(o, f, q) ==
    /\ orders[o].version < MaxVersion
    /\ ~FillSeen(o, f)
    /\ FillChanges(orders[o], q)
    /\ orders' = [orders EXCEPT ![o] = Filled(orders[o], q)]
    /\ fillDedup' = fillDedup \cup {<<o, f>>}
    /\ out' = FillEvents(o, orders[o], q)
    /\ PersistTwice([orders EXCEPT ![o] = Executable(orders[o])], orders')
    /\ booked' = [booked EXCEPT ![o] = Append(@, <<f, q>>)]
    /\ UNCHANGED <<indexes, restarts>>

\* persist(): a save on demand.
Persist ==
    /\ PersistSync(orders)
    /\ out' = <<>>
    /\ UNCHANGED <<orders, indexes, fillDedup, restarts, booked>>

\* load() on a running manager: the file's orders replace those in memory.
Load ==
    /\ LoadSync(orders, ordersByClient, ordersByIdempotency)
    /\ out' = <<>>
    /\ UNCHANGED <<fillDedup, disk, issued, restarts, booked>>

\* clear() empties memory and saves the empty file.
Clear ==
    /\ orders' = Empty
    /\ ordersByClient' = NoIndex
    /\ ordersByIdempotency' = NoIndex
    /\ fillDedup' = {}
    /\ booked' = NothingBooked
    /\ PersistSync(Empty)
    /\ out' = <<>>
    /\ UNCHANGED <<issued, restarts>>

\* The process dies and a new one constructs the manager: the file is all
\* that is left, and the applied fill ids are not in it.
Restart ==
    /\ restarts < MaxRestarts
    /\ LoadSync(Empty, NoIndex, NoIndex)
    /\ fillDedup' = {}
    /\ restarts' = restarts + 1
    /\ out' = <<>>
    /\ UNCHANGED <<disk, issued, booked>>

OrderStep(o) ==
    \/ \E c, k \in Key, q \in Quantity : CreateOrder(o, c, k, q)
    \/ PendingOrder(o)
    \/ SubmitOrder(o)
    \/ CancelOrder(o)
    \/ RejectOrder(o)
    \/ FailOrder(o)
    \/ RetryOrder(o)
    \/ \E f \in FillId, q \in Quantity : ApplyFill(o, f, q)

Next ==
    \/ \E o \in OrderId : OrderStep(o)
    \/ Persist
    \/ Load
    \/ Clear
    \/ Restart

Spec == Init /\ [][Next]_vars

-----------------------------------------------------------------------------
(* Safety.                                                                 *)

FillsMatch(ord) ==
    /\ ord.filledQuantity <= ord.quantity
    /\ ord.status = "FILLED" <=> ord.filledQuantity = ord.quantity
    /\ ord.status = "PARTIALLY_FILLED" => ord.filledQuantity > 0
    /\ ord.status = "CREATED" => ord.filledQuantity = 0

\* The status of an order and its filled quantity tell the same story: it is
\* FILLED exactly when nothing remains, PARTIALLY_FILLED only in between,
\* and never over-filled, whatever mix of fills, cancels, failures, retries,
\* reloads and restarts it went through.
FillsMatchStatus ==
    \A o \in OrderId : Present(orders[o]) => FillsMatch(orders[o])

\* Both indexes name exactly the orders held: a client order id or an
\* idempotency key finds the order created with it, and no two orders share
\* one, so a repeated createOrder cannot place a second order.
IndexesAgree ==
    \A o \in OrderId, k \in Key :
        /\ ordersByClient[k] = o
             <=> Present(orders[o]) /\ orders[o].clientOrderId = k
        /\ ordersByIdempotency[k] = o
             <=> Present(orders[o]) /\ orders[o].idempotencyKey = k

\* Every call returns with the file equal to memory (when writes succeed),
\* so a restart loses no order and no fill.
DurableOnReturn == disk = orders

\* When writes may fail the file is behind, never different: an order in the
\* file is an earlier version of the one in memory, or the same one.
FileNeverAhead ==
    \A o \in OrderId : InFile(o) /\ Present(orders[o]) =>
        \/ disk[o].version < orders[o].version
        \/ disk[o] = orders[o]

Lots(fills) ==
    LET sum[n \in 0 .. Len(fills)] == IF n = 0 THEN 0
                                      ELSE sum[n - 1] + fills[n][2]
    IN  sum[Len(fills)]

\* The filled quantity is the sum of the fills taken: none is lost or
\* counted with a wrong size, over restarts too (when writes succeed).
FillsAddUp ==
    \A o \in OrderId : orders[o].filledQuantity = Lots(booked[o])

\* A fill id is booked on an order once.
FillIdBookedOnce ==
    \A o \in OrderId : \A i, j \in 1 .. Len(booked[o]) :
        booked[o][i][1] = booked[o][j][1] => i = j

-----------------------------------------------------------------------------
(* Action properties.                                                      *)

Reloading == Restart \/ Load \/ Clear

\* Which of the events announce a status of the order.
Announcing(o, events) ==
    {i \in DOMAIN events : events[i].order = o /\ events[i].type \in Statuses}

\* The events of a step announce each version an order has taken on by one
\* status event, in version order and without gaps; the last one carries the
\* status the order has, and an order changes only with its version.
EachVersionAnnounced(o, events, old, new) ==
    LET mine == Announcing(o, events)
    IN  /\ {events[i].version : i \in mine} = old.version + 1 .. new.version
        /\ \A i, j \in mine : i < j => events[i].version < events[j].version
        /\ \A i \in mine : events[i].version = new.version
                             => events[i].type = new.status
        /\ new.version >= old.version
        /\ new.version = old.version => new = old

\* Event ordering: whoever follows the events of an order sees each of its
\* states once, in order, until the orders are read from the file.
OneEventPerVersion ==
    [][Reloading \/ \A o \in OrderId :
        EachVersionAnnounced(o, out', orders[o], orders'[o])]_vars

\* A closed order never changes again and never disappears, restarts
\* included, unless the whole book is cleared.
ClosedIsFinal ==
    [][Clear \/ \A o \in OrderId :
        IsTerminal(orders[o].status) => orders'[o] = orders[o]]_vars

-----------------------------------------------------------------------------
(* Refinement.                                                             *)

Held == {o \in OrderId : Present(orders[o])}

TermsOf(o) ==
    IF Present(orders[o])
    THEN {[client |-> orders[o].clientOrderId,
           key |-> orders[o].idempotencyKey,
           quantity |-> orders[o].quantity]}
    ELSE {}

Ledger == INSTANCE OrderLedger WITH
    placed <- Held,
    terms  <- [o \in OrderId |-> TermsOf(o)],
    taken  <- [o \in OrderId |-> orders[o].filledQuantity],
    closed <- {o \in OrderId : IsTerminal(orders[o].status)}

\* With writes that succeed, the manager with its file, indexes, versions and
\* restarts behaves as the ledger: each call is one ledger step or none.
ImplementsLedger == Ledger!LedgerSpec
=============================================================================
