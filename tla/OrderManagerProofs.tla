-------------------------- MODULE OrderManagerProofs --------------------------
(***************************************************************************)
(* Proofs about the OrderManager for any sets of orders, keys, fill ids    *)
(* and quantities: first whether or not writes can fail, then about a      *)
(* manager whose writes succeed, which implements the OrderLedger.         *)
(***************************************************************************)
EXTENDS OrderManager, CanonicalOrderProofs, WellFoundedInduction

USE ConstantAssumption

\* The event a status change publishes has the right type.
LEMMA StatusEventType ==
    ASSUME NEW ord \in OrderOf(Key, Quantity), NEW o \in OrderId
    PROVE  StatusEvent(o, ord) \in Event
  BY DEF OrderOf, StatusEvent, Event

\* Only an order that is held can change its status.
LEMMA UpdateOfHeld ==
    ASSUME NEW ord \in Order, NEW s, UpdateChanges(ord, s)
    PROVE  ord \in OrderOf(Key, Quantity)
  BY ChangedIsHeld DEF Order

LEMMA FillOfHeld ==
    ASSUME NEW ord \in Order, NEW q, FillChanges(ord, q)
    PROVE  ord \in OrderOf(Key, Quantity)
  BY FilledIsHeld DEF Order

LEMMA FillEventsType ==
    ASSUME NEW ord \in OrderOf(Key, Quantity), NEW q \in Quantity,
           NEW o \in OrderId
    PROVE  FillEvents(o, ord, q) \in Seq(Event)
  <1>1. /\ Executable(ord) \in OrderOf(Key, Quantity)
        /\ Filled(ord, q) \in OrderOf(Key, Quantity)
    BY ExecutableType, FilledType
  <1>2. /\ StatusEvent(o, Executable(ord)) \in Event
        /\ StatusEvent(o, Filled(ord, q)) \in Event
    BY <1>1, StatusEventType
  <1>3. FillAppliedEvent(o, Filled(ord, q), q) \in Event
    BY <1>1 DEF FillAppliedEvent, Event, OrderOf
  <1>. QED
    BY <1>2, <1>3 DEF FillEvents

\* What each method makes of an order whose fills match its status.
LEMMA NewOrderSound ==
    ASSUME NEW c \in Key, NEW k \in Key, NEW q \in Quantity
    PROVE  /\ NewOrder(c, k, q) \in OrderOf(Key, Quantity)
           /\ FillsMatch(NewOrder(c, k, q))
  BY DEF NewOrder, OrderOf, Statuses, FillsMatch

CallerStatus == {"PENDING", "SUBMITTED", "CANCELLED", "REJECTED", "FAILED"}

LEMMA UpdatedSound ==
    ASSUME NEW ord \in OrderOf(Key, Quantity), NEW s \in CallerStatus,
           UpdateChanges(ord, s), FillsMatch(ord)
    PROVE  FillsMatch(Updated(ord, s))
  <1>1. s \in Statuses /\ s \notin {"FILLED", "PARTIALLY_FILLED", "CREATED"}
    BY DEF CallerStatus, Statuses
  <1>2. ord.status # "FILLED"
    BY DEF UpdateChanges, CanTransition, ValidTransitions
  <1>. QED
    BY <1>1, <1>2, UpdatedFields DEF FillsMatch, OrderOf

LEMMA ExecutableSound ==
    ASSUME NEW ord \in OrderOf(Key, Quantity), FillsMatch(ord)
    PROVE  FillsMatch(Executable(ord))
  BY UpdatedSound DEF Executable, CallerStatus

LEMMA FilledSound ==
    ASSUME NEW ord \in OrderOf(Key, Quantity), NEW q \in Quantity,
           FillChanges(ord, q), FillsMatch(ord)
    PROVE  FillsMatch(Filled(ord, q))
  <1>1. ord.filledQuantity \in Nat /\ ord.quantity \in Nat
    BY DEF OrderOf
  <1>. QED
    BY <1>1, FilledFields DEF FillsMatch, FillChanges, FillStatus

-----------------------------------------------------------------------------
(* The inductive invariant.  FillsMatchStatus alone is not inductive: Load  *)
(* and Restart bring orders back from the file, so the file's orders must   *)
(* be sound too.  FileNeverAhead needs that a fresh id names nothing, in    *)
(* memory or in the file.                                                   *)

FileFillsMatch == \A o \in OrderId : InFile(o) => FillsMatch(disk[o])

IdsIssued ==
    \A o \in OrderId : Present(orders[o]) \/ InFile(o) => o \in issued

Inv ==
    /\ TypeOK
    /\ FillsMatchStatus
    /\ FileFillsMatch
    /\ FileNeverAhead
    /\ IdsIssued

LEMMA EmptyType == Empty \in [OrderId -> Order] /\ \A o \in OrderId : ~Present(Empty[o])
  BY DEF Empty, Order, NoOrder, Present

LEMMA HeldPresent ==
    ASSUME NEW ord \in OrderOf(Key, Quantity)
    PROVE  Present(ord) /\ ord \in Order
  BY DEF OrderOf, Present, Statuses, Order

LEMMA PresentHeld ==
    ASSUME NEW ord \in Order, Present(ord)
    PROVE  ord \in OrderOf(Key, Quantity)
  BY DEF Order, Present, NoOrder

LEMMA InitInv == Init => Inv
  <1> SUFFICES ASSUME Init PROVE Inv
    OBVIOUS
  <1>1. TypeOK
    BY EmptyType DEF Init, TypeOK, NoIndex, NothingBooked
  <1>2. \A o \in OrderId : ~Present(orders[o]) /\ ~InFile(o)
    BY EmptyType DEF Init, InFile
  <1>. QED
    BY <1>1, <1>2 DEF Inv, FillsMatchStatus, FileFillsMatch, FileNeverAhead,
                      IdsIssued

\* A step that puts a sound, newer order n under one id, and saves the
\* orders, saves them halfway (with e under that id) or does not save.
LEMMA OneOrderStep ==
    ASSUME Inv,
           NEW o \in OrderId,
           NEW n \in OrderOf(Key, Quantity), FillsMatch(n),
           NEW e \in OrderOf(Key, Quantity), FillsMatch(e),
           orders' = [orders EXCEPT ![o] = n],
           \/ disk' = disk
           \/ disk' = orders'
           \/ disk' = [orders EXCEPT ![o] = e] /\ e.version < n.version,
           Present(orders[o]) => orders[o].version < n.version,
           ~Present(orders[o]) => ~InFile(o),
           issued' = issued \cup {o}
    PROVE  /\ orders' \in [OrderId -> Order]
           /\ disk' \in [OrderId -> Order]
           /\ issued' \subseteq OrderId
           /\ FillsMatchStatus' /\ FileFillsMatch' /\ FileNeverAhead'
           /\ IdsIssued'
  <1>1. /\ orders \in [OrderId -> Order] /\ disk \in [OrderId -> Order]
        /\ issued \subseteq OrderId
    BY DEF Inv, TypeOK
  <1>2. n \in Order /\ e \in Order /\ Present(n) /\ Present(e)
    BY HeldPresent
  <1>3. orders' \in [OrderId -> Order] /\ disk' \in [OrderId -> Order]
    BY <1>1, <1>2
  <1>4. issued' \subseteq OrderId
    BY <1>1
  <1>5. FillsMatchStatus'
    BY <1>1 DEF Inv, FillsMatchStatus
  <1>6. FileFillsMatch'
    BY <1>1 DEF Inv, FillsMatchStatus, FileFillsMatch, InFile
  <1>7. FileNeverAhead'
    <2> SUFFICES ASSUME NEW p \in OrderId, Present(disk'[p]), Present(orders'[p])
                 PROVE  disk'[p].version < orders'[p].version
                        \/ disk'[p] = orders'[p]
      BY DEF FileNeverAhead, InFile
    <2>1. CASE p # o
      BY <1>1, <2>1 DEF Inv, FileNeverAhead, InFile
    <2>2. CASE p = o
      <3>1. orders'[o] = n
        BY <1>1
      <3>2. CASE disk' = disk
        <4>1. Present(orders[o]) /\ InFile(o)
          BY <2>2, <3>2 DEF InFile
        <4>2. /\ disk[o] \in OrderOf(Key, Quantity)
              /\ orders[o] \in OrderOf(Key, Quantity)
          BY <1>1, <4>1, PresentHeld DEF InFile
        <4>3. disk[o].version <= orders[o].version
          BY <4>1, <4>2 DEF Inv, FileNeverAhead, OrderOf
        <4>4. /\ disk[o].version \in Nat /\ orders[o].version \in Nat
              /\ n.version \in Nat
          BY <4>2 DEF OrderOf
        <4>. QED
          BY <2>2, <3>1, <3>2, <4>1, <4>3, <4>4
      <3>3. CASE disk' = orders'
        BY <3>3
      <3>4. CASE disk' = [orders EXCEPT ![o] = e] /\ e.version < n.version
        BY <1>1, <2>2, <3>1, <3>4
      <3>. QED
        BY <3>2, <3>3, <3>4
    <2>. QED
      BY <2>1, <2>2
  <1>8. IdsIssued'
    BY <1>1, <1>2 DEF Inv, IdsIssued, InFile
  <1>. QED
    BY <1>3, <1>4, <1>5, <1>6, <1>7, <1>8

LEMMA CreateOrderInv ==
    ASSUME Inv, NEW o \in OrderId, NEW c \in Key, NEW k \in Key,
           NEW q \in Quantity, CreateOrder(o, c, k, q)
    PROVE  Inv'
  <1> DEFINE n == NewOrder(c, k, q)
  <1>1. n \in OrderOf(Key, Quantity) /\ FillsMatch(n)
    BY NewOrderSound
  <1>2. ~Present(orders[o]) /\ ~InFile(o)
    BY DEF Inv, IdsIssued, CreateOrder
  <1>3. disk' = disk \/ disk' = orders'
    BY DEF CreateOrder, PersistSync
  <1>4. orders' = [orders EXCEPT ![o] = n] /\ issued' = issued \cup {o}
    BY DEF CreateOrder
  <1>5. StatusEvent(o, n) \in Event
    BY <1>1, StatusEventType
  <1> HIDE DEF n
  <1>6. /\ orders' \in [OrderId -> Order]
        /\ disk' \in [OrderId -> Order]
        /\ issued' \subseteq OrderId
        /\ FillsMatchStatus' /\ FileFillsMatch' /\ FileNeverAhead' /\ IdsIssued'
    BY <1>1, <1>2, <1>3, <1>4, OneOrderStep
  <1>7. out' \in Seq(Event)
    BY <1>5 DEF CreateOrder, n
  <1>8. /\ ordersByClient' \in [Key -> OrderId \cup {NoId}]
        /\ ordersByIdempotency' \in [Key -> OrderId \cup {NoId}]
    BY DEF Inv, TypeOK, CreateOrder
  <1>9. /\ fillDedup' = fillDedup /\ restarts' = restarts /\ booked' = booked
    BY DEF CreateOrder
  <1>10. TypeOK'
    BY <1>6, <1>7, <1>8, <1>9 DEF Inv, TypeOK
  <1>. QED
    BY <1>6, <1>10 DEF Inv

LEMMA UpdateStatusInv ==
    ASSUME Inv, NEW o \in OrderId, NEW s \in CallerStatus, UpdateStatus(o, s)
    PROVE  Inv'
  <1> DEFINE n == Updated(orders[o], s)
  <1>1. orders[o] \in Order /\ UpdateChanges(orders[o], s) /\ s \in Statuses
    BY DEF Inv, TypeOK, UpdateStatus, CallerStatus, Statuses
  <1>2. orders[o] \in OrderOf(Key, Quantity) /\ Present(orders[o])
    BY <1>1, UpdateOfHeld, HeldPresent
  <1>3. FillsMatch(orders[o]) /\ o \in issued
    BY <1>2 DEF Inv, FillsMatchStatus, IdsIssued
  <1>4. n \in OrderOf(Key, Quantity) /\ FillsMatch(n)
    BY <1>1, <1>2, <1>3, UpdatedFields, UpdatedSound
  <1>5. orders[o].version < n.version
    BY <1>1, <1>2, UpdatedFields DEF OrderOf
  <1>6. disk' = disk \/ disk' = orders'
    BY DEF UpdateStatus, PersistSync
  <1>7. orders' = [orders EXCEPT ![o] = n] /\ issued' = issued \cup {o}
    BY <1>3 DEF UpdateStatus, indexes
  <1>8. StatusEvent(o, n) \in Event
    BY <1>4, StatusEventType
  <1>9. out' = <<StatusEvent(o, n)>>
    BY DEF UpdateStatus, UpdateEvents
  <1> HIDE DEF n
  <1>10. /\ orders' \in [OrderId -> Order]
         /\ disk' \in [OrderId -> Order]
         /\ issued' \subseteq OrderId
         /\ FillsMatchStatus' /\ FileFillsMatch' /\ FileNeverAhead' /\ IdsIssued'
    BY <1>2, <1>4, <1>5, <1>6, <1>7, OneOrderStep
  <1>11. out' \in Seq(Event)
    BY <1>8, <1>9
  <1>12. TypeOK'
    BY <1>10, <1>11 DEF Inv, TypeOK, UpdateStatus, indexes
  <1>. QED
    BY <1>10, <1>12 DEF Inv

LEMMA ApplyFillInv ==
    ASSUME Inv, NEW o \in OrderId, NEW f \in FillId, NEW q \in Quantity,
           ApplyFill(o, f, q)
    PROVE  Inv'
  <1> DEFINE n == Filled(orders[o], q)
             e == Executable(orders[o])
  <1>1. orders[o] \in Order /\ FillChanges(orders[o], q)
    BY DEF Inv, TypeOK, ApplyFill
  <1>2. orders[o] \in OrderOf(Key, Quantity) /\ Present(orders[o])
    BY <1>1, FillOfHeld, HeldPresent
  <1>3. FillsMatch(orders[o]) /\ o \in issued
    BY <1>2 DEF Inv, FillsMatchStatus, IdsIssued
  <1>4. n \in OrderOf(Key, Quantity) /\ FillsMatch(n)
    BY <1>1, <1>2, <1>3, FilledType, FilledSound
  <1>5. e \in OrderOf(Key, Quantity) /\ FillsMatch(e)
    BY <1>2, <1>3, ExecutableType, ExecutableSound
  <1>6. orders[o].version < n.version /\ e.version < n.version
    <2>1. n.version > orders[o].version /\ n.version = e.version + 1
      BY <1>2, FilledFields
    <2>2. orders[o].version \in Nat /\ e.version \in Nat
      BY <1>2, <1>5 DEF OrderOf
    <2>. QED
      BY <2>1, <2>2
  <1>7. \/ disk' = disk \/ disk' = orders'
        \/ disk' = [orders EXCEPT ![o] = e]
    BY DEF ApplyFill, PersistTwice
  <1>8. orders' = [orders EXCEPT ![o] = n] /\ issued' = issued \cup {o}
    BY <1>3 DEF ApplyFill, indexes
  <1>9. out' \in Seq(Event)
    BY <1>2, FillEventsType DEF ApplyFill
  <1>10. booked' \in [OrderId -> Seq(FillId \X Quantity)]
    BY DEF ApplyFill, Inv, TypeOK
  <1>11. fillDedup' \subseteq OrderId \X FillId
    BY DEF ApplyFill, Inv, TypeOK
  <1> HIDE DEF n, e
  <1>12. /\ orders' \in [OrderId -> Order]
         /\ disk' \in [OrderId -> Order]
         /\ issued' \subseteq OrderId
         /\ FillsMatchStatus' /\ FileFillsMatch' /\ FileNeverAhead' /\ IdsIssued'
    BY <1>2, <1>4, <1>5, <1>6, <1>7, <1>8, OneOrderStep
  <1>13. TypeOK'
    BY <1>9, <1>10, <1>11, <1>12 DEF Inv, TypeOK, ApplyFill, indexes
  <1>. QED
    BY <1>12, <1>13 DEF Inv

LEMMA PersistInv == ASSUME Inv, Persist PROVE Inv'
  <1>1. disk' = disk \/ disk' = orders'
    BY DEF Persist, PersistSync
  <1>2. /\ orders' = orders /\ issued' = issued
        /\ out' = <<>> /\ UNCHANGED <<ordersByClient, ordersByIdempotency>>
        /\ UNCHANGED <<fillDedup, restarts, booked>>
    BY DEF Persist, indexes
  <1>3. TypeOK'
    BY <1>1, <1>2 DEF Inv, TypeOK
  <1>4. FillsMatchStatus' /\ FileFillsMatch' /\ FileNeverAhead' /\ IdsIssued'
    BY <1>1, <1>2 DEF Inv, FillsMatchStatus, FileFillsMatch, FileNeverAhead,
                      IdsIssued, InFile
  <1>. QED
    BY <1>3, <1>4 DEF Inv

\* A load over a memory whose orders are sound and not behind the file.
LEMMA LoadSyncInv ==
    ASSUME Inv,
           NEW mem \in [OrderId -> Order],
           \A o \in OrderId : Present(mem[o]) => FillsMatch(mem[o])
                                               /\ o \in issued,
           NEW byClient \in [Key -> OrderId \cup {NoId}],
           NEW byKey \in [Key -> OrderId \cup {NoId}],
           LoadSync(mem, byClient, byKey),
           disk' = disk, issued' = issued
    PROVE  /\ orders' \in [OrderId -> Order]
           /\ disk' \in [OrderId -> Order]
           /\ ordersByClient' \in [Key -> OrderId \cup {NoId}]
           /\ ordersByIdempotency' \in [Key -> OrderId \cup {NoId}]
           /\ FillsMatchStatus' /\ FileFillsMatch' /\ FileNeverAhead' /\ IdsIssued'
  <1>1. /\ ordersByClient' \in [Key -> OrderId \cup {NoId}]
        /\ ordersByIdempotency' \in [Key -> OrderId \cup {NoId}]
    BY DEF LoadSync, Reindexed
  <1>2. disk' \in [OrderId -> Order] /\ orders' \in [OrderId -> Order]
    BY DEF LoadSync, Inv, TypeOK
  <1>3. \A o \in OrderId : orders'[o] = IF InFile(o) THEN disk[o] ELSE mem[o]
    BY DEF LoadSync
  <1>4. FillsMatchStatus' /\ FileFillsMatch' /\ FileNeverAhead' /\ IdsIssued'
    BY <1>3 DEF Inv, FillsMatchStatus, FileFillsMatch, FileNeverAhead,
                IdsIssued, InFile
  <1>. QED
    BY <1>1, <1>2, <1>4

LEMMA LoadInv == ASSUME Inv, Load PROVE Inv'
  <1>1. \A o \in OrderId : Present(orders[o]) => FillsMatch(orders[o])
                                               /\ o \in issued
    BY DEF Inv, FillsMatchStatus, IdsIssued
  <1>2. /\ orders \in [OrderId -> Order]
        /\ ordersByClient \in [Key -> OrderId \cup {NoId}]
        /\ ordersByIdempotency \in [Key -> OrderId \cup {NoId}]
    BY DEF Inv, TypeOK
  <1>3. /\ LoadSync(orders, ordersByClient, ordersByIdempotency)
        /\ disk' = disk /\ issued' = issued /\ out' = <<>>
        /\ UNCHANGED <<fillDedup, restarts, booked>>
    BY DEF Load
  <1>4. /\ orders' \in [OrderId -> Order]
        /\ disk' \in [OrderId -> Order]
        /\ ordersByClient' \in [Key -> OrderId \cup {NoId}]
        /\ ordersByIdempotency' \in [Key -> OrderId \cup {NoId}]
        /\ FillsMatchStatus' /\ FileFillsMatch' /\ FileNeverAhead' /\ IdsIssued'
    BY <1>1, <1>2, <1>3, LoadSyncInv
  <1>5. TypeOK'
    BY <1>3, <1>4 DEF Inv, TypeOK
  <1>. QED
    BY <1>4, <1>5 DEF Inv

LEMMA RestartInv == ASSUME Inv, Restart PROVE Inv'
  <1>1. /\ Empty \in [OrderId -> Order]
        /\ \A o \in OrderId : ~Present(Empty[o])
        /\ NoIndex \in [Key -> OrderId \cup {NoId}]
    BY EmptyType DEF NoIndex
  <1>2. /\ LoadSync(Empty, NoIndex, NoIndex)
        /\ disk' = disk /\ issued' = issued /\ out' = <<>>
        /\ fillDedup' = {} /\ booked' = booked
    BY DEF Restart
  <1>3. /\ orders' \in [OrderId -> Order]
        /\ disk' \in [OrderId -> Order]
        /\ ordersByClient' \in [Key -> OrderId \cup {NoId}]
        /\ ordersByIdempotency' \in [Key -> OrderId \cup {NoId}]
        /\ FillsMatchStatus' /\ FileFillsMatch' /\ FileNeverAhead' /\ IdsIssued'
    BY <1>1, <1>2, LoadSyncInv
  <1>4. restarts' \in 0 .. MaxRestarts
    BY DEF Restart, Inv, TypeOK
  <1>5. TypeOK'
    BY <1>2, <1>3, <1>4 DEF Inv, TypeOK
  <1>. QED
    BY <1>3, <1>5 DEF Inv

LEMMA ClearInv == ASSUME Inv, Clear PROVE Inv'
  <1>1. disk' = disk \/ disk' = Empty
    BY DEF Clear, PersistSync
  <1>2. /\ Empty \in [OrderId -> Order]
        /\ \A o \in OrderId : ~Present(Empty[o])
    BY EmptyType
  <1>3. orders' = Empty /\ issued' = issued
    BY DEF Clear
  <1>4. TypeOK'
    BY <1>1, <1>2 DEF Clear, Inv, TypeOK, NoIndex, NothingBooked
  <1>5. FillsMatchStatus' /\ FileFillsMatch' /\ FileNeverAhead' /\ IdsIssued'
    BY <1>1, <1>2, <1>3 DEF Inv, FillsMatchStatus, FileFillsMatch,
                            FileNeverAhead, IdsIssued, InFile
  <1>. QED
    BY <1>4, <1>5 DEF Inv

LEMMA NextInv == Inv /\ [Next]_vars => Inv'
  <1> SUFFICES ASSUME Inv, [Next]_vars PROVE Inv'
    OBVIOUS
  <1>1. ASSUME NEW o \in OrderId, OrderStep(o) PROVE Inv'
    <2>1. ASSUME NEW c \in Key, NEW k \in Key, NEW q \in Quantity,
                 CreateOrder(o, c, k, q)
          PROVE  Inv'
      BY <2>1, CreateOrderInv
    <2>2. ASSUME NEW s \in CallerStatus, UpdateStatus(o, s) PROVE Inv'
      BY <2>2, UpdateStatusInv
    <2>3. ASSUME NEW f \in FillId, NEW q \in Quantity, ApplyFill(o, f, q)
          PROVE  Inv'
      BY <2>3, ApplyFillInv
    <2>. QED
      BY <1>1, <2>1, <2>2, <2>3
         DEF OrderStep, PendingOrder, SubmitOrder, CancelOrder, RejectOrder,
             FailOrder, RetryOrder, CallerStatus
  <1>2. CASE UNCHANGED vars
    BY <1>2 DEF vars, Inv, TypeOK, FillsMatchStatus, FileFillsMatch,
                FileNeverAhead, IdsIssued, InFile
  <1>. QED
    BY <1>1, <1>2, PersistInv, LoadInv, RestartInv, ClearInv DEF Next

\* Types are respected in every run, for any constants.
THEOREM TypeCorrect == Spec => []TypeOK
  <1>1. Inv => TypeOK
    BY DEF Inv
  <1>. QED
    BY <1>1, InitInv, NextInv, PTL DEF Spec

\* The status of each order and its filled quantity agree in every run, with
\* or without failing writes, loads and restarts.
THEOREM FillsMatchStatusAlways == Spec => []FillsMatchStatus
  <1>1. Inv => FillsMatchStatus
    BY DEF Inv
  <1>. QED
    BY <1>1, InitInv, NextInv, PTL DEF Spec

\* The file is never ahead of memory, nor different at the same version.
THEOREM FileNeverAheadAlways == Spec => []FileNeverAhead
  <1>1. Inv => FileNeverAhead
    BY DEF Inv
  <1>. QED
    BY <1>1, InitInv, NextInv, PTL DEF Spec

-----------------------------------------------------------------------------
(* What a step publishes.                                                  *)

LEMMA VersionIsNat ==
    ASSUME NEW ord \in Order
    PROVE  ord.version \in Nat
  BY DEF Order, OrderOf, NoOrder

\* An order that is left alone is not announced.
LEMMA NothingAnnounced ==
    ASSUME NEW o \in OrderId, NEW ord \in Order, NEW events,
           \A i \in DOMAIN events : events[i].order # o
    PROVE  EachVersionAnnounced(o, events, ord, ord)
  <1>1. Announcing(o, events) = {}
    BY DEF Announcing
  <1>2. ord.version \in Nat
    BY VersionIsNat
  <1>3. ord.version + 1 .. ord.version = {}
    BY <1>2
  <1>. QED
    BY <1>1, <1>2, <1>3 DEF EachVersionAnnounced

\* One event for one new version, be it the first.
LEMMA OneAnnounced ==
    ASSUME NEW o \in OrderId, NEW old \in Order, NEW new \in OrderOf(Key, Quantity),
           new.version = old.version + 1
    PROVE  EachVersionAnnounced(o, <<StatusEvent(o, new)>>, old, new)
  <1> DEFINE events == <<StatusEvent(o, new)>>
  <1>1. old.version \in Nat /\ new.status \in Statuses
    BY VersionIsNat DEF OrderOf
  <1>2. /\ DOMAIN events = {1}
        /\ events[1].version = new.version
        /\ events[1].type = new.status
        /\ events[1].order = o
    BY DEF StatusEvent
  <1> HIDE DEF events
  <1>3. Announcing(o, events) = {1}
    BY <1>1, <1>2 DEF Announcing
  <1>4. {events[i].version : i \in {1}} = old.version + 1 .. new.version
    BY <1>1, <1>2
  <1>5. EachVersionAnnounced(o, events, old, new)
    BY <1>1, <1>2, <1>3, <1>4 DEF EachVersionAnnounced
  <1>. QED
    BY <1>5 DEF events

\* A fill announces the status on the way, if there is one, and the one it
\* leaves; the fill event beside them announces no status.
LEMMA FillAnnounced ==
    ASSUME NEW o \in OrderId, NEW ord \in OrderOf(Key, Quantity),
           NEW q \in Quantity
    PROVE  EachVersionAnnounced(o, FillEvents(o, ord, q), ord, Filled(ord, q))
  <1> DEFINE e == Executable(ord)
             n == Filled(ord, q)
             events == FillEvents(o, ord, q)
  <1>1. /\ e \in OrderOf(Key, Quantity)
        /\ n \in OrderOf(Key, Quantity)
        /\ n.version = e.version + 1
        /\ e # ord => e.version = ord.version + 1
    BY ExecutableType, FilledType, FilledFields
  <1>2. /\ ord.version \in Nat /\ e.version \in Nat /\ n.version \in Nat
        /\ e.status \in Statuses /\ n.status \in Statuses
    BY <1>1 DEF OrderOf
  <1>3. "fill_applied" \notin Statuses
    BY DEF Statuses
  <1>4. CASE e = ord
    <2>1. events = <<StatusEvent(o, n), FillAppliedEvent(o, n, q)>>
      BY <1>4 DEF FillEvents
    <2>2. /\ DOMAIN events = {1, 2}
          /\ events[1].version = n.version /\ events[1].type = n.status
          /\ events[1].order = o
          /\ events[2].type = "fill_applied"
      BY <2>1 DEF StatusEvent, FillAppliedEvent
    <2> HIDE DEF events, n, e
    <2>3. Announcing(o, events) = {1}
      BY <1>2, <1>3, <2>2 DEF Announcing
    <2>4. {events[i].version : i \in {1}} = ord.version + 1 .. n.version
      BY <1>1, <1>2, <1>4, <2>2
    <2>5. EachVersionAnnounced(o, events, ord, n)
      BY <1>1, <1>2, <1>4, <2>2, <2>3, <2>4 DEF EachVersionAnnounced
    <2>. QED
      BY <2>5 DEF events, n
  <1>5. CASE e # ord
    <2>1. events = <<StatusEvent(o, e)>>
                      \o <<StatusEvent(o, n), FillAppliedEvent(o, n, q)>>
      BY <1>5 DEF FillEvents
    <2>2. \A x, y, z : /\ DOMAIN (<<x>> \o <<y, z>>) = {1, 2, 3}
                       /\ (<<x>> \o <<y, z>>)[1] = x
                       /\ (<<x>> \o <<y, z>>)[2] = y
                       /\ (<<x>> \o <<y, z>>)[3] = z
      OBVIOUS
    <2>3. /\ DOMAIN events = {1, 2, 3}
          /\ events[1] = StatusEvent(o, e)
          /\ events[2] = StatusEvent(o, n)
          /\ events[3] = FillAppliedEvent(o, n, q)
      BY <2>1, <2>2
    <2>4. /\ events[1].version = e.version /\ events[1].type = e.status
          /\ events[2].version = n.version /\ events[2].type = n.status
          /\ events[1].order = o /\ events[2].order = o
          /\ events[3].type = "fill_applied"
      BY <2>3 DEF StatusEvent, FillAppliedEvent
    <2> HIDE DEF events, n, e
    <2>5. Announcing(o, events) = {1, 2}
      BY <1>2, <1>3, <2>3, <2>4 DEF Announcing
    <2>6. {events[i].version : i \in {1, 2}} = ord.version + 1 .. n.version
      BY <1>1, <1>2, <1>5, <2>4
    <2>7. EachVersionAnnounced(o, events, ord, n)
      BY <1>1, <1>2, <1>5, <2>4, <2>5, <2>6 DEF EachVersionAnnounced
    <2>. QED
      BY <2>7 DEF events, n
  <1>. QED
    BY <1>4, <1>5

\* The events of a step are of the order it changes.
LEMMA EventsOfOne ==
    ASSUME NEW o \in OrderId, NEW p \in OrderId, p # o
    PROVE  /\ \A ord : \A i \in DOMAIN <<StatusEvent(o, ord)>> :
                <<StatusEvent(o, ord)>>[i].order # p
           /\ \A ord, q : \A i \in DOMAIN FillEvents(o, ord, q) :
                FillEvents(o, ord, q)[i].order # p
  <1>1. \A ord, q : /\ StatusEvent(o, ord).order = o
                    /\ FillAppliedEvent(o, ord, q).order = o
    BY DEF StatusEvent, FillAppliedEvent
  <1>2. \A x, y, z : /\ DOMAIN (<<x>> \o <<y, z>>) = {1, 2, 3}
                     /\ (<<x>> \o <<y, z>>)[1] = x
                     /\ (<<x>> \o <<y, z>>)[2] = y
                     /\ (<<x>> \o <<y, z>>)[3] = z
                     /\ <<>> \o <<y, z>> = <<y, z>>
    OBVIOUS
  <1>3. \A ord : \A i \in DOMAIN <<StatusEvent(o, ord)>> :
          <<StatusEvent(o, ord)>>[i].order # p
    BY <1>1
  <1>4. ASSUME NEW ord, NEW q, NEW i \in DOMAIN FillEvents(o, ord, q)
        PROVE  FillEvents(o, ord, q)[i].order # p
    <2> DEFINE x == StatusEvent(o, Executable(ord))
               y == StatusEvent(o, Filled(ord, q))
               z == FillAppliedEvent(o, Filled(ord, q), q)
    <2>1. x.order = o /\ y.order = o /\ z.order = o
      BY <1>1
    <2>2. \/ FillEvents(o, ord, q) = <<x>> \o <<y, z>>
          \/ FillEvents(o, ord, q) = <<>> \o <<y, z>>
      BY DEF FillEvents
    <2> HIDE DEF x, y, z
    <2>. QED
      BY <1>2, <1>4, <2>1, <2>2
  <1>. QED
    BY <1>3, <1>4

\* Every version of an order is announced by one status event, in order and
\* without gaps, and an order changes only with its version: whoever follows
\* the events of an order sees each of its states (order-manager.ts: publish
\* after every bump of the version).
THEOREM OneEventPerVersionAlways == Spec => OneEventPerVersion
  <1>1. ASSUME Inv, Next, ~Reloading, NEW p \in OrderId
        PROVE  EachVersionAnnounced(p, out', orders[p], orders'[p])
    <2>0. /\ orders \in [OrderId -> Order]
          /\ \A o \in OrderId : orders[o] \in Order
      BY <1>1 DEF Inv, TypeOK
    <2>1. CASE Persist
      <3>1. orders' = orders /\ out' = <<>>
        BY <2>1 DEF Persist
      <3>. QED
        BY <2>0, <3>1, NothingAnnounced
    <2>2. ASSUME NEW o \in OrderId, NEW c \in Key, NEW k \in Key,
                 NEW q \in Quantity, CreateOrder(o, c, k, q)
          PROVE  EachVersionAnnounced(p, out', orders[p], orders'[p])
      <3>1. /\ orders' = [orders EXCEPT ![o] = NewOrder(c, k, q)]
            /\ out' = <<StatusEvent(o, NewOrder(c, k, q))>>
            /\ o \notin issued
        BY <2>2 DEF CreateOrder
      <3>2. orders[o].version = 0 /\ NewOrder(c, k, q).version = 1
        BY <1>1, <2>0, <3>1, HeldPresent DEF Inv, IdsIssued, Order, NoOrder, NewOrder
      <3>3. NewOrder(c, k, q) \in OrderOf(Key, Quantity)
        BY NewOrderSound
      <3>4. CASE p = o
        BY <2>0, <3>1, <3>2, <3>3, <3>4, OneAnnounced
      <3>5. CASE p # o
        BY <2>0, <3>1, <3>5, EventsOfOne, NothingAnnounced
      <3>. QED
        BY <3>4, <3>5
    <2>3. ASSUME NEW o \in OrderId, NEW s \in CallerStatus, UpdateStatus(o, s)
          PROVE  EachVersionAnnounced(p, out', orders[p], orders'[p])
      <3>1. /\ orders' = [orders EXCEPT ![o] = Updated(orders[o], s)]
            /\ out' = <<StatusEvent(o, Updated(orders[o], s))>>
            /\ UpdateChanges(orders[o], s) /\ s \in Statuses
        BY <2>3 DEF UpdateStatus, UpdateEvents, CallerStatus, Statuses
      <3>2. orders[o] \in OrderOf(Key, Quantity)
        BY <2>0, <3>1, UpdateOfHeld
      <3>3. /\ Updated(orders[o], s) \in OrderOf(Key, Quantity)
            /\ Updated(orders[o], s).version = orders[o].version + 1
        BY <3>1, <3>2, UpdatedFields
      <3>4. CASE p = o
        BY <2>0, <3>1, <3>3, <3>4, OneAnnounced
      <3>5. CASE p # o
        BY <2>0, <3>1, <3>5, EventsOfOne, NothingAnnounced
      <3>. QED
        BY <3>4, <3>5
    <2>4. ASSUME NEW o \in OrderId, NEW f \in FillId, NEW q \in Quantity,
                 ApplyFill(o, f, q)
          PROVE  EachVersionAnnounced(p, out', orders[p], orders'[p])
      <3>1. /\ orders' = [orders EXCEPT ![o] = Filled(orders[o], q)]
            /\ out' = FillEvents(o, orders[o], q)
            /\ FillChanges(orders[o], q)
        BY <2>4 DEF ApplyFill
      <3>2. orders[o] \in OrderOf(Key, Quantity)
        BY <2>0, <3>1, FillOfHeld
      <3>3. CASE p = o
        BY <2>0, <3>1, <3>2, <3>3, FillAnnounced
      <3>4. CASE p # o
        BY <2>0, <3>1, <3>4, EventsOfOne, NothingAnnounced
      <3>. QED
        BY <3>3, <3>4
    <2>5. ASSUME NEW o \in OrderId, OrderStep(o)
          PROVE  EachVersionAnnounced(p, out', orders[p], orders'[p])
      BY <2>2, <2>3, <2>4, <2>5
         DEF OrderStep, PendingOrder, SubmitOrder, CancelOrder, RejectOrder,
             FailOrder, RetryOrder, CallerStatus
    <2>. QED
      BY <1>1, <2>1, <2>5 DEF Next, Reloading
  <1>2. Inv /\ [Next]_vars =>
          [Reloading \/ \A o \in OrderId :
             EachVersionAnnounced(o, out', orders[o], orders'[o])]_vars
    BY <1>1
  <1>. QED
    BY <1>2, InitInv, NextInv, PTL DEF Spec, OneEventPerVersion

-----------------------------------------------------------------------------
(* A manager whose writes succeed: the file equals memory, the indexes     *)
(* agree with the orders, closed orders are final.                         *)

Durable == WriteOutcomes = {TRUE}

\* The indexes are inductive only together with the file: a load rebuilds
\* them from it.
DurableInv ==
    /\ Inv
    /\ DurableOnReturn
    /\ IndexesAgree

LEMMA DurableInit == Init => DurableInv
  <1> SUFFICES ASSUME Init PROVE DurableInv
    OBVIOUS
  <1>1. DurableOnReturn
    BY DEF Init, DurableOnReturn
  <1>2. \A o \in OrderId : ~Present(orders[o])
    BY EmptyType DEF Init
  <1>3. IndexesAgree
    BY <1>2 DEF Init, IndexesAgree, NoIndex
  <1>. QED
    BY <1>1, <1>3, InitInv DEF DurableInv

LEMMA AbsentIsNoOrder ==
    ASSUME NEW ord \in Order, ~Present(ord)
    PROVE  ord = NoOrder
  BY HeldPresent DEF Order

LEMMA DurableStep ==
    ASSUME Durable, Inv, DurableOnReturn, [Next]_vars
    PROVE  DurableOnReturn'
  <1>1. ASSUME NEW m, PersistSync(m) PROVE disk' = m
    BY <1>1 DEF PersistSync, Durable
  <1>2. ASSUME NEW m1, NEW m2, PersistTwice(m1, m2) PROVE disk' = m2
    BY <1>2 DEF PersistTwice, Durable
  <1>3. ASSUME NEW o \in OrderId, OrderStep(o) PROVE DurableOnReturn'
    <2>1. ASSUME NEW c \in Key, NEW k \in Key, NEW q \in Quantity,
                 CreateOrder(o, c, k, q)
          PROVE  DurableOnReturn'
      BY <2>1, <1>1 DEF CreateOrder, DurableOnReturn
    <2>2. ASSUME NEW s \in CallerStatus, UpdateStatus(o, s)
          PROVE  DurableOnReturn'
      BY <2>2, <1>1 DEF UpdateStatus, DurableOnReturn
    <2>3. ASSUME NEW f \in FillId, NEW q \in Quantity, ApplyFill(o, f, q)
          PROVE  DurableOnReturn'
      BY <2>3, <1>2 DEF ApplyFill, DurableOnReturn
    <2>. QED
      BY <1>3, <2>1, <2>2, <2>3
         DEF OrderStep, PendingOrder, SubmitOrder, CancelOrder, RejectOrder,
             FailOrder, RetryOrder, CallerStatus
  <1>4. CASE Persist
    BY <1>1, <1>4 DEF Persist, DurableOnReturn
  <1>5. CASE Load
    <2>1. orders \in [OrderId -> Order] /\ orders' = [o \in OrderId |->
              IF InFile(o) THEN disk[o] ELSE orders[o]]
      BY <1>5 DEF Load, LoadSync, Inv, TypeOK
    <2>2. orders' = orders
      BY <2>1 DEF DurableOnReturn
    <2>. QED
      BY <1>5, <2>2 DEF Load, DurableOnReturn
  <1>6. CASE Restart
    <2>1. /\ disk \in [OrderId -> Order]
          /\ orders' = [o \in OrderId |-> IF InFile(o) THEN disk[o] ELSE Empty[o]]
      BY <1>6 DEF Restart, LoadSync, Inv, TypeOK
    <2>2. ASSUME NEW o \in OrderId PROVE orders'[o] = disk[o]
      BY <2>1, AbsentIsNoOrder DEF InFile, Empty
    <2>3. orders' = disk
      BY <2>1, <2>2
    <2>. QED
      BY <1>6, <2>3 DEF Restart, DurableOnReturn
  <1>7. CASE Clear
    BY <1>1, <1>7 DEF Clear, DurableOnReturn
  <1>8. CASE UNCHANGED vars
    BY <1>8 DEF vars, DurableOnReturn
  <1>. QED
    BY <1>3, <1>4, <1>5, <1>6, <1>7, <1>8 DEF Next

\* One order is replaced by a newer version of itself: same keys.
LEMMA SameKeysIndexes ==
    ASSUME Inv, IndexesAgree, NEW o \in OrderId,
           NEW n \in OrderOf(Key, Quantity),
           Present(orders[o]),
           n.clientOrderId = orders[o].clientOrderId,
           n.idempotencyKey = orders[o].idempotencyKey,
           orders' = [orders EXCEPT ![o] = n],
           UNCHANGED <<ordersByClient, ordersByIdempotency>>
    PROVE  IndexesAgree'
  BY HeldPresent DEF Inv, TypeOK, IndexesAgree

LEMMA IndexesStep ==
    ASSUME Durable, DurableInv, [Next]_vars
    PROVE  IndexesAgree'
  <1>1. ASSUME NEW o \in OrderId, OrderStep(o) PROVE IndexesAgree'
    <2>1. ASSUME NEW c \in Key, NEW k \in Key, NEW q \in Quantity,
                 CreateOrder(o, c, k, q)
          PROVE  IndexesAgree'
      <3> DEFINE n == NewOrder(c, k, q)
      <3>1. n.clientOrderId = c /\ n.idempotencyKey = k /\ Present(n)
        BY DEF NewOrder, Present
      <3>2. ~Present(orders[o])
        BY <2>1 DEF CreateOrder, DurableInv, Inv, IdsIssued
      <3>3. /\ orders' = [orders EXCEPT ![o] = n]
            /\ ordersByClient' = [ordersByClient EXCEPT ![c] = o]
            /\ ordersByIdempotency' = [ordersByIdempotency EXCEPT ![k] = o]
            /\ ordersByClient[c] = NoId /\ ordersByIdempotency[k] = NoId
        BY <2>1 DEF CreateOrder
      <3>4. /\ orders \in [OrderId -> Order]
            /\ ordersByClient \in [Key -> OrderId \cup {NoId}]
            /\ ordersByIdempotency \in [Key -> OrderId \cup {NoId}]
        BY DEF DurableInv, Inv, TypeOK
      <3> HIDE DEF n
      <3>. QED
        BY <3>1, <3>2, <3>3, <3>4 DEF DurableInv, IndexesAgree
    <2>2. ASSUME NEW s \in CallerStatus, UpdateStatus(o, s)
          PROVE  IndexesAgree'
      <3>1. orders[o] \in OrderOf(Key, Quantity) /\ s \in Statuses
        BY <2>2, UpdateOfHeld
           DEF UpdateStatus, DurableInv, Inv, TypeOK, CallerStatus, Statuses
      <3>2. /\ Updated(orders[o], s) \in OrderOf(Key, Quantity)
            /\ Updated(orders[o], s).clientOrderId = orders[o].clientOrderId
            /\ Updated(orders[o], s).idempotencyKey = orders[o].idempotencyKey
        BY <3>1, UpdatedFields
      <3>. QED
        BY <2>2, <3>1, <3>2, HeldPresent, SameKeysIndexes
           DEF UpdateStatus, DurableInv, indexes
    <2>3. ASSUME NEW f \in FillId, NEW q \in Quantity, ApplyFill(o, f, q)
          PROVE  IndexesAgree'
      <3>1. orders[o] \in OrderOf(Key, Quantity)
        BY <2>3, FillOfHeld DEF ApplyFill, DurableInv, Inv, TypeOK
      <3>2. /\ Filled(orders[o], q) \in OrderOf(Key, Quantity)
            /\ Filled(orders[o], q).clientOrderId = orders[o].clientOrderId
            /\ Filled(orders[o], q).idempotencyKey = orders[o].idempotencyKey
        BY <3>1, FilledFields, FilledType
      <3>. QED
        BY <2>3, <3>1, <3>2, HeldPresent, SameKeysIndexes
           DEF ApplyFill, DurableInv, indexes
    <2>. QED
      BY <1>1, <2>1, <2>2, <2>3
         DEF OrderStep, PendingOrder, SubmitOrder, CancelOrder, RejectOrder,
             FailOrder, RetryOrder, CallerStatus
  <1>2. CASE Persist
    BY <1>2 DEF Persist, indexes, DurableInv, IndexesAgree
  <1>3. ASSUME NEW byClient, NEW byKey, NEW mem,
               LoadSync(mem, byClient, byKey), orders' = orders,
               \A k \in Key : /\ byClient[k] \in {NoId, ordersByClient[k]}
                             /\ byKey[k] \in {NoId, ordersByIdempotency[k]}
        PROVE  IndexesAgree'
    <2>1. ASSUME NEW o \in OrderId PROVE InFile(o) <=> Present(orders[o])
      BY DEF InFile, DurableInv, DurableOnReturn
    <2> DEFINE ofClient(c) == {o \in OrderId : InFile(o) /\ disk[o].clientOrderId = c}
               ofKey(k) == {o \in OrderId : InFile(o) /\ disk[o].idempotencyKey = k}
    <2>2. ASSUME NEW k \in Key
          PROVE  /\ IF ofClient(k) = {} THEN ordersByClient'[k] = byClient[k]
                                        ELSE ordersByClient'[k] \in ofClient(k)
                 /\ IF ofKey(k) = {} THEN ordersByIdempotency'[k] = byKey[k]
                                     ELSE ordersByIdempotency'[k] \in ofKey(k)
      BY <1>3 DEF LoadSync, Reindexed
    <2>3. ASSUME NEW k \in Key, NEW o \in OrderId
          PROVE  /\ o \in ofClient(k) <=> ordersByClient[k] = o
                 /\ o \in ofKey(k) <=> ordersByIdempotency[k] = o
      BY DEF DurableInv, DurableOnReturn, IndexesAgree, InFile
    <2> HIDE DEF ofClient, ofKey
    <2>4. ASSUME NEW k \in Key
          PROVE  ofClient(k) \subseteq OrderId /\ ofKey(k) \subseteq OrderId
      BY DEF ofClient, ofKey
    <2>5. ASSUME NEW k \in Key, NEW o \in OrderId
          PROVE  /\ ordersByClient'[k] = o <=> ordersByClient[k] = o
                 /\ ordersByIdempotency'[k] = o <=> ordersByIdempotency[k] = o
      BY <1>3, <2>2, <2>3, <2>4
    <2>. QED
      BY <1>3, <2>5 DEF DurableInv, IndexesAgree
  <1>4. CASE Load
    <2>1. orders' = orders
      BY <1>4, DurableStep DEF Load, DurableInv, DurableOnReturn
    <2>. QED
      BY <1>3, <1>4, <2>1 DEF Load
  <1>5. CASE Restart
    <2>1. orders' = orders
      BY <1>5, DurableStep DEF Restart, DurableInv, DurableOnReturn
    <2>. QED
      BY <1>3, <1>5, <2>1 DEF Restart, NoIndex
  <1>6. CASE Clear
    <2>1. \A o \in OrderId : ~Present(orders'[o])
      BY <1>6, EmptyType DEF Clear
    <2>. QED
      BY <1>6, <2>1 DEF Clear, IndexesAgree, NoIndex
  <1>7. CASE UNCHANGED vars
    BY <1>7 DEF vars, DurableInv, IndexesAgree
  <1>. QED
    BY <1>1, <1>2, <1>4, <1>5, <1>6, <1>7 DEF Next

LEMMA DurableNext == Durable /\ DurableInv /\ [Next]_vars => DurableInv'
  BY NextInv, DurableStep, IndexesStep DEF DurableInv

\* When writes succeed the file equals memory after every call.
THEOREM DurableOnReturnAlways == Durable /\ Spec => []DurableOnReturn
  <1> SUFFICES ASSUME Durable PROVE Spec => []DurableOnReturn
    OBVIOUS
  <1>1. DurableInv /\ [Next]_vars => DurableInv'
    BY DurableNext
  <1>2. DurableInv => DurableOnReturn
    BY DEF DurableInv
  <1>. QED
    BY <1>1, <1>2, DurableInit, PTL DEF Spec

\* When writes succeed both indexes name exactly the orders held, so a client
\* order id or an idempotency key never leads to a second order.
THEOREM IndexesAgreeAlways == Durable /\ Spec => []IndexesAgree
  <1> SUFFICES ASSUME Durable PROVE Spec => []IndexesAgree
    OBVIOUS
  <1>1. DurableInv /\ [Next]_vars => DurableInv'
    BY DurableNext
  <1>2. DurableInv => IndexesAgree
    BY DEF DurableInv
  <1>. QED
    BY <1>1, <1>2, DurableInit, PTL DEF Spec

\* What a step does to the orders, told order by order.
LEMMA StepOnOrders ==
    ASSUME Durable, DurableInv, Next
    PROVE  \/ orders' = orders
           \/ Clear
           \/ \E o \in OrderId, c, k \in Key, q \in Quantity :
                CreateOrder(o, c, k, q)
           \/ \E o \in OrderId, s \in CallerStatus : UpdateStatus(o, s)
           \/ \E o \in OrderId, f \in FillId, q \in Quantity :
                ApplyFill(o, f, q)
  <1>1. DurableOnReturn'
    BY DurableStep DEF DurableInv
  <1>2. ASSUME Load \/ Restart PROVE orders' = orders
    BY <1>1, <1>2 DEF Load, Restart, DurableInv, DurableOnReturn
  <1>3. ASSUME Persist PROVE orders' = orders
    BY <1>3 DEF Persist
  <1>4. ASSUME NEW o \in OrderId, OrderStep(o)
        PROVE  \/ \E c, k \in Key, q \in Quantity : CreateOrder(o, c, k, q)
               \/ \E s \in CallerStatus : UpdateStatus(o, s)
               \/ \E f \in FillId, q \in Quantity : ApplyFill(o, f, q)
    BY <1>4 DEF OrderStep, PendingOrder, SubmitOrder, CancelOrder, RejectOrder,
                FailOrder, RetryOrder, CallerStatus
  <1>. QED
    BY <1>2, <1>3, <1>4 DEF Next

\* A closed order never changes again and never disappears, over restarts,
\* unless the book is cleared (when writes succeed).
THEOREM ClosedIsFinalAlways == Durable /\ Spec => ClosedIsFinal
  <1> SUFFICES ASSUME Durable PROVE Spec => ClosedIsFinal
    OBVIOUS
  <1>1. ASSUME DurableInv, Next, NEW o \in OrderId,
               IsTerminal(orders[o].status), ~Clear
        PROVE  orders'[o] = orders[o]
    <2>1. orders \in [OrderId -> Order]
      BY <1>1 DEF DurableInv, Inv, TypeOK
    <2>2. ASSUME NEW p \in OrderId, NEW c \in Key, NEW k \in Key,
                 NEW q \in Quantity, CreateOrder(p, c, k, q)
          PROVE  orders'[o] = orders[o]
      <3>1. ~Present(orders[p])
        BY <1>1, <2>2 DEF CreateOrder, DurableInv, Inv, IdsIssued
      <3>2. o # p
        BY <1>1, <3>1 DEF Present, IsTerminal
      <3>. QED
        BY <2>1, <2>2, <3>2 DEF CreateOrder
    <2>3. ASSUME NEW p \in OrderId, NEW s \in CallerStatus, UpdateStatus(p, s)
          PROVE  orders'[o] = orders[o]
      <3>1. o # p
        BY <1>1, <2>3 DEF UpdateStatus, UpdateChanges, CanTransition,
                          ValidTransitions, IsTerminal
      <3>. QED
        BY <2>1, <2>3, <3>1 DEF UpdateStatus
    <2>4. ASSUME NEW p \in OrderId, NEW f \in FillId, NEW q \in Quantity,
                 ApplyFill(p, f, q)
          PROVE  orders'[o] = orders[o]
      <3>1. o # p
        BY <1>1, <2>4 DEF ApplyFill, FillChanges, IsTerminal
      <3>. QED
        BY <2>1, <2>4, <3>1 DEF ApplyFill
    <2>. QED
      BY <1>1, <2>2, <2>3, <2>4, StepOnOrders
  <1>2. DurableInv /\ [Next]_vars =>
            [Clear \/ \A o \in OrderId :
                IsTerminal(orders[o].status) => orders'[o] = orders[o]]_vars
    BY <1>1
  <1>3. DurableInv /\ [Next]_vars => DurableInv'
    BY DurableNext
  <1>. QED
    BY <1>2, <1>3, DurableInit, PTL DEF Spec, ClosedIsFinal

-----------------------------------------------------------------------------
(* The lots of the fills.  What a sum over a sequence is comes from the    *)
(* least counterexample: a set of naturals that is not empty has a least   *)
(* element.                                                                *)

LEMMA LeastElement ==
    ASSUME NEW T \in SUBSET Nat, T # {}
    PROVE  \E x \in T : \A y \in T : x <= y
  <1>1. PICK x \in T : \A y \in T : ~(<<y, x>> \in OpToRel(<, Nat))
    BY WFMin, NatLessThanWellFounded
  <1>2. \A y \in T : ~(y < x)
    BY <1>1 DEF OpToRel
  <1>. QED
    BY <1>2

\* The running sum of the first n fills.
IsSum(f, fills, n) ==
    f = [i \in 0 .. n |-> IF i = 0 THEN 0 ELSE f[i - 1] + fills[i][2]]

LEMMA SumExists ==
    ASSUME NEW fills
    PROVE  \A n \in Nat : \E f : IsSum(f, fills, n)
  <1> DEFINE T == {n \in Nat : ~ \E f : IsSum(f, fills, n)}
  <1> SUFFICES ASSUME T # {} PROVE FALSE
    OBVIOUS
  <1>1. PICK n \in T : \A m \in T : n <= m
    BY LeastElement
  <1>2. CASE n = 0
    <2>1. IsSum([i \in 0 .. 0 |-> 0], fills, 0)
      BY DEF IsSum
    <2>. QED
      BY <1>1, <1>2, <2>1
  <1>3. CASE n # 0
    <2>1. n - 1 \in Nat /\ n - 1 \notin T
      BY <1>1, <1>3
    <2>2. PICK g : IsSum(g, fills, n - 1)
      BY <2>1
    <2> DEFINE f == [i \in 0 .. n |-> IF i = n THEN g[n - 1] + fills[n][2]
                                               ELSE g[i]]
    <2>3. \A i \in 0 .. n - 1 :
            g[i] = IF i = 0 THEN 0 ELSE g[i - 1] + fills[i][2]
      BY <2>2 DEF IsSum
    <2>4. \A i \in 0 .. n :
            f[i] = IF i = 0 THEN 0 ELSE f[i - 1] + fills[i][2]
      BY <1>1, <1>3, <2>1, <2>3
    <2>5. IsSum(f, fills, n)
      BY <2>4 DEF IsSum
    <2>. QED
      BY <1>1, <2>5
  <1>. QED
    BY <1>2, <1>3

\* Two running sums of the same fills agree as far as both go.
LEMMA SumUnique ==
    ASSUME NEW s, NEW t, NEW n \in Nat, NEW m \in Nat, n <= m,
           NEW f, IsSum(f, s, n), NEW g, IsSum(g, t, m),
           \A i \in 1 .. n : s[i] = t[i]
    PROVE  \A i \in 0 .. n : f[i] = g[i]
  <1> DEFINE T == {i \in 0 .. n : f[i] # g[i]}
  <1> SUFFICES ASSUME T # {} PROVE FALSE
    OBVIOUS
  <1>1. PICK k \in T : \A j \in T : k <= j
    <2>1. T \in SUBSET Nat
      OBVIOUS
    <2>. QED
      BY <2>1, LeastElement
  <1>2. /\ f[k] = IF k = 0 THEN 0 ELSE f[k - 1] + s[k][2]
        /\ g[k] = IF k = 0 THEN 0 ELSE g[k - 1] + t[k][2]
    BY <1>1 DEF IsSum
  <1>3. k # 0 /\ k - 1 \in 0 .. n /\ k - 1 \notin T
    BY <1>1, <1>2
  <1>. QED
    BY <1>1, <1>2, <1>3

LEMMA LotsIsSum ==
    ASSUME NEW fills, Len(fills) \in Nat
    PROVE  \E f : IsSum(f, fills, Len(fills)) /\ Lots(fills) = f[Len(fills)]
  <1> DEFINE sum == CHOOSE f : f = [i \in 0 .. Len(fills) |->
                       IF i = 0 THEN 0 ELSE f[i - 1] + fills[i][2]]
  <1>1. \E f : f = [i \in 0 .. Len(fills) |->
                      IF i = 0 THEN 0 ELSE f[i - 1] + fills[i][2]]
    BY SumExists DEF IsSum
  <1>2. sum = [i \in 0 .. Len(fills) |->
                 IF i = 0 THEN 0 ELSE sum[i - 1] + fills[i][2]]
    BY <1>1
  <1>3. Lots(fills) = sum[Len(fills)]
    BY DEF Lots
  <1> HIDE DEF sum
  <1>. QED
    BY <1>2, <1>3 DEF IsSum

LEMMA LotsOfNone == Lots(<<>>) = 0
  <1>1. PICK f : IsSum(f, <<>>, Len(<<>>)) /\ Lots(<<>>) = f[Len(<<>>)]
    BY LotsIsSum
  <1>. QED
    BY <1>1 DEF IsSum

LEMMA LotsOfOneMore ==
    ASSUME NEW S, NEW fills \in Seq(S), NEW x
    PROVE  Lots(Append(fills, x)) = Lots(fills) + x[2]
  <1> DEFINE n == Len(fills)
             more == Append(fills, x)
  <1>1. /\ n \in Nat /\ Len(more) = n + 1
        /\ more[n + 1] = x
        /\ \A i \in 1 .. n : fills[i] = more[i]
    OBVIOUS
  <1>2. PICK f : IsSum(f, fills, n) /\ Lots(fills) = f[n]
    BY <1>1, LotsIsSum
  <1> HIDE DEF n, more
  <1>3. PICK g : IsSum(g, more, n + 1) /\ Lots(more) = g[n + 1]
    <2>1. Len(more) \in Nat
      BY <1>1
    <2>2. \E g : IsSum(g, more, Len(more)) /\ Lots(more) = g[Len(more)]
      BY <2>1, LotsIsSum
    <2>. QED
      BY <1>1, <2>2
  <1>4. f[n] = g[n]
    BY <1>1, <1>2, <1>3, SumUnique
  <1>5. g[n + 1] = g[n] + more[n + 1][2]
    BY <1>1, <1>3 DEF IsSum
  <1>. QED
    BY <1>1, <1>2, <1>3, <1>4, <1>5 DEF more

\* The filled quantity of every order is the sum of the fills it took, over
\* failures, retries, reloads and restarts (when writes succeed): applyFill
\* neither loses a fill nor counts one with a wrong size.
THEOREM FillsAddUpAlways == Durable /\ Spec => []FillsAddUp
  <1> SUFFICES ASSUME Durable PROVE Spec => []FillsAddUp
    OBVIOUS
  <1>1. Init => FillsAddUp
    BY LotsOfNone DEF Init, FillsAddUp, Empty, NothingBooked, NoOrder
  <1>2. ASSUME DurableInv, FillsAddUp, [Next]_vars PROVE FillsAddUp'
    <2>0. /\ orders \in [OrderId -> Order]
          /\ booked \in [OrderId -> Seq(FillId \X Quantity)]
      BY <1>2 DEF DurableInv, Inv, TypeOK
    <2>1. ASSUME UNCHANGED <<orders, booked>> PROVE FillsAddUp'
      BY <1>2, <2>1 DEF FillsAddUp
    <2>2. CASE Clear
      BY <2>2, LotsOfNone DEF Clear, FillsAddUp, Empty, NothingBooked, NoOrder
    <2>3. ASSUME NEW o \in OrderId, NEW c \in Key, NEW k \in Key,
                 NEW q \in Quantity, CreateOrder(o, c, k, q)
          PROVE  FillsAddUp'
      <3>1. ~Present(orders[o])
        BY <1>2, <2>3 DEF CreateOrder, DurableInv, Inv, IdsIssued
      <3>2. orders[o].filledQuantity = 0 /\ NewOrder(c, k, q).filledQuantity = 0
        BY <2>0, <3>1, AbsentIsNoOrder DEF NoOrder, NewOrder
      <3>. QED
        BY <1>2, <2>0, <2>3, <3>2 DEF CreateOrder, FillsAddUp
    <2>4. ASSUME NEW o \in OrderId, NEW s \in CallerStatus, UpdateStatus(o, s)
          PROVE  FillsAddUp'
      <3>1. orders[o] \in OrderOf(Key, Quantity) /\ s \in Statuses
        BY <2>0, <2>4, UpdateOfHeld DEF UpdateStatus, CallerStatus, Statuses
      <3>2. /\ Updated(orders[o], s) \in OrderOf(Key, Quantity)
            /\ Updated(orders[o], s).filledQuantity = orders[o].filledQuantity
        BY <3>1, UpdatedFields
      <3>. QED
        BY <1>2, <2>0, <2>4, <3>2 DEF UpdateStatus, FillsAddUp
    <2>5. ASSUME NEW o \in OrderId, NEW f \in FillId, NEW q \in Quantity,
                 ApplyFill(o, f, q)
          PROVE  FillsAddUp'
      <3>1. orders[o] \in OrderOf(Key, Quantity)
        BY <2>0, <2>5, FillOfHeld DEF ApplyFill
      <3>2. Filled(orders[o], q).filledQuantity = orders[o].filledQuantity + q
        BY <3>1, FilledFields
      <3>3. Lots(Append(booked[o], <<f, q>>)) = Lots(booked[o]) + q
        BY <2>0, LotsOfOneMore
      <3>4. /\ orders' = [orders EXCEPT ![o] = Filled(orders[o], q)]
            /\ booked' = [booked EXCEPT ![o] = Append(booked[o], <<f, q>>)]
        BY <2>5 DEF ApplyFill
      <3>. QED
        BY <1>2, <2>0, <3>2, <3>3, <3>4 DEF FillsAddUp
    <2>6. CASE UNCHANGED vars
      BY <2>1, <2>6 DEF vars
    <2>7. ASSUME Persist \/ Load \/ Restart PROVE FillsAddUp'
      <3>1. DurableOnReturn'
        BY <1>2, <2>7, DurableStep DEF DurableInv, Next
      <3>. QED
        BY <1>2, <2>1, <2>7, <3>1
           DEF Persist, Load, Restart, DurableInv, DurableOnReturn
    <2>8. ASSUME NEW o \in OrderId, OrderStep(o) PROVE FillsAddUp'
      BY <2>3, <2>4, <2>5, <2>8
         DEF OrderStep, PendingOrder, SubmitOrder, CancelOrder, RejectOrder,
             FailOrder, RetryOrder, CallerStatus
    <2>. QED
      BY <1>2, <2>2, <2>6, <2>7, <2>8 DEF Next
  <1>3. DurableInv /\ [Next]_vars => DurableInv'
    BY DurableNext
  <1>. QED
    BY <1>1, <1>2, <1>3, DurableInit, PTL DEF Spec

-----------------------------------------------------------------------------
(* The manager implements the ledger.                                      *)

LEMMA LedgerInitial == Init => Ledger!LedgerInit
  <1> SUFFICES ASSUME Init PROVE Ledger!LedgerInit
    OBVIOUS
  <1>1. \A o \in OrderId : orders[o] = NoOrder
    BY DEF Init, Empty
  <1>2. Held = {}
    BY <1>1 DEF Held, Present, NoOrder
  <1>3. [o \in OrderId |-> TermsOf(o)] = [o \in OrderId |-> {}]
    BY <1>1 DEF TermsOf, Present, NoOrder
  <1>4. [o \in OrderId |-> orders[o].filledQuantity] = [o \in OrderId |-> 0]
    BY <1>1 DEF NoOrder
  <1>5. {o \in OrderId : IsTerminal(orders[o].status)} = {}
    BY <1>1 DEF IsTerminal, NoOrder
  <1>. QED
    BY <1>2, <1>3, <1>4, <1>5 DEF Ledger!LedgerInit

\* A step that leaves the orders alone leaves the ledger alone.
LEMMA LedgerStutter ==
    ASSUME orders' = orders
    PROVE  UNCHANGED Ledger!ledgerVars
  BY DEF Ledger!ledgerVars, Held, TermsOf, Present, IsTerminal

LEMMA LedgerPlace ==
    ASSUME DurableInv, NEW o \in OrderId, NEW c \in Key, NEW k \in Key,
           NEW q \in Quantity, CreateOrder(o, c, k, q)
    PROVE  Ledger!LedgerNext
  <1> DEFINE n == NewOrder(c, k, q)
             t == [client |-> c, key |-> k, quantity |-> q]
  <1>1. /\ orders \in [OrderId -> Order]
        /\ orders' = [orders EXCEPT ![o] = n]
        /\ ordersByClient[c] = NoId /\ ordersByIdempotency[k] = NoId
    BY DEF DurableInv, Inv, TypeOK, CreateOrder
  <1>2. orders[o] = NoOrder /\ ~Present(orders[o])
    BY <1>1, AbsentIsNoOrder DEF CreateOrder, DurableInv, Inv, IdsIssued
  <1>3. /\ Present(n) /\ ~IsTerminal(n.status) /\ n.filledQuantity = 0
        /\ n.clientOrderId = c /\ n.idempotencyKey = k /\ n.quantity = q
    BY DEF NewOrder, Present, IsTerminal
  <1> HIDE DEF n
  <1>4. \A p \in Held : \A u \in TermsOf(p) : u.client # t.client /\ u.key # t.key
    BY <1>1 DEF Held, TermsOf, DurableInv, IndexesAgree
  <1>5. Held' = Held \cup {o} /\ o \notin Held
    BY <1>1, <1>2, <1>3 DEF Held
  <1>6. [p \in OrderId |-> TermsOf(p)]' =
            [[p \in OrderId |-> TermsOf(p)] EXCEPT ![o] = {t}]
    BY <1>1, <1>3 DEF TermsOf
  <1>7. [p \in OrderId |-> orders[p].filledQuantity]' =
            [p \in OrderId |-> orders[p].filledQuantity]
    BY <1>1, <1>2, <1>3 DEF NoOrder
  <1>8. {p \in OrderId : IsTerminal(orders[p].status)}' =
            {p \in OrderId : IsTerminal(orders[p].status)}
    BY <1>1, <1>2, <1>3 DEF NoOrder, IsTerminal
  <1>9. t \in Ledger!Terms
    BY DEF Ledger!Terms
  <1>10. Ledger!Place(o, t)
    BY <1>4, <1>5, <1>6, <1>7, <1>8 DEF Ledger!Place, Held
  <1>. QED
    BY <1>9, <1>10 DEF Ledger!LedgerNext

LEMMA LedgerClose ==
    ASSUME DurableInv, NEW o \in OrderId, NEW s \in CallerStatus,
           UpdateStatus(o, s)
    PROVE  Ledger!LedgerNext \/ UNCHANGED Ledger!ledgerVars
  <1> DEFINE n == Updated(orders[o], s)
  <1>1. /\ orders \in [OrderId -> Order]
        /\ orders' = [orders EXCEPT ![o] = n]
        /\ UpdateChanges(orders[o], s)
    BY DEF DurableInv, Inv, TypeOK, UpdateStatus
  <1>2. orders[o] \in OrderOf(Key, Quantity) /\ s \in Statuses
    BY <1>1, UpdateOfHeld DEF CallerStatus, Statuses
  <1>3. Present(orders[o]) /\ ~IsTerminal(orders[o].status)
    BY <1>1, <1>2, HeldPresent
       DEF UpdateChanges, CanTransition, ValidTransitions, IsTerminal
  <1>4. /\ n \in OrderOf(Key, Quantity) /\ n.status = s
        /\ n.filledQuantity = orders[o].filledQuantity
        /\ n.quantity = orders[o].quantity
        /\ n.clientOrderId = orders[o].clientOrderId
        /\ n.idempotencyKey = orders[o].idempotencyKey
    BY <1>2, UpdatedFields
  <1>5. Present(n)
    BY <1>4, HeldPresent
  <1> HIDE DEF n
  <1>6. Held' = Held
    BY <1>1, <1>3, <1>5 DEF Held
  <1>7. [p \in OrderId |-> TermsOf(p)]' = [p \in OrderId |-> TermsOf(p)]
    BY <1>1, <1>3, <1>4, <1>5 DEF TermsOf
  <1>8. [p \in OrderId |-> orders[p].filledQuantity]' =
            [p \in OrderId |-> orders[p].filledQuantity]
    BY <1>1, <1>4
  <1>9. CASE IsTerminal(s)
    <2>1. {p \in OrderId : IsTerminal(orders[p].status)}' =
              {p \in OrderId : IsTerminal(orders[p].status)} \cup {o}
      BY <1>1, <1>4, <1>9
    <2>2. Ledger!Close(o)
      BY <1>3, <1>6, <1>7, <1>8, <2>1 DEF Ledger!Close, Held
    <2>. QED
      BY <2>2 DEF Ledger!LedgerNext
  <1>10. CASE ~IsTerminal(s)
    <2>1. {p \in OrderId : IsTerminal(orders[p].status)}' =
              {p \in OrderId : IsTerminal(orders[p].status)}
      BY <1>1, <1>3, <1>4, <1>10
    <2>. QED
      BY <1>6, <1>7, <1>8, <2>1 DEF Ledger!ledgerVars
  <1>. QED
    BY <1>9, <1>10

LEMMA LedgerFill ==
    ASSUME DurableInv, NEW o \in OrderId, NEW f \in FillId,
           NEW q \in Quantity, ApplyFill(o, f, q)
    PROVE  Ledger!LedgerNext
  <1> DEFINE n == Filled(orders[o], q)
             t == [client |-> orders[o].clientOrderId,
                   key |-> orders[o].idempotencyKey,
                   quantity |-> orders[o].quantity]
  <1>1. /\ orders \in [OrderId -> Order]
        /\ orders' = [orders EXCEPT ![o] = n]
        /\ FillChanges(orders[o], q)
    BY DEF DurableInv, Inv, TypeOK, ApplyFill
  <1>2. orders[o] \in OrderOf(Key, Quantity)
    BY <1>1, FillOfHeld
  <1>3. Present(orders[o]) /\ ~IsTerminal(orders[o].status)
    BY <1>1, <1>2, HeldPresent DEF FillChanges, IsTerminal
  <1>4. /\ n \in OrderOf(Key, Quantity)
        /\ n.status = FillStatus(orders[o], q)
        /\ n.filledQuantity = orders[o].filledQuantity + q
        /\ n.quantity = orders[o].quantity
        /\ n.clientOrderId = orders[o].clientOrderId
        /\ n.idempotencyKey = orders[o].idempotencyKey
    BY <1>2, FilledFields, FilledType
  <1>5. Present(n)
    BY <1>4, HeldPresent
  <1> HIDE DEF n
  <1>6. /\ orders[o].filledQuantity + q <= orders[o].quantity
        /\ orders[o].filledQuantity + q \in Nat /\ orders[o].quantity \in Nat
    <2>1. orders[o].filledQuantity \in Nat /\ orders[o].quantity \in Quantity
      BY <1>2 DEF OrderOf
    <2>2. q \in Nat /\ orders[o].quantity \in Nat
      BY <2>1 DEF ConstantAssumption
    <2>. QED
      BY <1>1, <2>1, <2>2 DEF FillChanges
  <1>7. IsTerminal(n.status)
          <=> orders[o].filledQuantity + q = orders[o].quantity
    BY <1>4, <1>6 DEF FillStatus, IsTerminal
  <1>8. Held' = Held
    BY <1>1, <1>3, <1>5 DEF Held
  <1>9. [p \in OrderId |-> TermsOf(p)]' = [p \in OrderId |-> TermsOf(p)]
    BY <1>1, <1>3, <1>4, <1>5 DEF TermsOf
  <1>10. [p \in OrderId |-> orders[p].filledQuantity]' =
            [[p \in OrderId |-> orders[p].filledQuantity]
                EXCEPT ![o] = orders[o].filledQuantity + q]
    BY <1>1, <1>4
  <1>11. {p \in OrderId : IsTerminal(orders[p].status)}' =
            IF orders[o].filledQuantity + q = orders[o].quantity
            THEN {p \in OrderId : IsTerminal(orders[p].status)} \cup {o}
            ELSE {p \in OrderId : IsTerminal(orders[p].status)}
    BY <1>1, <1>3, <1>7
  <1>12. TermsOf(o) = {t}
    BY <1>3 DEF TermsOf
  <1> DEFINE taken == [p \in OrderId |-> orders[p].filledQuantity]
  <1>13. Ledger!Fill(o, q)
    <2>1. o \in Held \ {p \in OrderId : IsTerminal(orders[p].status)}
      BY <1>3 DEF Held
    <2>2. [p \in OrderId |-> TermsOf(p)][o] = {t} /\ taken[o] = orders[o].filledQuantity
      BY <1>12
    <2>3. taken[o] + q <= t.quantity
      BY <1>6, <2>2
    <2>4. {p \in OrderId : IsTerminal(orders[p].status)}' =
            IF taken[o] + q = t.quantity
            THEN {p \in OrderId : IsTerminal(orders[p].status)} \cup {o}
            ELSE {p \in OrderId : IsTerminal(orders[p].status)}
      BY <1>11, <2>2
    <2>5. taken' = [taken EXCEPT ![o] = taken[o] + q]
      BY <1>10, <2>2
    <2> HIDE DEF t, taken
    <2>. QED
      BY <1>8, <1>9, <2>1, <2>2, <2>3, <2>4, <2>5 DEF Ledger!Fill, taken
  <1>. QED
    BY <1>13 DEF Ledger!LedgerNext

LEMMA LedgerWipe == ASSUME Clear PROVE Ledger!LedgerNext
  <1>1. \A o \in OrderId : orders'[o] = NoOrder
    BY DEF Clear, Empty
  <1>2. Held' = {}
    BY <1>1 DEF Held, Present, NoOrder
  <1>3. [o \in OrderId |-> TermsOf(o)]' = [o \in OrderId |-> {}]
    BY <1>1 DEF TermsOf, Present, NoOrder
  <1>4. [o \in OrderId |-> orders[o].filledQuantity]' = [o \in OrderId |-> 0]
    BY <1>1 DEF NoOrder
  <1>5. {o \in OrderId : IsTerminal(orders[o].status)}' = {}
    BY <1>1 DEF IsTerminal, NoOrder
  <1>6. Ledger!Wipe
    BY <1>2, <1>3, <1>4, <1>5 DEF Ledger!Wipe
  <1>. QED
    BY <1>6 DEF Ledger!LedgerNext

\* With writes that succeed, every behaviour of the manager is a behaviour of
\* the ledger: orders are placed once per key, filled up to their quantity,
\* final once closed, and restarts, reloads and saves do not show.
THEOREM ManagerImplementsLedger == Durable /\ Spec => ImplementsLedger
  <1> SUFFICES ASSUME Durable PROVE Spec => ImplementsLedger
    OBVIOUS
  <1>1. DurableInv /\ [Next]_vars => DurableInv'
    BY DurableNext
  <1>2. DurableInv /\ [Next]_vars => [Ledger!LedgerNext]_(Ledger!ledgerVars)
    <2>1. ASSUME DurableInv, Next
          PROVE  Ledger!LedgerNext \/ UNCHANGED Ledger!ledgerVars
      BY <2>1, StepOnOrders, LedgerStutter, LedgerPlace, LedgerClose,
         LedgerFill, LedgerWipe
    <2>2. UNCHANGED vars => UNCHANGED Ledger!ledgerVars
      BY LedgerStutter DEF vars
    <2>. QED
      BY <2>1, <2>2
  <1>. QED
    BY <1>1, <1>2, DurableInit, LedgerInitial, PTL
       DEF Spec, ImplementsLedger, Ledger!LedgerSpec
=============================================================================
