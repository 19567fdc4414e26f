------------------------- MODULE CanonicalOrderProofs -------------------------
(***************************************************************************)
(* Lemmas about one canonical order, for any set K of keys and any set Q   *)
(* of quantities: what each method of the OrderManager leaves of it.       *)
(***************************************************************************)
EXTENDS CanonicalOrder, TLAPS

\* The parts an order is changed by, one field at a time.
LEMMA FieldTypes ==
    ASSUME NEW K, NEW Q \in SUBSET (Nat \ {0}),
           NEW ord \in OrderOf(K, Q), NEW s \in Statuses, NEW q \in Q
    PROVE  /\ WithStatus(ord, s) \in OrderOf(K, Q)
           /\ NextVersion(ord) \in OrderOf(K, Q)
           /\ AddFilled(ord, q) \in OrderOf(K, Q)
  <1>1. WithStatus(ord, s) \in OrderOf(K, Q)
    BY DEF OrderOf, WithStatus
  <1>2. NextVersion(ord) \in OrderOf(K, Q)
    BY DEF OrderOf, NextVersion
  <1>3. AddFilled(ord, q) \in OrderOf(K, Q)
    BY DEF OrderOf, AddFilled
  <1>. QED
    BY <1>1, <1>2, <1>3

\* The fields after a status change.
LEMMA UpdatedFields ==
    ASSUME NEW K, NEW Q \in SUBSET (Nat \ {0}),
           NEW ord \in OrderOf(K, Q), NEW s \in Statuses
    PROVE  /\ Updated(ord, s) \in OrderOf(K, Q)
           /\ Updated(ord, s).status = s
           /\ Updated(ord, s).version = ord.version + 1
           /\ Updated(ord, s).quantity = ord.quantity
           /\ Updated(ord, s).filledQuantity = ord.filledQuantity
           /\ Updated(ord, s).clientOrderId = ord.clientOrderId
           /\ Updated(ord, s).idempotencyKey = ord.idempotencyKey
  <1> DEFINE w == WithStatus(ord, s)
  <1>1. w \in OrderOf(K, Q)
    BY DEF OrderOf, WithStatus
  <1>2. /\ w.status = s /\ w.version = ord.version /\ w.quantity = ord.quantity
        /\ w.filledQuantity = ord.filledQuantity
        /\ w.clientOrderId = ord.clientOrderId
        /\ w.idempotencyKey = ord.idempotencyKey
    BY DEF OrderOf, WithStatus
  <1>3. Updated(ord, s) = NextVersion(w)
    BY DEF Updated
  <1> HIDE DEF w
  <1>. QED
    BY <1>1, <1>2, <1>3 DEF OrderOf, NextVersion

LEMMA ExecutableType ==
    ASSUME NEW K, NEW Q \in SUBSET (Nat \ {0}),
           NEW ord \in OrderOf(K, Q)
    PROVE  Executable(ord) \in OrderOf(K, Q)
  BY UpdatedFields DEF Executable, Statuses

LEMMA FilledType ==
    ASSUME NEW K, NEW Q \in SUBSET (Nat \ {0}),
           NEW ord \in OrderOf(K, Q), NEW q \in Q
    PROVE  Filled(ord, q) \in OrderOf(K, Q)
  <1>1. Executable(ord) \in OrderOf(K, Q)
    BY ExecutableType
  <1>2. FillStatus(ord, q) \in Statuses
    BY DEF FillStatus, Statuses
  <1>3. AddFilled(Executable(ord), q) \in OrderOf(K, Q)
    BY <1>1, FieldTypes DEF Statuses
  <1>. QED
    BY <1>2, <1>3, FieldTypes DEF Filled

\* The fields after a fill.
LEMMA FilledFields ==
    ASSUME NEW K, NEW Q \in SUBSET (Nat \ {0}),
           NEW ord \in OrderOf(K, Q), NEW q \in Q
    PROVE  /\ Filled(ord, q).status = FillStatus(ord, q)
           /\ Filled(ord, q).version > ord.version
           /\ Filled(ord, q).version = Executable(ord).version + 1
           /\ Executable(ord) # ord => Executable(ord).version = ord.version + 1
           /\ Filled(ord, q).version <= ord.version + 2
           /\ Filled(ord, q).quantity = ord.quantity
           /\ Filled(ord, q).filledQuantity = ord.filledQuantity + q
           /\ Filled(ord, q).clientOrderId = ord.clientOrderId
           /\ Filled(ord, q).idempotencyKey = ord.idempotencyKey
  <1> DEFINE e == Executable(ord)
             a == AddFilled(e, q)
             w == WithStatus(a, FillStatus(ord, q))
  <1>1. /\ e \in OrderOf(K, Q)
        /\ e.version >= ord.version
        /\ e.version <= ord.version + 1
        /\ e # ord => e.version = ord.version + 1
        /\ e.quantity = ord.quantity
        /\ e.filledQuantity = ord.filledQuantity
        /\ e.clientOrderId = ord.clientOrderId
        /\ e.idempotencyKey = ord.idempotencyKey
    <2>1. "SUBMITTED" \in Statuses
      BY DEF Statuses
    <2>2. ord.version \in Nat
      BY DEF OrderOf
    <2>. QED
      BY <2>1, <2>2, UpdatedFields, ExecutableType DEF Executable
  <1> HIDE DEF e
  <1>2. /\ a \in OrderOf(K, Q)
        /\ a.version = e.version /\ a.quantity = e.quantity
        /\ a.filledQuantity = e.filledQuantity + q
        /\ a.clientOrderId = e.clientOrderId
        /\ a.idempotencyKey = e.idempotencyKey
    BY <1>1 DEF OrderOf, AddFilled
  <1> HIDE DEF a
  <1>3. FillStatus(ord, q) \in Statuses
    BY DEF FillStatus, Statuses
  <1>4. /\ w \in OrderOf(K, Q)
        /\ w.status = FillStatus(ord, q)
        /\ w.version = a.version /\ w.quantity = a.quantity
        /\ w.filledQuantity = a.filledQuantity
        /\ w.clientOrderId = a.clientOrderId
        /\ w.idempotencyKey = a.idempotencyKey
    BY <1>2, <1>3 DEF OrderOf, WithStatus
  <1>5. Filled(ord, q) = NextVersion(w)
    BY DEF Filled, w, a, e
  <1> HIDE DEF w
  <1>6. /\ Filled(ord, q).status = w.status
        /\ Filled(ord, q).version = w.version + 1
        /\ Filled(ord, q).quantity = w.quantity
        /\ Filled(ord, q).filledQuantity = w.filledQuantity
        /\ Filled(ord, q).clientOrderId = w.clientOrderId
        /\ Filled(ord, q).idempotencyKey = w.idempotencyKey
    BY <1>4, <1>5 DEF OrderOf, NextVersion
  <1>7. ord.version \in Nat /\ e.version \in Nat
    BY <1>1 DEF OrderOf
  <1>8. /\ Filled(ord, q).version > ord.version
        /\ Filled(ord, q).version = e.version + 1
        /\ Filled(ord, q).version <= ord.version + 2
    BY <1>1, <1>2, <1>4, <1>6, <1>7
  <1>. QED
    BY <1>1, <1>2, <1>4, <1>6, <1>7, <1>8 DEF e

\* Only an order that is held can change its status.
LEMMA ChangedIsHeld ==
    ASSUME NEW K, NEW Q \in SUBSET (Nat \ {0}),
           NEW ord \in OrderOf(K, Q) \cup {NoOrder}, NEW s, UpdateChanges(ord, s)
    PROVE  ord \in OrderOf(K, Q)
  BY DEF NoOrder, UpdateChanges, CanTransition, ValidTransitions

LEMMA FilledIsHeld ==
    ASSUME NEW K, NEW Q \in SUBSET (Nat \ {0}),
           NEW ord \in OrderOf(K, Q) \cup {NoOrder}, NEW q, FillChanges(ord, q)
    PROVE  ord \in OrderOf(K, Q)
  BY DEF NoOrder, FillChanges
===============================================================================
