------------------------ MODULE ExecutionPipelineProofs ------------------------
(***************************************************************************)
(* Proofs about the ExecutionPipeline, for any calls, signals and          *)
(* correlation ids, any limits, and whichever checks may refuse a call.    *)
(***************************************************************************)
EXTENDS ExecutionPipeline, CanonicalOrderProofs, FiniteSetTheorems

USE PipelineAssumption

SignalOrder == OrderOf(SignalId, {1})

LEMMA KeyType == \A c \in Call : KeyOf(c) \in Key
  BY DEF KeyOf, Key

-----------------------------------------------------------------------------
(* What a step makes of one order.                                         *)

\* An open order was not filled, not even in part: one fill closes it.
Whole(ord) ==
    IsOpen(ord.status) => ord.status # "FAILED" /\ ord.filledQuantity = 0

LEMMA NewOrderFields ==
    ASSUME NEW s \in SignalId
    PROVE  /\ NewOrder(s, s, 1) \in SignalOrder
           /\ NewOrder(s, s, 1).status = "CREATED"
           /\ NewOrder(s, s, 1).filledQuantity = 0
  BY DEF NewOrder, SignalOrder, OrderOf, Statuses

LEMMA SubmittedFields ==
    ASSUME NEW ord \in SignalOrder
    PROVE  /\ Pending(ord) \in SignalOrder
           /\ Pending(ord).status = "PENDING"
           /\ Pending(ord).filledQuantity = ord.filledQuantity
           /\ Submitted(ord) \in SignalOrder
           /\ Submitted(ord).status = "SUBMITTED"
           /\ Submitted(ord).filledQuantity = ord.filledQuantity
  <1>1. /\ {1} \in SUBSET (Nat \ {0})
        /\ "PENDING" \in Statuses /\ "SUBMITTED" \in Statuses
    BY DEF Statuses
  <1>2. /\ Pending(ord) \in SignalOrder
        /\ Pending(ord).status = "PENDING"
        /\ Pending(ord).filledQuantity = ord.filledQuantity
    BY <1>1, UpdatedFields DEF Pending, SignalOrder
  <1>3. /\ Submitted(ord) \in SignalOrder
        /\ Submitted(ord).status = "SUBMITTED"
        /\ Submitted(ord).filledQuantity = Pending(ord).filledQuantity
    BY <1>1, <1>2, UpdatedFields DEF Submitted, SignalOrder
  <1>. QED
    BY <1>2, <1>3

\* Submitting never fills an order, and leaves it whole.
LEMMA CanonicalFields ==
    ASSUME NEW s \in SignalId,
           orders[s] \in SignalOrder \cup {NoOrder}, Whole(orders[s])
    PROVE  /\ Canonical(s) \in SignalOrder \cup {NoOrder}
           /\ Whole(Canonical(s))
           /\ Canonical(s).status = "FILLED" => orders[s].status = "FILLED"
  <1> DEFINE created == IF Present(orders[s]) THEN orders[s]
                                              ELSE NewOrder(s, s, 1)
  <1>1. /\ created \in SignalOrder
        /\ created.status = "CREATED" => created.filledQuantity = 0
        /\ Whole(created)
        /\ created.status = "FILLED" => orders[s].status = "FILLED"
    BY NewOrderFields DEF Present, NoOrder, Whole, IsOpen
  <1>2. /\ Submitted(created) \in SignalOrder
        /\ Submitted(created).status = "SUBMITTED"
        /\ Submitted(created).filledQuantity = created.filledQuantity
    BY <1>1, SubmittedFields
  <1>3. Canonical(s) \in {orders[s], created, Submitted(created)}
    BY DEF Canonical
  <1>4. \/ Canonical(s) = Submitted(created) /\ created.status = "CREATED"
        \/ Canonical(s) \in {orders[s], created}
    BY DEF Canonical
  <1> HIDE DEF created
  <1>. QED
    BY <1>1, <1>2, <1>3, <1>4 DEF Whole, IsOpen

\* A status change to a closed status.
LEMMA ClosedFields ==
    ASSUME NEW ord \in SignalOrder \cup {NoOrder},
           NEW status \in {"CANCELLED", "REJECTED"}, ord # NoOrder
    PROVE  /\ Updated(ord, status) \in SignalOrder
           /\ Updated(ord, status).status = status
           /\ ~IsOpen(Updated(ord, status).status)
           /\ Whole(Updated(ord, status))
  <1>1. {1} \in SUBSET (Nat \ {0}) /\ status \in Statuses
    BY DEF Statuses
  <1>2. /\ Updated(ord, status) \in SignalOrder
        /\ Updated(ord, status).status = status
    BY <1>1, UpdatedFields DEF SignalOrder
  <1>. QED
    BY <1>2 DEF IsOpen, Whole

\* A fill of a whole order closes it.
LEMMA FilledWhole ==
    ASSUME NEW ord \in SignalOrder \cup {NoOrder}, Whole(ord),
           FillChanges(ord, 1)
    PROVE  /\ Filled(ord, 1) \in SignalOrder
           /\ Filled(ord, 1).status = "FILLED"
           /\ ~IsOpen(Filled(ord, 1).status)
           /\ Whole(Filled(ord, 1))
  <1>1. {1} \in SUBSET (Nat \ {0}) /\ 1 \in {1}
    OBVIOUS
  <1>2. ord \in SignalOrder
    BY <1>1, FilledIsHeld DEF SignalOrder
  <1>3. ord.filledQuantity = 0 /\ ord.quantity = 1
    BY <1>2 DEF Whole, FillChanges, IsOpen, SignalOrder, OrderOf
  <1>4. /\ Filled(ord, 1) \in SignalOrder
        /\ Filled(ord, 1).status = FillStatus(ord, 1)
    BY <1>1, <1>2, FilledType, FilledFields DEF SignalOrder
  <1>5. FillStatus(ord, 1) = "FILLED"
    BY <1>3 DEF FillStatus
  <1>. QED
    BY <1>4, <1>5 DEF IsOpen, Whole

\* The broker's answer closes an open order if it fills or rejects it, and
\* never opens one.
LEMMA AfterAnswerFields ==
    ASSUME NEW ord \in SignalOrder \cup {NoOrder}, Whole(ord), NEW outcome
    PROVE  /\ AfterAnswer(ord, outcome) \in SignalOrder \cup {NoOrder}
           /\ Whole(AfterAnswer(ord, outcome))
           /\ AfterAnswer(ord, outcome).status = "FILLED" =>
                ord.status = "FILLED" \/ outcome \in FillReports
           /\ IsOpen(AfterAnswer(ord, outcome).status) =>
                IsOpen(ord.status) /\ outcome \notin FillReports \cup {"rejected"}
  <1>1. CASE outcome = "rejected" /\ RejectChanges(ord)
    <2>1. ord # NoOrder
      BY <1>1 DEF RejectChanges, UpdateChanges, CanTransition,
                  ValidTransitions, NoOrder
    <2>2. AfterAnswer(ord, outcome) = Updated(ord, "REJECTED")
      BY <1>1 DEF AfterAnswer, FillReports
    <2>. QED
      BY <2>1, <2>2, ClosedFields
  <1>2. CASE outcome \in FillReports /\ FillChanges(ord, 1)
    <2>1. AfterAnswer(ord, outcome) = Filled(ord, 1)
      BY <1>2 DEF AfterAnswer
    <2>. QED
      BY <1>2, <2>1, FilledWhole
  <1>3. CASE ~(outcome = "rejected" /\ RejectChanges(ord))
             /\ ~(outcome \in FillReports /\ FillChanges(ord, 1))
    <2>1. AfterAnswer(ord, outcome) = ord
      BY <1>3 DEF AfterAnswer
    <2>2. ASSUME IsOpen(ord.status), outcome = "rejected" PROVE FALSE
      BY <1>3, <2>2 DEF Whole, IsOpen, RejectChanges, UpdateChanges,
                        CanTransition, ValidTransitions, IsTerminal
    <2>3. ASSUME IsOpen(ord.status), outcome \in FillReports PROVE FALSE
      <3>1. ord \in SignalOrder
        BY <2>3 DEF IsOpen, NoOrder
      <3>2. ord.quantity = 1
        BY <3>1 DEF SignalOrder, OrderOf
      <3>. QED
        BY <1>3, <2>3, <3>2 DEF Whole, IsOpen, FillChanges
    <2>. QED
      BY <2>1, <2>2, <2>3
  <1>. QED
    BY <1>1, <1>2, <1>3

LEMMA NewOrderSteps ==
    ASSUME NEW s \in SignalId,
           NEW ord \in {NewOrder(s, s, 1), Pending(NewOrder(s, s, 1)),
                        Submitted(NewOrder(s, s, 1))}
    PROVE  ord \in SignalOrder /\ Whole(ord) /\ ord.status # "FILLED"
  <1>1. /\ NewOrder(s, s, 1) \in SignalOrder
        /\ NewOrder(s, s, 1).status = "CREATED"
        /\ NewOrder(s, s, 1).filledQuantity = 0
    BY NewOrderFields
  <1>. QED
    BY <1>1, SubmittedFields DEF Whole, IsOpen

-----------------------------------------------------------------------------
(* Types.  A fill stays within an order's one lot because an open order is *)
(* whole, so the two are shown together.                                   *)

OrdersWhole == \A s \in SignalId : Whole(orders[s])

Typed == TypeOK /\ OrdersWhole

LEMMA AnswerType ==
    ASSUME TypeOK, NEW calls, NEW stage \in Stages, Answer(calls, stage)
    PROVE  /\ pc' \in [Call -> {"idle", "awaiting", "joined", "done", "lost"}]
           /\ result' \in [Call -> Stages \cup {"none"}]
  BY DEF TypeOK, Answer

LEMMA RestartType ==
    ASSUME Typed, NEW gone, NEW ords, RestartWith(gone, ords),
           ords \in [SignalId -> SignalOrder \cup {NoOrder}],
           \A s \in SignalId : Whole(ords[s])
    PROVE  Typed'
  BY DEF Typed, TypeOK, OrdersWhole, RestartWith, Interrupt, SignalOrder

LEMMA CallTyped ==
    ASSUME Typed, NEW c \in Call,
           Execute(c) \/ BrokerActs(c) \/ Resume(c) \/ CrashMidSubmit(c)
    PROVE  Typed'
  <1> USE DEF Typed
  <1>0. /\ KeyOf(c) \in Key /\ SignalOf[c] \in SignalId
        /\ orders \in [SignalId -> SignalOrder \cup {NoOrder}]
    BY KeyType DEF TypeOK, SignalOrder
  <1>1. CASE ReturnCompleted(c)
    <2>1. CompletedResult(c) \in Stages
      BY <1>0, <1>1 DEF ReturnCompleted, CompletedResult, TypeOK
    <2>. QED
      BY <1>1, <2>1, AnswerType DEF ReturnCompleted, TypeOK, OrdersWhole
  <1>2. CASE JoinInflight(c)
    BY <1>0, <1>2 DEF JoinInflight, InflightCall, TypeOK, OrdersWhole
  <1>3. CASE Refuse(c)
    <2>1. PICK stage \in Verdicts \ {"accepted"} :
            /\ Answer({c}, stage)
            /\ completed' = [completed EXCEPT ![KeyOf(c)] = stage]
      BY <1>3 DEF Refuse
    <2>2. stage \in Stages
      BY DEF Verdicts, Stages
    <2>. QED
      BY <1>0, <1>3, <2>1, <2>2, AnswerType DEF Refuse, TypeOK, OrdersWhole
  <1>4. CASE Submit(c)
    <2>1. /\ Canonical(SignalOf[c]) \in SignalOrder \cup {NoOrder}
          /\ Whole(Canonical(SignalOf[c]))
      BY <1>0, CanonicalFields DEF OrdersWhole
    <2>2. orders' \in [SignalId -> SignalOrder \cup {NoOrder}]
          /\ OrdersWhole'
      BY <1>0, <1>4, <2>1 DEF Submit, OrdersWhole
    <2>. QED
      BY <1>0, <1>4, <2>2 DEF Submit, TypeOK, SignalOrder
  <1>5. CASE BrokerActs(c)
    BY <1>5 DEF BrokerActs, BrokerOutcomes, TypeOK, OrdersWhole
  <1>6. CASE Resume(c)
    <2>1. StageOf(broker[c]) \in Stages
      BY DEF StageOf, Stages
    <2>2. /\ AfterAnswer(orders[SignalOf[c]], broker[c])
               \in SignalOrder \cup {NoOrder}
          /\ Whole(AfterAnswer(orders[SignalOf[c]], broker[c]))
      BY <1>0, AfterAnswerFields DEF OrdersWhole
    <2>3. orders' \in [SignalId -> SignalOrder \cup {NoOrder}]
          /\ OrdersWhole'
      BY <1>0, <1>6, <2>2 DEF Resume, OrdersWhole
    <2>4. /\ pc' \in [Call -> {"idle", "awaiting", "joined", "done", "lost"}]
          /\ result' \in [Call -> Stages \cup {"none"}]
      BY <1>6, <2>1, AnswerType DEF Resume
    <2>. QED
      BY <1>0, <1>6, <2>1, <2>3, <2>4 DEF Resume, TypeOK, SignalOrder
  <1>7. CASE CrashMidSubmit(c)
    <2>1. PICK ord \in {NewOrder(SignalOf[c], SignalOf[c], 1),
                        Pending(NewOrder(SignalOf[c], SignalOf[c], 1)),
                        Submitted(NewOrder(SignalOf[c], SignalOf[c], 1))} :
            RestartWith(Unanswered \cup {c},
                        [orders EXCEPT ![SignalOf[c]] = ord])
      BY <1>7 DEF CrashMidSubmit
    <2>2. ord \in SignalOrder /\ Whole(ord)
      BY <1>0, NewOrderSteps
    <2> DEFINE ords == [orders EXCEPT ![SignalOf[c]] = ord]
    <2>3. /\ ords \in [SignalId -> SignalOrder \cup {NoOrder}]
          /\ \A s \in SignalId : Whole(ords[s])
      BY <1>0, <2>2 DEF OrdersWhole
    <2> HIDE DEF ords
    <2>. QED
      BY <2>1, <2>3, RestartType DEF ords
  <1>. QED
    BY <1>1, <1>2, <1>3, <1>4, <1>5, <1>6, <1>7 DEF Execute

LEMMA NextTyped ==
    ASSUME Typed, [Next]_vars
    PROVE  Typed'
  <1> USE DEF Typed
  <1>0. orders \in [SignalId -> SignalOrder \cup {NoOrder}]
    BY DEF TypeOK, SignalOrder
  <1>1. ASSUME NEW c \in Call,
               Execute(c) \/ BrokerActs(c) \/ Resume(c) \/ CrashMidSubmit(c)
        PROVE  Typed'
    BY <1>1, CallTyped
  <1>2. ASSUME NEW s \in SignalId, NEW status \in {"CANCELLED", "REJECTED"},
               CloseOrder(s, status)
        PROVE  Typed'
    <2>1. orders[s] # NoOrder
      BY <1>2 DEF CloseOrder, IsOpen, NoOrder
    <2>2. /\ Updated(orders[s], status) \in SignalOrder
          /\ Whole(Updated(orders[s], status))
      BY <1>0, <2>1, ClosedFields
    <2>3. orders' \in [SignalId -> SignalOrder \cup {NoOrder}]
          /\ OrdersWhole'
      BY <1>0, <1>2, <2>2 DEF CloseOrder, OrdersWhole
    <2>. QED
      BY <1>2, <2>3 DEF CloseOrder, Interrupt, TypeOK, SignalOrder
  <1>3. CASE Trigger
    <2>1. \A s \in SignalId :
            CancelChanges(orders[s]) =>
              /\ Updated(orders[s], "CANCELLED") \in SignalOrder
              /\ Whole(Updated(orders[s], "CANCELLED"))
      <3> SUFFICES ASSUME NEW s \in SignalId, CancelChanges(orders[s])
                   PROVE  /\ Updated(orders[s], "CANCELLED") \in SignalOrder
                          /\ Whole(Updated(orders[s], "CANCELLED"))
        OBVIOUS
      <3>1. orders[s] # NoOrder
        BY DEF CancelChanges, UpdateChanges, CanTransition, ValidTransitions,
               NoOrder
      <3>. QED
        BY <1>0, <3>1, ClosedFields
    <2>2. orders' \in [SignalId -> SignalOrder \cup {NoOrder}]
          /\ OrdersWhole'
      BY <1>0, <1>3, <2>1 DEF Trigger, OrdersWhole
    <2>. QED
      BY <1>3, <2>2 DEF Trigger, Interrupt, TypeOK, SignalOrder
  <1>4. ASSUME NEW state \in {"ARMED", "DISARMED"}, Rearm(state)
        PROVE  Typed'
    BY <1>4 DEF Rearm, Interrupt, TypeOK, OrdersWhole
  <1>5. CASE ResetDailyCounts
    BY <1>5 DEF ResetDailyCounts, Interrupt, TypeOK, OrdersWhole
  <1>6. CASE Restart
    BY <1>0, <1>6, RestartType DEF Restart, OrdersWhole
  <1>7. CASE UNCHANGED vars
    BY <1>7 DEF vars, TypeOK, OrdersWhole
  <1>. QED
    BY <1>1, <1>2, <1>3, <1>4, <1>5, <1>6, <1>7 DEF Next

LEMMA InitTyped == Init => Typed
  <1>1. Init => TypeOK
    <2> SUFFICES ASSUME Init PROVE TypeOK
      OBVIOUS
    <2>1. forgetful \in BOOLEAN
      BY DEF Init
    <2>2. 0 \in 0 .. MaxInterruptions
      OBVIOUS
    <2>. QED
      BY <2>1, <2>2 DEF Init, TypeOK
  <1>2. Whole(NoOrder)
    BY DEF Whole, NoOrder, IsOpen
  <1>. QED
    BY <1>1, <1>2 DEF Init, Typed, OrdersWhole

\* The variables keep their types.
THEOREM PipelineTypeCorrect == Spec => []TypeOK
  <1>1. Typed => TypeOK
    BY DEF Typed
  <1>. QED
    BY <1>1, InitTyped, NextTyped, PTL DEF Spec

-----------------------------------------------------------------------------
(* The calls.  NobodyJoinsTheDead and SentOncePerKey are not inductive:    *)
(* what a call finds in the maps must be a call under way for its key, and *)
(* as long as nothing was forgotten each call must have left its trace in  *)
(* them.                                                                   *)

CallsInOrder ==
    \A c \in Call :
        /\ pc[c] = "awaiting" => leader[c] = c /\ Sent(c)
        /\ pc[c] = "joined" => /\ leader[c] \in Call
                               /\ pc[leader[c]] = "awaiting"
                               /\ KeyOf(leader[c]) = KeyOf(c)
        /\ pc[c] = "idle" => ~Sent(c)

InflightAwaits ==
    \A k \in Key : inflight[k] # NoCall =>
        pc[inflight[k]] = "awaiting" /\ KeyOf(inflight[k]) = k

CallsTraced ==
    ~forgetful => \A c \in Call :
        /\ pc[c] = "awaiting" => /\ inflight[KeyOf(c)] = c
                                 /\ completed[KeyOf(c)] = "none"
        /\ pc[c] = "done" => /\ completed[KeyOf(c)] = result[c]
                             /\ result[c] # "none"
        /\ Sent(c) => pc[c] \in {"awaiting", "done"}

CallsInv ==
    /\ TypeOK
    /\ CallsInOrder
    /\ InflightAwaits
    /\ CallsTraced
    /\ SentOncePerKey

\* The calls that hold a promise of c are answered with it: all of its key.
LEMMA WaitingFacts ==
    ASSUME CallsInv, NEW c \in Call, pc[c] = "awaiting"
    PROVE  /\ c \in Waiting(c)
           /\ Waiting(c) \subseteq Call
           /\ \A d \in Waiting(c) : KeyOf(d) = KeyOf(c)
           /\ \A d \in Waiting(c) : pc[d] = "awaiting" => d = c
           /\ \A d \in Call : pc[d] = "awaiting" /\ d # c => d \notin Waiting(c)
           /\ \A d \in Call : pc[d] = "joined" /\ d \notin Waiting(c) =>
                                leader[d] # c
  BY DEF CallsInv, CallsInOrder, Waiting

LEMMA ForgettingStep ==
    ASSUME CallsInv, TypeOK', forgetful' = TRUE,
           UNCHANGED <<leader, broker>>,
           inflight' = [k \in Key |-> NoCall],
           \/ UNCHANGED pc
           \/ \E gone : /\ Unanswered \subseteq gone
                        /\ pc' = [c \in Call |-> IF c \in gone THEN "lost"
                                                              ELSE pc[c]]
    PROVE  CallsInv'
  <1>1. CallsInOrder'
    BY DEF CallsInv, CallsInOrder, Unanswered, TypeOK, Sent
  <1>2. InflightAwaits' /\ CallsTraced' /\ SentOncePerKey'
    BY DEF InflightAwaits, CallsTraced, SentOncePerKey
  <1>. QED
    BY <1>1, <1>2 DEF CallsInv

LEMMA CallStep ==
    ASSUME CallsInv, TypeOK', NEW c \in Call,
           Execute(c) \/ BrokerActs(c) \/ Resume(c) \/ CrashMidSubmit(c)
    PROVE  CallsInv'
  <1> USE DEF CallsInv
  <1>0. \A d \in Call : KeyOf(d) \in Key
    BY KeyType
  <1>1. CASE ReturnCompleted(c)
    <2>1. /\ pc[c] = "idle"
          /\ pc' = [d \in Call |-> IF d = c THEN "done" ELSE pc[d]]
          /\ result' = [d \in Call |-> IF d = c THEN completed[KeyOf(c)]
                                                ELSE result[d]]
          /\ completed[KeyOf(c)] # "none"
          /\ UNCHANGED <<leader, inflight, completed, broker, forgetful>>
      BY <1>1 DEF ReturnCompleted, Answer, CompletedResult
    <2>2. CallsInOrder' /\ InflightAwaits'
      BY <2>1 DEF CallsInOrder, InflightAwaits, TypeOK, Sent
    <2>3. CallsTraced'
      BY <2>1 DEF CallsTraced, Sent
    <2>4. SentOncePerKey'
      BY <2>1 DEF SentOncePerKey, Sent
    <2>. QED
      BY <2>2, <2>3, <2>4
  <1>2. CASE JoinInflight(c)
    <2>1. /\ pc[c] = "idle"
          /\ inflight[KeyOf(c)] # NoCall
          /\ pc' = [pc EXCEPT ![c] = "joined"]
          /\ leader' = [leader EXCEPT ![c] = inflight[KeyOf(c)]]
          /\ UNCHANGED <<result, inflight, completed, broker, forgetful>>
      BY <1>2 DEF JoinInflight, InflightCall
    <2>2. /\ inflight[KeyOf(c)] \in Call
          /\ pc[inflight[KeyOf(c)]] = "awaiting"
          /\ KeyOf(inflight[KeyOf(c)]) = KeyOf(c)
      BY <1>0, <2>1 DEF InflightAwaits, TypeOK
    <2>3. CallsInOrder' /\ InflightAwaits'
      BY <2>1, <2>2 DEF CallsInOrder, InflightAwaits, TypeOK, Sent
    <2>4. CallsTraced'
      BY <2>1 DEF CallsTraced, Sent, TypeOK
    <2>5. SentOncePerKey'
      BY <2>1 DEF SentOncePerKey, Sent
    <2>. QED
      BY <2>3, <2>4, <2>5
  <1>3. CASE Refuse(c)
    <2>1. PICK stage \in Verdicts \ {"accepted"} :
            /\ Answer({c}, stage)
            /\ completed' = [completed EXCEPT ![KeyOf(c)] = stage]
      BY <1>3 DEF Refuse
    <2>2. stage # "none"
      BY DEF Verdicts
    <2>3. /\ pc[c] = "idle"
          /\ completed[KeyOf(c)] = "none" /\ inflight[KeyOf(c)] = NoCall
          /\ pc' = [d \in Call |-> IF d = c THEN "done" ELSE pc[d]]
          /\ result' = [d \in Call |-> IF d = c THEN stage ELSE result[d]]
          /\ UNCHANGED <<leader, inflight, broker, forgetful>>
      BY <1>3, <2>1 DEF Refuse, Fresh, CompletedResult, InflightCall, Answer
    <2>4. CallsInOrder' /\ InflightAwaits'
      BY <2>3 DEF CallsInOrder, InflightAwaits, TypeOK, Sent
    <2>5. CallsTraced'
      BY <1>0, <2>1, <2>2, <2>3 DEF CallsTraced, Sent, TypeOK
    <2>6. SentOncePerKey'
      BY <2>3 DEF SentOncePerKey, Sent
    <2>. QED
      BY <2>4, <2>5, <2>6
  <1>4. CASE Submit(c)
    <2>1. /\ pc[c] = "idle"
          /\ completed[KeyOf(c)] = "none" /\ inflight[KeyOf(c)] = NoCall
          /\ pc' = [pc EXCEPT ![c] = "awaiting"]
          /\ leader' = [leader EXCEPT ![c] = c]
          /\ inflight' = [inflight EXCEPT ![KeyOf(c)] = c]
          /\ broker' = [broker EXCEPT ![c] = "sent"]
          /\ UNCHANGED <<result, completed, forgetful>>
      BY <1>4 DEF Submit, Fresh, CompletedResult, InflightCall
    <2>2. CallsInOrder'
      BY <2>1 DEF CallsInOrder, TypeOK, Sent
    <2>3. InflightAwaits'
      BY <1>0, <2>1 DEF InflightAwaits, TypeOK
    <2>4. ~forgetful => \A d \in Call :
            KeyOf(d) = KeyOf(c) => pc[d] \notin {"awaiting", "done"} /\ ~Sent(d)
      BY <2>1 DEF CallsTraced
    <2>5. CallsTraced'
      BY <1>0, <2>1, <2>4 DEF CallsTraced, Sent, TypeOK
    <2>6. SentOncePerKey'
      BY <2>1, <2>4 DEF SentOncePerKey, Sent, TypeOK
    <2>. QED
      BY <2>2, <2>3, <2>5, <2>6
  <1>5. CASE BrokerActs(c)
    <2>1. /\ \A d \in Call : Sent(d)' <=> Sent(d)
          /\ UNCHANGED <<pc, leader, result, inflight, completed, forgetful>>
      BY <1>5 DEF BrokerActs, BrokerOutcomes, Sent, TypeOK
    <2>. QED
      BY <2>1 DEF CallsInOrder, InflightAwaits, CallsTraced, SentOncePerKey
  <1>6. CASE Resume(c)
    <2> DEFINE stage == StageOf(broker[c])
    <2>1. /\ pc[c] = "awaiting"
          /\ pc' = [d \in Call |-> IF d \in Waiting(c) THEN "done" ELSE pc[d]]
          /\ result' = [d \in Call |-> IF d \in Waiting(c) THEN stage
                                                          ELSE result[d]]
          /\ completed' = [completed EXCEPT ![KeyOf(c)] = stage]
          /\ inflight' = [inflight EXCEPT ![KeyOf(c)] = NoCall]
          /\ UNCHANGED <<leader, broker, forgetful>>
      BY <1>6 DEF Resume, Answer
    <2>2. stage # "none"
      BY DEF StageOf
    <2> HIDE DEF stage
    <2>3. /\ \A d \in Waiting(c) : KeyOf(d) = KeyOf(c)
          /\ \A d \in Call : pc[d] = "awaiting" /\ d # c => d \notin Waiting(c)
          /\ \A d \in Call : pc[d] = "joined" /\ d \notin Waiting(c) =>
                               leader[d] # c
          /\ c \in Waiting(c)
      BY <2>1, WaitingFacts
    <2>4. CallsInOrder'
      BY <2>1, <2>3 DEF CallsInOrder, TypeOK, Sent
    <2>5. InflightAwaits'
      BY <1>0, <2>1, <2>3 DEF InflightAwaits, TypeOK
    <2>6. ~forgetful => \A d \in Call :
            KeyOf(d) = KeyOf(c) =>
              pc[d] # "done" /\ (pc[d] = "awaiting" => d = c)
      BY <2>1 DEF CallsTraced
    <2>7. CallsTraced'
      <3> SUFFICES ASSUME ~forgetful, NEW d \in Call
                   PROVE  /\ pc'[d] = "awaiting" =>
                               /\ inflight'[KeyOf(d)] = d
                               /\ completed'[KeyOf(d)] = "none"
                          /\ pc'[d] = "done" =>
                               /\ completed'[KeyOf(d)] = result'[d]
                               /\ result'[d] # "none"
                          /\ Sent(d)' => pc'[d] \in {"awaiting", "done"}
        BY <2>1 DEF CallsTraced
      <3>1. CASE d \in Waiting(c)
        BY <1>0, <2>1, <2>2, <2>3, <3>1 DEF TypeOK
      <3>2. CASE d \notin Waiting(c)
        BY <1>0, <2>1, <2>3, <2>6, <3>2 DEF TypeOK, CallsTraced, Sent
      <3>. QED
        BY <3>1, <3>2
    <2>8. SentOncePerKey'
      BY <2>1 DEF SentOncePerKey, Sent
    <2>. QED
      BY <2>4, <2>5, <2>7, <2>8
  <1>7. CASE CrashMidSubmit(c)
    <2>1. PICK ords : RestartWith(Unanswered \cup {c}, ords)
      BY <1>7 DEF CrashMidSubmit
    <2>. QED
      BY <2>1, ForgettingStep DEF RestartWith
  <1>. QED
    BY <1>1, <1>2, <1>3, <1>4, <1>5, <1>6, <1>7 DEF Execute

LEMMA CallsPreserved ==
    ASSUME CallsInv, TypeOK', [Next]_vars
    PROVE  CallsInv'
  <1>1. ASSUME NEW c \in Call,
               Execute(c) \/ BrokerActs(c) \/ Resume(c) \/ CrashMidSubmit(c)
        PROVE  CallsInv'
    BY <1>1, CallStep
  <1>2. ASSUME UNCHANGED <<pc, leader, result, inflight, completed, forgetful>>,
               \A d \in Call : Sent(d)' <=> Sent(d)
        PROVE  CallsInv'
    BY <1>2 DEF CallsInv, CallsInOrder, InflightAwaits, CallsTraced,
                SentOncePerKey
  <1>3. ASSUME NEW s \in SignalId, NEW status \in {"CANCELLED", "REJECTED"},
               CloseOrder(s, status)
        PROVE  CallsInv'
    BY <1>2, <1>3 DEF CloseOrder, Sent
  <1>4. CASE Trigger
    <2>1. \A d \in Call : Sent(d)' <=> Sent(d)
      BY <1>4 DEF Trigger, Sent
    <2>. QED
      BY <1>2, <1>4, <2>1 DEF Trigger
  <1>5. ASSUME NEW state \in {"ARMED", "DISARMED"}, Rearm(state)
        PROVE  CallsInv'
    BY <1>2, <1>5 DEF Rearm, Sent
  <1>6. CASE ResetDailyCounts
    BY <1>6, ForgettingStep DEF ResetDailyCounts
  <1>7. CASE Restart
    BY <1>7, ForgettingStep DEF Restart, RestartWith
  <1>8. CASE UNCHANGED vars
    BY <1>2, <1>8 DEF vars, Sent
  <1>. QED
    BY <1>1, <1>3, <1>4, <1>5, <1>6, <1>7, <1>8 DEF Next

LEMMA InitCalls == Init => CallsInv
  <1> SUFFICES ASSUME Init PROVE CallsInv
    OBVIOUS
  <1>1. TypeOK
    BY InitTyped DEF Typed
  <1>2. \A c \in Call : pc[c] = "idle" /\ ~Sent(c)
    BY DEF Init, Sent
  <1>3. \A k \in Key : inflight[k] = NoCall
    BY DEF Init
  <1>. QED
    BY <1>1, <1>2, <1>3 DEF CallsInv, CallsInOrder, InflightAwaits,
                            CallsTraced, SentOncePerKey

LEMMA CallsInvariant == Spec => []CallsInv
  <1>. QED
    BY InitCalls, CallsPreserved, PipelineTypeCorrect, PTL DEF Spec

\* A call that joined another waits for one that is still under way.
THEOREM NobodyJoinsTheDeadAlways == Spec => []NobodyJoinsTheDead
  <1>1. CallsInv => NobodyJoinsTheDead
    BY DEF CallsInv, CallsInOrder, NobodyJoinsTheDead
  <1>. QED
    BY <1>1, CallsInvariant, PTL

\* Of the calls that repeat a signal under one correlation id, however they
\* overlap, one reaches the broker.
THEOREM SentOncePerKeyAlways == Spec => []SentOncePerKey
  <1>1. CallsInv => SentOncePerKey
    BY DEF CallsInv
  <1>. QED
    BY <1>1, CallsInvariant, PTL

\* A retry is answered like the call it repeats.
THEOREM SameKeySameResultAlways == Spec => []SameKeySameResult
  <1>1. CallsInv => SameKeySameResult
    BY DEF CallsInv, CallsTraced, SameKeySameResult
  <1>. QED
    BY <1>1, CallsInvariant, PTL

-----------------------------------------------------------------------------
(* The book: which orders are open, and why.                               *)

BookInv ==
    /\ Typed
    /\ CallsInOrder
    /\ HaltedBookIsClosed
    /\ OpenOrdersCapped
    /\ OpenOrdersAccounted
    /\ FilledWasExecuted

LEMMA OpenOrdersFinite ==
    /\ IsFiniteSet(OpenOrders) /\ Cardinality(OpenOrders) \in Nat
    /\ IsFiniteSet(OpenOrders') /\ Cardinality(OpenOrders') \in Nat
  <1>1. OpenOrders \in SUBSET SignalId /\ OpenOrders' \in SUBSET SignalId
    BY DEF OpenOrders
  <1>. QED
    BY <1>1, FiniteSignals, FS_Subset, FS_CardinalityType

\* A step that opens no order keeps the number of open ones within the limit.
LEMMA NothingOpens ==
    ASSUME OpenOrdersCapped, OpenOrders' \subseteq OpenOrders
    PROVE  OpenOrdersCapped'
  <1>1. Cardinality(OpenOrders') <= Cardinality(OpenOrders)
    BY OpenOrdersFinite, FS_Subset
  <1>. QED
    BY <1>1, OpenOrdersFinite DEF OpenOrdersCapped

\* So does one that opens one order when the hard limits let a call pass.
LEMMA OneOpens ==
    ASSUME "accepted" \in Verdicts, NEW s,
           OpenOrders' \subseteq OpenOrders \cup {s}
    PROVE  OpenOrdersCapped' /\ killSwitch # "TRIGGERED"
  <1>1. ~Halted /\ ~HardLimitReached
    BY DEF Verdicts
  <1>2. Cardinality(OpenOrders) < MaxOpenOrders
    BY <1>1, OpenOrdersFinite DEF HardLimitReached
  <1>3. /\ IsFiniteSet(OpenOrders \cup {s})
        /\ Cardinality(OpenOrders \cup {s}) <= Cardinality(OpenOrders) + 1
    BY OpenOrdersFinite, FS_AddElement
  <1>4. /\ Cardinality(OpenOrders') <= Cardinality(OpenOrders \cup {s})
        /\ Cardinality(OpenOrders \cup {s}) \in Nat
    BY <1>3, FS_Subset, FS_CardinalityType
  <1>. QED
    BY <1>1, <1>2, <1>3, <1>4, OpenOrdersFinite DEF OpenOrdersCapped, Halted

\* A step that leaves the orders alone and keeps what accounts for them.
LEMMA SameOrders ==
    ASSUME BookInv, UNCHANGED orders,
           killSwitch' = "TRIGGERED" => killSwitch = "TRIGGERED",
           \A d \in Call : pc[d] \in {"awaiting", "lost"} =>
                             pc'[d] \in {"awaiting", "lost"},
           \A d \in Call : broker[d] \in BrokerOutcomes \cup {"cancelled"} =>
                             broker'[d] = broker[d]
    PROVE  /\ HaltedBookIsClosed' /\ OpenOrdersCapped'
           /\ OpenOrdersAccounted' /\ FilledWasExecuted'
  <1>1. OpenOrders' = OpenOrders
    BY DEF OpenOrders
  <1>2. HaltedBookIsClosed'
    BY <1>1 DEF BookInv, HaltedBookIsClosed
  <1>3. OpenOrdersCapped'
    BY <1>1, NothingOpens DEF BookInv
  <1>4. OpenOrdersAccounted'
    BY <1>1 DEF BookInv, OpenOrdersAccounted, BrokerOutcomes
  <1>5. FilledWasExecuted'
    BY DEF BookInv, FilledWasExecuted, BrokerOutcomes, FillReports
  <1>. QED
    BY <1>2, <1>3, <1>4, <1>5

LEMMA SubmitBook ==
    ASSUME BookInv, NEW c \in Call, Submit(c)
    PROVE  /\ HaltedBookIsClosed' /\ OpenOrdersCapped'
           /\ OpenOrdersAccounted' /\ FilledWasExecuted'
  <1> USE DEF BookInv
  <1> DEFINE s == SignalOf[c]
             n == Canonical(s)
  <1>1. /\ s \in SignalId /\ orders[s] \in SignalOrder \cup {NoOrder}
        /\ Whole(orders[s])
    BY DEF Typed, TypeOK, OrdersWhole, SignalOrder
  <1>2. n.status = "FILLED" => orders[s].status = "FILLED"
    BY <1>1, CanonicalFields
  <1>3. /\ "accepted" \in Verdicts
        /\ orders' = [orders EXCEPT ![s] = n]
        /\ pc[c] = "idle"
        /\ pc' = [pc EXCEPT ![c] = "awaiting"]
        /\ broker' = [broker EXCEPT ![c] = "sent"]
        /\ UNCHANGED killSwitch
    BY DEF Submit, Fresh
  <1> HIDE DEF n
  <1>4. /\ orders \in [SignalId -> SignalOrder \cup {NoOrder}]
        /\ pc \in [Call -> {"idle", "awaiting", "joined", "done", "lost"}]
        /\ broker \in [Call -> BrokerOutcomes \cup {"none", "sent", "cancelled"}]
    BY DEF Typed, TypeOK, SignalOrder
  <1>5. OpenOrders' \subseteq OpenOrders \cup {s}
    BY <1>1, <1>3, <1>4 DEF OpenOrders
  <1>6. OpenOrdersCapped' /\ HaltedBookIsClosed'
    BY <1>3, <1>5, OneOpens DEF HaltedBookIsClosed
  <1>7. OpenOrdersAccounted'
    <2> SUFFICES ASSUME NEW t \in OpenOrders'
                 PROVE  \E d \in Call :
                          /\ SignalOf[d] = t
                          /\ \/ pc'[d] \in {"awaiting", "lost"}
                             \/ broker'[d] \in {"open", "cancelled", "failed",
                                                "lost_answer"}
      BY DEF OpenOrdersAccounted
    <2>1. CASE t = s
      BY <1>3, <1>4, <2>1
    <2>2. CASE t # s
      <3>1. t \in OpenOrders
        BY <1>5, <2>2
      <3>2. PICK d \in Call :
              /\ SignalOf[d] = t
              /\ \/ pc[d] \in {"awaiting", "lost"}
                 \/ broker[d] \in {"open", "cancelled", "failed", "lost_answer"}
        BY <3>1 DEF OpenOrdersAccounted
      <3>3. d # c
        BY <1>1, <2>2, <3>2
      <3>. QED
        BY <1>3, <1>4, <3>2, <3>3
    <2>. QED
      BY <2>1, <2>2
  <1>8. FilledWasExecuted'
    <2> SUFFICES ASSUME NEW t \in SignalId, orders'[t].status = "FILLED"
                 PROVE  \E d \in Call : SignalOf[d] = t /\ broker'[d] \in FillReports
      BY DEF FilledWasExecuted
    <2>1. orders[t].status = "FILLED"
      BY <1>1, <1>2, <1>3, <1>4
    <2>2. PICK d \in Call : SignalOf[d] = t /\ broker[d] \in FillReports
      BY <2>1 DEF FilledWasExecuted
    <2>3. d # c
      BY <1>3, <2>2 DEF CallsInOrder, Sent, FillReports
    <2>. QED
      BY <1>3, <1>4, <2>2, <2>3
  <1>. QED
    BY <1>6, <1>7, <1>8

\* The answer may leave an order open only if the call that got it accounts
\* for it.
LEMMA ResumeBook ==
    ASSUME BookInv, NEW c \in Call, Resume(c)
    PROVE  /\ HaltedBookIsClosed' /\ OpenOrdersCapped'
           /\ OpenOrdersAccounted' /\ FilledWasExecuted'
  <1> USE DEF BookInv
  <1> DEFINE s == SignalOf[c]
             n == AfterAnswer(orders[s], broker[c])
  <1>1. /\ s \in SignalId /\ orders[s] \in SignalOrder \cup {NoOrder}
        /\ Whole(orders[s])
    BY DEF Typed, TypeOK, OrdersWhole, SignalOrder
  <1>2. /\ n.status = "FILLED" =>
             orders[s].status = "FILLED" \/ broker[c] \in FillReports
        /\ IsOpen(n.status) =>
             IsOpen(orders[s].status) /\ broker[c] \notin FillReports \cup {"rejected"}
    BY <1>1, AfterAnswerFields
  <1>3. /\ orders' = [orders EXCEPT ![s] = n]
        /\ pc[c] = "awaiting" /\ broker[c] # "sent"
        /\ pc' = [d \in Call |-> IF d \in Waiting(c) THEN "done" ELSE pc[d]]
        /\ UNCHANGED <<broker, killSwitch>>
    BY DEF Resume, Answer
  <1> HIDE DEF n
  <1>4. /\ orders \in [SignalId -> SignalOrder \cup {NoOrder}]
        /\ broker \in [Call -> BrokerOutcomes \cup {"none", "sent", "cancelled"}]
    BY DEF Typed, TypeOK, SignalOrder
  <1>5. \A d \in Waiting(c) : pc[d] \in {"awaiting", "lost"} => d = c
    BY DEF Waiting, CallsInOrder
  <1>6. OpenOrders' \subseteq OpenOrders
    BY <1>1, <1>2, <1>3, <1>4 DEF OpenOrders
  <1>7. OpenOrdersCapped' /\ HaltedBookIsClosed'
    BY <1>3, <1>6, NothingOpens DEF HaltedBookIsClosed
  <1>8. OpenOrdersAccounted'
    <2> SUFFICES ASSUME NEW t \in OpenOrders'
                 PROVE  \E d \in Call :
                          /\ SignalOf[d] = t
                          /\ \/ pc'[d] \in {"awaiting", "lost"}
                             \/ broker'[d] \in {"open", "cancelled", "failed",
                                                "lost_answer"}
      BY DEF OpenOrdersAccounted
    <2>1. CASE t = s
      <3>1. IsOpen(n.status)
        BY <1>1, <1>3, <1>4, <2>1 DEF OpenOrders
      <3>2. broker[c] \in {"open", "cancelled", "failed", "lost_answer"}
        BY <1>2, <1>3, <1>4, <3>1 DEF BrokerOutcomes, CallsInOrder, Sent, FillReports
      <3>. QED
        BY <1>3, <2>1, <3>2
    <2>2. CASE t # s
      <3>1. t \in OpenOrders
        BY <1>6
      <3>2. PICK d \in Call :
              /\ SignalOf[d] = t
              /\ \/ pc[d] \in {"awaiting", "lost"}
                 \/ broker[d] \in {"open", "cancelled", "failed", "lost_answer"}
        BY <3>1 DEF OpenOrdersAccounted
      <3>3. d # c
        BY <2>2, <3>2
      <3>. QED
        BY <1>3, <1>5, <3>2, <3>3
    <2>. QED
      BY <2>1, <2>2
  <1>9. FilledWasExecuted'
    BY <1>1, <1>2, <1>3, <1>4 DEF FilledWasExecuted
  <1>. QED
    BY <1>7, <1>8, <1>9

\* A step that closes orders: the others, and what accounts for them, stay.
LEMMA ClosingBook ==
    ASSUME BookInv,
           \A t \in SignalId : \/ orders'[t] = orders[t]
                               \/ ~IsOpen(orders'[t].status)
                                  /\ orders'[t].status # "FILLED",
           killSwitch' = "TRIGGERED" =>
             killSwitch = "TRIGGERED" \/ OpenOrders' = {},
           UNCHANGED pc,
           \A d \in Call : \/ broker'[d] = broker[d]
                           \/ broker[d] = "open" /\ broker'[d] = "cancelled"
    PROVE  /\ HaltedBookIsClosed' /\ OpenOrdersCapped'
           /\ OpenOrdersAccounted' /\ FilledWasExecuted'
  <1> USE DEF BookInv
  <1>1. OpenOrders' \subseteq OpenOrders
    BY DEF OpenOrders
  <1>2. OpenOrdersCapped' /\ HaltedBookIsClosed'
    BY <1>1, NothingOpens DEF HaltedBookIsClosed
  <1>3. OpenOrdersAccounted'
    BY <1>1 DEF OpenOrdersAccounted
  <1>4. FilledWasExecuted'
    BY DEF FilledWasExecuted, FillReports
  <1>. QED
    BY <1>2, <1>3, <1>4

LEMMA CrashBook ==
    ASSUME BookInv, NEW c \in Call, CrashMidSubmit(c)
    PROVE  /\ HaltedBookIsClosed' /\ OpenOrdersCapped'
           /\ OpenOrdersAccounted' /\ FilledWasExecuted'
  <1> USE DEF BookInv
  <1> DEFINE s == SignalOf[c]
  <1>0. /\ s \in SignalId
        /\ orders \in [SignalId -> SignalOrder \cup {NoOrder}]
        /\ pc \in [Call -> {"idle", "awaiting", "joined", "done", "lost"}]
    BY DEF Typed, TypeOK, SignalOrder
  <1>1. PICK ord \in {NewOrder(s, s, 1), Pending(NewOrder(s, s, 1)),
                      Submitted(NewOrder(s, s, 1))} :
          RestartWith(Unanswered \cup {c}, [orders EXCEPT ![s] = ord])
    BY DEF CrashMidSubmit
  <1>2. ord.status # "FILLED"
    BY <1>0, NewOrderSteps
  <1>3. /\ "accepted" \in Verdicts
        /\ orders' = [orders EXCEPT ![s] = ord]
        /\ pc' = [d \in Call |-> IF d \in Unanswered \cup {c} THEN "lost"
                                                            ELSE pc[d]]
        /\ killSwitch' = "ARMED"
        /\ UNCHANGED broker
    BY <1>1 DEF CrashMidSubmit, RestartWith
  <1>4. OpenOrders' \subseteq OpenOrders \cup {s}
    BY <1>0, <1>3 DEF OpenOrders
  <1>5. OpenOrdersCapped' /\ HaltedBookIsClosed'
    BY <1>3, <1>4, OneOpens DEF HaltedBookIsClosed
  <1>6. OpenOrdersAccounted'
    <2> SUFFICES ASSUME NEW t \in OpenOrders'
                 PROVE  \E d \in Call :
                          /\ SignalOf[d] = t
                          /\ \/ pc'[d] \in {"awaiting", "lost"}
                             \/ broker'[d] \in {"open", "cancelled", "failed",
                                                "lost_answer"}
      BY DEF OpenOrdersAccounted
    <2>1. CASE t = s
      BY <1>3, <2>1
    <2>2. CASE t # s
      <3>1. t \in OpenOrders
        BY <1>4, <2>2
      <3>. QED
        BY <1>3, <3>1 DEF OpenOrdersAccounted, Unanswered
    <2>. QED
      BY <2>1, <2>2
  <1>7. FilledWasExecuted'
    BY <1>0, <1>2, <1>3 DEF FilledWasExecuted
  <1>. QED
    BY <1>5, <1>6, <1>7

LEMMA TriggerBook ==
    ASSUME BookInv, Trigger
    PROVE  /\ HaltedBookIsClosed' /\ OpenOrdersCapped'
           /\ OpenOrdersAccounted' /\ FilledWasExecuted'
  <1> USE DEF BookInv
  <1>1. ASSUME NEW t \in SignalId
        PROVE  /\ ~IsOpen(orders'[t].status)
               /\ orders'[t] = orders[t] \/ orders'[t].status # "FILLED"
    <2>1. /\ orders[t] \in SignalOrder \cup {NoOrder} /\ Whole(orders[t])
          /\ orders'[t] = IF CancelChanges(orders[t])
                          THEN Updated(orders[t], "CANCELLED") ELSE orders[t]
      BY DEF Trigger, Typed, TypeOK, OrdersWhole, SignalOrder
    <2>2. CASE CancelChanges(orders[t])
      <3>1. orders[t] # NoOrder
        BY <2>2 DEF CancelChanges, UpdateChanges, CanTransition,
                    ValidTransitions, NoOrder
      <3>2. /\ Updated(orders[t], "CANCELLED").status = "CANCELLED"
            /\ ~IsOpen(Updated(orders[t], "CANCELLED").status)
        BY <2>1, <3>1, ClosedFields
      <3>. QED
        BY <2>1, <2>2, <3>2
    <2>3. CASE ~CancelChanges(orders[t])
      BY <2>1, <2>3 DEF CancelChanges, UpdateChanges, CanTransition,
                        ValidTransitions, IsTerminal, IsOpen, Whole
    <2>. QED
      BY <2>2, <2>3
  <1>2. OpenOrders' = {}
    BY <1>1 DEF OpenOrders
  <1>3. /\ \A d \in Call : \/ broker'[d] = broker[d]
                           \/ broker[d] = "open" /\ broker'[d] = "cancelled"
        /\ UNCHANGED pc
    BY DEF Trigger
  <1>. QED
    BY <1>1, <1>2, <1>3, ClosingBook

LEMMA BookPreserved ==
    ASSUME BookInv, Typed', CallsInOrder', [Next]_vars
    PROVE  BookInv'
  <1> DEFINE Goal == /\ HaltedBookIsClosed' /\ OpenOrdersCapped'
                     /\ OpenOrdersAccounted' /\ FilledWasExecuted'
  <1> SUFFICES Goal
    BY DEF BookInv
  <1>1. ASSUME NEW c \in Call,
               \/ ReturnCompleted(c) \/ JoinInflight(c) \/ Refuse(c)
               \/ BrokerActs(c)
        PROVE  Goal
    <2>1. /\ UNCHANGED <<orders, killSwitch>>
          /\ \A d \in Call : pc[d] \in {"awaiting", "lost"} =>
                               pc'[d] \in {"awaiting", "lost"}
          /\ \A d \in Call : broker[d] \in BrokerOutcomes \cup {"cancelled"} =>
                               broker'[d] = broker[d]
      BY <1>1 DEF BookInv, Typed, TypeOK, ReturnCompleted, JoinInflight,
                  Refuse, Fresh, Answer, BrokerActs, BrokerOutcomes
    <2>. QED
      BY <2>1, SameOrders
  <1>2. ASSUME NEW c \in Call, Submit(c) PROVE Goal
    BY <1>2, SubmitBook
  <1>3. ASSUME NEW c \in Call, Resume(c) PROVE Goal
    BY <1>3, ResumeBook
  <1>4. ASSUME NEW c \in Call, CrashMidSubmit(c) PROVE Goal
    BY <1>4, CrashBook
  <1>5. ASSUME NEW s \in SignalId, NEW status \in {"CANCELLED", "REJECTED"},
               CloseOrder(s, status)
        PROVE  Goal
    <2>1. orders[s] \in SignalOrder \cup {NoOrder} /\ orders[s] # NoOrder
      BY <1>5 DEF CloseOrder, IsOpen, NoOrder, BookInv, Typed, TypeOK,
                  SignalOrder
    <2>2. /\ ~IsOpen(Updated(orders[s], status).status)
          /\ Updated(orders[s], status).status # "FILLED"
      BY <2>1, ClosedFields
    <2>3. \A t \in SignalId : \/ orders'[t] = orders[t]
                              \/ ~IsOpen(orders'[t].status)
                                 /\ orders'[t].status # "FILLED"
      BY <1>5, <2>2 DEF CloseOrder, BookInv, Typed, TypeOK
    <2>. QED
      BY <1>5, <2>3, ClosingBook DEF CloseOrder
  <1>6. CASE Trigger
    BY <1>6, TriggerBook
  <1>7. ASSUME NEW state \in {"ARMED", "DISARMED"}, Rearm(state) PROVE Goal
    BY <1>7, SameOrders DEF Rearm
  <1>8. CASE ResetDailyCounts
    BY <1>8, SameOrders DEF ResetDailyCounts
  <1>9. CASE Restart
    <2>1. /\ UNCHANGED <<orders, broker>> /\ killSwitch' = "ARMED"
          /\ \A d \in Call : pc[d] \in {"awaiting", "lost"} =>
                               pc'[d] \in {"awaiting", "lost"}
      BY <1>9 DEF Restart, RestartWith, Unanswered
    <2>. QED
      BY <2>1, SameOrders
  <1>10. CASE UNCHANGED vars
    BY <1>10, SameOrders DEF vars
  <1> HIDE DEF Goal
  <1>. QED
    BY <1>1, <1>2, <1>3, <1>4, <1>5, <1>6, <1>7, <1>8, <1>9, <1>10
       DEF Next, Execute

LEMMA InitBook == Init => BookInv
  <1> SUFFICES ASSUME Init PROVE BookInv
    OBVIOUS
  <1>1. Typed /\ CallsInOrder
    BY InitTyped, InitCalls DEF CallsInv
  <1>2. \A s \in SignalId : orders[s] = NoOrder
    BY DEF Init
  <1>3. OpenOrders = {}
    BY <1>2 DEF OpenOrders, IsOpen, NoOrder
  <1>4. OpenOrdersCapped
    BY <1>3, FS_EmptySet DEF OpenOrdersCapped
  <1>5. FilledWasExecuted
    BY <1>2 DEF FilledWasExecuted, NoOrder
  <1>. QED
    BY <1>1, <1>3, <1>4, <1>5 DEF BookInv, HaltedBookIsClosed,
                                  OpenOrdersAccounted

LEMMA BookInvariant == Spec => []BookInv
  <1>1. Spec => []Typed
    BY InitTyped, NextTyped, PTL DEF Spec
  <1>2. CallsInv => CallsInOrder
    BY DEF CallsInv
  <1>. QED
    BY <1>1, <1>2, InitBook, BookPreserved, CallsInvariant, PTL DEF Spec

\* While the kill switch is triggered no canonical order is open.
THEOREM HaltedBookIsClosedAlways == Spec => []HaltedBookIsClosed
  <1>1. BookInv => HaltedBookIsClosed
    BY DEF BookInv
  <1>. QED
    BY <1>1, BookInvariant, PTL

\* The limit on open orders holds for any overlap of calls.
THEOREM OpenOrdersCappedAlways == Spec => []OpenOrdersCapped
  <1>1. BookInv => OpenOrdersCapped
    BY DEF BookInv
  <1>. QED
    BY <1>1, BookInvariant, PTL

\* An order is open only while a call, an order at the broker or an error
\* accounts for it.
THEOREM OpenOrdersAccountedAlways == Spec => []OpenOrdersAccounted
  <1>1. BookInv => OpenOrdersAccounted
    BY DEF BookInv
  <1>. QED
    BY <1>1, BookInvariant, PTL

\* What the book calls FILLED the broker has filled, whole or in part: no
\* error, rejection, cancel, reset or restart makes an order that was not
\* executed look filled.
THEOREM FilledWasExecutedAlways == Spec => []FilledWasExecuted
  <1>1. BookInv => FilledWasExecuted
    BY DEF BookInv
  <1>. QED
    BY <1>1, BookInvariant, PTL
===============================================================================
