---------------------------- MODULE ApprovalsProofs ----------------------------
(***************************************************************************)
(* The approval service is a client of the ExecutionPipeline: each of its  *)
(* steps is a step of the pipeline or leaves it alone, so what is proved   *)
(* of the pipeline holds under it, for any calls, proposals and limits.    *)
(* On top of that, what the proposals say of their orders.                 *)
(*                                                                         *)
(* ProposalSentOnce is not SentOncePerKey: the pipeline forgets its maps   *)
(* in a restart, and it is the proposals, gone with the same restart, that *)
(* keep an order from being sent again.  So the trace that a call leaves   *)
(* in the maps is kept here for as long as its proposal lives.             *)
(***************************************************************************)
EXTENDS Approvals, ExecutionPipelineProofs

\* A call that has begun is of a proposal that was made.
BegunIsProposed ==
    \A c \in Call : pc[c] # "idle" => proposal[SignalOf[c]] # "none"

\* The calls of a proposal that a restart took are over.
GoneIsOver ==
    \A c \in Call : proposal[SignalOf[c]] = "gone" =>
        pc[c] \notin {"awaiting", "joined"}

\* The calls of a living proposal have left their trace in the maps.
ProposalTraced ==
    ~cleared => \A c \in Call : proposal[SignalOf[c]] # "gone" =>
        /\ pc[c] = "awaiting" => /\ inflight[KeyOf(c)] = c
                                 /\ completed[KeyOf(c)] = "none"
        /\ pc[c] = "done" => completed[KeyOf(c)] # "none"
        /\ Sent(c) => pc[c] \in {"awaiting", "done"}

TakenByBroker(c) == broker[c] \in FillReports \cup {"open", "cancelled"}

\* A remembered "completed" is true of the broker.
RememberedIsReal ==
    \A k \in Key : completed[k] = "completed" =>
        \E c \in Call : KeyOf(c) = k /\ TakenByBroker(c)

ProposalsTyped ==
    /\ proposal \in [SignalId -> ProposalStatus \cup {"none", "gone"}]
    /\ overdue \subseteq SignalId
    /\ outcome \in [SignalId -> Stages \cup {"none"}]
    /\ cleared \in BOOLEAN

ApprovalsInv ==
    /\ ProposalsTyped
    /\ BegunIsProposed
    /\ GoneIsOver
    /\ ProposalTraced
    /\ ProposalSentOnce
    /\ TradedIsNotShownAsRejected
    /\ RememberedIsReal
    /\ NotedResultIsReal

-----------------------------------------------------------------------------
(* The service implements the pipeline.                                    *)

LEMMA ApprovalsStepIsPipelineStep ==
    [ApprovalsNext]_allVars => [Next]_vars
  <1> SUFFICES ASSUME [ApprovalsNext]_allVars PROVE [Next]_vars
    OBVIOUS
  <1>1. CASE \E p \in SignalId : Propose(p) \/ PassTime(p) \/ Reject(p)
    BY <1>1 DEF Propose, PassTime, Reject
  <1>2. CASE Sweep
    BY <1>2 DEF Sweep
  <1>3. ASSUME NEW c \in Call, ApproveAtOnce(c) \/ ApproveAndWait(c) \/ Conclude(c)
        PROVE  Next
    BY <1>3 DEF ApproveAtOnce, ApproveAndWait, Conclude, Next, Execute
  <1>4. CASE Meanwhile
    BY <1>4 DEF Meanwhile, Next
  <1>5. CASE ResetCounts
    BY <1>5 DEF ResetCounts, Next
  <1>6. CASE RestartServer
    BY <1>6 DEF RestartServer, Next
  <1>7. CASE UNCHANGED allVars
    BY <1>7 DEF allVars
  <1>. QED
    BY <1>1, <1>2, <1>3, <1>4, <1>5, <1>6, <1>7 DEF ApprovalsNext

\* The approval service never drives the pipeline where execute() by itself
\* could not go, in the middle of an await or of a restart either
\* (approve, approval-service.ts:216).
THEOREM ApprovalsImplementPipeline == ApprovalsSpec => Spec
  <1>1. ApprovalsInit => Init
    BY DEF ApprovalsInit
  <1>. QED
    BY <1>1, ApprovalsStepIsPipelineStep, PTL DEF ApprovalsSpec, Spec

LEMMA PipelineInvariants == ApprovalsSpec => [](Typed /\ CallsInv)
  <1>1. Spec => []Typed
    BY InitTyped, NextTyped, PTL DEF Spec
  <1>. QED
    BY <1>1, CallsInvariant, ApprovalsImplementPipeline, PTL

-----------------------------------------------------------------------------
(* What the operators do.                                                  *)

\* The calls of a proposal are those of a key.
LEMMA SameProposalSameKey ==
    \A c, d \in Call : SignalOf[c] = SignalOf[d] <=> KeyOf(c) = KeyOf(d)
  BY OneCorrelationPerProposal DEF KeyOf

LEMMA SweptFacts ==
    ASSUME ProposalsTyped
    PROVE  /\ Swept \in [SignalId -> ProposalStatus \cup {"none", "gone"}]
           /\ \A p \in SignalId : Swept[p] # proposal[p] => proposal[p] = "pending"
                                                           /\ Swept[p] = "expired"
           /\ \A p \in SignalId : Refused(p) => Swept[p] # "pending"
  BY DEF Swept, ProposalsTyped, ProposalStatus, Refused

\* A proposal is decided, made or marked, not taken away.
OnlyMoves ==
    \A p \in SignalId : proposal'[p] # proposal[p] =>
        proposal[p] # "gone" /\ proposal'[p] \in ProposalStatus

\* It moves only while nothing has decided it.
OnlyDecides ==
    \A p \in SignalId : proposal'[p] # proposal[p] =>
        proposal[p] \in {"none", "pending"} /\ proposal'[p] \in ProposalStatus

LEMMA SignalTyped == \A c \in Call : SignalOf[c] \in SignalId /\ KeyOf(c) \in Key
  BY PipelineAssumption, KeyType

\* A step that leaves the calls alone and changes only what a pending or
\* unmade proposal says.
LEMMA ProposalsOnly ==
    ASSUME ApprovalsInv, UNCHANGED <<vars, outcome, cleared>>,
           ProposalsTyped', OnlyDecides
    PROVE  ApprovalsInv'
  <1>0. UNCHANGED <<pc, inflight, completed, broker, outcome, cleared>>
    BY DEF vars
  <1>1. BegunIsProposed' /\ GoneIsOver'
    BY <1>0, SignalTyped
    DEF ApprovalsInv, BegunIsProposed, GoneIsOver, OnlyDecides, ProposalStatus
  <1>2. ProposalTraced'
    BY <1>0, SignalTyped
    DEF ApprovalsInv, ProposalTraced, OnlyDecides, Sent
  <1>3. ProposalSentOnce' /\ RememberedIsReal' /\ NotedResultIsReal'
    BY <1>0 DEF ApprovalsInv, ProposalSentOnce, RememberedIsReal, TakenByBroker,
                NotedResultIsReal, Sent
  <1>4. TradedIsNotShownAsRejected'
    BY <1>0, SignalTyped
    DEF ApprovalsInv, TradedIsNotShownAsRejected, OnlyDecides, Sent
  <1>. QED
    BY <1>1, <1>2, <1>3, <1>4 DEF ApprovalsInv

\* A step that touches neither the calls nor the proposals, and of the
\* broker only what it does with orders it has.
LEMMA BrokerOnly ==
    ASSUME ApprovalsInv,
           UNCHANGED <<pc, inflight, completed, approvalVars>>,
           \A c \in Call : Sent(c)' <=> Sent(c),
           \A c \in Call : TakenByBroker(c) => TakenByBroker(c)'
    PROVE  ApprovalsInv'
  <1>0. UNCHANGED <<pc, inflight, completed, proposal, overdue, outcome, cleared>>
    BY DEF approvalVars
  <1>1. ProposalsTyped' /\ BegunIsProposed' /\ GoneIsOver'
    BY <1>0 DEF ApprovalsInv, ProposalsTyped, BegunIsProposed, GoneIsOver
  <1>2. ProposalTraced'
    BY <1>0 DEF ApprovalsInv, ProposalTraced
  <1>3. ProposalSentOnce' /\ TradedIsNotShownAsRejected'
    BY <1>0 DEF ApprovalsInv, ProposalSentOnce, TradedIsNotShownAsRejected
  <1>4. RememberedIsReal'
    BY <1>0 DEF ApprovalsInv, RememberedIsReal
  <1>5. NotedResultIsReal'
    <2>1. \A p \in SignalId : outcome[p] = "completed" =>
            \E c \in Call : SignalOf[c] = p /\ TakenByBroker(c)
      BY DEF ApprovalsInv, NotedResultIsReal, TakenByBroker
    <2>2. \A p \in SignalId : outcome'[p] = "completed" =>
            \E c \in Call : SignalOf[c] = p /\ TakenByBroker(c)'
      BY <2>1, <1>0
    <2>. QED
      BY <2>2 DEF NotedResultIsReal, TakenByBroker
  <1>. QED
    BY <1>1, <1>2, <1>3, <1>4, <1>5 DEF ApprovalsInv

-----------------------------------------------------------------------------
(* Each operation keeps the invariant.                                     *)

LEMMA ProposalsStep ==
    ASSUME ApprovalsInv,
           \/ \E p \in SignalId : Propose(p) \/ PassTime(p) \/ Reject(p)
           \/ Sweep
    PROVE  ApprovalsInv'
  <1>0. ProposalsTyped
    BY DEF ApprovalsInv
  <1>1. ASSUME NEW p \in SignalId, Propose(p)
        PROVE  ApprovalsInv'
    <2>1. ProposalsTyped' /\ OnlyDecides /\ UNCHANGED <<vars, outcome, cleared>>
      BY <1>0, <1>1 DEF Propose, ProposalsTyped, ProposalStatus, OnlyDecides
    <2>. QED
      BY <2>1, ProposalsOnly
  <1>2. ASSUME NEW p \in SignalId, PassTime(p)
        PROVE  ApprovalsInv'
    <2>1. ProposalsTyped' /\ OnlyDecides /\ UNCHANGED <<vars, outcome, cleared>>
      BY <1>0, <1>2 DEF PassTime, ProposalsTyped, ProposalStatus, OnlyDecides
    <2>. QED
      BY <2>1, ProposalsOnly
  <1>3. ASSUME NEW p \in SignalId, Reject(p)
        PROVE  ApprovalsInv'
    <2>1. ProposalsTyped' /\ OnlyDecides /\ UNCHANGED <<vars, outcome, cleared>>
      BY <1>0, <1>3, SweptFacts
      DEF Reject, ProposalsTyped, ProposalStatus, OnlyDecides
    <2>. QED
      BY <2>1, ProposalsOnly
  <1>4. CASE Sweep
    <2>1. ProposalsTyped' /\ OnlyDecides /\ UNCHANGED <<vars, outcome, cleared>>
      BY <1>0, <1>4, SweptFacts
      DEF Sweep, ProposalsTyped, ProposalStatus, OnlyDecides
    <2>. QED
      BY <2>1, ProposalsOnly
  <1>. QED
    BY <1>1, <1>2, <1>3, <1>4

\* The pipeline answers at once: what it remembers of the key, or a refusal.
LEMMA AnsweredAtOnce ==
    ASSUME TypeOK, NEW c \in Call, ReturnCompleted(c) \/ Refuse(c)
    PROVE  /\ pc[c] = "idle"
           /\ pc' = [d \in Call |-> IF d = c THEN "done" ELSE pc[d]]
           /\ result'[c] \in Stages
           /\ UNCHANGED <<inflight, broker>>
           /\ completed'[KeyOf(c)] = result'[c]
           /\ \A k \in Key : completed'[k] # completed[k] =>
                /\ k = KeyOf(c) /\ completed[k] = "none"
                /\ inflight[k] = NoCall
                /\ completed'[k] # "completed"
  <1>0. KeyOf(c) \in Key
    BY KeyType
  <1>1. CASE ReturnCompleted(c)
    BY <1>0, <1>1 DEF ReturnCompleted, Answer, CompletedResult, TypeOK
  <1>2. CASE Refuse(c)
    <2>1. PICK stage \in Verdicts \ {"accepted"} :
            Answer({c}, stage) /\ completed' = [completed EXCEPT ![KeyOf(c)] = stage]
      BY <1>2 DEF Refuse
    <2>2. stage \in Stages /\ stage # "completed"
      BY <2>1, PipelineAssumption DEF Verdicts, Stages
    <2>3. result'[c] = stage
      BY <2>1 DEF Answer
    <2>. QED
      BY <1>0, <1>2, <2>1, <2>2, <2>3
      DEF Refuse, Fresh, Answer, CompletedResult, InflightCall, TypeOK
  <1>. QED
    BY <1>1, <1>2

\* What approve() makes of the proposals when it is answered at once.
LEMMA ApprovedProposals ==
    ASSUME ProposalsTyped, NEW p \in SignalId, Approvable(p),
           proposal' = [Swept EXCEPT ![p] = Decided(@)]
    PROVE  /\ proposal[p] = "pending" /\ proposal'[p] = "approved"
           /\ \A q \in SignalId : q # p => proposal'[q] = Swept[q]
           /\ OnlyDecides
           /\ proposal' \in [SignalId -> ProposalStatus \cup {"none", "gone"}]
  BY SweptFacts DEF Approvable, Decided, OnlyDecides, ProposalStatus

LEMMA ApproveAtOnceStep ==
    ASSUME TypeOK, CallsInOrder, ApprovalsInv, NEW c \in Call, ApproveAtOnce(c)
    PROVE  ApprovalsInv'
  <1>0. /\ ProposalsTyped
        /\ SignalOf[c] \in SignalId
        /\ \A d \in Call : SignalOf[d] \in SignalId /\ KeyOf(d) \in Key
    BY SignalTyped DEF ApprovalsInv
  <1>1. /\ Approvable(SignalOf[c])
        /\ ReturnCompleted(c) \/ Refuse(c)
        /\ proposal' = [Swept EXCEPT ![SignalOf[c]] = Decided(@)]
        /\ outcome' = [outcome EXCEPT ![SignalOf[c]] = result'[c]]
        /\ UNCHANGED <<overdue, cleared>>
    BY DEF ApproveAtOnce
  <1>2. /\ proposal[SignalOf[c]] = "pending"
        /\ proposal'[SignalOf[c]] = "approved"
        /\ OnlyDecides
        /\ proposal' \in [SignalId -> ProposalStatus \cup {"none", "gone"}]
    BY <1>0, <1>1, ApprovedProposals
  <1>3. /\ pc[c] = "idle"
        /\ pc' = [d \in Call |-> IF d = c THEN "done" ELSE pc[d]]
        /\ result'[c] \in Stages
        /\ UNCHANGED <<inflight, broker>>
        /\ completed'[KeyOf(c)] = result'[c]
        /\ \A k \in Key : completed'[k] # completed[k] =>
             /\ k = KeyOf(c) /\ completed[k] = "none"
             /\ inflight[k] = NoCall
             /\ completed'[k] # "completed"
    BY <1>1, AnsweredAtOnce
  <1>4. ~Sent(c) /\ \A d \in Call : Sent(d)' <=> Sent(d)
    BY <1>3 DEF CallsInOrder, Sent
  <1>5. ProposalsTyped'
    BY <1>0, <1>1, <1>2, <1>3 DEF ProposalsTyped
  <1>6. BegunIsProposed' /\ GoneIsOver'
    BY <1>0, <1>2, <1>3
    DEF ApprovalsInv, BegunIsProposed, GoneIsOver, OnlyDecides, ProposalStatus
  <1>7. ProposalTraced'
    <2>1. SUFFICES ASSUME ~cleared, NEW d \in Call, proposal[SignalOf[d]] # "gone"
                   PROVE  /\ pc'[d] = "awaiting" => /\ inflight'[KeyOf(d)] = d
                                                    /\ completed'[KeyOf(d)] = "none"
                          /\ pc'[d] = "done" => completed'[KeyOf(d)] # "none"
                          /\ Sent(d)' => pc'[d] \in {"awaiting", "done"}
      BY <1>0, <1>1, <1>2 DEF ProposalTraced, OnlyDecides
    <2>2. /\ pc[d] = "awaiting" => /\ inflight[KeyOf(d)] = d
                                   /\ completed[KeyOf(d)] = "none"
          /\ pc[d] = "done" => completed[KeyOf(d)] # "none"
          /\ Sent(d) => pc[d] \in {"awaiting", "done"}
      BY <2>1 DEF ApprovalsInv, ProposalTraced
    <2>3. /\ d # NoCall /\ KeyOf(d) \in Key
          /\ "none" \notin Stages
      BY <1>0, PipelineAssumption DEF Stages
    <2>. QED
      BY <1>3, <1>4, <2>2, <2>3
  <1>8. ProposalSentOnce'
    BY <1>1, <1>4 DEF ApprovalsInv, ProposalSentOnce
  <1>9. TradedIsNotShownAsRejected'
    BY <1>0, <1>2, <1>3, <1>4
    DEF ApprovalsInv, TradedIsNotShownAsRejected, OnlyDecides
  <1>10. RememberedIsReal'
    BY <1>3 DEF ApprovalsInv, RememberedIsReal, TakenByBroker
  <1>11. NotedResultIsReal'
    <2>1. ASSUME result'[c] = "completed"
          PROVE  \E d \in Call : SignalOf[d] = SignalOf[c] /\ TakenByBroker(d)
      <3>1. completed[KeyOf(c)] = "completed"
        BY <1>0, <1>3, <2>1
      <3>2. PICK d \in Call : KeyOf(d) = KeyOf(c) /\ TakenByBroker(d)
        BY <1>0, <3>1 DEF ApprovalsInv, RememberedIsReal
      <3>. QED
        BY <3>2, SameProposalSameKey
    <2>. QED
      BY <1>0, <1>1, <1>3, <2>1
      DEF ApprovalsInv, ProposalsTyped, NotedResultIsReal, TakenByBroker
  <1>. QED
    BY <1>5, <1>6, <1>7, <1>8, <1>9, <1>10, <1>11 DEF ApprovalsInv

LEMMA ApproveAndWaitStep ==
    ASSUME TypeOK, CallsInOrder, ApprovalsInv, NEW c \in Call, ApproveAndWait(c)
    PROVE  ApprovalsInv'
  <1>0. /\ ProposalsTyped
        /\ SignalOf[c] \in SignalId
        /\ \A d \in Call : SignalOf[d] \in SignalId /\ KeyOf(d) \in Key
        /\ NoCall \notin Call
    BY SignalTyped, PipelineAssumption DEF ApprovalsInv
  <1>1. /\ Swept[SignalOf[c]] = "pending"
        /\ JoinInflight(c) \/ Submit(c)
        /\ proposal' = Swept
        /\ UNCHANGED <<overdue, outcome, cleared>>
    BY DEF ApproveAndWait, Approvable
  <1>2. /\ proposal[SignalOf[c]] = "pending"
        /\ proposal'[SignalOf[c]] = "pending"
        /\ OnlyDecides
        /\ ProposalsTyped'
    BY <1>0, <1>1, SweptFacts DEF OnlyDecides, ProposalsTyped, ProposalStatus
  <1>3. /\ pc[c] = "idle" /\ ~Sent(c)
        /\ pc'[c] \in {"awaiting", "joined"}
        /\ \A d \in Call : d # c => /\ pc'[d] = pc[d]
                                    /\ broker'[d] = broker[d]
        /\ completed' = completed
        /\ broker'[c] \in {"none", "sent"}
    BY <1>1 DEF JoinInflight, Submit, Fresh, CallsInOrder, TypeOK, Sent
  <1>4. ASSUME JoinInflight(c)
        PROVE  ProposalTraced' /\ ProposalSentOnce'
    <2>1. pc'[c] = "joined" /\ UNCHANGED <<inflight, broker>>
      BY <1>4 DEF JoinInflight, TypeOK
    <2>2. ProposalTraced'
      BY <1>0, <1>1, <1>2, <1>3, <2>1
      DEF ApprovalsInv, ProposalTraced, OnlyDecides, Sent
    <2>3. ProposalSentOnce'
      BY <1>1, <2>1 DEF ApprovalsInv, ProposalSentOnce, Sent
    <2>. QED
      BY <2>2, <2>3
  <1>5. ASSUME Submit(c)
        PROVE  ProposalTraced' /\ ProposalSentOnce'
    <2>1. /\ pc'[c] = "awaiting"
          /\ inflight' = [inflight EXCEPT ![KeyOf(c)] = c]
          /\ completed[KeyOf(c)] = "none"
          /\ inflight[KeyOf(c)] = NoCall
      BY <1>5 DEF Submit, Fresh, CompletedResult, InflightCall, TypeOK
    \* No call of the key is under way, answered or at the broker.
    <2>2. ASSUME ~cleared, NEW d \in Call, SignalOf[d] = SignalOf[c], d # c
          PROVE  pc[d] \notin {"awaiting", "done"} /\ ~Sent(d)
      <3>1. KeyOf(d) = KeyOf(c) /\ proposal[SignalOf[d]] # "gone"
        BY <1>2, <2>2, SameProposalSameKey
      <3>. QED
        BY <1>0, <2>1, <2>2, <3>1 DEF ApprovalsInv, ProposalTraced
    <2>3. ProposalTraced'
      <3>1. SUFFICES ASSUME ~cleared, NEW d \in Call,
                            proposal[SignalOf[d]] # "gone"
                     PROVE  /\ pc'[d] = "awaiting" =>
                                 /\ inflight'[KeyOf(d)] = d
                                 /\ completed'[KeyOf(d)] = "none"
                            /\ pc'[d] = "done" => completed'[KeyOf(d)] # "none"
                            /\ Sent(d)' => pc'[d] \in {"awaiting", "done"}
        BY <1>0, <1>1, <1>2 DEF ProposalTraced, OnlyDecides
      <3>2. CASE d = c
        BY <1>0, <1>3, <2>1, <3>2 DEF TypeOK
      <3>3. CASE d # c
        <4>1. /\ pc[d] = "awaiting" => /\ inflight[KeyOf(d)] = d
                                       /\ completed[KeyOf(d)] = "none"
              /\ pc[d] = "done" => completed[KeyOf(d)] # "none"
              /\ Sent(d) => pc[d] \in {"awaiting", "done"}
          BY <3>1 DEF ApprovalsInv, ProposalTraced
        <4>2. pc[d] = "awaiting" => KeyOf(d) # KeyOf(c)
          BY <2>2, <3>1, <3>3, SameProposalSameKey
        <4>. QED
          BY <1>0, <1>3, <2>1, <3>3, <4>1, <4>2 DEF Sent, TypeOK
      <3>. QED
        BY <3>2, <3>3
    <2>4. ProposalSentOnce'
      BY <1>1, <1>3, <2>2 DEF ApprovalsInv, ProposalSentOnce, Sent
    <2>. QED
      BY <2>3, <2>4
  <1>6. ProposalTraced' /\ ProposalSentOnce'
    BY <1>1, <1>4, <1>5
  <1>7. BegunIsProposed' /\ GoneIsOver'
    BY <1>0, <1>2, <1>3
    DEF ApprovalsInv, BegunIsProposed, GoneIsOver, OnlyDecides, ProposalStatus
  <1>8. TradedIsNotShownAsRejected'
    BY <1>0, <1>2, <1>3
    DEF ApprovalsInv, TradedIsNotShownAsRejected, OnlyDecides, Sent
  <1>9. ~TakenByBroker(c) /\ \A d \in Call : TakenByBroker(d)' <=> TakenByBroker(d)
    BY <1>3 DEF TakenByBroker, Sent, FillReports
  <1>10. RememberedIsReal'
    BY <1>3, <1>9 DEF ApprovalsInv, RememberedIsReal
  <1>11. NotedResultIsReal'
    BY <1>1, <1>9 DEF ApprovalsInv, NotedResultIsReal, TakenByBroker
  <1>. QED
    BY <1>2, <1>6, <1>7, <1>8, <1>10, <1>11 DEF ApprovalsInv

LEMMA ConcludeStep ==
    ASSUME CallsInv, ApprovalsInv, NEW c \in Call, Conclude(c)
    PROVE  ApprovalsInv'
  <1>0. /\ ProposalsTyped /\ TypeOK
        /\ SignalOf[c] \in SignalId
        /\ \A d \in Call : SignalOf[d] \in SignalId /\ KeyOf(d) \in Key
    BY SignalTyped DEF ApprovalsInv, CallsInv
  <1>1. /\ pc[c] = "awaiting" /\ broker[c] # "sent"
        /\ pc' = [d \in Call |-> IF d \in Waiting(c) THEN "done" ELSE pc[d]]
        /\ completed' = [completed EXCEPT ![KeyOf(c)] = StageOf(broker[c])]
        /\ inflight' = [inflight EXCEPT ![KeyOf(c)] = NoCall]
        /\ \A d \in Waiting(c) : d \in Call => result'[d] = StageOf(broker[c])
        /\ UNCHANGED <<broker, overdue, cleared>>
        /\ proposal' = [proposal EXCEPT ![SignalOf[c]] = "approved"]
        /\ outcome' = [outcome EXCEPT ![SignalOf[c]] = result'[c]]
    BY DEF Conclude, Resume, Answer, Decided
  <1>2. /\ c \in Waiting(c)
        /\ \A d \in Waiting(c) : SignalOf[d] = SignalOf[c] /\ KeyOf(d) = KeyOf(c)
        /\ Waiting(c) \subseteq Call
    BY <1>1, WaitingFacts, SameProposalSameKey
  <1>3. /\ StageOf(broker[c]) \in {"paper", "completed"}
        /\ result'[c] = StageOf(broker[c])
        /\ StageOf(broker[c]) = "completed" => TakenByBroker(c)
    <2>1. broker[c] # "none" /\ broker[c] # "sent"
      BY <1>1 DEF CallsInv, CallsInOrder, Sent
    <2>2. broker[c] \in BrokerOutcomes \cup {"cancelled"}
      BY <1>0, <2>1 DEF TypeOK
    <2>. QED
      BY <1>1, <1>2, <2>2 DEF StageOf, TakenByBroker, BrokerOutcomes, FillReports
  <1>4. /\ proposal[SignalOf[c]] \notin {"none", "gone"}
        /\ proposal'[SignalOf[c]] = "approved"
        /\ \A p \in SignalId : p # SignalOf[c] => proposal'[p] = proposal[p]
    BY <1>0, <1>1 DEF ApprovalsInv, BegunIsProposed, GoneIsOver, ProposalsTyped
  <1>5. ProposalsTyped'
    <2>1. result'[c] \in Stages
      BY <1>3 DEF Stages
    <2>. QED
      BY <1>0, <1>1, <2>1 DEF ProposalsTyped, ProposalStatus
  <1>6. BegunIsProposed' /\ GoneIsOver'
    BY <1>0, <1>1, <1>2, <1>4 DEF ApprovalsInv, BegunIsProposed, GoneIsOver
  <1>7. ProposalTraced'
    <2>1. SUFFICES ASSUME ~cleared, NEW d \in Call, proposal[SignalOf[d]] # "gone"
                   PROVE  /\ pc'[d] = "awaiting" => /\ inflight'[KeyOf(d)] = d
                                                    /\ completed'[KeyOf(d)] = "none"
                          /\ pc'[d] = "done" => completed'[KeyOf(d)] # "none"
                          /\ Sent(d)' => pc'[d] \in {"awaiting", "done"}
      BY <1>0, <1>1, <1>4 DEF ProposalTraced
    <2>2. \A e \in {c, d} :
          /\ pc[e] = "awaiting" => /\ inflight[KeyOf(e)] = e
                                   /\ completed[KeyOf(e)] = "none"
          /\ pc[e] = "done" => completed[KeyOf(e)] # "none"
          /\ Sent(e) => pc[e] \in {"awaiting", "done"}
      BY <2>1, <1>4 DEF ApprovalsInv, ProposalTraced
    <2>3. CASE d \in Waiting(c)
      BY <1>0, <1>1, <1>2, <1>3, <2>3 DEF TypeOK
    <2>4. CASE d \notin Waiting(c)
      <3>1. pc[d] = "awaiting" => KeyOf(d) # KeyOf(c)
        BY <1>1, <1>2, <2>2, <2>4
      <3>. QED
        BY <1>0, <1>1, <1>3, <2>2, <2>4, <3>1 DEF TypeOK, Sent
    <2>. QED
      BY <2>3, <2>4
  <1>8. ProposalSentOnce'
    BY <1>1 DEF ApprovalsInv, ProposalSentOnce, Sent
  <1>9. TradedIsNotShownAsRejected'
    BY <1>0, <1>1, <1>2, <1>4 DEF ApprovalsInv, TradedIsNotShownAsRejected, Sent
  <1>10. RememberedIsReal'
    BY <1>0, <1>1, <1>3 DEF ApprovalsInv, RememberedIsReal, TakenByBroker, TypeOK
  <1>11. NotedResultIsReal'
    BY <1>0, <1>1, <1>3
    DEF ApprovalsInv, NotedResultIsReal, ProposalsTyped, TakenByBroker
  <1>. QED
    BY <1>5, <1>6, <1>7, <1>8, <1>9, <1>10, <1>11 DEF ApprovalsInv

LEMMA MeanwhileStep ==
    ASSUME TypeOK, ApprovalsInv, Meanwhile
    PROVE  ApprovalsInv'
  <1>0. UNCHANGED approvalVars
    BY DEF Meanwhile
  <1>1. ASSUME NEW c \in Call, BrokerActs(c)
        PROVE  ApprovalsInv'
    <2>1. PICK o \in BrokerOutcomes : broker' = [broker EXCEPT ![c] = o]
      BY <1>1 DEF BrokerActs
    <2>2. broker[c] = "sent" /\ UNCHANGED <<pc, inflight, completed>>
      BY <1>1 DEF BrokerActs
    <2>3. \A d \in Call : Sent(d)' <=> Sent(d)
      BY <2>1, <2>2 DEF TypeOK, Sent, BrokerOutcomes
    <2>4. \A d \in Call : TakenByBroker(d) => TakenByBroker(d)'
      BY <2>1, <2>2 DEF TypeOK, TakenByBroker, FillReports
    <2>. QED
      BY <1>0, <2>2, <2>3, <2>4, BrokerOnly
  <1>2. CASE Trigger
    <2>1. /\ UNCHANGED <<pc, inflight, completed>>
          /\ \A d \in Call : Sent(d)' <=> Sent(d)
          /\ \A d \in Call : TakenByBroker(d) => TakenByBroker(d)'
      BY <1>2 DEF Trigger, Sent, TakenByBroker
    <2>. QED
      BY <1>0, <2>1, BrokerOnly
  <1>3. ASSUME \/ \E s \in SignalId, status \in {"CANCELLED", "REJECTED"} :
                    CloseOrder(s, status)
               \/ Rearm("ARMED") \/ Rearm("DISARMED")
        PROVE  ApprovalsInv'
    <2>1. UNCHANGED <<pc, inflight, completed, broker>>
      BY <1>3 DEF CloseOrder, Rearm
    <2>2. /\ \A d \in Call : Sent(d)' <=> Sent(d)
          /\ \A d \in Call : TakenByBroker(d) => TakenByBroker(d)'
      BY <2>1 DEF Sent, TakenByBroker
    <2>. QED
      BY <1>0, <2>1, <2>2, BrokerOnly
  <1>. QED
    BY <1>1, <1>2, <1>3 DEF Meanwhile

LEMMA ResetStep ==
    ASSUME ApprovalsInv, ResetCounts
    PROVE  ApprovalsInv'
  <1>1. /\ UNCHANGED <<pc, broker, proposal, overdue, outcome>>
        /\ completed' = [k \in Key |-> "none"]
        /\ cleared' = TRUE
    BY DEF ResetCounts, ResetDailyCounts
  <1>2. ProposalsTyped' /\ BegunIsProposed' /\ GoneIsOver'
    BY <1>1 DEF ApprovalsInv, ProposalsTyped, BegunIsProposed, GoneIsOver
  <1>3. ProposalTraced' /\ ProposalSentOnce' /\ RememberedIsReal'
    BY <1>1 DEF ProposalTraced, ProposalSentOnce, RememberedIsReal
  <1>4. TradedIsNotShownAsRejected' /\ NotedResultIsReal'
    BY <1>1 DEF ApprovalsInv, TradedIsNotShownAsRejected, NotedResultIsReal, Sent
  <1>. QED
    BY <1>2, <1>3, <1>4 DEF ApprovalsInv

LEMMA RestartStep ==
    ASSUME CallsInOrder, ApprovalsInv, RestartServer
    PROVE  ApprovalsInv'
  <1>0. ProposalsTyped /\ \A d \in Call : SignalOf[d] \in SignalId
    BY SignalTyped DEF ApprovalsInv
  <1>1. /\ proposal' = Gone
        /\ outcome' = [p \in SignalId |-> "none"]
        /\ UNCHANGED <<overdue, cleared>>
    BY DEF RestartServer
  <1>2. PICK gone \in SUBSET Call :
          /\ Unanswered \subseteq gone
          /\ \A d \in gone : proposal[SignalOf[d]] # "none"
          /\ pc' = [d \in Call |-> IF d \in gone THEN "lost" ELSE pc[d]]
          /\ completed' = [k \in Key |-> "none"]
          /\ UNCHANGED broker
    <2>1. \A d \in Unanswered : d \in Call /\ proposal[SignalOf[d]] # "none"
      BY DEF Unanswered, ApprovalsInv, BegunIsProposed
    <2>2. CASE Restart
      BY <2>1, <2>2 DEF Restart, RestartWith
    <2>3. ASSUME NEW c \in Call, Approvable(SignalOf[c]), CrashMidSubmit(c)
          PROVE  \E gone \in SUBSET Call :
                   /\ Unanswered \subseteq gone
                   /\ \A d \in gone : proposal[SignalOf[d]] # "none"
                   /\ pc' = [d \in Call |-> IF d \in gone THEN "lost" ELSE pc[d]]
                   /\ completed' = [k \in Key |-> "none"]
                   /\ UNCHANGED broker
      <3>1. proposal[SignalOf[c]] # "none"
        BY <1>0, <2>3, SweptFacts DEF Approvable
      <3>2. Unanswered \cup {c} \in SUBSET Call
        BY <2>1
      <3>. QED
        BY <2>1, <2>3, <3>1, <3>2 DEF CrashMidSubmit, RestartWith
    <2>. QED
      BY <2>2, <2>3 DEF RestartServer
  <1>3. \A p \in SignalId : /\ proposal'[p] \in {"none", "gone"}
                            /\ proposal'[p] = "none" <=> proposal[p] = "none"
    BY <1>1 DEF Gone
  <1>4. ProposalsTyped'
    BY <1>0, <1>1 DEF ProposalsTyped, Gone
  <1>5. BegunIsProposed'
    BY <1>0, <1>2, <1>3 DEF ApprovalsInv, BegunIsProposed
  <1>6. GoneIsOver'
    BY <1>2 DEF GoneIsOver, Unanswered
  <1>7. ProposalTraced'
    <2>1. ASSUME NEW d \in Call, proposal'[SignalOf[d]] # "gone"
          PROVE  pc'[d] = "idle" /\ ~Sent(d)'
      <3>1. proposal[SignalOf[d]] = "none"
        BY <1>0, <1>3, <2>1
      <3>2. pc[d] = "idle" /\ d \notin gone
        BY <1>2, <3>1 DEF ApprovalsInv, BegunIsProposed
      <3>. QED
        BY <1>2, <3>2 DEF CallsInOrder, Sent
    <2>. QED
      BY <2>1 DEF ProposalTraced
  <1>8. ProposalSentOnce'
    BY <1>1, <1>2 DEF ApprovalsInv, ProposalSentOnce, Sent
  <1>9. TradedIsNotShownAsRejected'
    <2>1. \A d \in Call : Sent(d)' => pc[d] # "idle"
      BY <1>2 DEF CallsInOrder, Sent
    <2>. QED
      BY <1>0, <1>3, <2>1
      DEF ApprovalsInv, BegunIsProposed, TradedIsNotShownAsRejected
  <1>10. RememberedIsReal' /\ NotedResultIsReal'
    BY <1>1, <1>2 DEF RememberedIsReal, NotedResultIsReal
  <1>. QED
    BY <1>4, <1>5, <1>6, <1>7, <1>8, <1>9, <1>10 DEF ApprovalsInv

LEMMA ApprovalsPreserved ==
    ASSUME Typed, CallsInv, ApprovalsInv, [ApprovalsNext]_allVars
    PROVE  ApprovalsInv'
  <1>0. TypeOK /\ CallsInOrder
    BY DEF CallsInv
  <1>1. ASSUME NEW c \in Call, ApproveAtOnce(c) \/ ApproveAndWait(c) \/ Conclude(c)
        PROVE  ApprovalsInv'
    BY <1>0, <1>1, ApproveAtOnceStep, ApproveAndWaitStep, ConcludeStep
  <1>2. CASE UNCHANGED allVars
    <2>1. UNCHANGED <<vars, outcome, cleared>> /\ UNCHANGED <<proposal, overdue>>
      BY <1>2 DEF allVars, approvalVars
    <2>2. ProposalsTyped' /\ OnlyDecides
      BY <2>1 DEF ApprovalsInv, ProposalsTyped, OnlyDecides
    <2>. QED
      BY <2>1, <2>2, ProposalsOnly
  <1>. QED
    BY <1>0, <1>1, <1>2, ProposalsStep, MeanwhileStep, ResetStep, RestartStep
    DEF ApprovalsNext

LEMMA InitApprovals == ApprovalsInit => ApprovalsInv
  <1> SUFFICES ASSUME ApprovalsInit PROVE ApprovalsInv
    OBVIOUS
  <1>0. \A c \in Call : /\ pc[c] = "idle" /\ ~Sent(c)
                        /\ SignalOf[c] \in SignalId
    BY SignalTyped DEF ApprovalsInit, Init, Sent
  <1>1. ProposalsTyped
    <2>1. cleared \in BOOLEAN
      BY DEF ApprovalsInit
    <2>. QED
      BY <2>1 DEF ApprovalsInit, ProposalsTyped
  <1>2. RememberedIsReal
    BY DEF ApprovalsInit, Init, RememberedIsReal
  <1>3. NotedResultIsReal
    BY DEF ApprovalsInit, NotedResultIsReal
  <1>. QED
    BY <1>0, <1>1, <1>2, <1>3
    DEF ApprovalsInv, BegunIsProposed, GoneIsOver, ProposalTraced,
        ProposalSentOnce, TradedIsNotShownAsRejected

LEMMA ApprovalsInvariant == ApprovalsSpec => [](Typed /\ CallsInv /\ ApprovalsInv)
  <1>. QED
    BY InitApprovals, ApprovalsPreserved, PipelineInvariants, PTL DEF ApprovalsSpec

-----------------------------------------------------------------------------
(* The theorems.                                                           *)

\* The proposals and what they note stay what the code's types say, through
\* approvals that overlap and restarts (approve, approval-service.ts:216).
THEOREM ApprovalsTypeCorrect == ApprovalsSpec => []ApprovalsTypeOK
  <1>1. CallsInv /\ ApprovalsInv => ApprovalsTypeOK
    BY DEF CallsInv, ApprovalsInv, ProposalsTyped, ApprovalsTypeOK
  <1>. QED
    BY <1>1, ApprovalsInvariant, PTL

\* One proposal, one order at the broker: two approve() calls of it, one
\* after a restart included, do not both send, as long as resetDailyCounts
\* did not empty the pipeline's maps (approve, approval-service.ts:216).
THEOREM ProposalSentOnceAlways == ApprovalsSpec => []ProposalSentOnce
  <1>1. ApprovalsInv => ProposalSentOnce
    BY DEF ApprovalsInv
  <1>. QED
    BY <1>1, ApprovalsInvariant, PTL

\* A proposal whose order was sent and answered says approved, or is gone
\* with its process: approve() writes its decision over a rejection that came
\* during the await (approve, approval-service.ts:216).
THEOREM TradedIsNotShownAsRejectedAlways ==
    ApprovalsSpec => []TradedIsNotShownAsRejected
  <1>1. ApprovalsInv => TradedIsNotShownAsRejected
    BY DEF ApprovalsInv
  <1>. QED
    BY <1>1, ApprovalsInvariant, PTL

\* "completed" is noted in a proposal only if the broker took the order of
\* one of its approvals, remembered results included.
THEOREM NotedResultIsRealAlways == ApprovalsSpec => []NotedResultIsReal
  <1>1. ApprovalsInv => NotedResultIsReal
    BY DEF ApprovalsInv
  <1>. QED
    BY <1>1, ApprovalsInvariant, PTL

\* A refusal that no approval was under way for is final: sweep() comes
\* before the status is read, and reject() before a later approve().
THEOREM RefusalsStandAlways == ApprovalsSpec => RefusalsStand
  <1>1. ASSUME CallsInv, ApprovalsInv, [ApprovalsNext]_allVars
        PROVE  [\A p \in SignalId : Refused(p) /\ ~AtBroker(p)
                  => proposal'[p] # "approved" /\ ~AtBroker(p)']_allVars
    <2>0. /\ ProposalsTyped /\ TypeOK
          /\ \A c \in Call : SignalOf[c] \in SignalId
      BY <1>1, SignalTyped DEF ApprovalsInv, CallsInv
    <2>1. SUFFICES ASSUME ApprovalsNext, NEW p \in SignalId, Refused(p), ~AtBroker(p)
                   PROVE  proposal'[p] # "approved" /\ ~AtBroker(p)'
      BY <1>1
    <2>2. /\ Swept[p] # "pending" /\ Swept[p] # "approved"
          /\ proposal[p] # "approved" /\ proposal[p] # "none"
      BY <2>0, <2>1, SweptFacts DEF Refused
    <2>3. \A c \in Call : SignalOf[c] = p => pc[c] \notin {"awaiting", "joined"}
      BY <2>1 DEF AtBroker
    <2>4. ASSUME NEW q \in SignalId, Propose(q) \/ PassTime(q) \/ Reject(q)
          PROVE  proposal'[p] # "approved" /\ ~AtBroker(p)'
      <3>1. UNCHANGED pc
        BY <2>4 DEF Propose, PassTime, Reject, vars
      <3>2. proposal'[p] # "approved"
        BY <2>0, <2>2, <2>4, SweptFacts DEF Propose, PassTime, Reject, ProposalsTyped
      <3>. QED
        BY <2>3, <3>1, <3>2 DEF AtBroker
    <2>5. CASE Sweep
      <3>1. UNCHANGED pc
        BY <2>5 DEF Sweep, vars
      <3>. QED
        BY <2>2, <2>3, <2>5, <3>1 DEF Sweep, AtBroker
    <2>6. ASSUME NEW c \in Call, ApproveAtOnce(c)
          PROVE  proposal'[p] # "approved" /\ ~AtBroker(p)'
      <3>1. SignalOf[c] # p
        BY <2>2, <2>6 DEF ApproveAtOnce, Approvable
      <3>2. \A d \in Call : d # c => pc'[d] = pc[d]
        BY <2>0, <2>6, AnsweredAtOnce DEF ApproveAtOnce
      <3>3. proposal'[p] = Swept[p]
        BY <2>0, <2>6, <3>1, ApprovedProposals DEF ApproveAtOnce
      <3>. QED
        BY <2>2, <2>3, <3>1, <3>2, <3>3 DEF AtBroker
    <2>7. ASSUME NEW c \in Call, ApproveAndWait(c)
          PROVE  proposal'[p] # "approved" /\ ~AtBroker(p)'
      <3>1. SignalOf[c] # p /\ proposal'[p] = Swept[p]
        BY <2>2, <2>7 DEF ApproveAndWait, Approvable
      <3>2. \A d \in Call : d # c => pc'[d] = pc[d]
        BY <2>0, <2>7 DEF ApproveAndWait, JoinInflight, Submit, TypeOK
      <3>. QED
        BY <2>2, <2>3, <3>1, <3>2 DEF AtBroker
    <2>8. ASSUME NEW c \in Call, Conclude(c)
          PROVE  proposal'[p] # "approved" /\ ~AtBroker(p)'
      <3>1. SignalOf[c] # p
        BY <2>3, <2>8 DEF Conclude, Resume
      <3>2. proposal'[p] = proposal[p]
        BY <2>0, <2>8, <3>1 DEF Conclude, ProposalsTyped
      <3>3. \A d \in Call : pc'[d] \in {pc[d], "done"}
        BY <2>8 DEF Conclude, Resume, Answer
      <3>. QED
        BY <2>2, <2>3, <3>2, <3>3 DEF AtBroker
    <2>9. CASE Meanwhile \/ ResetCounts
      <3>1. UNCHANGED pc /\ UNCHANGED proposal
        BY <2>9 DEF Meanwhile, BrokerActs, CloseOrder, Trigger, Rearm,
                    ResetCounts, ResetDailyCounts, approvalVars
      <3>. QED
        BY <2>2, <2>3, <3>1 DEF AtBroker
    <2>10. CASE RestartServer
      <3>1. proposal'[p] # "approved"
        BY <2>10 DEF RestartServer, Gone
      <3>2. \A d \in Call : pc'[d] \in {pc[d], "lost"}
        BY <2>10 DEF RestartServer, Restart, CrashMidSubmit, RestartWith
      <3>. QED
        BY <2>3, <3>1, <3>2 DEF AtBroker
    <2>. QED
      BY <2>1, <2>4, <2>5, <2>6, <2>7, <2>8, <2>9, <2>10 DEF ApprovalsNext
  <1>. QED
    BY <1>1, ApprovalsInvariant, PTL DEF ApprovalsSpec, RefusalsStand
=============================================================================
