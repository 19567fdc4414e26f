------------------------------ MODULE Approvals ------------------------------
(***************************************************************************)
(* The ApprovalService (approvals/approval-service.ts) on top of the       *)
(* ExecutionPipeline it hands approved proposals to.                       *)
(*                                                                         *)
(* A proposal is named by its id, which approve() uses as the id of the    *)
(* signal, so SignalId is the set of proposals and a Call is one request   *)
(* to approve.  approve() runs without a pause up to the pipeline's await  *)
(* of the broker, and from the pipeline's answer to its end: nothing but   *)
(* other continuations of the same answer comes between execute() settling *)
(* and approve() writing the decision.                                     *)
(*                                                                         *)
(* The proposals live in memory and their ids are never used again: after  *)
(* a restart they are gone, while the orders are read back.                *)
(***************************************************************************)
EXTENDS ExecutionPipeline

VARIABLES proposal,  \* the status of each proposal
          overdue,   \* the proposals whose expiresAt has passed
          outcome,   \* the result noted in each proposal
          cleared    \* history: resetDailyCounts was called

approvalVars == <<proposal, overdue, outcome, cleared>>

allVars == <<vars, approvalVars>>

\* approve() passes planId, which the proposal fixes, or the id itself.
ASSUME OneCorrelationPerProposal ==
    \A c, d \in Call : SignalOf[c] = SignalOf[d] => CorrOf[c] = CorrOf[d]

ProposalStatus == {"pending", "approved", "rejected", "expired"}

ApprovalsTypeOK ==
    /\ TypeOK
    /\ proposal \in [SignalId -> ProposalStatus \cup {"none", "gone"}]
    /\ overdue \subseteq SignalId
    /\ outcome \in [SignalId -> Stages \cup {"none"}]
    /\ cleared \in BOOLEAN

ApprovalsInit ==
    /\ Init
    /\ proposal = [p \in SignalId |-> "none"]
    /\ overdue = {}
    /\ outcome = [p \in SignalId |-> "none"]
    /\ cleared = FALSE

-----------------------------------------------------------------------------
(* Proposals.                                                              *)

\* What sweep() makes of the proposals: a pending one that is overdue has
\* expired.  Every operation that takes a proposal's id sweeps first.
Swept == [p \in SignalId |->
            IF proposal[p] = "pending" /\ p \in overdue THEN "expired"
                                                        ELSE proposal[p]]

\* propose(): by the route, or by the handler of quant.signal.
Propose(p) ==
    /\ proposal[p] = "none"
    /\ proposal' = [proposal EXCEPT ![p] = "pending"]
    /\ UNCHANGED <<vars, overdue, outcome, cleared>>

\* The clock passes the proposal's expiresAt.
PassTime(p) ==
    /\ proposal[p] = "pending"
    /\ p \notin overdue
    /\ overdue' = overdue \cup {p}
    /\ UNCHANGED <<vars, proposal, outcome, cleared>>

\* list() and get(), and an approve() or reject() that is then refused.
Sweep ==
    /\ proposal' = Swept
    /\ UNCHANGED <<vars, overdue, outcome, cleared>>

\* reject(): it does not know of an approval that is under way.
Reject(p) ==
    /\ Swept[p] = "pending"
    /\ proposal' = [Swept EXCEPT ![p] = "rejected"]
    /\ UNCHANGED <<vars, overdue, outcome, cleared>>

-----------------------------------------------------------------------------
(* approve().                                                              *)

\* Seeded fault: the status is read without the sweep.
Approvable_Unswept(p) == proposal[p] = "pending"

Approvable(p) == Swept[p] = "pending"

\* Seeded fault: a decision that was taken meanwhile is left standing.
Decided_IfPending(status) == IF status = "pending" THEN "approved" ELSE status

\* What approve() writes when execute() has settled, whatever happened to
\* the proposal during the await.
Decided(status) == "approved"

\* The pipeline answers at once, with a remembered result or a refusal.
ApproveAtOnce(c) ==
    /\ Approvable(SignalOf[c])
    /\ ReturnCompleted(c) \/ Refuse(c)
    /\ proposal' = [Swept EXCEPT ![SignalOf[c]] = Decided(@)]
    /\ outcome' = [outcome EXCEPT ![SignalOf[c]] = result'[c]]
    /\ UNCHANGED <<overdue, cleared>>

\* The pipeline awaits the broker, for this approval or for another one of
\* the same proposal.  The proposal stays pending.
ApproveAndWait(c) ==
    /\ Approvable(SignalOf[c])
    /\ JoinInflight(c) \/ Submit(c)
    /\ proposal' = Swept
    /\ UNCHANGED <<overdue, outcome, cleared>>

\* The broker has answered: the pipeline answers the approvals that wait
\* for it, and they write their decision.
Conclude(c) ==
    /\ Resume(c)
    /\ proposal' = [proposal EXCEPT ![SignalOf[c]] = Decided(@)]
    /\ outcome' = [outcome EXCEPT ![SignalOf[c]] = result'[c]]
    /\ UNCHANGED <<overdue, cleared>>

-----------------------------------------------------------------------------
(* What may come in between.                                               *)

Meanwhile ==
    /\ \/ \E c \in Call : BrokerActs(c)
       \/ \E s \in SignalId, status \in {"CANCELLED", "REJECTED"} :
            CloseOrder(s, status)
       \/ Trigger
       \/ Rearm("ARMED")
       \/ Rearm("DISARMED")
    /\ UNCHANGED approvalVars

ResetCounts ==
    /\ ResetDailyCounts
    /\ cleared' = TRUE
    /\ UNCHANGED <<proposal, overdue, outcome>>

Gone == [p \in SignalId |-> IF proposal[p] = "none" THEN "none" ELSE "gone"]

\* The process restarts, perhaps in the middle of an approve().
RestartServer ==
    /\ \/ Restart
       \/ \E c \in Call : Approvable(SignalOf[c]) /\ CrashMidSubmit(c)
    /\ proposal' = Gone
    /\ outcome' = [p \in SignalId |-> "none"]
    /\ UNCHANGED <<overdue, cleared>>

ApprovalsNext ==
    \/ \E p \in SignalId : Propose(p) \/ PassTime(p) \/ Reject(p)
    \/ Sweep
    \/ \E c \in Call : ApproveAtOnce(c) \/ ApproveAndWait(c) \/ Conclude(c)
    \/ Meanwhile
    \/ ResetCounts
    \/ RestartServer

\* The broker settles each createOrder, and the event loop resumes the call.
ApprovalsFairness ==
    \A c \in Call :
        /\ WF_allVars(BrokerActs(c) /\ UNCHANGED approvalVars)
        /\ WF_allVars(Conclude(c))

ApprovalsSpec ==
    ApprovalsInit /\ [][ApprovalsNext]_allVars /\ ApprovalsFairness

-----------------------------------------------------------------------------
(* Properties.                                                             *)

\* One proposal, one order: however many approvals of it overlap, follow
\* each other or are cut off by a restart, one of them reaches the broker,
\* unless resetDailyCounts emptied the pipeline's maps in between.
ProposalSentOnce ==
    ~cleared => \A c, d \in Call :
        SignalOf[c] = SignalOf[d] /\ Sent(c) /\ Sent(d) => c = d

\* A proposal whose order was sent and answered says approved: a rejection
\* or an expiry that came during the await does not hide the trade.
TradedIsNotShownAsRejected ==
    \A c \in Call : Sent(c) /\ pc[c] = "done" =>
        proposal[SignalOf[c]] \in {"approved", "gone"}

\* The result noted in a proposal is true of the broker: "completed" is
\* noted only if the broker took the order of one of its approvals.
NotedResultIsReal ==
    \A p \in SignalId : outcome[p] = "completed" =>
        \E c \in Call : /\ SignalOf[c] = p
                        /\ broker[c] \in FillReports \cup {"open", "cancelled"}

AtBroker(p) ==
    \E c \in Call : SignalOf[c] = p /\ pc[c] \in {"awaiting", "joined"}

Refused(p) ==
    \/ proposal[p] \in {"rejected", "expired"}
    \/ proposal[p] = "pending" /\ p \in overdue

\* A proposal that ran out of time or was rejected is final, unless an
\* approval of it was under way: no later approval revives it or sends it.
RefusalsStand ==
    [][\A p \in SignalId : Refused(p) /\ ~AtBroker(p)
         => proposal'[p] # "approved" /\ ~AtBroker(p)']_allVars
=============================================================================
