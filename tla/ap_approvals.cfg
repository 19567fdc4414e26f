SPECIFICATION ApprovalsSpec
CONSTANTS
    c1 = c1
    c2 = c2
    c3 = c3
    p1 = p1
    p2 = p2
    r1 = r1
    r2 = r2
    Call = {c1, c2, c3}
    SignalId = {p1, p2}
    Corr = {r1, r2}
    SignalOf <- MCSignalOf
    CorrOf <- MCCorrOf
    NoCall = NoCall
    DataRefusals = {"risk"}
    MaxDailyOrders = 2
    MaxOpenOrders = 2
    MaxInterruptions = 1
CHECK_DEADLOCK FALSE
INVARIANTS
    ApprovalsTypeOK
    ProposalSentOnce
    TradedIsNotShownAsRejected
    NotedResultIsReal
PROPERTIES
    RefusalsStand
    EveryCallEnds
