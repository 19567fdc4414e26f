SPECIFICATION Spec
CONSTANTS
    c1 = c1
    c2 = c2
    c3 = c3
    c4 = c4
    s1 = s1
    s2 = s2
    r1 = r1
    r2 = r2
    Call = {c1}
    SignalId = {s1, s2}
    Corr = {r1, r2}
    SignalOf <- MCSignalOf
    CorrOf <- MCCorrOf
    NoCall = NoCall
    DataRefusals = {"risk"}
    MaxDailyOrders = 1
    MaxOpenOrders = 2
    MaxInterruptions = 1
CHECK_DEADLOCK FALSE
INVARIANTS
    HaltLeavesNothingOpen
