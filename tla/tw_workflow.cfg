SPECIFICATION FairSpec
CONSTANTS
    Run = {r1}
    Request = {q1, q2}
    Boot = Boot
    NoRun = NoRun
    MaxRestarts = 2
CHECK_DEADLOCK FALSE
INVARIANTS
    TypeOK
    OrderHasRecordedApproval
    SentOnceUndivided
    RunningIsDriven
    FileCatchesUp
PROPERTIES
    SettledRecordIsFinal
    EveryRunSettles
