SPECIFICATION Spec
CONSTANTS
    Run = {r1}
    Request = {q1, q2}
    Boot = Boot
    NoRun = NoRun
    MaxRestarts = 0
CHECK_DEADLOCK FALSE
INVARIANT
    SentOnce
