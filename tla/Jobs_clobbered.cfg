\* A clear between finish and re-read turns a done job into a cancelled one.
CONSTANTS
    j1 = j1
    j2 = j2
    c1 = c1
    c2 = c2
    s1 = s1
    g1 = g1
    Job <- OneJob
    Canceller <- OneCancel
    Clearer <- OneClear
    Poller <- NoRequest
    Keep = 1
    Faults <- NoFaults
SPECIFICATION Spec
CHECK_DEADLOCK FALSE
INVARIANTS
    VerdictRespected
