\* Two cancellers and a clear beside one job, under fairness; no process is killed from outside.
CONSTANTS
    j1 = j1
    j2 = j2
    c1 = c1
    c2 = c2
    s1 = s1
    g1 = g1
    Job <- OneJob
    Canceller <- TwoCancels
    Clearer <- OneClear
    Poller <- NoRequest
    Keep = 0
    Faults <- Obstacles
SPECIFICATION FairSpec
CHECK_DEADLOCK FALSE
PROPERTIES
    FinalizesUnlessSignalled
    CancelReturns
