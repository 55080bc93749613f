\* Two jobs, a canceller and a poll; every fault but a failing metadata write.
CONSTANTS
    j1 = j1
    j2 = j2
    c1 = c1
    c2 = c2
    s1 = s1
    g1 = g1
    Job <- TwoJobs
    Canceller <- OneCancel
    Clearer <- NoRequest
    Poller <- OnePoll
    Keep = 1
    Faults <- NoIoFault
SPECIFICATION Spec
CHECK_DEADLOCK FALSE
INVARIANTS
    OutcomeIsTrue
PROPERTIES
    RetentionKept
