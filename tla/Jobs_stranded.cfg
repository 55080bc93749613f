\* A cancellation that loses a race strands the record.
CONSTANTS
    j1 = j1
    j2 = j2
    c1 = c1
    c2 = c2
    s1 = s1
    g1 = g1
    Job <- OneJob
    Canceller <- OneCancel
    Clearer <- NoRequest
    Poller <- NoRequest
    Keep = 1
    Faults <- NoFaults
SPECIFICATION WorkSpec
CHECK_DEADLOCK FALSE
PROPERTIES
    SelfFinalizing
