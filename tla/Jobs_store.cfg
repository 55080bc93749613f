\* Every fault, two cancellers, a clear and a poll race over one record.
CONSTANTS
    j1 = j1
    j2 = j2
    c1 = c1
    c2 = c2
    s1 = s1
    g1 = g1
    Job <- OneJob
    Canceller <- TwoCancels
    Clearer <- OneClear
    Poller <- OnePoll
    Keep = 0
    Faults <- AllFaults
SPECIFICATION Spec
CHECK_DEADLOCK FALSE
SYMMETRY CancelSymmetry
INVARIANTS
    TypeOK
    StoreInv
    CancelledMeansGone
PROPERTIES
    TerminalIsFinal
    ActiveNeverRemoved
    SignalsOwnGroup
    ImplementsLedger
