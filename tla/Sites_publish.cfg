\* Any two requests, overlapping or not, every fault.
CONSTANTS
    a1 = a1
    a2 = a2
    d1 = d1
    d2 = d2
    r1 = r1
    r2 = r2
    App <- TwoApps
    Domain <- TwoDomains
    Request <- TwoRequests
    Covered <- OneDomain
    HasKey = TRUE
    ClassApi = TRUE
    Certbot = TRUE
    Faults <- AllFaults
SPECIFICATION Spec
CHECK_DEADLOCK FALSE
SYMMETRY Symmetry
VIEW LiveView
INVARIANTS
    TypeOK
PROPERTIES
    FailedSetKeepsSite
    NameKept
    TlsOffIsOff
    ForeignKept
