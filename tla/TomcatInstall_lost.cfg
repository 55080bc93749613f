\* The second rename of a swap fails.
CONSTANTS
    i1 = i1
    i2 = i2
    r1 = r1
    a1 = a1
    a2 = a2
    Installer <- OneInstall
    Remover <- NoRequest
    App <- TwoApps
    Faults <- SwapOnly
SPECIFICATION Spec
CHECK_DEADLOCK FALSE
SYMMETRY Symmetry
PROPERTIES
    FailureKeepsInstall
