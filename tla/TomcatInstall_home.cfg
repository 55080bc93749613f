\* Two updates and an uninstall, overlapping or not, every fault.
CONSTANTS
    i1 = i1
    i2 = i2
    r1 = r1
    a1 = a1
    a2 = a2
    Installer <- TwoInstalls
    Remover <- OneRemoval
    App <- TwoApps
    Faults <- AllFaults
SPECIFICATION Spec
CHECK_DEADLOCK FALSE
SYMMETRY Symmetry
INVARIANTS
    TypeOK
    LiveIsComplete
    HomeKept
PROPERTIES
    RemovedOnlyWhenDown
