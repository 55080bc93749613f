\* Two updates and an uninstall beside an operator, every fault.
CONSTANTS
    i1 = i1
    i2 = i2
    r1 = r1
    a1 = a1
    a2 = a2
    Installer <- TwoInstalls
    Remover <- OneRemoval
    App <- TwoApps
    Distro = TRUE
    Faults <- AllFaults
SPECIFICATION Spec
CHECK_DEADLOCK FALSE
SYMMETRY Symmetry
VIEW LiveView
ACTION_CONSTRAINT Calm
INVARIANTS
    TypeOK
    LiveIsProven
    RuntimeKept
PROPERTIES
    FailureRestores
    UpdateKeepsServices
    PinsRespected
