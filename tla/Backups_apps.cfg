\* Two requests of any kind, overlapping or one after the other, under every fault.
CONSTANTS
    a1 = a1  a2 = a2  d1 = d1  d2 = d2  p1 = p1  r1 = r1  r2 = r2
    App <- Apps
    Domain <- Domains
    Port <- Ports
    Taken <- Three
    Request <- TwoRequests
    Faults <- AllFaults
    Stamp <- Stamps
    Keep <- Keeps
    Profile <- Profiles
    Initial <- Starts
SPECIFICATION Spec
CONSTRAINT OverlapOfBackups
VIEW Seen
SYMMETRY Symmetry
CHECK_DEADLOCK FALSE
INVARIANTS
    TypeOK
    PortsDistinct
    MarkedForRemoval
    SiteRemembered
PROPERTIES
    OwnSiteOnly
    FailedStagingHarmless
    PruneKeepsNewest
