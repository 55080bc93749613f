\* One request; the panel refuses to switch, certbot is not installed.
CONSTANTS
    a1 = a1
    a2 = a2
    d1 = d1
    d2 = d2
    r1 = r1
    r2 = r2
    App <- OneApp
    Domain <- OneDomain
    Request <- OneRequest
    Covered <- NoDomain
    HasKey = TRUE
    ClassApi = TRUE
    Certbot = FALSE
    Faults <- PanelOnly
SPECIFICATION Spec
CHECK_DEADLOCK FALSE
SYMMETRY Symmetry
PROPERTIES
    MarkedIsServed
