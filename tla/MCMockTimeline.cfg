SPECIFICATION Spec

CONSTANTS
    e1 = e1
    e2 = e2
    r1 = r1
    r2 = r2
    Ids <- OneEndpoint
    Requests <- TwoRequests
    ColdStart = 2
    IdleTimeout = 3
    Horizon = 7
    FailFor = 1
    VirtualClock = TRUE

SYMMETRY Symmetry

PROPERTIES
    ImplementsTimeline
