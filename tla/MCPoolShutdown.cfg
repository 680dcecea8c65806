SPECIFICATION FairSpec

CONSTANTS
    j1 = j1
    j2 = j2
    j3 = j3
    w1 = w1
    w2 = w2
    Drainer = drainer
    NoJob = NoJob
    Jobs <- TwoJobs
    Workers <- TwoWorkers
    Capacity = 1
    MaxAttempts = 2
    StuckJobs <- NoStuckJob

PROPERTIES
    ShutdownBounded
    ImplementsLedger
    ImplementsSummary
