SPECIFICATION Spec

CONSTANTS
    j1 = j1
    j2 = j2
    j3 = j3
    w1 = w1
    w2 = w2
    Drainer = drainer
    NoJob = NoJob
    Jobs <- ThreeJobs
    Workers <- TwoWorkers
    Capacity = 2
    MaxAttempts = 2
    StuckJobs <- NoStuckJob

SYMMETRY Symmetry

INVARIANTS
    TypeOK
    NoSendOnClosed
    QueueDepthSound
    RecordedOnce
    LossReported
    GraceHonoured
    LateBounded
