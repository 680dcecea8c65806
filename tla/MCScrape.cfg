SPECIFICATION ScrapeSpec

CONSTANTS
    j1 = j1
    j2 = j2
    j3 = j3
    w1 = w1
    Drainer = drainer
    NoJob = NoJob
    Jobs <- MCJobs
    Workers <- MCWorkers
    Capacity = 1
    MaxAttempts = 1
    StuckJobs <- NoStuckJob

SYMMETRY JobSymmetry

INVARIANTS
    ShownOnce
    LossShown
    SkewBounded

PROPERTY TotalsNeverFall
