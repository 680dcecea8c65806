SPECIFICATION CooperativeSpec

CONSTANTS
    j1 = j1
    j2 = j2
    j3 = j3
    w1 = w1
    w2 = w2
    Drainer = drainer
    NoJob = NoJob
    Jobs <- ThreeJobs
    Workers <- OneWorker
    Capacity = 1
    MaxAttempts = 1
    StuckJobs <- FirstJobStuck

PROPERTIES
    AcceptedSettles
    StuckDoesNotBury
