SPECIFICATION FairSpec

CONSTANTS
    ShutdownTimeout = 3
    Margin = 7
    UnwindWindow = 1
    Latencies = {1, 2}
    MaxLatency = 2
    Environments <- MCEnvironments
    Trimmed <- MCTrimmed
    Numerals <- MCNumerals
    Lowered <- MCLowered
    Unreadable = Unreadable
    MaxJobs = 2
    MaxRequests = 2

INVARIANTS
    TypeOK
    WaitInBudget
    ExitZeroAccounts
    FailureMeansServer
    RequestsKeepDatabase
    ConfigSound

PROPERTIES
    SignalEnds
