SPECIFICATION Spec

CONSTANTS
    ShutdownTimeout = 3
    Margin = 7
    UnwindWindow = 1
    Latencies = {1}
    MaxLatency = 1
    Environments <- MCEnvironments
    Trimmed <- MCTrimmed
    Numerals <- MCNumerals
    Lowered <- MCLowered
    Unreadable = Unreadable
    MaxJobs = 2
    MaxRequests = 2

PROPERTIES
    LossScrapable
