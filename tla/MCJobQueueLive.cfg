SPECIFICATION FairSpec
CONSTANTS
    j1 = j1
    j2 = j2
    w1 = w1
    w2 = w2
    Job = {j1, j2}
    Worker = {w1, w2}
    Handled = {j1}
    Config <- MCSingleConfig
    Queue <- MCQueue
    MaxRetries <- MCMixedRetries
    BackoffDelay <- MCBackoffDelay
    NULL = NULL
    NoJob = NoJob
    MaxLate = 1
    MaxFaults = 1
PROPERTIES
    EventuallySettled
