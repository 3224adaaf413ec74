SPECIFICATION Spec
CONSTANTS
    j1 = j1
    j2 = j2
    w1 = w1
    w2 = w2
    Job = {j1}
    Worker = {w1, w2}
    Handled = {j1}
    Config <- MCConfig
    Queue <- MCQueue
    MaxRetries <- MCMaxRetries
    BackoffDelay <- MCBackoffDelay
    NULL = NULL
    NoJob = NoJob
    MaxLate = 0
    MaxFaults = 0
INVARIANTS
    ExecutionBudget
