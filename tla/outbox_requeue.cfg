CONSTANTS
    Servers = {s1, s2}
    Events = {e1}
    MaxRetries = 2
    BatchSize = 1
    LockOutlivesBatch = TRUE
    MaxDisruptions = 0
SPECIFICATION Spec
INVARIANTS
    RetryRequeues
