CONSTANTS
    Servers = {s1, s2}
    Events = {e1}
    MaxRetries = 2
    BatchSize = 1
    LockOutlivesBatch = FALSE
    MaxDisruptions = 1
SPECIFICATION FairSpec
INVARIANTS
    DeliveredWasFannedOut
PROPERTIES
    EventuallySettled
