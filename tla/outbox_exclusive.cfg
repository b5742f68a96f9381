CONSTANTS
    Servers = {s1, s2}
    Events = {e1}
    MaxRetries = 3
    BatchSize = 1
    LockOutlivesBatch = TRUE
    MaxDisruptions = 2
SPECIFICATION Spec
INVARIANTS
    TypeOK
    OneBatchAtATime
    SnapshotIsCurrent
    OneDeadLetterPerFailure
PROPERTIES
    ImplementsDelivery
