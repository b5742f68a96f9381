CONSTANTS
    Callers = {c1, c2}
    Aggregates = {a1, a2}
    Keys = {k1}
    NoKey = NoKey
    MaxEvents = 3
SPECIFICATION StoreSpec
SYMMETRY Interchangeable
INVARIANTS
    StoreTypeOK
    VersionsFollowCommits
    VersionsHaveNoGap
    KeyReuseNeedsOverlap
