CONSTANTS
    Actions = {a1, a2}
    Requests = {r1, r2, r3}
    HitlEnabled = TRUE
    Serialised = TRUE
    MaxDisruptions = 2
SPECIFICATION FairSpec
INVARIANTS
    PerformedOnce
PROPERTIES
    OutcomeIsFinal
    ApprovedIsSettled
CHECK_DEADLOCK FALSE
