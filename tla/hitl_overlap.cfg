CONSTANTS
    Actions = {a1, a2}
    Requests = {r1, r2, r3}
    HitlEnabled = TRUE
    Serialised = FALSE
    MaxDisruptions = 2
SPECIFICATION Spec
SYMMETRY Interchangeable
INVARIANTS
    TypeOK
    PerformedWasApproved
    ExecutedIsHonest
CHECK_DEADLOCK FALSE
