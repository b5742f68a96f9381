SPECIFICATION Spec
CONSTANTS
    Tasks = {t1}
    NoTask = NoTask
    Deliveries = {d1}
    Replayers = {r1}
    Orders <- Shuffled
    PageSize = 2
    MaxEvents = 4
    MaxReplays = 1
    MaxDisruptions = 1
INVARIANTS
    TypeOK
    
    
PROPERTIES
    ReplayEnds
CHECK_DEADLOCK FALSE
