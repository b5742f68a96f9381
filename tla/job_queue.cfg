SPECIFICATION Spec
CONSTANTS
    Hooks = {w1, w2}
    None = None
    Jobs = {j1, j2, j3}
    Rows = {x1, x2}
    Requests = {r1, r2}
    Attempts = 2
    Retries = 1
    Concurrency = 2
    MaxDisruptions = 2
INVARIANTS
    TypeOK
    NothingIsLost
SYMMETRY Symmetry
CHECK_DEADLOCK FALSE
