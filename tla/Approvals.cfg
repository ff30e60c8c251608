SPECIFICATION MCSpec
CONSTANTS
    Workers = {w1, w2, w3}
    Requests = {r1, r2}
    Ttls = {0, 2}
    MaxTime = 3
    MayCrash = TRUE
    None = None
SYMMETRY Symmetry
INVARIANTS  AuditedUnlessDied
PROPERTIES  KeptBySingleProcess
CHECK_DEADLOCK FALSE
