SPECIFICATION Spec
CONSTANTS
    p1 = p1
    p2 = p2
    w1 = w1
    w2 = w2
    None = None
    Rows <- OneItem
    Jobs <- OneItem
    Chunks <- OneItem
    Schedulers <- OneScheduler
    Workers <- TwoWorkers
    ChunkSize = 1
    MaxAttempts = 2
    MaxTriggers = 1
    MaxAborts = 0
    MaxErrors = 1
    MaxRedeliveries = 0
    MaxOverruns = 0
CHECK_DEADLOCK FALSE
INVARIANTS
    DeliveryAuthoritative
