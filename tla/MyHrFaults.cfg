SPECIFICATION Spec
CONSTANTS
    p1 = p1
    p2 = p2
    w1 = w1
    w2 = w2
    None = None
    Rows <- TwoItems
    Jobs <- TwoItems
    Chunks <- TwoItems
    Schedulers <- OneScheduler
    Workers <- TwoWorkers
    ChunkSize = 1
    MaxAttempts = 2
    MaxTriggers = 2
    MaxAborts = 1
    MaxErrors = 1
    MaxRedeliveries = 1
    MaxOverruns = 1
CHECK_DEADLOCK FALSE
SYMMETRY Symmetry
INVARIANTS
    SyncedWasAccepted
    JobSuccessSound
    AcceptedOnce
PROPERTIES
    SyncedStays
