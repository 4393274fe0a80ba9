SPECIFICATION Spec
CONSTANTS
    m1 = m1
    m2 = m2
    r1 = r1
    r2 = r2
    r3 = r3
    a1 = a1
    a2 = a2
    a3 = a3
    h1 = h1
    h2 = h2
    None = None
    Messages <- MCMessages
    Records <- MCRecords
    Attendance <- MCAttendance
    Handlers <- MCHandlers
    MessageOf <- MCMessageOf
    Payload <- MCPayload
    BatchSize = 2
    MaxAborts = 1
    MaxErrors = 1
    MaxTimeouts = 1
    MaxRemovals = 1
CHECK_DEADLOCK FALSE
INVARIANTS
    TypeOK
    SuccessComplete
    CountSound
    CountExact
PROPERTIES
    Succeeds
