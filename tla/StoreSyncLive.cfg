SPECIFICATION Spec
CONSTANTS
    s1 = s1
    u1 = u1
    u2 = u2
    r1 = r1
    r2 = r2
    c1 = c1
    c2 = c2
    c3 = c3
    a1 = a1
    a2 = a2
    h1 = h1
    h2 = h2
    None = None
    Attendance <- MCAttendance
    Handlers <- MCHandlers
    Stores <- MCStores
    Uploads <- OneUpload
    Records <- OneRecord
    Chunks <- OneRecordChunks
    UploadOf <- OneUploadOf
    StoreOf <- OneStoreOf
    RecordOf <- OneRecordOf
    ChunkIndex <- OneChunkIndex
    Payload <- LivePayload
    MaxAborts = 1
    MaxErrors = 1
    MaxTimeouts = 1
    MaxStoreOps = 1
CHECK_DEADLOCK FALSE
INVARIANTS
    DeletedMessageWasTaken
PROPERTIES
    ImplementsSyncOutcome
    ChunkConcludes
    RecordConcludes
