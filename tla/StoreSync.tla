------------------------------ MODULE StoreSync ------------------------------
(***************************************************************************)
(* The store sync pipeline: an HTTP upload is checked, stored as one       *)
(* StoreSyncRecord per store with its chunks, and one SQS message per      *)
(* chunk is sent; the pollers of every process deliver the messages to     *)
(* concurrent handlers, which claim a chunk, insert its attendance rows,   *)
(* conclude the chunk and refresh the record from its chunks.              *)
(*                                                                         *)
(* One action is one database statement or one SQS call, with the code     *)
(* that follows it up to the next await.  A count of rows is modelled by   *)
(* the set of rows counted, a summed count by the union of those sets.     *)
(***************************************************************************)
EXTENDS Naturals, FiniteSets

CONSTANTS
    Stores,        \* stores; the devices of a store follow its status
    Uploads,       \* POST bodies received by storeSyncRecord
    Records,       \* StoreSyncRecord rows the uploads may create
    Chunks,        \* StoreSyncRecordChunk rows the uploads may create
    Attendance,    \* attendance ids carried by the uploads
    Handlers,      \* concurrent processMessage calls of all pollers
    UploadOf,      \* the upload that creates a record
    StoreOf,       \* the store a record belongs to
    RecordOf,      \* the record a chunk belongs to
    ChunkIndex,    \* chunkIndex, unique within a record
    Payload,       \* the attendance ids of a chunk
    None,          \* no value
    MaxAborts,     \* bound: handlers or uploads cut short by a crash or an error
    MaxErrors,     \* bound: failed calls the chunk handler catches itself
    MaxTimeouts,   \* bound: messages redelivered while still being handled
    MaxStoreOps    \* bound: store status updates and deletions

ASSUME StoreSyncConstants ==
    /\ UploadOf \in [Records -> Uploads]
    /\ StoreOf \in [Records -> Stores]
    /\ RecordOf \in [Chunks -> Records]
    /\ ChunkIndex \in [Chunks -> Nat]
    /\ Payload \in [Chunks -> SUBSET Attendance]
    /\ \A c, d \in Chunks :
          RecordOf[c] = RecordOf[d] /\ ChunkIndex[c] = ChunkIndex[d] => c = d
    /\ \A r \in Records : \E c \in Chunks : RecordOf[c] = r
    /\ None \notin Records \cup Chunks \cup Handlers
    /\ {MaxAborts, MaxErrors, MaxTimeouts, MaxStoreOps} \subseteq Nat

VARIABLES
    storeStatus,   \* storeStatus[s]: "active", "inactive" or "removed"
    upload,        \* upload[u]: how far storeSyncRecord has got
    record,        \* record[r]: the StoreSyncRecord row
    chunk,         \* chunk[c]: the StoreSyncRecordChunk row
    attendance,    \* attendance[a]: the record owning the row, or None
    message,       \* message[c]: the SYNC_RECORD_CHUNK message of c
    handler,       \* handler[h]: the local state of a processMessage call
    faults,        \* faults[k]: how often each bounded fault has happened
    crashed        \* history: chunks whose owner was cut short

vars == <<storeStatus, upload, record, chunk, attendance, message, handler,
          faults, crashed>>
database == <<storeStatus, upload, record, chunk, attendance>>

RecordsOf(u) == {r \in Records : UploadOf[r] = u}
ChunksOf(r) == {c \in Chunks : RecordOf[c] = r}

Terminal == {"SUCCESS", "FAILED"}
RowStatus == {"ABSENT", "PENDING", "PROCESSING", "SUCCESS", "FAILED", "REMOVED"}

(* The error message of a record is modelled by the failed chunk it quotes.*)
RecordRow == [status : RowStatus, inserted : SUBSET Attendance,
              failed : SUBSET Chunks, error : Chunks \cup {None}]
ChunkRow == [status : RowStatus, inserted : SUBSET Attendance]
MessageState == [state : {"unsent", "visible", "inflight", "deleted", "failed"},
                 receipt : Handlers \cup {None}]

(* The handler holds the claim of its chunk, or has just concluded it.     *)
OwnerSteps == {"start", "devices", "existing", "insert", "succeed", "fail"}
Steps == OwnerSteps \cup
         {"idle", "read", "claim", "reread", "summarise", "settle", "delete"}

(* The chunkSummary of the finalization statement.                         *)
Summary == [chunks : SUBSET Chunks, nonSuccess : SUBSET Chunks,
            failed : SUBSET Chunks, inserted : SUBSET Attendance]
NoSummary == [chunks |-> {}, nonSuccess |-> {}, failed |-> {}, inserted |-> {}]

HandlerState == [pc : Steps, chunk : Chunks \cup {None}, storeActive : BOOLEAN,
                 existing : SUBSET Attendance, created : SUBSET Attendance,
                 summary : Summary, ack : BOOLEAN]

Idle == [pc |-> "idle", chunk |-> None, storeActive |-> FALSE, existing |-> {},
         created |-> {}, summary |-> NoSummary, ack |-> FALSE]

(* A handler forgets its local values when it only has to finalize, and    *)
(* then to acknowledge the message unless an exception is on its way.      *)
Finalizing(c, ok) == [Idle EXCEPT !.pc = "summarise", !.chunk = c, !.ack = ok]
Acknowledging(c) == [Idle EXCEPT !.pc = "delete", !.chunk = c]

Faults == {"aborts", "errors", "timeouts", "storeOps"}

(* Every variable keeps its type.  In particular an attendance row belongs *)
(* to a record: handlers insert rows on behalf of the record, not its chunk.*)
TypeOK ==
    /\ storeStatus \in [Stores -> {"active", "inactive", "removed"}]
    /\ upload \in [Uploads -> {"checking", "accepted", "failed"}]
    /\ record \in [Records -> RecordRow]
    /\ chunk \in [Chunks -> ChunkRow]
    /\ attendance \in [Attendance -> Records \cup {None}]
    /\ message \in [Chunks -> MessageState]
    /\ handler \in [Handlers -> HandlerState]
    /\ faults \in [Faults -> Nat]
    /\ crashed \subseteq Chunks

Init ==
    /\ storeStatus = [s \in Stores |-> "active"]
    /\ upload = [u \in Uploads |-> "checking"]
    /\ record = [r \in Records |-> [status |-> "ABSENT", inserted |-> {},
                                    failed |-> {}, error |-> None]]
    /\ chunk = [c \in Chunks |-> [status |-> "ABSENT", inserted |-> {}]]
    /\ attendance = [a \in Attendance |-> None]
    /\ message = [c \in Chunks |-> [state |-> "unsent", receipt |-> None]]
    /\ handler = [h \in Handlers |-> Idle]
    /\ faults = [kind \in Faults |-> 0]
    /\ crashed = {}

-----------------------------------------------------------------------------
(* Bounded faults.                                                         *)

Spend(kind, bound) ==
    /\ faults[kind] < bound
    /\ faults' = [faults EXCEPT ![kind] = @ + 1]

-----------------------------------------------------------------------------
(* The upload: SyncService.storeSyncRecord.                                *)

(* Every device must exist and belong to an active store.                  *)
CheckDevices(u) ==
    /\ upload[u] = "checking"
    /\ upload' = [upload EXCEPT ![u] =
            IF \A r \in RecordsOf(u) : storeStatus[StoreOf[r]] = "active"
            THEN "accepted" ELSE "failed"]
    /\ UNCHANGED <<storeStatus, record, chunk, attendance, message, handler,
                   faults, crashed>>

Stored(r) ==
    /\ record[r].status # "ABSENT"
    /\ \A c \in ChunksOf(r) : chunk[c].status # "ABSENT"

(* The record and its chunks are created store by store, in no transaction.*)
CreateRecord(r) ==
    LET u == UploadOf[r] IN
    /\ upload[u] = "accepted"
    /\ record[r].status = "ABSENT"
    /\ \A q \in RecordsOf(u) : record[q].status = "ABSENT" \/ Stored(q)
    /\ IF storeStatus[StoreOf[r]] = "removed"
       THEN upload' = [upload EXCEPT ![u] = "failed"] /\ UNCHANGED record
       ELSE record' = [record EXCEPT ![r].status = "PENDING"] /\ UNCHANGED upload
    /\ UNCHANGED <<storeStatus, chunk, attendance, message, handler, faults, crashed>>

CreateChunk(c) ==
    LET r == RecordOf[c] IN
    /\ upload[UploadOf[r]] = "accepted"
    /\ record[r].status # "ABSENT"
    /\ chunk[c].status = "ABSENT"
    /\ \A d \in ChunksOf(r) :
          ChunkIndex[d] < ChunkIndex[c] => chunk[d].status # "ABSENT"
    /\ IF record[r].status = "REMOVED"
       THEN upload' = [upload EXCEPT ![UploadOf[r]] = "failed"] /\ UNCHANGED chunk
       ELSE chunk' = [chunk EXCEPT ![c].status = "PENDING"] /\ UNCHANGED upload
    /\ UNCHANGED <<storeStatus, record, attendance, message, handler, faults, crashed>>

(* Messages are sent only once everything is stored; each may fail alone.  *)
MaySend(c) ==
    LET u == UploadOf[RecordOf[c]] IN
    /\ upload[u] = "accepted"
    /\ \A r \in RecordsOf(u) : Stored(r)
    /\ message[c].state = "unsent"

Send(c) ==
    /\ MaySend(c)
    /\ message' = [message EXCEPT ![c].state = "visible"]
    /\ UNCHANGED <<database, handler, faults, crashed>>

SendFails(c) ==
    /\ MaySend(c)
    /\ Spend("aborts", MaxAborts)
    /\ message' = [message EXCEPT ![c].state = "failed"]
    /\ UNCHANGED <<database, handler, crashed>>

(* The API process dies, or a create throws: nothing is rolled back.       *)
AbortUpload(u) ==
    /\ upload[u] = "accepted"
    /\ Spend("aborts", MaxAborts)
    /\ upload' = [upload EXCEPT ![u] = "failed"]
    /\ UNCHANGED <<storeStatus, record, chunk, attendance, message, handler, crashed>>

-----------------------------------------------------------------------------
(* SQS.                                                                    *)

(* Mutant: the message is deleted when it is received.                     *)
DeliveredOnce(h) == [state |-> "deleted", receipt |-> None]
Delivered(h) == [state |-> "inflight", receipt |-> h]

(* poll hands a visible message to a new processMessage call.              *)
Receive(h, c) ==
    /\ handler[h].pc = "idle"
    /\ message[c].state = "visible"
    /\ message' = [message EXCEPT ![c] = Delivered(h)]
    /\ handler' = [handler EXCEPT ![h] = [Idle EXCEPT !.pc = "read", !.chunk = c]]
    /\ UNCHANGED <<database, faults, crashed>>

(* The receipt is still in the hands of a running handler.                 *)
BeingHandled(c) == \E h \in Handlers : message[c].receipt = h /\ handler[h].chunk = c

(* The visibility timeout makes an undeleted message visible again: always *)
(* after its handler is gone, early when the handler outlives it.          *)
VisibilityTimeout(c) ==
    /\ message[c].state = "inflight"
    /\ IF BeingHandled(c) THEN Spend("timeouts", MaxTimeouts) ELSE UNCHANGED faults
    /\ message' = [message EXCEPT ![c] = [state |-> "visible", receipt |-> None]]
    /\ UNCHANGED <<database, handler, crashed>>

-----------------------------------------------------------------------------
(* One message: SqsProcessor.processMessage and processSyncRecordChunk.    *)

At(h, step) == handler[h].pc = step
Target(h) == handler[h].chunk
ParentOf(h) == RecordOf[handler[h].chunk]
Become(h, state) == handler' = [handler EXCEPT ![h] = state]
GoTo(h, step) == handler' = [handler EXCEPT ![h].pc = step]

(* An exception that reaches processMessage ends it: the message stays.    *)
Rejected == Idle

(* A message about a concluded chunk still refreshes the record, so that a *)
(* finalization that was cut short is made up for.                         *)
(* Mutant: it is acknowledged at once.                                     *)
AcknowledgeConcluded(c) == Acknowledging(c)
AlreadyConcluded(c) == Finalizing(c, TRUE)

(* findUnique of the chunk with the status of its store.                   *)
ReadChunk(h) ==
    LET c == Target(h) IN
    /\ At(h, "read")
    /\ Become(h, CASE chunk[c].status = "REMOVED"    -> Rejected
                   [] chunk[c].status \in Terminal   -> AlreadyConcluded(c)
                   [] chunk[c].status = "PROCESSING" -> Acknowledging(c)
                   [] OTHER ->
                        [handler[h] EXCEPT !.pc = "claim",
                            !.storeActive = storeStatus[StoreOf[ParentOf(h)]] = "active"])
    /\ UNCHANGED <<database, message, faults, crashed>>

(* Mutant: the WHERE clause of the claim forgets that it needs PENDING.    *)
ClaimableTwice(c) == chunk[c].status \in {"PENDING", "PROCESSING"}
Claimable(c) == chunk[c].status = "PENDING"

(* updateMany PENDING -> PROCESSING: at most one caller sees count 1.      *)
Claim(h) ==
    LET c == Target(h) IN
    /\ At(h, "claim")
    /\ IF Claimable(c)
       THEN /\ chunk' = [chunk EXCEPT ![c].status = "PROCESSING"]
            /\ GoTo(h, "start")
       ELSE /\ UNCHANGED chunk
            /\ GoTo(h, "reread")
    /\ UNCHANGED <<storeStatus, upload, record, attendance, message, faults, crashed>>

(* The claim was lost: look at what the winner has made of the chunk.      *)
Reread(h) ==
    LET c == Target(h) IN
    /\ At(h, "reread")
    /\ Become(h, CASE chunk[c].status = "REMOVED"  -> Rejected
                   [] chunk[c].status \in Terminal -> AlreadyConcluded(c)
                   [] OTHER -> Acknowledging(c))
    /\ UNCHANGED <<database, message, faults, crashed>>

(* After a write inside the try block: its reply arrives, or is lost and   *)
(* the catch block runs although the write took effect.                    *)
Continue(h, state) ==
    \/ Become(h, state) /\ UNCHANGED faults
    \/ GoTo(h, "fail") /\ Spend("errors", MaxErrors)

(* The store status read before the claim decides; the parent record       *)
(* leaves PENDING with its first chunk.                                    *)
Start(h) ==
    LET r == ParentOf(h) IN
    /\ At(h, "start")
    /\ IF handler[h].storeActive
       THEN /\ record' = IF record[r].status = "PENDING"
                         THEN [record EXCEPT ![r].status = "PROCESSING", ![r].error = None]
                         ELSE record
            /\ Continue(h, [handler[h] EXCEPT !.pc = "devices"])
       ELSE GoTo(h, "fail") /\ UNCHANGED <<record, faults>>
    /\ UNCHANGED <<storeStatus, upload, chunk, attendance, message, crashed>>

(* insertSyncPayload: the devices must still exist, of an active store.    *)
LookupDevices(h) ==
    /\ At(h, "devices")
    /\ GoTo(h, IF storeStatus[StoreOf[ParentOf(h)]] = "active"
               THEN "existing" ELSE "fail")
    /\ UNCHANGED <<database, message, faults, crashed>>

(* insertSyncPayload: rows already there are not offered again.            *)
ReadExisting(h) ==
    /\ At(h, "existing")
    /\ Become(h, [handler[h] EXCEPT !.pc = "insert",
                     !.existing = {a \in Payload[Target(h)] : attendance[a] # None}])
    /\ UNCHANGED <<database, message, faults, crashed>>

OwnerOfRows(c) == RecordOf[c]

(* insertSyncPayload: createMany with skipDuplicates.  A chunk holds at    *)
(* most one batch of rows; only rows inserted now are counted, and a row   *)
(* cannot be inserted for a record that no longer exists.                  *)
InsertBatch(h) ==
    LET c == Target(h)
        r == ParentOf(h)
        new == {a \in Payload[c] \ handler[h].existing : attendance[a] = None}
    IN
    /\ At(h, "insert")
    /\ IF new # {} /\ record[r].status = "REMOVED"
       THEN GoTo(h, "fail") /\ UNCHANGED <<attendance, faults>>
       ELSE /\ attendance' = [a \in Attendance |->
                                IF a \in new THEN OwnerOfRows(c) ELSE attendance[a]]
            /\ Continue(h, [handler[h] EXCEPT !.pc = "succeed", !.existing = {},
                                              !.created = new])
    /\ UNCHANGED <<storeStatus, upload, record, chunk, message, crashed>>

(* Mutant: all rows of the payload are counted, not those inserted.        *)
CountPayload(h) == Payload[Target(h)]
CountInserted(h) == handler[h].created

(* update by id, whatever the status; a chunk deleted meanwhile throws.    *)
MarkSuccess(h) ==
    LET c == Target(h) IN
    /\ At(h, "succeed")
    /\ IF chunk[c].status = "REMOVED"
       THEN GoTo(h, "fail") /\ UNCHANGED <<chunk, faults>>
       ELSE /\ chunk' = [chunk EXCEPT ![c] =
                            [status |-> "SUCCESS", inserted |-> CountInserted(h)]]
            /\ Continue(h, Finalizing(c, TRUE))
    /\ UNCHANGED <<storeStatus, upload, record, attendance, message, crashed>>

(* A call inside the try block fails without effect, or a device of the    *)
(* payload is no longer one of the store.                                  *)
ThrowInTry(h) ==
    /\ handler[h].pc \in OwnerSteps \ {"fail"}
    /\ Spend("errors", MaxErrors)
    /\ GoTo(h, "fail")
    /\ UNCHANGED <<database, message, crashed>>

(* Mutants: the catch block looks for a PENDING chunk; or for any chunk.   *)
GiveUpPending(c) == IF chunk[c].status = "PENDING"
                    THEN [chunk EXCEPT ![c].status = "FAILED"] ELSE chunk
GiveUpAny(c) == [chunk EXCEPT ![c].status = "FAILED"]
GiveUp(c) == IF chunk[c].status = "PROCESSING"
             THEN [chunk EXCEPT ![c].status = "FAILED"] ELSE chunk

(* The catch block: PROCESSING -> FAILED, then finalize and rethrow.       *)
MarkFailed(h) ==
    LET c == Target(h) IN
    /\ At(h, "fail")
    /\ chunk' = GiveUp(c)
    /\ Become(h, Finalizing(c, FALSE))
    /\ UNCHANGED <<storeStatus, upload, record, attendance, message, faults, crashed>>

(* finalizeStoreSyncRecord is one statement, but under READ COMMITTED its  *)
(* chunk summary is the snapshot at its start ...                          *)
Summarise(h) ==
    LET rows == {c \in ChunksOf(ParentOf(h)) :
                    chunk[c].status \notin {"ABSENT", "REMOVED"}}
    IN
    /\ At(h, "summarise")
    /\ Become(h, [handler[h] EXCEPT !.pc = "settle", !.summary =
            [chunks     |-> rows,
             nonSuccess |-> {c \in rows : chunk[c].status # "SUCCESS"},
             failed     |-> {c \in rows : chunk[c].status = "FAILED"},
             inserted   |-> UNION {chunk[c].inserted : c \in rows}]])
    /\ UNCHANGED <<database, message, faults, crashed>>

FirstOf(failed) ==
    CHOOSE c \in failed : \A d \in failed : ChunkIndex[c] <= ChunkIndex[d]

(* A failed record keeps its first error message.                          *)
(* Mutant: every finalization takes the message of the first failed chunk. *)
LatestError(row, failed) == FirstOf(failed)
ErrorOf(row, failed) == IF row.status = "FAILED" THEN row.error ELSE FirstOf(failed)

(* Mutant: a record without failed chunks has succeeded.                   *)
NothingFailed(sum) == sum.failed = {}
AllSucceeded(sum) == sum.chunks # {} /\ sum.nonSuccess = {}

(* ... while the row it updates is the one that holds when its lock is     *)
(* granted, and the WHERE clause is evaluated again on that row.           *)
Settled(r, sum) ==
    LET row == record[r]
        with(status, error) == [status |-> status, inserted |-> sum.inserted,
                                failed |-> sum.failed, error |-> error]
    IN
    CASE sum.failed # {} /\ row.status \in {"PENDING", "PROCESSING", "FAILED"} ->
            with("FAILED", ErrorOf(row, sum.failed))
      [] AllSucceeded(sum) /\ row.status = "PROCESSING" -> with("SUCCESS", None)
      [] sum.failed = {} /\ sum.nonSuccess # {}
            /\ row.status \in {"PENDING", "PROCESSING"} -> with("PROCESSING", None)
      [] OTHER -> row

Settle(h) ==
    LET r == ParentOf(h) IN
    /\ At(h, "settle")
    /\ record' = [record EXCEPT ![r] = Settled(r, handler[h].summary)]
    /\ Become(h, IF handler[h].ack THEN Acknowledging(Target(h)) ELSE Rejected)
    /\ UNCHANGED <<storeStatus, upload, chunk, attendance, message, faults, crashed>>

(* DeleteMessage removes the message if the receipt is the current one;    *)
(* SQS leaves open what an older receipt does.                             *)
DeleteMessage(h) ==
    LET c == Target(h)
        deleted == [state |-> "deleted", receipt |-> None]
    IN
    /\ At(h, "delete")
    /\ \/ message' = [message EXCEPT ![c] = deleted]
       \/ message[c].receipt # h /\ UNCHANGED message
    /\ Become(h, Idle)
    /\ UNCHANGED <<database, faults, crashed>>

(* The process dies, or a call outside the try block throws: the claim, if *)
(* any, stays behind and the message is not deleted.                       *)
Abort(h) ==
    /\ handler[h].pc # "idle"
    /\ Spend("aborts", MaxAborts)
    /\ crashed' = IF handler[h].pc \in OwnerSteps
                  THEN crashed \cup {Target(h)} ELSE crashed
    /\ Become(h, Idle)
    /\ UNCHANGED <<database, message>>

-----------------------------------------------------------------------------
(* Store administration: StoreService.                                     *)

(* update and deactivateStore.                                             *)
SetStoreStatus(s) ==
    /\ storeStatus[s] # "removed"
    /\ Spend("storeOps", MaxStoreOps)
    /\ \E status \in {"active", "inactive"} \ {storeStatus[s]} :
          storeStatus' = [storeStatus EXCEPT ![s] = status]
    /\ UNCHANGED <<upload, record, chunk, attendance, message, handler, crashed>>

(* remove: the deletion cascades to records, chunks and attendance rows.   *)
RemoveStore(s) ==
    LET gone == {r \in Records : StoreOf[r] = s /\ record[r].status # "ABSENT"} IN
    /\ storeStatus[s] # "removed"
    /\ Spend("storeOps", MaxStoreOps)
    /\ storeStatus' = [storeStatus EXCEPT ![s] = "removed"]
    /\ record' = [r \in Records |->
            IF r \in gone THEN [status |-> "REMOVED", inserted |-> {},
                                failed |-> {}, error |-> None]
            ELSE record[r]]
    /\ chunk' = [c \in Chunks |->
            IF RecordOf[c] \in gone /\ chunk[c].status # "ABSENT"
            THEN [status |-> "REMOVED", inserted |-> {}] ELSE chunk[c]]
    /\ attendance' = [a \in Attendance |->
            IF attendance[a] \in gone THEN None ELSE attendance[a]]
    /\ UNCHANGED <<upload, message, handler, crashed>>

-----------------------------------------------------------------------------

UploadStep(u) ==
    \/ CheckDevices(u)
    \/ \E r \in RecordsOf(u) : CreateRecord(r)
    \/ \E c \in Chunks : UploadOf[RecordOf[c]] = u /\ (CreateChunk(c) \/ Send(c))

HandlerStep(h) ==
    \/ ReadChunk(h) \/ Claim(h) \/ Reread(h) \/ Start(h) \/ LookupDevices(h)
    \/ ReadExisting(h) \/ InsertBatch(h) \/ MarkSuccess(h) \/ MarkFailed(h)
    \/ Summarise(h) \/ Settle(h) \/ DeleteMessage(h)

Next ==
    \/ \E u \in Uploads : UploadStep(u) \/ AbortUpload(u)
    \/ \E c \in Chunks : SendFails(c) \/ VisibilityTimeout(c)
    \/ \E h \in Handlers, c \in Chunks : Receive(h, c)
    \/ \E h \in Handlers : HandlerStep(h) \/ ThrowInTry(h) \/ Abort(h)
    \/ \E s \in Stores : SetStoreStatus(s) \/ RemoveStore(s)

(* Calls return; the pollers keep polling, so every message that stays     *)
(* visible is received; and a message nobody handles becomes visible.      *)
Fairness ==
    /\ \A u \in Uploads : WF_vars(UploadStep(u))
    /\ \A h \in Handlers : WF_vars(HandlerStep(h))
    /\ \A c \in Chunks : SF_vars(\E h \in Handlers : Receive(h, c))
    /\ \A c \in Chunks : WF_vars(VisibilityTimeout(c) /\ ~BeingHandled(c))

Spec == Init /\ [][Next]_vars /\ Fairness

-----------------------------------------------------------------------------
(* Safety.                                                                 *)

Owns(h, c) == handler[h].pc \in OwnerSteps /\ handler[h].chunk = c

(* The claim is exclusive: however often a message is delivered, at most   *)
(* one processSyncRecordChunk call is between its claim and its conclusion.*)
OneOwner ==
    \A c \in Chunks : \A g, h \in Handlers : Owns(g, c) /\ Owns(h, c) => g = h

(* No message is deleted before its chunk was taken up: a message that is  *)
(* gone leaves a chunk that was claimed, concluded or removed.             *)
DeletedMessageWasTaken ==
    \A c \in Chunks : message[c].state = "deleted" =>
        chunk[c].status \in {"PROCESSING", "SUCCESS", "FAILED", "REMOVED"}

(* A PROCESSING chunk has a handler working on it, unless the handler that *)
(* claimed it was cut short: no path through the try and catch blocks      *)
(* forgets a claim.                                                        *)
NoForgottenClaim ==
    \A c \in Chunks : chunk[c].status = "PROCESSING" =>
        c \in crashed \/ \E h \in Handlers : Owns(h, c)

(* The row of attendance id a is there, or it belonged to another store    *)
(* that has been deleted since.                                            *)
Kept(a, r) ==
    \/ attendance[a] # None
    \/ \E d \in Chunks : /\ a \in Payload[d]
                        /\ StoreOf[RecordOf[d]] # StoreOf[r]
                        /\ storeStatus[StoreOf[RecordOf[d]]] = "removed"

(* A record reported SUCCESS has had every chunk processed, and every      *)
(* attendance id of the upload for that store has its row; a record        *)
(* reported FAILED names one of its own chunks, which did fail.            *)
OutcomeSound ==
    \A r \in Records :
        /\ record[r].status = "SUCCESS" =>
              \A c \in ChunksOf(r) : /\ chunk[c].status = "SUCCESS"
                                     /\ \A a \in Payload[c] : Kept(a, r)
        /\ record[r].status = "FAILED" =>
              \E c \in ChunksOf(r) : chunk[c].status = "FAILED" /\ record[r].error = c

(* insertedRecords of a successful record counts exactly the rows it owns: *)
(* duplicates that another upload inserted first are counted there, once.  *)
SuccessCountsRows ==
    \A r \in Records : record[r].status = "SUCCESS" =>
        record[r].inserted = {a \in Attendance : attendance[a] = r}

(* finalizeStoreSyncRecord refreshes the aggregate counts: once every chunk*)
(* of a record is concluded and no handler is left that could refresh it,  *)
(* its counts are those of its chunks.                                     *)
CountsRefreshed ==
    \A r \in Records :
        /\ record[r].status \in Terminal
        /\ \A c \in ChunksOf(r) : chunk[c].status \in Terminal
                                  /\ message[c].state = "deleted"
        /\ \A h \in Handlers : handler[h].chunk \notin ChunksOf(r)
        => /\ record[r].inserted = UNION {chunk[c].inserted : c \in ChunksOf(r)}
           /\ record[r].failed = {c \in ChunksOf(r) : chunk[c].status = "FAILED"}

-----------------------------------------------------------------------------
(* Steps.                                                                  *)

(* An outcome, once reported, stays: SUCCESS rows keep every value, FAILED *)
(* rows their status and their error, chunks their status and count, until *)
(* the store is deleted.                                                   *)
TerminalStable == [][
    /\ \A r \in Records :
         /\ record[r].status = "SUCCESS" =>
               record'[r] = record[r] \/ record'[r].status = "REMOVED"
         /\ record[r].status = "FAILED" =>
               \/ record'[r].status = "FAILED" /\ record'[r].error = record[r].error
               \/ record'[r].status = "REMOVED"
    /\ \A c \in Chunks : chunk[c].status \in Terminal =>
               chunk'[c] = chunk[c] \/ chunk'[c].status = "REMOVED"
    ]_vars

-----------------------------------------------------------------------------
(* Liveness.                                                               *)

Concluded(c) == chunk[c].status \in Terminal \cup {"REMOVED"}

(* Every chunk whose message was sent is eventually concluded, unless the  *)
(* handler that had claimed it was cut short: nothing takes such a chunk   *)
(* up again.                                                               *)
ChunkConcludes ==
    \A c \in Chunks :
        message[c].state = "visible" ~> Concluded(c) \/ c \in crashed

(* A record whose chunks are all concluded is eventually given an outcome; *)
(* it takes both a crash and an early redelivery to prevent that.          *)
RecordConcludes ==
    \A r \in Records :
        (\A c \in ChunksOf(r) : Concluded(c)) ~>
            \/ record[r].status \in Terminal \cup {"REMOVED"}
            \/ faults["aborts"] > 0 /\ faults["timeouts"] > 0

-----------------------------------------------------------------------------
(* Refinement.                                                             *)

outcomeOf ==
    [r \in Records |-> CASE record[r].status = "SUCCESS" -> "success"
                        [] record[r].status = "FAILED"  -> "failed"
                        [] record[r].status = "REMOVED" -> "removed"
                        [] OTHER -> "open"]
resultOf ==
    [c \in Chunks |-> IF record[RecordOf[c]].status = "REMOVED" THEN "removed"
                      ELSE CASE chunk[c].status = "SUCCESS" -> "done"
                             [] chunk[c].status = "FAILED"  -> "failed"
                             [] OTHER -> "open"]

Outcome == INSTANCE SyncOutcome WITH outcome <- outcomeOf, result <- resultOf

(* The pipeline implements the promise of SyncOutcome: one outcome per     *)
(* chunk, one per record, given only when the chunks justify it.           *)
ImplementsSyncOutcome == Outcome!Spec
=============================================================================
