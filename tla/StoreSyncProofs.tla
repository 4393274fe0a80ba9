--------------------------- MODULE StoreSyncProofs ---------------------------
(***************************************************************************)
(* Theorems about StoreSync, for every set of stores, uploads, chunks,     *)
(* attendance ids and handlers and every bound on the faults: every        *)
(* variable keeps its type; the claim of a chunk is exclusive and is not   *)
(* forgotten; no message is deleted before its chunk was taken up; what is *)
(* reported is true, stays, and implements SyncOutcome.                    *)
(***************************************************************************)
EXTENDS StoreSync, WellFoundedInduction, TLAPS

(* TypeOK is not inductive by itself: a handler that is busy must have a   *)
(* chunk, or the rows it writes would not be rows of the tables.           *)
WellFormed == {state \in HandlerState : state.pc # "idle" => state.chunk \in Chunks}

TypeInv == TypeOK /\ handler \in [Handlers -> WellFormed]

(* The states a handler is set to as a whole are well formed.              *)
LEMMA HandlerStates ==
    /\ Idle \in WellFormed
    /\ \A c \in Chunks :
          /\ [Idle EXCEPT !.pc = "read", !.chunk = c] \in WellFormed
          /\ Finalizing(c, TRUE) \in WellFormed
          /\ Finalizing(c, FALSE) \in WellFormed
          /\ Acknowledging(c) \in WellFormed
  BY DEF WellFormed, Idle, Finalizing, Acknowledging, HandlerState, NoSummary,
         Summary, Steps, OwnerSteps

(* A busy handler has a chunk, whose record is known.                      *)
LEMMA TargetTyped ==
    ASSUME StoreSyncConstants, TypeInv, NEW h \in Handlers, handler[h].pc # "idle"
    PROVE  Target(h) \in Chunks /\ ParentOf(h) \in Records
  BY DEF TypeInv, WellFormed, Target, ParentOf, StoreSyncConstants

(* A busy handler stays well formed when it only moves to another step.    *)
LEMMA MoveTyped ==
    ASSUME TypeInv, NEW h \in Handlers, handler[h].pc # "idle", NEW step \in Steps
    PROVE  [handler[h] EXCEPT !.pc = step] \in WellFormed
<1>1. handler[h] \in HandlerState /\ handler[h].chunk \in Chunks
  BY DEF TypeInv, WellFormed
<1>2. QED
  BY <1>1 DEF WellFormed, HandlerState

(* Become keeps the handlers well formed.                                  *)
LEMMA BecomeTyped ==
    ASSUME TypeInv, NEW h \in Handlers, NEW state \in WellFormed, Become(h, state)
    PROVE  handler' \in [Handlers -> WellFormed]
  BY DEF TypeInv, Become

(* So does GoTo, for a busy handler.                                       *)
LEMMA GoToTyped ==
    ASSUME TypeInv, NEW h \in Handlers, handler[h].pc # "idle",
           NEW step \in Steps, GoTo(h, step)
    PROVE  handler' \in [Handlers -> WellFormed]
<1>1. Become(h, [handler[h] EXCEPT !.pc = step])
  BY DEF GoTo, Become
<1>2. QED
  BY <1>1, MoveTyped, BecomeTyped

(* Counting a fault keeps the type of the counters.                        *)
LEMMA SpendTyped ==
    ASSUME TypeOK, NEW kind \in Faults, NEW bound, Spend(kind, bound)
    PROVE  faults' \in [Faults -> Nat]
  BY DEF TypeOK, Spend, Faults

(* What follows a write inside the try block keeps handlers and faults     *)
(* typed.                                                                  *)
LEMMA ContinueTyped ==
    ASSUME TypeInv, NEW h \in Handlers, handler[h].pc # "idle",
           NEW state \in WellFormed, Continue(h, state)
    PROVE  handler' \in [Handlers -> WellFormed] /\ faults' \in [Faults -> Nat]
<1>1. CASE Become(h, state) /\ UNCHANGED faults
  BY <1>1, BecomeTyped DEF TypeInv, TypeOK
<1>2. CASE GoTo(h, "fail") /\ Spend("errors", MaxErrors)
  <2>1. "fail" \in Steps /\ "errors" \in Faults
    BY DEF Steps, OwnerSteps, Faults
  <2>2. QED
    BY <1>2, <2>1, GoToTyped, SpendTyped DEF TypeInv
<1>3. QED
  BY <1>1, <1>2 DEF Continue

(* Rows keep their type when one column is written.                        *)
LEMMA RowsTyped ==
    ASSUME TypeOK, NEW status \in RowStatus
    PROVE  /\ \A r \in Records : [record EXCEPT ![r].status = status] \in [Records -> RecordRow]
           /\ \A c \in Chunks : [chunk EXCEPT ![c].status = status] \in [Chunks -> ChunkRow]
           /\ \A c \in Chunks :
                 \A state \in {"unsent", "visible", "inflight", "deleted", "failed"} :
                    [message EXCEPT ![c].state = state] \in [Chunks -> MessageState]
<1>1. ASSUME NEW row \in RecordRow
      PROVE  [row EXCEPT !.status = status] \in RecordRow
  BY DEF RecordRow
<1>2. ASSUME NEW row \in ChunkRow
      PROVE  [row EXCEPT !.status = status] \in ChunkRow
  BY DEF ChunkRow
<1>3. ASSUME NEW m \in MessageState,
             NEW state \in {"unsent", "visible", "inflight", "deleted", "failed"}
      PROVE  [m EXCEPT !.state = state] \in MessageState
  BY DEF MessageState
<1>4. QED
  BY <1>1, <1>2, <1>3 DEF TypeOK

(* The initial state is typed.                                             *)
LEMMA InitTyped == StoreSyncConstants /\ Init => TypeInv
<1> SUFFICES ASSUME StoreSyncConstants, Init
             PROVE  TypeInv
  OBVIOUS
<1>1. handler \in [Handlers -> WellFormed]
  BY HandlerStates DEF Init
<1>2. TypeOK
  BY <1>1 DEF StoreSyncConstants, Init, TypeOK, RowStatus, RecordRow, ChunkRow,
              MessageState, WellFormed, Faults
<1>3. QED
  BY <1>1, <1>2 DEF TypeInv

(* The upload's steps only touch upload, record, chunk, message and faults.*)
LEMMA UploadTyped ==
    ASSUME StoreSyncConstants, TypeInv, NEW u \in Uploads,
           UploadStep(u) \/ AbortUpload(u)
    PROVE  TypeInv'
<1> USE DEF StoreSyncConstants
<1>1. CASE CheckDevices(u)
  BY <1>1 DEF CheckDevices, TypeInv, TypeOK
<1>2. ASSUME NEW r \in RecordsOf(u), CreateRecord(r)
      PROVE  TypeInv'
  <2>1. r \in Records /\ "PENDING" \in RowStatus
    BY DEF RecordsOf, RowStatus
  <2>2. [record EXCEPT ![r].status = "PENDING"] \in [Records -> RecordRow]
    BY <2>1, RowsTyped DEF TypeInv
  <2>3. record' \in [Records -> RecordRow]
    BY <1>2, <2>2, Zenon DEF CreateRecord, TypeInv, TypeOK
  <2>4. upload' \in [Uploads -> {"checking", "accepted", "failed"}]
    BY <1>2 DEF CreateRecord, TypeInv, TypeOK
  <2>5. QED
    BY <1>2, <2>3, <2>4 DEF CreateRecord, TypeInv, TypeOK
<1>3. ASSUME NEW c \in Chunks, UploadOf[RecordOf[c]] = u, CreateChunk(c)
      PROVE  TypeInv'
  <2>1. "PENDING" \in RowStatus
    BY DEF RowStatus
  <2>2. [chunk EXCEPT ![c].status = "PENDING"] \in [Chunks -> ChunkRow]
    BY <2>1, RowsTyped DEF TypeInv
  <2>3. chunk' \in [Chunks -> ChunkRow]
    BY <1>3, <2>2, Zenon DEF CreateChunk, TypeInv, TypeOK
  <2>4. upload' \in [Uploads -> {"checking", "accepted", "failed"}]
    BY <1>3 DEF CreateChunk, TypeInv, TypeOK
  <2>5. QED
    BY <1>3, <2>3, <2>4 DEF CreateChunk, TypeInv, TypeOK
<1>4. ASSUME NEW c \in Chunks, Send(c)
      PROVE  TypeInv'
  <2>1. message' \in [Chunks -> MessageState]
    BY <1>4, RowsTyped DEF TypeInv, Send, RowStatus
  <2>2. QED
    BY <1>4, <2>1 DEF Send, database, TypeInv, TypeOK
<1>5. CASE AbortUpload(u)
  <2>1. faults' \in [Faults -> Nat]
    BY <1>5, SpendTyped DEF TypeInv, AbortUpload, Faults
  <2>2. QED
    BY <1>5, <2>1 DEF AbortUpload, TypeInv, TypeOK
<1>6. QED
  BY <1>1, <1>2, <1>3, <1>4, <1>5 DEF UploadStep

(* So do the steps of the queue.                                           *)
LEMMA QueueTyped ==
    ASSUME StoreSyncConstants, TypeInv, NEW c \in Chunks,
           \/ SendFails(c)
           \/ VisibilityTimeout(c)
           \/ \E h \in Handlers : Receive(h, c)
    PROVE  TypeInv'
<1>1. CASE SendFails(c)
  <2>1. faults' \in [Faults -> Nat]
    BY <1>1, SpendTyped DEF TypeInv, SendFails, Faults
  <2>2. QED
    BY <1>1, <2>1, RowsTyped DEF SendFails, database, TypeInv, TypeOK, RowStatus
<1>2. CASE VisibilityTimeout(c)
  <2>1. faults' \in [Faults -> Nat]
    BY <1>2, SpendTyped DEF TypeInv, TypeOK, VisibilityTimeout, Faults
  <2>2. QED
    BY <1>2, <2>1 DEF VisibilityTimeout, MessageState, database, TypeInv, TypeOK
<1>3. ASSUME NEW h \in Handlers, Receive(h, c)
      PROVE  TypeInv'
  <2>1. handler' \in [Handlers -> WellFormed]
    BY <1>3, HandlerStates, BecomeTyped DEF Receive, Become
  <2>2. message' \in [Chunks -> MessageState]
    BY <1>3 DEF Receive, Delivered, MessageState, TypeInv, TypeOK
  <2>3. QED
    BY <1>3, <2>1, <2>2 DEF Receive, database, TypeInv, TypeOK, WellFormed
<1>4. QED
  BY <1>1, <1>2, <1>3

(* And the steps of store administration.                                  *)
LEMMA StoreTyped ==
    ASSUME StoreSyncConstants, TypeInv, NEW s \in Stores,
           SetStoreStatus(s) \/ RemoveStore(s)
    PROVE  TypeInv'
<1>1. faults' \in [Faults -> Nat]
  BY SpendTyped DEF TypeInv, SetStoreStatus, RemoveStore, Faults
<1>2. CASE SetStoreStatus(s)
  BY <1>1, <1>2 DEF SetStoreStatus, TypeInv, TypeOK
<1>3. CASE RemoveStore(s)
  BY <1>1, <1>3 DEF RemoveStore, TypeInv, TypeOK, RecordRow, ChunkRow, RowStatus
<1>4. QED
  BY <1>2, <1>3

(* The steps of a handler inside the try block.                            *)
LEMMA OwnerTyped ==
    ASSUME StoreSyncConstants, TypeInv, NEW h \in Handlers,
           \/ Start(h) \/ LookupDevices(h) \/ ReadExisting(h) \/ InsertBatch(h)
           \/ MarkSuccess(h) \/ ThrowInTry(h) \/ MarkFailed(h)
    PROVE  TypeInv'
<1>1. handler[h].pc # "idle"
  BY DEF Start, LookupDevices, ReadExisting, InsertBatch, MarkSuccess, ThrowInTry,
         MarkFailed, At, OwnerSteps
<1>2. Target(h) \in Chunks /\ ParentOf(h) \in Records
  BY <1>1, TargetTyped
<1>3. \A step \in {"devices", "existing", "fail"} :
         [handler[h] EXCEPT !.pc = step] \in WellFormed
  BY <1>1, MoveTyped DEF Steps, OwnerSteps
<1>4. GoTo(h, "fail") => handler' \in [Handlers -> WellFormed]
  BY <1>1, GoToTyped DEF Steps, OwnerSteps
<1>5. handler[h] \in HandlerState /\ handler[h].chunk \in Chunks
  BY <1>1 DEF TypeInv, WellFormed
<1>6. CASE Start(h)
  <2>1. handler' \in [Handlers -> WellFormed] /\ faults' \in [Faults -> Nat]
    BY <1>1, <1>3, <1>4, <1>6, ContinueTyped DEF Start, TypeInv, TypeOK
  <2>2. record' \in [Records -> RecordRow]
    <3>1. [record[ParentOf(h)] EXCEPT !.status = "PROCESSING", !.error = None] \in RecordRow
      <4>1. record[ParentOf(h)] \in RecordRow
        BY <1>2 DEF TypeInv, TypeOK
      <4>2. QED
        BY <4>1 DEF RecordRow, RowStatus
    <3>2. QED
      BY <1>2, <1>6, <3>1 DEF Start, TypeInv, TypeOK
  <2>3. QED
    BY <1>6, <2>1, <2>2 DEF Start, TypeInv, TypeOK, WellFormed
<1>7. CASE LookupDevices(h)
  <2>1. handler' \in [Handlers -> WellFormed]
    BY <1>1, <1>7, GoToTyped DEF LookupDevices, Steps, OwnerSteps
  <2>2. QED
    BY <1>7, <2>1 DEF LookupDevices, database, TypeInv, TypeOK, WellFormed
<1>8. CASE ReadExisting(h)
  <2>1. [handler[h] EXCEPT !.pc = "insert",
           !.existing = {a \in Payload[Target(h)] : attendance[a] # None}] \in WellFormed
    BY <1>2, <1>5 DEF WellFormed, HandlerState, Steps, OwnerSteps, StoreSyncConstants
  <2>2. handler' \in [Handlers -> WellFormed]
    BY <1>8, <2>1, BecomeTyped DEF ReadExisting
  <2>3. QED
    BY <1>8, <2>2 DEF ReadExisting, database, TypeInv, TypeOK, WellFormed
<1>9. CASE InsertBatch(h)
  <2> DEFINE new == {a \in Payload[Target(h)] \ handler[h].existing : attendance[a] = None}
  <2>1. [handler[h] EXCEPT !.pc = "succeed", !.existing = {}, !.created = new]
          \in WellFormed
    BY <1>2, <1>5 DEF WellFormed, HandlerState, Steps, OwnerSteps, StoreSyncConstants
  <2>2. handler' \in [Handlers -> WellFormed] /\ faults' \in [Faults -> Nat]
    BY <1>1, <1>4, <1>9, <2>1, ContinueTyped DEF InsertBatch, TypeInv, TypeOK
  <2>3. attendance' \in [Attendance -> Records \cup {None}]
    BY <1>2, <1>9 DEF InsertBatch, OwnerOfRows, ParentOf, Target, TypeInv, TypeOK
  <2>4. QED
    BY <1>9, <2>2, <2>3 DEF InsertBatch, TypeInv, TypeOK, WellFormed
<1>10. CASE MarkSuccess(h)
  <2>1. handler' \in [Handlers -> WellFormed] /\ faults' \in [Faults -> Nat]
    BY <1>1, <1>2, <1>4, <1>10, HandlerStates, ContinueTyped
    DEF MarkSuccess, TypeInv, TypeOK
  <2>2. chunk' \in [Chunks -> ChunkRow]
    <3>1. [status |-> "SUCCESS", inserted |-> CountInserted(h)] \in ChunkRow
      BY <1>5 DEF CountInserted, HandlerState, ChunkRow, RowStatus
    <3>2. QED
      BY <1>2, <1>10, <3>1 DEF MarkSuccess, TypeInv, TypeOK
  <2>3. QED
    BY <1>10, <2>1, <2>2 DEF MarkSuccess, TypeInv, TypeOK, WellFormed
<1>11. CASE ThrowInTry(h)
  <2>1. handler' \in [Handlers -> WellFormed] /\ faults' \in [Faults -> Nat]
    BY <1>4, <1>11, SpendTyped DEF ThrowInTry, Faults, TypeInv
  <2>2. QED
    BY <1>11, <2>1 DEF ThrowInTry, database, TypeInv, TypeOK, WellFormed
<1>12. CASE MarkFailed(h)
  <2>1. handler' \in [Handlers -> WellFormed]
    BY <1>2, <1>12, HandlerStates, BecomeTyped DEF MarkFailed
  <2>2. chunk' \in [Chunks -> ChunkRow]
    <3>1. [chunk EXCEPT ![Target(h)].status = "FAILED"] \in [Chunks -> ChunkRow]
      BY <1>2, RowsTyped DEF TypeInv, RowStatus
    <3>2. QED
      BY <1>12, <3>1, Zenon DEF MarkFailed, GiveUp, TypeInv, TypeOK
  <2>3. QED
    BY <1>12, <2>1, <2>2 DEF MarkFailed, TypeInv, TypeOK, WellFormed
<1>13. QED
  BY <1>6, <1>7, <1>8, <1>9, <1>10, <1>11, <1>12

(* The error of a failed record is one of its failed chunks.               *)
LEMMA FirstOfFailed ==
    ASSUME StoreSyncConstants, NEW failed \in SUBSET Chunks, failed # {}
    PROVE  FirstOf(failed) \in failed
<1> DEFINE less == {ss \in Nat \X Nat : ss[1] < ss[2]}
           indices == {ChunkIndex[c] : c \in failed}
<1>1. IsWellFoundedOn(less, Nat)
  BY NatLessThanWellFounded DEF OpToRel
<1>2. indices \subseteq Nat /\ indices # {}
  BY DEF StoreSyncConstants
<1>3. \E i \in indices : \A j \in indices : <<j, i>> \notin less
  <2> HIDE DEF less, indices
  <2>1. QED
    BY <1>1, <1>2, WFMin
<1>4. \E c \in failed : \A d \in failed : ChunkIndex[c] <= ChunkIndex[d]
  <2>1. PICK c \in failed : \A j \in indices : <<j, ChunkIndex[c]>> \notin less
    BY <1>3
  <2>2. ASSUME NEW d \in failed
        PROVE  ChunkIndex[c] <= ChunkIndex[d]
    <3>1. ChunkIndex[c] \in Nat /\ ChunkIndex[d] \in Nat
      BY DEF StoreSyncConstants
    <3>2. ~ (ChunkIndex[d] < ChunkIndex[c])
      BY <2>1, <3>1
    <3>3. QED
      BY <3>1, <3>2
  <2>3. QED
    BY <2>2
<1>5. QED
  BY <1>4 DEF FirstOf

(* The finalization writes a row.                                          *)
LEMMA SettledTyped ==
    ASSUME StoreSyncConstants, TypeOK, NEW r \in Records, NEW sum \in Summary
    PROVE  Settled(r, sum) \in RecordRow
<1> DEFINE row == record[r]
<1>1. row \in RecordRow
  BY DEF TypeOK
<1>2. sum.failed \in SUBSET Chunks /\ sum.inserted \in SUBSET Attendance
  BY DEF Summary
<1>3. CASE sum.failed # {} /\ row.status \in {"PENDING", "PROCESSING", "FAILED"}
  <2>1. ErrorOf(row, sum.failed) \in Chunks \cup {None}
    BY <1>1, <1>2, <1>3, FirstOfFailed DEF ErrorOf, RecordRow
  <2>2. QED
    BY <1>2, <1>3, <2>1 DEF Settled, RecordRow, RowStatus
<1>4. CASE ~ (sum.failed # {} /\ row.status \in {"PENDING", "PROCESSING", "FAILED"})
  <2>1. CASE AllSucceeded(sum) /\ row.status = "PROCESSING"
    BY <1>2, <1>4, <2>1 DEF Settled, RecordRow, RowStatus
  <2>2. CASE ~ (AllSucceeded(sum) /\ row.status = "PROCESSING")
    BY <1>1, <1>2, <1>4, <2>2 DEF Settled, RecordRow, RowStatus
  <2>3. QED
    BY <2>1, <2>2
<1>5. QED
  BY <1>3, <1>4

(* Its other steps.                                                        *)
LEMMA HandlerTyped ==
    ASSUME StoreSyncConstants, TypeInv, NEW h \in Handlers,
           \/ ReadChunk(h) \/ Claim(h) \/ Reread(h) \/ Summarise(h) \/ Settle(h)
           \/ DeleteMessage(h) \/ Abort(h)
    PROVE  TypeInv'
<1>1. handler[h].pc # "idle"
  BY DEF ReadChunk, Claim, Reread, Summarise, Settle, DeleteMessage, Abort, At
<1>2. Target(h) \in Chunks /\ ParentOf(h) \in Records
  BY <1>1, TargetTyped
<1>3. handler[h] \in HandlerState /\ handler[h].chunk \in Chunks
  BY <1>1 DEF TypeInv, WellFormed
<1>4. /\ Idle \in WellFormed
      /\ Finalizing(Target(h), TRUE) \in WellFormed
      /\ Acknowledging(Target(h)) \in WellFormed
  BY <1>2, HandlerStates
<1>5. CASE ReadChunk(h)
  <2>1. [handler[h] EXCEPT !.pc = "claim",
            !.storeActive = storeStatus[StoreOf[ParentOf(h)]] = "active"] \in WellFormed
    BY <1>3 DEF WellFormed, HandlerState, Steps
  <2>2. PICK state \in WellFormed : Become(h, state)
    BY <1>4, <1>5, <2>1 DEF ReadChunk, Rejected, AlreadyConcluded
  <2>3. handler' \in [Handlers -> WellFormed]
    BY <2>2, BecomeTyped
  <2>4. QED
    BY <1>5, <2>3 DEF ReadChunk, database, TypeInv, TypeOK, WellFormed
<1>6. CASE Claim(h)
  <2>1. handler' \in [Handlers -> WellFormed]
    BY <1>1, <1>6, GoToTyped DEF Claim, Steps, OwnerSteps
  <2>2. chunk' \in [Chunks -> ChunkRow]
    <3>1. [chunk EXCEPT ![Target(h)].status = "PROCESSING"] \in [Chunks -> ChunkRow]
      BY <1>2, RowsTyped DEF TypeInv, RowStatus
    <3>2. QED
      BY <1>6, <3>1, Zenon DEF Claim, TypeInv, TypeOK
  <2>3. QED
    BY <1>6, <2>1, <2>2 DEF Claim, TypeInv, TypeOK, WellFormed
<1>7. CASE Reread(h)
  <2>1. PICK state \in WellFormed : Become(h, state)
    BY <1>4, <1>7 DEF Reread, Rejected, AlreadyConcluded
  <2>2. handler' \in [Handlers -> WellFormed]
    BY <2>1, BecomeTyped
  <2>3. QED
    BY <1>7, <2>2 DEF Reread, database, TypeInv, TypeOK, WellFormed
<1>8. CASE Summarise(h)
  <2> DEFINE rows == {c \in ChunksOf(ParentOf(h)) :
                        chunk[c].status \notin {"ABSENT", "REMOVED"}}
             sum == [chunks     |-> rows,
                     nonSuccess |-> {c \in rows : chunk[c].status # "SUCCESS"},
                     failed     |-> {c \in rows : chunk[c].status = "FAILED"},
                     inserted   |-> UNION {chunk[c].inserted : c \in rows}]
  <2>1. sum \in Summary
    <3>1. rows \subseteq Chunks
      BY DEF ChunksOf
    <3>2. UNION {chunk[c].inserted : c \in rows} \subseteq Attendance
      BY <3>1 DEF TypeInv, TypeOK, ChunkRow
    <3>3. QED
      BY <3>1, <3>2 DEF Summary
  <2>2. [handler[h] EXCEPT !.pc = "settle", !.summary = sum] \in WellFormed
    BY <1>3, <2>1 DEF WellFormed, HandlerState, Steps
  <2>3. handler' \in [Handlers -> WellFormed]
    BY <1>8, <2>2, BecomeTyped DEF Summarise
  <2>4. QED
    BY <1>8, <2>3 DEF Summarise, database, TypeInv, TypeOK, WellFormed
<1>9. CASE Settle(h)
  <2>1. handler' \in [Handlers -> WellFormed]
    BY <1>4, <1>9, BecomeTyped DEF Settle, Rejected
  <2>2. Settled(ParentOf(h), handler[h].summary) \in RecordRow
    BY <1>2, <1>3, SettledTyped DEF HandlerState, TypeInv
  <2>3. record' \in [Records -> RecordRow]
    BY <1>9, <2>2 DEF Settle, TypeInv, TypeOK
  <2>4. QED
    BY <1>9, <2>1, <2>3 DEF Settle, TypeInv, TypeOK, WellFormed
<1>10. CASE DeleteMessage(h)
  <2>1. handler' \in [Handlers -> WellFormed]
    BY <1>4, <1>10, BecomeTyped DEF DeleteMessage
  <2>2. message' \in [Chunks -> MessageState]
    BY <1>10 DEF DeleteMessage, MessageState, TypeInv, TypeOK
  <2>3. QED
    BY <1>10, <2>1, <2>2 DEF DeleteMessage, database, TypeInv, TypeOK, WellFormed
<1>11. CASE Abort(h)
  <2>1. handler' \in [Handlers -> WellFormed] /\ faults' \in [Faults -> Nat]
    BY <1>4, <1>11, BecomeTyped, SpendTyped DEF Abort, Faults, TypeInv
  <2>2. QED
    BY <1>2, <1>11, <2>1 DEF Abort, database, TypeInv, TypeOK, WellFormed
<1>12. QED
  BY <1>5, <1>6, <1>7, <1>8, <1>9, <1>10, <1>11

(* TypeInv is inductive.                                                   *)
LEMMA NextTyped == StoreSyncConstants /\ TypeInv /\ [Next]_vars => TypeInv'
<1> SUFFICES ASSUME StoreSyncConstants, TypeInv, [Next]_vars
             PROVE  TypeInv'
  OBVIOUS
<1>1. CASE UNCHANGED vars
  BY <1>1 DEF vars, TypeInv, TypeOK, WellFormed
<1>2. CASE \E u \in Uploads : UploadStep(u) \/ AbortUpload(u)
  BY <1>2, UploadTyped
<1>3. CASE \/ \E c \in Chunks : SendFails(c) \/ VisibilityTimeout(c)
           \/ \E h \in Handlers, c \in Chunks : Receive(h, c)
  BY <1>3, QueueTyped
<1>4. CASE \E h \in Handlers : HandlerStep(h) \/ ThrowInTry(h) \/ Abort(h)
  BY <1>4, OwnerTyped, HandlerTyped DEF HandlerStep
<1>5. CASE \E s \in Stores : SetStoreStatus(s) \/ RemoveStore(s)
  BY <1>5, StoreTyped
<1>6. QED
  BY <1>1, <1>2, <1>3, <1>4, <1>5 DEF Next

(* Every variable keeps its type, and a busy handler always has a chunk.   *)
THEOREM TypeCorrect == Spec => []TypeInv
<1>1. QED
  BY StoreSyncConstants, InitTyped, NextTyped, PTL DEF Spec

(* TypeOK, which the runs check, holds in every reachable state.           *)
THEOREM TypesHold == Spec => []TypeOK
  BY TypeCorrect, PTL DEF TypeInv

-----------------------------------------------------------------------------
(* The claim protocol.                                                     *)

Taken == {"PROCESSING", "SUCCESS", "FAILED", "REMOVED"}

(* Messages and handlers only know chunks that have been stored.           *)
Known ==
    /\ \A c \in Chunks : message[c].state # "unsent" => chunk[c].status # "ABSENT"
    /\ \A h \in Handlers : handler[h].pc # "idle" =>
          chunk[handler[h].chunk].status # "ABSENT"

(* Past its claim, won or lost, a handler's chunk is no longer PENDING, and*)
(* never becomes PENDING again.                                            *)
PastClaim ==
    \A h \in Handlers : handler[h].pc \notin {"idle", "read", "claim"} =>
        chunk[handler[h].chunk].status \in Taken

(* The chunk of an owner is PROCESSING until the owner itself concludes it,*)
(* unless it is deleted; a lost reply leaves the catch block with a chunk  *)
(* that is SUCCESS already.                                                *)
OwnerStatus ==
    \A h \in Handlers : handler[h].pc \in OwnerSteps =>
        \/ chunk[handler[h].chunk].status \in {"PROCESSING", "REMOVED"}
        \/ handler[h].pc = "fail" /\ chunk[handler[h].chunk].status = "SUCCESS"

ClaimInv ==
    /\ TypeInv
    /\ Known
    /\ PastClaim
    /\ OwnerStatus
    /\ OneOwner
    /\ NoForgottenClaim
    /\ DeletedMessageWasTaken

(* ClaimInv holds initially.                                               *)
LEMMA InitClaims == StoreSyncConstants /\ Init => ClaimInv
<1> SUFFICES ASSUME StoreSyncConstants, Init
             PROVE  ClaimInv
  OBVIOUS
<1>1. TypeInv
  BY InitTyped
<1>2. Known /\ PastClaim /\ OwnerStatus /\ OneOwner
  BY DEF Init, Idle, Known, PastClaim, OwnerStatus, OneOwner, Owns, OwnerSteps
<1>3. NoForgottenClaim /\ DeletedMessageWasTaken
  BY DEF Init, NoForgottenClaim, DeletedMessageWasTaken
<1>4. QED
  BY <1>1, <1>2, <1>3 DEF ClaimInv

(* The parts of the invariant depend only on chunk statuses, on the step   *)
(* and chunk of each handler, on which messages are unsent or deleted, and *)
(* on crashed: a step that keeps those keeps the invariant.                *)
LEMMA ClaimFrame ==
    ASSUME ClaimInv, TypeInv', UNCHANGED <<chunk, handler, crashed>>,
           \A c \in Chunks :
             /\ message'[c].state = message[c].state
                  \/ message[c].state # "unsent" \/ chunk[c].status # "ABSENT"
             /\ message'[c].state = "deleted" => message[c].state = "deleted"
    PROVE  ClaimInv'
<1>1. Known'
  BY DEF ClaimInv, Known
<1>2. PastClaim' /\ OwnerStatus' /\ OneOwner' /\ NoForgottenClaim'
  BY DEF ClaimInv, PastClaim, OwnerStatus, OneOwner, NoForgottenClaim, Owns
<1>3. DeletedMessageWasTaken'
  BY DEF ClaimInv, DeletedMessageWasTaken
<1>4. QED
  BY <1>1, <1>2, <1>3 DEF ClaimInv

(* The chunk of a message that may be sent has been stored.                *)
LEMMA SendStored ==
    ASSUME StoreSyncConstants, NEW c \in Chunks, MaySend(c)
    PROVE  chunk[c].status # "ABSENT"
<1>1. RecordOf[c] \in RecordsOf(UploadOf[RecordOf[c]]) /\ c \in ChunksOf(RecordOf[c])
  BY DEF StoreSyncConstants, RecordsOf, ChunksOf
<1>2. QED
  BY <1>1 DEF MaySend, Stored

(* Steps that leave chunks and handlers alone.                             *)
LEMMA AsideClaims ==
    ASSUME StoreSyncConstants, ClaimInv, TypeInv',
           \/ \E u \in Uploads : CheckDevices(u) \/ AbortUpload(u)
           \/ \E r \in Records : CreateRecord(r)
           \/ \E c \in Chunks : Send(c) \/ SendFails(c) \/ VisibilityTimeout(c)
           \/ \E s \in Stores : SetStoreStatus(s)
           \/ UNCHANGED vars
    PROVE  ClaimInv'
<1>1. UNCHANGED <<chunk, handler, crashed>>
  BY DEF CheckDevices, AbortUpload, CreateRecord, Send, SendFails, VisibilityTimeout,
         SetStoreStatus, vars, database
<1>2. CASE UNCHANGED message
  BY <1>1, <1>2, ClaimFrame
<1>3. ASSUME NEW c \in Chunks, Send(c) \/ SendFails(c)
      PROVE  ClaimInv'
  <2>1. chunk[c].status # "ABSENT"
    BY <1>3, SendStored DEF Send, SendFails
  <2>2. \A d \in Chunks : d # c => message'[d] = message[d]
    BY <1>3 DEF Send, SendFails, ClaimInv, TypeInv, TypeOK
  <2>3. message'[c].state \in {"visible", "failed"}
    BY <1>3 DEF Send, SendFails, ClaimInv, TypeInv, TypeOK, MessageState
  <2>4. QED
    BY <1>1, <2>1, <2>2, <2>3, ClaimFrame
<1>4. ASSUME NEW c \in Chunks, VisibilityTimeout(c)
      PROVE  ClaimInv'
  <2>1. \A d \in Chunks : d # c => message'[d] = message[d]
    BY <1>4 DEF VisibilityTimeout, ClaimInv, TypeInv, TypeOK
  <2>2. message[c].state = "inflight" /\ message'[c].state = "visible"
    BY <1>4 DEF VisibilityTimeout, ClaimInv, TypeInv, TypeOK
  <2>3. QED
    BY <1>1, <2>1, <2>2, ClaimFrame
<1>5. QED
  BY <1>2, <1>3, <1>4 DEF CheckDevices, AbortUpload, CreateRecord, SetStoreStatus, vars

(* A chunk is created, or chunks are deleted with their store: only an     *)
(* ABSENT chunk becomes PENDING, and a known one stays known.              *)
LEMMA ChunkRowsClaims ==
    ASSUME StoreSyncConstants, ClaimInv, TypeInv',
           \/ \E c \in Chunks : CreateChunk(c)
           \/ \E s \in Stores : RemoveStore(s)
    PROVE  ClaimInv'
<1>1. UNCHANGED <<handler, message, crashed>>
  BY DEF CreateChunk, RemoveStore
<1>2. \A c \in Chunks :
         \/ chunk'[c] = chunk[c]
         \/ chunk[c].status = "ABSENT" /\ chunk'[c].status = "PENDING"
         \/ chunk[c].status # "ABSENT" /\ chunk'[c].status = "REMOVED"
  <2>1. CASE \E c \in Chunks : CreateChunk(c)
    BY <2>1 DEF CreateChunk, ClaimInv, TypeInv, TypeOK, ChunkRow
  <2>2. CASE \E s \in Stores : RemoveStore(s)
    BY <2>2 DEF RemoveStore
  <2>3. QED
    BY <2>1, <2>2
<1>3. \A h \in Handlers : handler[h].pc # "idle" => handler[h].chunk \in Chunks
  BY DEF ClaimInv, TypeInv, WellFormed
<1>4. Known'
  BY <1>1, <1>2, <1>3 DEF ClaimInv, Known
<1>5. PastClaim'
  BY <1>1, <1>2, <1>3 DEF ClaimInv, PastClaim, Taken
<1>6. OwnerStatus'
  BY <1>1, <1>2, <1>3 DEF ClaimInv, OwnerStatus, OwnerSteps
<1>7. OneOwner' /\ NoForgottenClaim' /\ DeletedMessageWasTaken'
  BY <1>1, <1>2 DEF ClaimInv, OneOwner, NoForgottenClaim, DeletedMessageWasTaken, Owns
<1>8. QED
  BY <1>4, <1>5, <1>6, <1>7 DEF ClaimInv

(* What Become and GoTo say of the handlers.                               *)
LEMMA BecomeMoves ==
    ASSUME TypeInv, NEW h \in Handlers, NEW state, Become(h, state)
    PROVE  handler'[h] = state /\ \A g \in Handlers \ {h} : handler'[g] = handler[g]
  BY DEF Become, TypeInv

(* GoTo only changes the step.                                             *)
LEMMA GoToMoves ==
    ASSUME TypeInv, NEW h \in Handlers, NEW step, GoTo(h, step)
    PROVE  /\ handler'[h].pc = step /\ handler'[h].chunk = handler[h].chunk
           /\ \A g \in Handlers \ {h} : handler'[g] = handler[g]
  BY DEF GoTo, TypeInv, WellFormed, HandlerState

(* A handler that does not own its chunk, before and after the step.       *)
LEMMA BystanderClaims ==
    ASSUME StoreSyncConstants, ClaimInv, TypeInv', NEW h \in Handlers, NEW c \in Chunks,
           UNCHANGED <<chunk, crashed>>,
           \A g \in Handlers \ {h} : handler'[g] = handler[g],
           handler[h].pc \notin OwnerSteps, handler'[h].pc \notin OwnerSteps,
           handler'[h].pc # "idle" => handler'[h].chunk = c /\ chunk[c].status # "ABSENT",
           handler'[h].pc \notin {"idle", "read", "claim"} => chunk[c].status \in Taken,
           \A d \in Chunks \ {c} : message'[d] = message[d],
           message'[c].state # message[c].state =>
              /\ chunk[c].status # "ABSENT"
              /\ message'[c].state = "deleted" => chunk[c].status \in Taken
    PROVE  ClaimInv'
<1>1. Known'
  BY DEF ClaimInv, Known
<1>2. PastClaim' /\ OwnerStatus'
  BY DEF ClaimInv, PastClaim, OwnerStatus
<1>3. OneOwner' /\ NoForgottenClaim'
  BY DEF ClaimInv, OneOwner, NoForgottenClaim, Owns
<1>4. DeletedMessageWasTaken'
  BY DEF ClaimInv, DeletedMessageWasTaken, Taken
<1>5. QED
  BY <1>1, <1>2, <1>3, <1>4 DEF ClaimInv

(* Reading, finalizing and acknowledging.                                  *)
LEMMA ReaderClaims ==
    ASSUME StoreSyncConstants, ClaimInv, TypeInv', NEW h \in Handlers,
           \/ ReadChunk(h) \/ Reread(h) \/ Summarise(h) \/ Settle(h)
           \/ DeleteMessage(h)
    PROVE  ClaimInv'
<1> DEFINE c == Target(h)
<1>1. /\ handler[h].pc \in {"read", "reread", "summarise", "settle", "delete"}
      /\ UNCHANGED <<chunk, crashed>>
  BY DEF ReadChunk, Reread, Summarise, Settle, DeleteMessage, At, database
<1>2. c \in Chunks /\ handler[h].chunk = c /\ chunk[c].status # "ABSENT"
  BY <1>1, TargetTyped DEF ClaimInv, Known, Target
<1>3. handler[h].pc # "read" => chunk[c].status \in Taken
  BY <1>1 DEF ClaimInv, PastClaim, Target
<1>4. PICK state :
         /\ Become(h, state)
         /\ state.pc \in {"idle", "claim", "summarise", "settle", "delete"}
         /\ state.pc # "idle" => state.chunk = c
         /\ state.pc \notin {"idle", "claim"} => chunk[c].status \in Taken
  <2>1. /\ Idle.pc = "idle"
        /\ Finalizing(c, TRUE).pc = "summarise" /\ Finalizing(c, TRUE).chunk = c
        /\ Acknowledging(c).pc = "delete" /\ Acknowledging(c).chunk = c
    BY DEF Idle, Finalizing, Acknowledging
  <2>2. handler[h] \in HandlerState
    BY DEF ClaimInv, TypeInv, WellFormed
  <2>3. CASE ReadChunk(h)
    <3> DEFINE next == [handler[h] EXCEPT !.pc = "claim",
                  !.storeActive = storeStatus[StoreOf[ParentOf(h)]] = "active"]
    <3>1. next.pc = "claim" /\ next.chunk = c
      BY <2>2 DEF HandlerState, Target
    <3>2. \/ Become(h, Idle)
          \/ Become(h, Finalizing(c, TRUE)) /\ chunk[c].status \in Terminal
          \/ Become(h, Acknowledging(c)) /\ chunk[c].status = "PROCESSING"
          \/ Become(h, next)
      BY <2>3 DEF ReadChunk, Rejected, AlreadyConcluded
    <3> HIDE DEF next
    <3>3. QED
      BY <2>1, <3>1, <3>2 DEF Terminal, Taken
  <2>4. CASE Reread(h)
    <3>1. \/ Become(h, Idle)
          \/ Become(h, Finalizing(c, TRUE))
          \/ Become(h, Acknowledging(c))
      BY <2>4 DEF Reread, Rejected, AlreadyConcluded
    <3>2. chunk[c].status \in Taken
      BY <1>3, <2>4 DEF Reread, At
    <3>3. QED
      BY <2>1, <3>1, <3>2
  <2>5. CASE Summarise(h)
    <3>1. PICK sum : Become(h, [handler[h] EXCEPT !.pc = "settle", !.summary = sum])
      BY <2>5 DEF Summarise
    <3> DEFINE next == [handler[h] EXCEPT !.pc = "settle", !.summary = sum]
    <3>2. next.pc = "settle" /\ next.chunk = c
      BY <2>2 DEF HandlerState, Target
    <3>3. chunk[c].status \in Taken
      BY <1>3, <2>5 DEF Summarise, At
    <3>4. Become(h, next)
      BY <3>1
    <3> HIDE DEF next
    <3>5. QED
      BY <3>2, <3>3, <3>4
  <2>6. CASE Settle(h)
    <3>1. Become(h, Idle) \/ Become(h, Acknowledging(c))
      BY <2>6 DEF Settle, Rejected
    <3>2. chunk[c].status \in Taken
      BY <1>3, <2>6 DEF Settle, At
    <3>3. QED
      BY <2>1, <3>1, <3>2
  <2>7. CASE DeleteMessage(h)
    BY <2>1, <2>7 DEF DeleteMessage
  <2>8. QED
    BY <2>3, <2>4, <2>5, <2>6, <2>7
<1>5. handler'[h] = state /\ \A g \in Handlers \ {h} : handler'[g] = handler[g]
  BY <1>4, BecomeMoves DEF ClaimInv
<1>6. \A d \in Chunks \ {c} : message'[d] = message[d]
  BY DEF ReadChunk, Reread, Summarise, Settle, DeleteMessage, ClaimInv, TypeInv, TypeOK
<1>7. message'[c].state # message[c].state => handler[h].pc # "read"
  BY DEF ReadChunk, Reread, Summarise, Settle, DeleteMessage, At
<1>8. QED
  <2> HIDE DEF c
  <2>1. QED
    BY <1>1, <1>2, <1>3, <1>4, <1>5, <1>6, <1>7, BystanderClaims DEF OwnerSteps

(* Receiving a message starts a handler that owns nothing.                 *)
LEMMA ReceiveClaims ==
    ASSUME StoreSyncConstants, ClaimInv, TypeInv', NEW h \in Handlers, NEW c \in Chunks,
           Receive(h, c)
    PROVE  ClaimInv'
<1>1. handler'[h].pc = "read" /\ handler'[h].chunk = c
  BY DEF Receive, Idle, ClaimInv, TypeInv
<1>2. \A g \in Handlers \ {h} : handler'[g] = handler[g]
  BY DEF Receive, ClaimInv, TypeInv
<1>3. message'[c].state = "inflight" /\ \A d \in Chunks \ {c} : message'[d] = message[d]
  BY DEF Receive, Delivered, ClaimInv, TypeInv, TypeOK
<1>4. handler[h].pc = "idle" /\ message[c].state = "visible"
  BY DEF Receive
<1>5. chunk[c].status # "ABSENT"
  BY <1>4 DEF ClaimInv, Known
<1>6. UNCHANGED <<chunk, crashed>>
  BY DEF Receive, database
<1>7. QED
  BY <1>1, <1>2, <1>3, <1>4, <1>5, <1>6, BystanderClaims DEF OwnerSteps

(* An owner stays the owner: the steps of the try block, and those that    *)
(* lead from it to the catch block.                                        *)
LEMMA OwnerKeepsClaims ==
    ASSUME StoreSyncConstants, ClaimInv, TypeInv', NEW h \in Handlers,
           \/ Start(h) \/ LookupDevices(h) \/ ReadExisting(h) \/ InsertBatch(h)
           \/ ThrowInTry(h)
    PROVE  ClaimInv'
<1>1. handler[h].pc \in OwnerSteps \ {"fail"} /\ UNCHANGED <<chunk, message, crashed>>
  BY DEF Start, LookupDevices, ReadExisting, InsertBatch, ThrowInTry, At, OwnerSteps, database
<1>2. handler[h] \in HandlerState
  BY DEF ClaimInv, TypeInv, WellFormed
<1>3. PICK state :
         /\ Become(h, state)
         /\ state.pc \in OwnerSteps /\ state.chunk = handler[h].chunk
  <2>1. ASSUME NEW step \in OwnerSteps, GoTo(h, step)
        PROVE  \E state : Become(h, state) /\ state.pc \in OwnerSteps
                                          /\ state.chunk = handler[h].chunk
    <3> DEFINE next == [handler[h] EXCEPT !.pc = step]
    <3>1. next.pc \in OwnerSteps /\ next.chunk = handler[h].chunk
      BY <1>2, <2>1 DEF HandlerState
    <3>2. Become(h, next)
      BY <2>1 DEF GoTo, Become
    <3> HIDE DEF next
    <3>3. QED
      BY <3>1, <3>2
  <2>2. CASE Start(h)
    <3> DEFINE next == [handler[h] EXCEPT !.pc = "devices"]
    <3>1. next.pc \in OwnerSteps /\ next.chunk = handler[h].chunk
      BY <1>2 DEF HandlerState, OwnerSteps
    <3>2. Become(h, next) \/ GoTo(h, "fail")
      BY <2>2 DEF Start, Continue
    <3> HIDE DEF next
    <3>3. QED
      BY <2>1, <3>1, <3>2 DEF OwnerSteps
  <2>3. CASE LookupDevices(h)
    BY <2>1, <2>3 DEF LookupDevices, OwnerSteps
  <2>4. CASE ReadExisting(h)
    <3>1. PICK found : Become(h, [handler[h] EXCEPT !.pc = "insert", !.existing = found])
      BY <2>4 DEF ReadExisting
    <3> DEFINE next == [handler[h] EXCEPT !.pc = "insert", !.existing = found]
    <3>2. next.pc \in OwnerSteps /\ next.chunk = handler[h].chunk
      BY <1>2 DEF HandlerState, OwnerSteps
    <3>3. Become(h, next)
      BY <3>1
    <3> HIDE DEF next
    <3>4. QED
      BY <3>2, <3>3
  <2>5. CASE InsertBatch(h)
    <3>1. \/ GoTo(h, "fail")
          \/ \E new : Become(h, [handler[h] EXCEPT !.pc = "succeed", !.existing = {},
                                                  !.created = new])
      BY <2>5 DEF InsertBatch, Continue
    <3>2. ASSUME NEW new, Become(h, [handler[h] EXCEPT !.pc = "succeed", !.existing = {},
                                                    !.created = new])
          PROVE  \E state : Become(h, state) /\ state.pc \in OwnerSteps
                                            /\ state.chunk = handler[h].chunk
      <4> DEFINE next == [handler[h] EXCEPT !.pc = "succeed", !.existing = {},
                                            !.created = new]
      <4>1. next.pc \in OwnerSteps /\ next.chunk = handler[h].chunk
        BY <1>2 DEF HandlerState, OwnerSteps
      <4>2. Become(h, next)
        BY <3>2
      <4> HIDE DEF next
      <4>3. QED
        BY <4>1, <4>2
    <3>3. QED
      BY <2>1, <3>1, <3>2 DEF OwnerSteps
  <2>6. CASE ThrowInTry(h)
    BY <2>1, <2>6 DEF ThrowInTry, OwnerSteps
  <2>7. QED
    BY <2>2, <2>3, <2>4, <2>5, <2>6
<1>4. handler'[h] = state /\ \A g \in Handlers \ {h} : handler'[g] = handler[g]
  BY <1>3, BecomeMoves DEF ClaimInv
<1>5. \A g \in Handlers, c \in Chunks : Owns(g, c)' <=> Owns(g, c)
  BY <1>1, <1>3, <1>4 DEF Owns
<1>6. Known' /\ DeletedMessageWasTaken'
  BY <1>1, <1>3, <1>4 DEF ClaimInv, Known, DeletedMessageWasTaken, OwnerSteps
<1>7. PastClaim' /\ OwnerStatus'
  BY <1>1, <1>3, <1>4 DEF ClaimInv, PastClaim, OwnerStatus, OwnerSteps
<1>8. OneOwner' /\ NoForgottenClaim'
  BY <1>1, <1>5 DEF ClaimInv, OneOwner, NoForgottenClaim
<1>9. QED
  BY <1>6, <1>7, <1>8 DEF ClaimInv

(* The claim is won only while the chunk is PENDING, when nobody owns it.  *)
LEMMA ClaimClaims ==
    ASSUME StoreSyncConstants, ClaimInv, TypeInv', NEW h \in Handlers, Claim(h)
    PROVE  ClaimInv'
<1>1. handler[h].pc = "claim" /\ UNCHANGED <<message, crashed>>
  BY DEF Claim, At
<1>2. PICK c \in Chunks : /\ c = Target(h) /\ handler[h].chunk = c
                           /\ chunk[c].status # "ABSENT"
  BY <1>1, TargetTyped DEF ClaimInv, Known, Target
<1>3. CASE chunk[c].status = "PENDING"
  <2>1. /\ handler'[h].pc = "start" /\ handler'[h].chunk = c
        /\ \A g \in Handlers \ {h} : handler'[g] = handler[g]
    BY <1>2, <1>3, GoToMoves DEF Claim, Claimable, ClaimInv
  <2>2. /\ chunk'[c].status = "PROCESSING"
        /\ \A d \in Chunks \ {c} : chunk'[d] = chunk[d]
    BY <1>2, <1>3 DEF Claim, Claimable, ClaimInv, TypeInv, TypeOK, ChunkRow
  <2>3. \A g \in Handlers : ~Owns(g, c)
    BY <1>2, <1>3 DEF ClaimInv, OwnerStatus, Owns
  <2>4. \A g \in Handlers : handler[g].pc # "idle" => handler[g].chunk \in Chunks
    BY DEF ClaimInv, TypeInv, WellFormed
  <2>5. Known' /\ PastClaim'
    BY <1>1, <1>2, <2>1, <2>2, <2>4 DEF ClaimInv, Known, PastClaim, Taken
  <2>6. OwnerStatus'
    BY <1>1, <1>2, <1>3, <2>1, <2>2, <2>3, <2>4 DEF ClaimInv, OwnerStatus, OwnerSteps, Owns
  <2>7. OneOwner'
    BY <1>2, <2>1, <2>3 DEF ClaimInv, OneOwner, Owns
  <2>8. NoForgottenClaim'
    <3>1. Owns(h, c)'
      BY <1>2, <2>1 DEF Owns, OwnerSteps
    <3>2. \A g \in Handlers, d \in Chunks \ {c} : Owns(g, d) => Owns(g, d)'
      BY <1>1, <2>1 DEF Owns, OwnerSteps
    <3>3. QED
      BY <1>1, <2>2, <3>1, <3>2 DEF ClaimInv, NoForgottenClaim
  <2>9. DeletedMessageWasTaken'
    BY <1>1, <2>2 DEF ClaimInv, DeletedMessageWasTaken
  <2>10. QED
    BY <2>5, <2>6, <2>7, <2>8, <2>9 DEF ClaimInv
<1>4. CASE chunk[c].status # "PENDING"
  <2>1. /\ handler'[h].pc = "reread" /\ handler'[h].chunk = c
        /\ \A g \in Handlers \ {h} : handler'[g] = handler[g]
    BY <1>2, <1>4, GoToMoves DEF Claim, Claimable, ClaimInv
  <2>2. UNCHANGED chunk /\ chunk[c].status \in Taken
    BY <1>2, <1>4 DEF Claim, Claimable, ClaimInv, TypeInv, TypeOK, ChunkRow, RowStatus, Taken
  <2>3. QED
    BY <1>1, <1>2, <2>1, <2>2, BystanderClaims DEF OwnerSteps
<1>5. QED
  BY <1>3, <1>4

(* The owner concludes its chunk, or leaves it and is recorded as crashed; *)
(* by OneOwner no other handler owns it.                                   *)
LEMMA ConcludeClaims ==
    ASSUME StoreSyncConstants, ClaimInv, TypeInv', NEW h \in Handlers,
           MarkSuccess(h) \/ MarkFailed(h) \/ Abort(h)
    PROVE  ClaimInv'
<1> DEFINE c == Target(h)
<1>1. handler[h].pc # "idle" /\ UNCHANGED message
  BY DEF MarkSuccess, MarkFailed, Abort, At
<1>2. c \in Chunks /\ handler[h].chunk = c /\ chunk[c].status # "ABSENT"
  BY <1>1, TargetTyped DEF ClaimInv, Known, Target
<1>3. \A g \in Handlers : handler[g].pc # "idle" => handler[g].chunk \in Chunks
  BY DEF ClaimInv, TypeInv, WellFormed
<1>4. /\ Finalizing(c, TRUE).pc = "summarise" /\ Finalizing(c, TRUE).chunk = c
      /\ Finalizing(c, FALSE).pc = "summarise" /\ Finalizing(c, FALSE).chunk = c
      /\ Idle.pc = "idle"
  BY DEF Idle, Finalizing
<1>5. /\ \A g \in Handlers \ {h} : handler'[g] = handler[g]
      /\ handler'[h].pc \in {"idle", "summarise", "fail"}
      /\ handler'[h].pc # "idle" => handler'[h].chunk = c
  <2>1. CASE MarkSuccess(h)
    <3>1. Become(h, Finalizing(c, TRUE)) \/ GoTo(h, "fail")
      BY <2>1 DEF MarkSuccess, Continue
    <3>2. QED
      BY <1>2, <1>4, <3>1, BecomeMoves, GoToMoves DEF ClaimInv
  <2>2. CASE MarkFailed(h) \/ Abort(h)
    BY <1>4, <2>2, BecomeMoves DEF MarkFailed, Abort, ClaimInv
  <2>3. QED
    BY <2>1, <2>2
<1>6. \A d \in Chunks \ {c} : chunk'[d] = chunk[d] /\ (d \in crashed <=> d \in crashed')
  BY DEF MarkSuccess, MarkFailed, Abort, GiveUp, ClaimInv, TypeInv, TypeOK, database
<1>7. /\ \/ chunk'[c].status = chunk[c].status
         \/ handler[h].pc \in OwnerSteps /\ chunk[c].status # "REMOVED"
            /\ chunk'[c].status \in Terminal
      /\ handler[h].pc \in OwnerSteps /\ chunk'[c].status = "PROCESSING" =>
            c \in crashed'
      /\ handler'[h].pc = "fail" => /\ handler[h].pc \in OwnerSteps
                                    /\ chunk'[c].status \in {"SUCCESS", "REMOVED"}
      /\ handler'[h].pc = "summarise" => handler[h].pc \in OwnerSteps
      /\ crashed \subseteq crashed'
  <2>1. CASE MarkSuccess(h)
    <3>1. handler[h].pc = "succeed" /\ UNCHANGED crashed
      BY <2>1 DEF MarkSuccess, At
    <3>2. \/ chunk[c].status = "REMOVED" /\ UNCHANGED chunk
          \/ chunk[c].status # "REMOVED" /\ chunk'[c].status = "SUCCESS"
      <4> DEFINE row == [status |-> "SUCCESS", inserted |-> CountInserted(h)]
      <4>1. \/ chunk[c].status = "REMOVED" /\ UNCHANGED chunk
            \/ chunk[c].status # "REMOVED" /\ chunk' = [chunk EXCEPT ![c] = row]
        BY <2>1 DEF MarkSuccess
      <4>2. row.status = "SUCCESS"
        OBVIOUS
      <4> HIDE DEF row
      <4>3. QED
        BY <1>2, <4>1, <4>2 DEF ClaimInv, TypeInv, TypeOK
    <3>3. QED
      BY <3>1, <3>2 DEF OwnerSteps, Terminal
  <2>2. CASE MarkFailed(h)
    <3>1. handler[h].pc = "fail" /\ UNCHANGED crashed
      BY <2>2 DEF MarkFailed, At
    <3>2. handler'[h].pc = "summarise"
      BY <1>4, <2>2, BecomeMoves DEF MarkFailed, ClaimInv
    <3>3. \/ chunk[c].status = "PROCESSING" /\ chunk'[c].status = "FAILED"
          \/ chunk[c].status # "PROCESSING" /\ UNCHANGED chunk
      BY <1>2, <2>2 DEF MarkFailed, GiveUp, ClaimInv, TypeInv, TypeOK, ChunkRow
    <3>4. QED
      BY <3>1, <3>2, <3>3 DEF OwnerSteps, Terminal
  <2>3. CASE Abort(h)
    <3>1. UNCHANGED chunk /\ handler'[h].pc = "idle"
      BY <1>4, <2>3, BecomeMoves DEF Abort, database, ClaimInv
    <3>2. crashed \subseteq crashed' /\ (handler[h].pc \in OwnerSteps => c \in crashed')
      BY <2>3 DEF Abort
    <3>3. QED
      BY <3>1, <3>2
  <2>4. QED
    BY <2>1, <2>2, <2>3
<1> HIDE DEF c
<1>8. \A g \in Handlers \ {h} : handler[h].pc \in OwnerSteps => ~Owns(g, c)
  BY <1>2 DEF ClaimInv, OneOwner, Owns
<1>9. Known' /\ PastClaim'
  BY <1>1, <1>2, <1>3, <1>5, <1>6, <1>7
  DEF ClaimInv, Known, PastClaim, Taken, Terminal, OwnerSteps
<1>10. OwnerStatus'
  <2>1. ASSUME NEW g \in Handlers, (handler[g].pc \in OwnerSteps)'
        PROVE  \/ chunk'[handler'[g].chunk].status \in {"PROCESSING", "REMOVED"}
               \/ handler'[g].pc = "fail" /\ chunk'[handler'[g].chunk].status = "SUCCESS"
    <3>1. CASE g = h
      BY <1>5, <1>7, <2>1, <3>1 DEF OwnerSteps
    <3>2. CASE g # h /\ handler[g].chunk = c
      BY <1>5, <1>7, <1>8, <2>1, <3>2 DEF ClaimInv, OwnerStatus, Owns
    <3>3. CASE g # h /\ handler[g].chunk # c
      BY <1>3, <1>5, <1>6, <2>1, <3>3 DEF ClaimInv, OwnerStatus, OwnerSteps
    <3>4. QED
      BY <3>1, <3>2, <3>3
  <2>2. QED
    BY <2>1 DEF OwnerStatus
<1>11. \A g \in Handlers, d \in Chunks : Owns(g, d)' => Owns(g, d)
  BY <1>2, <1>5, <1>7 DEF Owns, OwnerSteps
<1>12. OneOwner'
  BY <1>11 DEF ClaimInv, OneOwner
<1>13. NoForgottenClaim'
  <2>1. ASSUME NEW d \in Chunks, chunk'[d].status = "PROCESSING", d \notin crashed'
        PROVE  \E g \in Handlers : Owns(g, d)'
    <3>1. chunk[d].status = "PROCESSING" /\ d \notin crashed
      BY <1>6, <1>7, <2>1 DEF Terminal
    <3>2. PICK g \in Handlers : Owns(g, d)
      BY <3>1 DEF ClaimInv, NoForgottenClaim
    <3>3. g # h
      BY <1>2, <1>7, <2>1, <3>2 DEF Owns
    <3>4. QED
      BY <1>5, <3>2, <3>3 DEF Owns
  <2>2. QED
    BY <2>1 DEF NoForgottenClaim
<1>14. DeletedMessageWasTaken'
  BY <1>1, <1>6, <1>7 DEF ClaimInv, DeletedMessageWasTaken, Terminal
<1>15. QED
  BY <1>9, <1>10, <1>12, <1>13, <1>14 DEF ClaimInv

(* ClaimInv is inductive.                                                  *)
LEMMA NextClaims == StoreSyncConstants /\ ClaimInv /\ [Next]_vars => ClaimInv'
<1> SUFFICES ASSUME StoreSyncConstants, ClaimInv, [Next]_vars
             PROVE  ClaimInv'
  OBVIOUS
<1>1. TypeInv'
  BY NextTyped DEF ClaimInv
<1>2. CASE UNCHANGED vars
  BY <1>1, <1>2, AsideClaims
<1>3. CASE \E u \in Uploads : UploadStep(u) \/ AbortUpload(u)
  BY <1>1, <1>3, AsideClaims, ChunkRowsClaims DEF UploadStep, RecordsOf
<1>4. CASE \E c \in Chunks : SendFails(c) \/ VisibilityTimeout(c)
  BY <1>1, <1>4, AsideClaims
<1>5. CASE \E h \in Handlers, c \in Chunks : Receive(h, c)
  BY <1>1, <1>5, ReceiveClaims
<1>6. CASE \E h \in Handlers : HandlerStep(h) \/ ThrowInTry(h) \/ Abort(h)
  BY <1>1, <1>6, ReaderClaims, OwnerKeepsClaims, ClaimClaims, ConcludeClaims
  DEF HandlerStep
<1>7. CASE \E s \in Stores : SetStoreStatus(s) \/ RemoveStore(s)
  BY <1>1, <1>7, AsideClaims, ChunkRowsClaims
<1>8. QED
  BY <1>2, <1>3, <1>4, <1>5, <1>6, <1>7 DEF Next

(* ... and therefore invariant.                                            *)
LEMMA ClaimInvariant == Spec => []ClaimInv
  BY StoreSyncConstants, InitClaims, NextClaims, PTL DEF Spec

(* However often SQS delivers a message, and whichever handlers crash, at  *)
(* most one handler is between the claim of a chunk and its conclusion.    *)
THEOREM ClaimIsExclusive == Spec => []OneOwner
  BY ClaimInvariant, PTL DEF ClaimInv

(* Only a handler that was cut short leaves its chunk PROCESSING.          *)
THEOREM ClaimIsNotForgotten == Spec => []NoForgottenClaim
  BY ClaimInvariant, PTL DEF ClaimInv

(* A message is deleted only after its chunk was taken up.                 *)
THEOREM MessageIsKept == Spec => []DeletedMessageWasTaken
  BY ClaimInvariant, PTL DEF ClaimInv

-----------------------------------------------------------------------------
(* What StoreSync reports is true, counts what is there, stays, and is     *)
(* what SyncOutcome promises.                                              *)

(* Chunks exist only under a record, and are deleted together with it.     *)
Together ==
    \A c \in Chunks :
        /\ chunk[c].status # "ABSENT" => record[RecordOf[c]].status # "ABSENT"
        /\ chunk[c].status = "REMOVED" => record[RecordOf[c]].status = "REMOVED"
        /\ record[RecordOf[c]].status = "REMOVED" =>
              chunk[c].status \in {"ABSENT", "REMOVED"}

(* All chunks of r are there, or have been.                                *)
AllStored(r) == \A c \in ChunksOf(r) : chunk[c].status # "ABSENT"

(* Messages and handlers are about records that are stored as a whole.     *)
Whole ==
    /\ \A c \in Chunks : message[c].state # "unsent" => AllStored(RecordOf[c])
    /\ \A h \in Handlers : handler[h].pc # "idle" => AllStored(ParentOf(h))

(* A row that chunk c has inserted is counted by c, or will be should c    *)
(* still succeed.                                                          *)
Accounted(a, c) ==
    /\ chunk[c].status = "SUCCESS" => a \in chunk[c].inserted
    /\ \A h \in Handlers : Owns(h, c) /\ handler[h].pc # "fail" =>
          handler[h].pc = "succeed" /\ a \in handler[h].created

(* Every row was inserted on behalf of a chunk of its record, ...          *)
RowsAccounted ==
    \A a \in Attendance : attendance[a] # None =>
        \E c \in Chunks : /\ RecordOf[c] = attendance[a] /\ a \in Payload[c]
                          /\ chunk[c].status \in {"PROCESSING", "SUCCESS", "FAILED"}
                          /\ Accounted(a, c)

(* ... and whatever is counted, or about to be, is such a row.             *)
CountedAreRows ==
    /\ \A c \in Chunks : chunk[c].status = "SUCCESS" =>
          \A a \in chunk[c].inserted : attendance[a] = RecordOf[c]
    /\ \A h \in Handlers :
          handler[h].pc = "succeed" /\ chunk[Target(h)].status # "REMOVED" =>
             \A a \in handler[h].created : attendance[a] = ParentOf(h)

(* The payload of a chunk that has succeeded, or is about to, is there.    *)
PayloadKept ==
    /\ \A c \in Chunks : chunk[c].status = "SUCCESS" =>
          \A a \in Payload[c] : Kept(a, RecordOf[c])
    /\ \A h \in Handlers :
          handler[h].pc = "succeed" /\ chunk[Target(h)].status # "REMOVED" =>
             \A a \in Payload[Target(h)] : Kept(a, ParentOf(h))
    /\ \A h \in Handlers :
          handler[h].pc = "insert" /\ chunk[Target(h)].status # "REMOVED" =>
             \A a \in handler[h].existing : Kept(a, ParentOf(h))

(* The summary of a finalization covers every chunk of the record, and     *)
(* what it says of concluded chunks is still true when the row is updated. *)
SummaryHolds(h) ==
    LET sum == handler[h].summary IN
    /\ sum.chunks = ChunksOf(ParentOf(h))
    /\ sum.failed \subseteq sum.nonSuccess
    /\ \A c \in sum.failed : c \in ChunksOf(ParentOf(h)) /\ chunk[c].status = "FAILED"
    /\ \A c \in sum.chunks \ sum.nonSuccess : chunk[c].status = "SUCCESS"
    /\ sum.nonSuccess = {} => sum.inserted = UNION {chunk[c].inserted : c \in sum.chunks}
SummariesHold ==
    \A h \in Handlers :
        handler[h].pc = "settle" /\ record[ParentOf(h)].status # "REMOVED" => SummaryHolds(h)

(* What a record reports.                                                  *)
ReportsHold ==
    \A r \in Records :
        /\ record[r].status = "SUCCESS" =>
              /\ \A c \in ChunksOf(r) : chunk[c].status = "SUCCESS"
              /\ record[r].inserted = UNION {chunk[c].inserted : c \in ChunksOf(r)}
        /\ record[r].status = "FAILED" =>
              record[r].error \in ChunksOf(r) /\ chunk[record[r].error].status = "FAILED"

OutcomeInv ==
    /\ Together
    /\ Whole
    /\ RowsAccounted
    /\ CountedAreRows
    /\ PayloadKept
    /\ SummariesHold
    /\ ReportsHold

(* OutcomeInv holds initially.                                             *)
LEMMA InitOutcome == StoreSyncConstants /\ Init => OutcomeInv
<1> SUFFICES ASSUME StoreSyncConstants, Init
             PROVE  OutcomeInv
  OBVIOUS
<1>1. Together /\ Whole
  BY DEF StoreSyncConstants, Init, Idle, Together, Whole
<1>2. RowsAccounted /\ CountedAreRows /\ PayloadKept
  BY DEF Init, Idle, RowsAccounted, CountedAreRows, PayloadKept
<1>3. SummariesHold /\ ReportsHold
  BY DEF Init, Idle, SummariesHold, ReportsHold
<1>4. QED
  BY <1>1, <1>2, <1>3 DEF OutcomeInv

(* A busy handler has a chunk, before and after a step.                    *)
LEMMA Targets ==
    ASSUME StoreSyncConstants, TypeInv, NEW h \in Handlers, handler[h].pc # "idle"
    PROVE  /\ handler[h].chunk \in Chunks /\ Target(h) = handler[h].chunk
           /\ ParentOf(h) = RecordOf[handler[h].chunk] /\ ParentOf(h) \in Records
           /\ handler[h].chunk \in ChunksOf(ParentOf(h))
  BY DEF TypeInv, WellFormed, Target, ParentOf, ChunksOf, StoreSyncConstants

(* Kept stays true while no row is deleted.                                *)
LEMMA KeptStays ==
    ASSUME StoreSyncConstants, NEW a \in Attendance, NEW r, Kept(a, r),
           attendance[a] # None => attendance'[a] # None,
           \A s \in Stores : storeStatus[s] = "removed" => storeStatus'[s] = "removed"
    PROVE  Kept(a, r)'
  BY DEF Kept, StoreSyncConstants

(* A step that deletes and inserts nothing, concludes no chunk and reports *)
(* no outcome keeps the invariant, if the handlers it moves do not come to *)
(* a point where they have something new to answer for.                    *)
QuietRecords ==
    \A r \in Records :
        \/ record'[r] = record[r]
        \/ /\ record[r].status \notin {"SUCCESS", "FAILED", "REMOVED"}
           /\ record'[r].status \notin {"ABSENT", "SUCCESS", "FAILED", "REMOVED"}
QuietChunks ==
    \A c \in Chunks :
        \/ chunk'[c] = chunk[c]
        \/ /\ chunk[c].status = "ABSENT" /\ chunk'[c].status = "PENDING"
           /\ record[RecordOf[c]].status \notin {"ABSENT", "REMOVED"}
        \/ chunk[c].status = "PENDING" /\ chunk'[c].status = "PROCESSING"
QuietMessages ==
    \A c \in Chunks : message[c].state = "unsent" =>
        message'[c].state = "unsent" \/ AllStored(RecordOf[c])
QuietMove(h) ==
    /\ handler'[h].pc # "idle" => AllStored(ParentOf(h)')
    /\ handler'[h].pc \in OwnerSteps \ {"fail"} =>
          \/ chunk[handler'[h].chunk].status = "PENDING"
          \/ /\ handler[h].pc \in OwnerSteps \ {"fail", "succeed"}
             /\ handler[h].chunk = handler'[h].chunk
    /\ handler'[h].pc # "succeed"
    /\ handler'[h].pc = "insert" => \A a \in handler'[h].existing : attendance[a] # None
    /\ handler'[h].pc = "settle" =>
          record[ParentOf(h)'].status = "REMOVED" \/ SummaryHolds(h)'

LEMMA QuietOutcome ==
    ASSUME StoreSyncConstants, ClaimInv, OutcomeInv, ClaimInv',
           QuietRecords, QuietChunks, QuietMessages, UNCHANGED attendance,
           \A s \in Stores : storeStatus[s] = "removed" => storeStatus'[s] = "removed",
           \A h \in Handlers : handler'[h] = handler[h] \/ QuietMove(h)
    PROVE  OutcomeInv'
<1> USE DEF QuietRecords, QuietChunks
<1>1. TypeInv /\ TypeInv'
  BY DEF ClaimInv
<1>2. \A h \in Handlers : handler[h].pc # "idle" =>
         handler[h].chunk \in Chunks /\ ParentOf(h) = RecordOf[handler[h].chunk]
         /\ Target(h) = handler[h].chunk
  BY <1>1, Targets
<1>3. \A h \in Handlers : handler'[h].pc # "idle" =>
         /\ handler'[h].chunk \in Chunks /\ ParentOf(h)' = RecordOf[handler'[h].chunk]
         /\ Target(h)' = handler'[h].chunk
  BY <1>1 DEF TypeInv, WellFormed, ParentOf, Target
<1>4. \A c \in Chunks : RecordOf[c] \in Records
  BY DEF StoreSyncConstants
<1>5. Together'
  BY <1>4 DEF OutcomeInv, Together
<1>6. \A r \in Records : AllStored(r) => AllStored(r)'
  BY DEF AllStored, ChunksOf
<1>7. Whole'
  <2>1. ASSUME NEW c \in Chunks, message'[c].state # "unsent"
        PROVE  AllStored(RecordOf[c])'
    BY <1>4, <1>6, <2>1 DEF OutcomeInv, Whole, QuietMessages
  <2>2. ASSUME NEW h \in Handlers, handler'[h].pc # "idle"
        PROVE  AllStored(ParentOf(h))'
    <3>1. AllStored(ParentOf(h)')
      BY <2>2 DEF OutcomeInv, Whole, QuietMove, ParentOf
    <3>2. QED
      BY <1>3, <1>4, <2>2, <3>1 DEF AllStored, ChunksOf
  <2>3. QED
    BY <2>1, <2>2 DEF Whole
<1>8. RowsAccounted'
  <2>1. ASSUME NEW a \in Attendance, attendance'[a] # None
        PROVE  \E c \in Chunks : /\ RecordOf[c] = attendance'[a] /\ a \in Payload[c]
                                 /\ chunk'[c].status \in {"PROCESSING", "SUCCESS", "FAILED"}
                                 /\ Accounted(a, c)'
    <3>1. PICK c \in Chunks : /\ RecordOf[c] = attendance[a] /\ a \in Payload[c]
                              /\ chunk[c].status \in {"PROCESSING", "SUCCESS", "FAILED"}
                              /\ Accounted(a, c)
      BY <2>1 DEF OutcomeInv, RowsAccounted
    <3>2. chunk'[c] = chunk[c]
      BY <3>1
    <3>3. ASSUME NEW h \in Handlers, Owns(h, c)', handler'[h].pc # "fail"
          PROVE  handler'[h].pc = "succeed" /\ a \in handler'[h].created
      <4>1. CASE handler'[h] = handler[h]
        BY <3>1, <3>3, <4>1 DEF Accounted, Owns
      <4>2. CASE QuietMove(h)
        <5>1. Owns(h, c) /\ handler[h].pc \notin {"fail", "succeed"}
          BY <3>1, <3>3, <4>2 DEF QuietMove, Owns
        <5>2. QED
          BY <3>1, <5>1 DEF Accounted
      <4>3. QED
        BY <4>1, <4>2
    <3>4. QED
      BY <3>1, <3>2, <3>3 DEF Accounted
  <2>2. QED
    BY <2>1 DEF RowsAccounted
<1>9. \A h \in Handlers : handler'[h].pc = "succeed" => handler'[h] = handler[h]
  BY DEF QuietMove
<1>10. CountedAreRows'
  <2>1. ASSUME NEW h \in Handlers, handler'[h].pc = "succeed",
               (chunk[Target(h)].status # "REMOVED")'
        PROVE  \A a \in handler'[h].created : attendance'[a] = ParentOf(h)'
    <3>1. handler'[h] = handler[h] /\ ParentOf(h)' = ParentOf(h) /\ Target(h)' = Target(h)
      BY <1>9, <2>1 DEF ParentOf, Target
    <3>2. chunk[Target(h)].status # "REMOVED"
      BY <1>2, <2>1, <3>1
    <3>3. QED
      BY <2>1, <3>1, <3>2 DEF OutcomeInv, CountedAreRows
  <2>2. QED
    BY <2>1 DEF OutcomeInv, CountedAreRows
<1>11. PayloadKept'
  <2>1. ASSUME NEW c \in Chunks, chunk'[c].status = "SUCCESS", NEW a \in Payload[c]
        PROVE  Kept(a, RecordOf[c])'
    <3>1. Kept(a, RecordOf[c]) /\ a \in Attendance
      BY <2>1 DEF OutcomeInv, PayloadKept, StoreSyncConstants
    <3>2. Kept(a, RecordOf[c])'
      BY <3>1, KeptStays
    <3>3. QED
      BY <3>2
  <2>2. ASSUME NEW h \in Handlers, handler'[h].pc = "succeed",
               (chunk[Target(h)].status # "REMOVED")', NEW a \in Payload[Target(h)']
        PROVE  Kept(a, ParentOf(h))'
    <3>1. handler'[h] = handler[h] /\ ParentOf(h)' = ParentOf(h) /\ Target(h)' = Target(h)
      BY <1>9, <2>2 DEF ParentOf, Target
    <3>2. chunk[Target(h)].status # "REMOVED" /\ Target(h) \in Chunks
      BY <1>2, <2>2, <3>1
    <3>3. Kept(a, ParentOf(h)) /\ a \in Attendance
      BY <2>2, <3>1, <3>2 DEF OutcomeInv, PayloadKept, StoreSyncConstants
    <3>4. QED
      BY <3>1, <3>3 DEF Kept, StoreSyncConstants
  <2>3. ASSUME NEW h \in Handlers, handler'[h].pc = "insert",
               (chunk[Target(h)].status # "REMOVED")', NEW a \in handler'[h].existing
        PROVE  Kept(a, ParentOf(h))'
    <3>1. CASE handler'[h] = handler[h]
      <4>1. ParentOf(h)' = ParentOf(h) /\ Target(h)' = Target(h)
        BY <3>1 DEF ParentOf, Target
      <4>2. chunk[Target(h)].status # "REMOVED"
        BY <1>2, <2>3, <3>1, <4>1
      <4>3. Kept(a, ParentOf(h))
        BY <2>3, <3>1, <4>2 DEF OutcomeInv, PayloadKept
      <4>4. QED
        BY <4>1, <4>3 DEF Kept, StoreSyncConstants
    <3>2. CASE QuietMove(h)
      BY <2>3, <3>2 DEF QuietMove, Kept
    <3>3. QED
      BY <3>1, <3>2
  <2>4. QED
    BY <2>1, <2>2, <2>3 DEF PayloadKept
<1>12. SummariesHold'
  <2>1. ASSUME NEW h \in Handlers, handler'[h].pc = "settle",
               (record[ParentOf(h)].status # "REMOVED")'
        PROVE  SummaryHolds(h)'
    <3>1. record[ParentOf(h)'].status # "REMOVED"
      BY <1>3, <1>4, <2>1
    <3>2. CASE handler'[h] = handler[h]
      <4>1. ParentOf(h)' = ParentOf(h) /\ SummaryHolds(h)
        BY <2>1, <3>1, <3>2 DEF ParentOf, OutcomeInv, SummariesHold
      <4>2. \A c \in ChunksOf(ParentOf(h)) : chunk[c].status \in Terminal => chunk'[c] = chunk[c]
        BY DEF ChunksOf, Terminal
      <4>3. QED
        BY <3>2, <4>1, <4>2 DEF SummaryHolds, Terminal
    <3>3. CASE QuietMove(h)
      BY <2>1, <3>1, <3>3 DEF QuietMove
    <3>4. QED
      BY <3>2, <3>3
  <2>2. QED
    BY <2>1 DEF SummariesHold
<1>13. ReportsHold'
  BY DEF OutcomeInv, ReportsHold, ChunksOf
<1>14. QED
  BY <1>5, <1>7, <1>8, <1>10, <1>11, <1>12, <1>13 DEF OutcomeInv

(* Creating, sending and timing out, and the status of a store.            *)
LEMMA AsideOutcome ==
    ASSUME StoreSyncConstants, ClaimInv, OutcomeInv, ClaimInv',
           \/ \E u \in Uploads : CheckDevices(u) \/ AbortUpload(u)
           \/ \E r \in Records : CreateRecord(r)
           \/ \E c \in Chunks : CreateChunk(c) \/ Send(c) \/ SendFails(c)
                                \/ VisibilityTimeout(c)
           \/ \E s \in Stores : SetStoreStatus(s)
           \/ UNCHANGED vars
    PROVE  OutcomeInv'
<1>1. TypeOK
  BY DEF ClaimInv, TypeInv
<1>2. UNCHANGED <<handler, attendance>>
  BY DEF CheckDevices, AbortUpload, CreateRecord, CreateChunk, Send, SendFails,
         VisibilityTimeout, SetStoreStatus, vars, database
<1>3. QuietRecords
  BY <1>1 DEF CheckDevices, AbortUpload, CreateRecord, CreateChunk, Send, SendFails,
         VisibilityTimeout, SetStoreStatus, vars, database, QuietRecords, TypeOK, RecordRow
<1>4. QuietChunks
  BY <1>1 DEF CheckDevices, AbortUpload, CreateRecord, CreateChunk, Send, SendFails,
         VisibilityTimeout, SetStoreStatus, vars, database, QuietChunks, TypeOK, ChunkRow
<1>5. QuietMessages
  <2>1. ASSUME NEW c \in Chunks, Send(c) \/ SendFails(c)
        PROVE  QuietMessages
    <3>1. RecordOf[c] \in RecordsOf(UploadOf[RecordOf[c]])
      BY DEF RecordsOf, StoreSyncConstants
    <3>2. AllStored(RecordOf[c])
      BY <2>1, <3>1 DEF Send, SendFails, MaySend, Stored, AllStored
    <3>3. \A d \in Chunks \ {c} : message'[d] = message[d]
      BY <1>1, <2>1 DEF Send, SendFails, TypeOK
    <3>4. QED
      BY <3>2, <3>3 DEF QuietMessages
  <2>2. ASSUME NEW c \in Chunks, VisibilityTimeout(c)
        PROVE  QuietMessages
    BY <1>1, <2>2 DEF VisibilityTimeout, QuietMessages, TypeOK
  <2>3. QED
    BY <2>1, <2>2 DEF CheckDevices, AbortUpload, CreateRecord, CreateChunk,
         SetStoreStatus, vars, QuietMessages
<1>6. \A s \in Stores : storeStatus[s] = "removed" => storeStatus'[s] = "removed"
  BY <1>1 DEF CheckDevices, AbortUpload, CreateRecord, CreateChunk, Send, SendFails,
         VisibilityTimeout, SetStoreStatus, vars, database, TypeOK
<1>7. QED
  BY <1>2, <1>3, <1>4, <1>5, <1>6, QuietOutcome

(* A busy handler that goes on with the same chunk, or ends.               *)
LEMMA MoveOutcome ==
    ASSUME StoreSyncConstants, ClaimInv, OutcomeInv, ClaimInv', NEW h \in Handlers,
           UNCHANGED <<storeStatus, attendance>>, QuietRecords, QuietChunks,
           QuietMessages,
           \A g \in Handlers \ {h} : handler'[g] = handler[g],
           handler'[h].pc # "idle" =>
              handler[h].pc # "idle" /\ handler'[h].chunk = handler[h].chunk,
           handler'[h].pc \in OwnerSteps \ {"fail"} =>
              \/ chunk[handler[h].chunk].status = "PENDING"
              \/ handler[h].pc \in OwnerSteps \ {"fail", "succeed"},
           handler'[h].pc \notin {"insert", "succeed", "settle"}
    PROVE  OutcomeInv'
<1>1. QuietMove(h)
  BY DEF QuietMove, OutcomeInv, Whole, ParentOf, OwnerSteps
<1>2. QED
  BY <1>1, QuietOutcome

(* In particular when an owner gives up.                                   *)
LEMMA FailOutcome ==
    ASSUME StoreSyncConstants, ClaimInv, OutcomeInv, ClaimInv', NEW h \in Handlers,
           handler[h].pc # "idle", GoTo(h, "fail"), QuietRecords,
           UNCHANGED <<storeStatus, chunk, attendance, message>>
    PROVE  OutcomeInv'
<1>1. QuietChunks /\ QuietMessages
  BY DEF QuietChunks, QuietMessages
<1>2. /\ handler'[h].pc = "fail" /\ handler'[h].chunk = handler[h].chunk
      /\ \A g \in Handlers \ {h} : handler'[g] = handler[g]
  BY GoToMoves DEF ClaimInv
<1>3. QED
  BY <1>1, <1>2, MoveOutcome DEF OwnerSteps

(* Receiving a message.                                                    *)
LEMMA ReceiveOutcome ==
    ASSUME StoreSyncConstants, ClaimInv, OutcomeInv, ClaimInv',
           NEW h \in Handlers, NEW c \in Chunks, Receive(h, c)
    PROVE  OutcomeInv'
<1>1. /\ handler'[h].pc = "read" /\ handler'[h].chunk = c
      /\ \A g \in Handlers \ {h} : handler'[g] = handler[g]
  BY DEF Receive, Idle, ClaimInv, TypeInv
<1>2. UNCHANGED <<storeStatus, record, chunk, attendance>> /\ QuietRecords /\ QuietChunks
  BY DEF Receive, database, QuietRecords, QuietChunks
<1>3. message[c].state = "visible" /\ \A d \in Chunks \ {c} : message'[d] = message[d]
  BY DEF Receive, ClaimInv, TypeInv, TypeOK
<1>4. AllStored(RecordOf[c])
  BY <1>3 DEF OutcomeInv, Whole
<1>5. ParentOf(h)' = RecordOf[c]
  BY <1>1 DEF ParentOf
<1>6. AllStored(ParentOf(h)')
  BY <1>4, <1>5
<1>7. QuietMove(h)
  BY <1>1, <1>6 DEF QuietMove, OwnerSteps
<1>8. QuietMessages
  BY <1>3 DEF QuietMessages
<1>9. QED
  BY <1>1, <1>2, <1>7, <1>8, QuietOutcome

(* Reading, finalizing, acknowledging and ending.                          *)
LEMMA ReaderOutcome ==
    ASSUME StoreSyncConstants, ClaimInv, OutcomeInv, ClaimInv', NEW h \in Handlers,
           ReadChunk(h) \/ Reread(h) \/ DeleteMessage(h) \/ Abort(h)
    PROVE  OutcomeInv'
<1>1. handler[h].pc # "idle"
  BY DEF ReadChunk, Reread, DeleteMessage, Abort, At
<1>2. UNCHANGED <<storeStatus, record, chunk, attendance>> /\ QuietRecords /\ QuietChunks
  BY DEF ReadChunk, Reread, DeleteMessage, Abort, database, QuietRecords, QuietChunks
<1>3. handler[h].chunk \in Chunks /\ Target(h) = handler[h].chunk /\ handler[h] \in HandlerState
  BY <1>1, Targets DEF ClaimInv, TypeInv, WellFormed
<1>4. QuietMessages
  <2>1. AllStored(RecordOf[Target(h)])
    BY <1>1, <1>3, Targets DEF OutcomeInv, Whole, ClaimInv
  <2>2. \A d \in Chunks \ {Target(h)} : message'[d] = message[d]
    BY DEF ReadChunk, Reread, DeleteMessage, Abort, database, ClaimInv, TypeInv, TypeOK
  <2>3. QED
    BY <2>1, <2>2 DEF QuietMessages
<1>5. PICK state :
         /\ Become(h, state)
         /\ state.pc \in {"idle", "claim", "summarise", "delete"}
         /\ state.pc # "idle" => state.chunk = handler[h].chunk
  <2> DEFINE c == Target(h)
             next == [handler[h] EXCEPT !.pc = "claim",
                  !.storeActive = storeStatus[StoreOf[ParentOf(h)]] = "active"]
  <2>1. /\ Idle.pc = "idle"
        /\ Finalizing(c, TRUE).pc = "summarise" /\ Finalizing(c, TRUE).chunk = c
        /\ Acknowledging(c).pc = "delete" /\ Acknowledging(c).chunk = c
    BY DEF Idle, Finalizing, Acknowledging
  <2>2. next.pc = "claim" /\ next.chunk = c
    BY <1>3 DEF HandlerState
  <2>3. \/ Become(h, Idle) \/ Become(h, Finalizing(c, TRUE))
        \/ Become(h, Acknowledging(c)) \/ Become(h, next)
    BY DEF ReadChunk, Reread, DeleteMessage, Abort, Rejected, AlreadyConcluded
  <2> HIDE DEF next
  <2>4. QED
    BY <1>3, <2>1, <2>2, <2>3
<1>6. handler'[h] = state /\ \A g \in Handlers \ {h} : handler'[g] = handler[g]
  BY <1>5, BecomeMoves DEF ClaimInv
<1>7. /\ handler'[h].pc \in {"idle", "claim", "summarise", "delete"}
      /\ handler'[h].pc # "idle" => handler'[h].chunk = handler[h].chunk
  BY <1>5, <1>6
<1>8. QED
  BY <1>1, <1>2, <1>4, <1>6, <1>7, MoveOutcome DEF OwnerSteps

(* The claim, won or lost.                                                 *)
LEMMA ClaimOutcome ==
    ASSUME StoreSyncConstants, ClaimInv, OutcomeInv, ClaimInv', NEW h \in Handlers, Claim(h)
    PROVE  OutcomeInv'
<1>1. handler[h].pc = "claim" /\ UNCHANGED <<storeStatus, record, attendance, message>>
  BY DEF Claim, At
<1>2. Target(h) = handler[h].chunk /\ handler[h].chunk \in Chunks
  BY <1>1, Targets DEF ClaimInv
<1>3. QuietRecords /\ QuietMessages
  BY <1>1 DEF QuietRecords, QuietMessages
<1>4. QuietChunks
  BY <1>2 DEF Claim, Claimable, QuietChunks, ClaimInv, TypeInv, TypeOK, ChunkRow
<1>5. /\ handler'[h].chunk = handler[h].chunk
      /\ \A g \in Handlers \ {h} : handler'[g] = handler[g]
      /\ \/ handler'[h].pc = "start" /\ chunk[handler[h].chunk].status = "PENDING"
         \/ handler'[h].pc = "reread"
  <2>1. CASE GoTo(h, "start") /\ Claimable(Target(h))
    BY <1>2, <2>1, GoToMoves DEF Claimable, ClaimInv
  <2>2. CASE GoTo(h, "reread")
    BY <2>2, GoToMoves DEF ClaimInv
  <2>3. QED
    BY <2>1, <2>2 DEF Claim
<1>6. QED
  BY <1>1, <1>3, <1>4, <1>5, MoveOutcome DEF OwnerSteps

(* The steps of the try block that read, and those that leave it.          *)
LEMMA TryOutcome ==
    ASSUME StoreSyncConstants, ClaimInv, OutcomeInv, ClaimInv', NEW h \in Handlers,
           Start(h) \/ LookupDevices(h) \/ ReadExisting(h) \/ ThrowInTry(h)
    PROVE  OutcomeInv'
<1>1. handler[h].pc \in OwnerSteps \ {"fail"} /\ handler[h].pc # "idle"
  BY DEF Start, LookupDevices, ReadExisting, ThrowInTry, At, OwnerSteps
<1>2. UNCHANGED <<storeStatus, chunk, attendance, message>> /\ QuietChunks /\ QuietMessages
  BY DEF Start, LookupDevices, ReadExisting, ThrowInTry, database, QuietChunks, QuietMessages
<1>3. handler[h] \in HandlerState /\ ParentOf(h) \in Records
  BY <1>1, Targets DEF ClaimInv, TypeInv, WellFormed
<1>4. QuietRecords
  BY <1>3 DEF Start, LookupDevices, ReadExisting, ThrowInTry, database, QuietRecords,
              ClaimInv, TypeInv, TypeOK, RecordRow
<1>5. CASE GoTo(h, "fail")
  BY <1>1, <1>2, <1>4, <1>5, FailOutcome
<1>6. CASE Start(h) /\ ~GoTo(h, "fail")
  <2> DEFINE next == [handler[h] EXCEPT !.pc = "devices"]
  <2>1. next.pc = "devices" /\ next.chunk = handler[h].chunk
    BY <1>3 DEF HandlerState
  <2>2. Become(h, next) /\ handler[h].pc = "start"
    BY <1>6 DEF Start, Continue, At
  <2> HIDE DEF next
  <2>3. handler'[h] = next /\ \A g \in Handlers \ {h} : handler'[g] = handler[g]
    BY <2>2, BecomeMoves DEF ClaimInv
  <2>4. QED
    BY <1>1, <1>2, <1>4, <2>1, <2>2, <2>3, MoveOutcome DEF OwnerSteps
<1>7. CASE LookupDevices(h) /\ ~GoTo(h, "fail")
  <2>1. GoTo(h, "existing") /\ handler[h].pc = "devices"
    BY <1>7 DEF LookupDevices, At
  <2>2. /\ handler'[h].pc = "existing" /\ handler'[h].chunk = handler[h].chunk
        /\ \A g \in Handlers \ {h} : handler'[g] = handler[g]
    BY <2>1, GoToMoves DEF ClaimInv
  <2>3. QED
    BY <1>1, <1>2, <1>4, <2>1, <2>2, MoveOutcome DEF OwnerSteps
<1>8. CASE ReadExisting(h)
  <2> DEFINE found == {a \in Payload[Target(h)] : attendance[a] # None}
             next == [handler[h] EXCEPT !.pc = "insert", !.existing = found]
  <2>1. next.pc = "insert" /\ next.chunk = handler[h].chunk /\ next.existing = found
    BY <1>3 DEF HandlerState
  <2>2. Become(h, next) /\ handler[h].pc = "existing"
    BY <1>8 DEF ReadExisting, At
  <2> HIDE DEF next
  <2>3. handler'[h] = next /\ \A g \in Handlers \ {h} : handler'[g] = handler[g]
    BY <2>2, BecomeMoves DEF ClaimInv
  <2>4. ParentOf(h)' = ParentOf(h) /\ AllStored(ParentOf(h))
    BY <1>1, <2>1, <2>3 DEF ParentOf, OutcomeInv, Whole
  <2>5. QuietMove(h)
    BY <2>1, <2>2, <2>3, <2>4 DEF QuietMove, OwnerSteps
  <2>6. QED
    BY <1>2, <1>4, <2>3, <2>5, QuietOutcome
<1>9. QED
  BY <1>5, <1>6, <1>7, <1>8 DEF ThrowInTry

(* The summary of a record that is not deleted covers all of its chunks.   *)
LEMMA SummariseOutcome ==
    ASSUME StoreSyncConstants, ClaimInv, OutcomeInv, ClaimInv', NEW h \in Handlers,
           Summarise(h)
    PROVE  OutcomeInv'
<1> DEFINE r == ParentOf(h)
           rows == {c \in ChunksOf(r) : chunk[c].status \notin {"ABSENT", "REMOVED"}}
           sum == [chunks     |-> rows,
                   nonSuccess |-> {c \in rows : chunk[c].status # "SUCCESS"},
                   failed     |-> {c \in rows : chunk[c].status = "FAILED"},
                   inserted   |-> UNION {chunk[c].inserted : c \in rows}]
           next == [handler[h] EXCEPT !.pc = "settle", !.summary = sum]
<1>1. handler[h].pc # "idle"
  BY DEF Summarise, At
<1>2. handler[h] \in HandlerState
  BY DEF ClaimInv, TypeInv, WellFormed
<1>3. next.pc = "settle" /\ next.chunk = handler[h].chunk /\ next.summary = sum
  BY <1>2 DEF HandlerState
<1>4. Become(h, next)
  BY DEF Summarise
<1>5. UNCHANGED <<storeStatus, record, chunk, attendance, message>>
  BY DEF Summarise, database
<1>6. QuietRecords /\ QuietChunks /\ QuietMessages
  BY <1>5 DEF QuietRecords, QuietChunks, QuietMessages
<1>7. r \in Records /\ AllStored(r)
  BY <1>1, Targets DEF ClaimInv, OutcomeInv, Whole
<1>8. record[r].status # "REMOVED" => rows = ChunksOf(r)
  BY <1>7 DEF OutcomeInv, Together, AllStored, ChunksOf
<1>9. /\ sum.chunks = rows
      /\ sum.nonSuccess = {c \in rows : chunk[c].status # "SUCCESS"}
      /\ sum.failed = {c \in rows : chunk[c].status = "FAILED"}
      /\ sum.inserted = UNION {chunk[c].inserted : c \in rows}
  OBVIOUS
<1> HIDE DEF next, sum
<1>10. handler'[h] = next /\ \A g \in Handlers \ {h} : handler'[g] = handler[g]
  BY <1>4, BecomeMoves DEF ClaimInv
<1>11. ParentOf(h)' = r
  BY <1>3, <1>10 DEF ParentOf
<1>12. record[r].status # "REMOVED" => SummaryHolds(h)'
  <2>1. handler'[h].summary = sum
    BY <1>3, <1>10
  <2>2. QED
    BY <1>5, <1>8, <1>9, <1>11, <2>1 DEF SummaryHolds, ChunksOf
<1>13. QuietMove(h)
  BY <1>3, <1>7, <1>10, <1>11, <1>12 DEF QuietMove, OwnerSteps
<1>14. QED
  BY <1>5, <1>6, <1>10, <1>13, QuietOutcome

(* Rows are inserted on behalf of a chunk that is PROCESSING.              *)
LEMMA InsertOutcome ==
    ASSUME StoreSyncConstants, ClaimInv, OutcomeInv, ClaimInv', NEW h \in Handlers,
           InsertBatch(h)
    PROVE  OutcomeInv'
<1> DEFINE c == Target(h)
           r == ParentOf(h)
           new == {a \in Payload[c] \ handler[h].existing : attendance[a] = None}
           next == [handler[h] EXCEPT !.pc = "succeed", !.existing = {}, !.created = new]
<1>1. /\ handler[h].pc = "insert" /\ handler[h].pc # "idle"
      /\ UNCHANGED <<storeStatus, record, chunk, message>>
  BY DEF InsertBatch, At
<1>2. /\ c \in Chunks /\ handler[h].chunk = c /\ r = RecordOf[c] /\ r \in Records
      /\ handler[h] \in HandlerState
  BY <1>1, Targets DEF ClaimInv, TypeInv, WellFormed
<1>3. CASE GoTo(h, "fail") /\ UNCHANGED attendance
  <2>1. QuietRecords
    BY <1>1 DEF QuietRecords
  <2>2. QED
    BY <1>1, <1>3, <2>1, FailOutcome
<1>4. CASE /\ ~(new # {} /\ record[r].status = "REMOVED")
           /\ attendance' = [a \in Attendance |->
                                IF a \in new THEN OwnerOfRows(c) ELSE attendance[a]]
           /\ Continue(h, next)
  <2>1. next.pc = "succeed" /\ next.chunk = c /\ next.created = new
    BY <1>2 DEF HandlerState
  <2>2. \A a \in Attendance : attendance'[a] = IF a \in new THEN r ELSE attendance[a]
    BY <1>2, <1>4 DEF OwnerOfRows
  <2>3. \A a \in new : a \in Payload[c] /\ a \notin handler[h].existing /\ attendance[a] = None
    OBVIOUS
  <2>4. \A a \in Payload[c] : a \in handler[h].existing \/ attendance[a] # None \/ a \in new
    OBVIOUS
  <2>5. new # {} => record[r].status # "REMOVED"
    BY <1>4
  <2>6. /\ handler'[h].chunk = c
        /\ \/ handler'[h].pc = "succeed" /\ handler'[h].created = new
           \/ handler'[h].pc = "fail"
        /\ \A g \in Handlers \ {h} : handler'[g] = handler[g]
    <3> HIDE DEF next, new, c
    <3>1. CASE Become(h, next)
      BY <2>1, <3>1, BecomeMoves DEF ClaimInv
    <3>2. CASE GoTo(h, "fail")
      BY <1>2, <3>2, GoToMoves DEF ClaimInv
    <3>3. QED
      BY <1>4, <3>1, <3>2 DEF Continue
  <2> HIDE DEF next, new, c, r
  <2>7. new # {} => chunk[c].status = "PROCESSING"
    BY <1>1, <1>2, <2>5 DEF ClaimInv, OwnerStatus, OwnerSteps, OutcomeInv, Together
  <2>8. \A g \in Handlers \ {h} : /\ handler[g].pc \in OwnerSteps => handler[g].chunk # c
                                  /\ Target(g)' = Target(g) /\ ParentOf(g)' = ParentOf(g)
    BY <1>1, <1>2, <2>6 DEF ClaimInv, OneOwner, Owns, OwnerSteps, Target, ParentOf
  <2>9. Target(h)' = c /\ ParentOf(h)' = r
    BY <1>2, <2>6 DEF Target, ParentOf
  <2>10. Together'
    BY <1>1 DEF OutcomeInv, Together
  <2>11. Whole'
    <3>1. \A g \in Handlers : handler'[g].pc # "idle" =>
             handler[g].pc # "idle" /\ ParentOf(g)' = ParentOf(g)
      BY <1>1, <1>2, <2>6, <2>8, <2>9 DEF r
    <3>2. QED
      BY <1>1, <3>1 DEF OutcomeInv, Whole, AllStored
  <2>12. RowsAccounted'
    <3>1. ASSUME NEW a \in Attendance, attendance'[a] # None
          PROVE  \E d \in Chunks : /\ RecordOf[d] = attendance'[a] /\ a \in Payload[d]
                                   /\ chunk'[d].status \in {"PROCESSING", "SUCCESS", "FAILED"}
                                   /\ Accounted(a, d)'
      <4>1. CASE a \in new
        <5>1. PICK d \in Chunks : d = c
          BY <1>2
        <5>2. chunk'[d].status = "PROCESSING"
          BY <1>1, <2>7, <4>1, <5>1
        <5>3. \A g \in Handlers : handler'[g].pc \in OwnerSteps /\ handler'[g].chunk = d => g = h
          BY <2>6, <2>8, <5>1
        <5>4. Accounted(a, d)'
          BY <2>6, <4>1, <5>2, <5>3 DEF Accounted, Owns
        <5>5. QED
          BY <1>2, <2>2, <2>3, <4>1, <5>1, <5>2, <5>4
      <4>2. CASE a \notin new
        <5>1. PICK d \in Chunks : /\ RecordOf[d] = attendance[a] /\ a \in Payload[d]
                                  /\ chunk[d].status \in {"PROCESSING", "SUCCESS", "FAILED"}
                                  /\ Accounted(a, d)
          BY <2>2, <3>1, <4>2 DEF OutcomeInv, RowsAccounted
        <5>2. d # c
          BY <1>1, <1>2, <5>1 DEF Accounted, Owns, OwnerSteps
        <5>3. \A g \in Handlers : Owns(g, d)' => g # h /\ Owns(g, d)
          BY <2>6, <5>2 DEF Owns
        <5>4. Accounted(a, d)'
          BY <1>1, <2>6, <5>1, <5>3 DEF Accounted
        <5>5. QED
          BY <1>1, <2>2, <4>2, <5>1, <5>4
      <4>3. QED
        BY <4>1, <4>2
    <3>2. QED
      BY <3>1 DEF RowsAccounted
  <2>13. CountedAreRows'
    <3>1. ASSUME NEW d \in Chunks, chunk'[d].status = "SUCCESS", NEW a \in chunk'[d].inserted
          PROVE  attendance'[a] = RecordOf[d]
      <4>1. attendance[a] = RecordOf[d] /\ a \in Attendance /\ RecordOf[d] \in Records
        BY <1>1, <3>1 DEF OutcomeInv, CountedAreRows, ClaimInv, TypeInv, TypeOK, ChunkRow,
                          StoreSyncConstants
      <4>2. RecordOf[d] # None
        BY <4>1 DEF StoreSyncConstants
      <4>3. QED
        BY <2>2, <2>3, <4>1, <4>2
    <3>2. ASSUME NEW g \in Handlers, handler'[g].pc = "succeed",
                 (chunk[Target(g)].status # "REMOVED")', NEW a \in handler'[g].created
          PROVE  attendance'[a] = ParentOf(g)'
      <4>1. CASE g = h
        <5>1. a \in new /\ Payload[c] \subseteq Attendance
          BY <1>2, <2>6, <3>2, <4>1 DEF StoreSyncConstants
        <5>2. QED
          BY <2>2, <2>3, <2>9, <4>1, <5>1
      <4>2. CASE g # h
        <5>1. /\ handler[g].pc = "succeed" /\ chunk[Target(g)].status # "REMOVED"
              /\ a \in handler[g].created
          BY <1>1, <2>6, <2>8, <3>2, <4>2
        <5>2. attendance[a] = ParentOf(g) /\ ParentOf(g) \in Records /\ a \in Attendance
          BY <5>1, Targets DEF OutcomeInv, CountedAreRows, ClaimInv, TypeInv, WellFormed,
                               HandlerState
        <5>3. ParentOf(g) # None
          BY <5>2 DEF StoreSyncConstants
        <5>4. QED
          BY <2>2, <2>3, <2>8, <4>2, <5>2, <5>3
      <4>3. QED
        BY <4>1, <4>2
    <3>3. QED
      BY <3>1, <3>2 DEF CountedAreRows
  <2>14. \A a \in Attendance : \A q : Kept(a, q) => Kept(a, q)'
    <3>1. None \notin Records
      BY DEF StoreSyncConstants
    <3>2. QED
      BY <1>1, <1>2, <2>2, <3>1 DEF Kept
  <2>15. PayloadKept'
    <3>1. \A d \in Chunks : Payload[d] \subseteq Attendance
      BY DEF StoreSyncConstants
    <3>2. ASSUME NEW d \in Chunks, chunk'[d].status = "SUCCESS", NEW a \in Payload[d]
          PROVE  Kept(a, RecordOf[d])'
      BY <1>1, <2>14, <3>1, <3>2 DEF OutcomeInv, PayloadKept, Kept
    <3>3. ASSUME NEW g \in Handlers \ {h}
          PROVE  /\ handler'[g].pc = "succeed" /\ (chunk[Target(g)].status # "REMOVED")' =>
                       \A a \in Payload[Target(g)'] : Kept(a, ParentOf(g))'
                 /\ handler'[g].pc = "insert" /\ (chunk[Target(g)].status # "REMOVED")' =>
                       \A a \in handler'[g].existing : Kept(a, ParentOf(g))'
      <4>1. handler'[g] = handler[g] /\ Target(g)' = Target(g) /\ ParentOf(g)' = ParentOf(g)
        BY <2>6, <2>8
      <4>2. handler[g].pc # "idle" => Target(g) \in Chunks /\ handler[g].existing \subseteq Attendance
        BY Targets DEF ClaimInv, TypeInv, WellFormed, HandlerState
      <4>3. \A a \in Attendance : Kept(a, ParentOf(g)) => Kept(a, ParentOf(g))'
        BY <2>14, <4>1 DEF Kept
      <4>4. QED
        BY <1>1, <3>1, <4>1, <4>2, <4>3 DEF OutcomeInv, PayloadKept
    <3>4. ASSUME handler'[h].pc = "succeed", (chunk[Target(h)].status # "REMOVED")',
                 NEW a \in Payload[Target(h)']
          PROVE  Kept(a, ParentOf(h))'
      <4>1. a \in Payload[c] /\ a \in Attendance /\ chunk[c].status # "REMOVED"
        BY <1>1, <1>2, <2>9, <3>1, <3>4
      <4>2. CASE a \in handler[h].existing
        <5>1. Kept(a, r)
          BY <1>1, <4>1, <4>2 DEF OutcomeInv, PayloadKept, c, r
        <5>2. QED
          BY <2>9, <2>14, <4>1, <5>1 DEF Kept
      <4>3. CASE attendance[a] # None
        <5>1. attendance'[a] # None
          BY <1>2, <2>2, <4>1, <4>3 DEF StoreSyncConstants
        <5>2. QED
          BY <5>1 DEF Kept
      <4>4. CASE a \in new
        <5>1. attendance'[a] # None
          BY <1>2, <2>2, <4>1, <4>4 DEF StoreSyncConstants
        <5>2. QED
          BY <5>1 DEF Kept
      <4>5. QED
        BY <2>4, <4>1, <4>2, <4>3, <4>4
    <3>5. handler'[h].pc # "insert"
      BY <2>6
    <3>6. QED
      BY <3>2, <3>3, <3>4, <3>5 DEF PayloadKept
  <2>16. SummariesHold'
    <3>1. \A g \in Handlers : handler'[g].pc = "settle" =>
             handler'[g] = handler[g] /\ ParentOf(g)' = ParentOf(g)
      BY <2>6, <2>8
    <3>2. QED
      BY <1>1, <3>1 DEF OutcomeInv, SummariesHold, SummaryHolds
  <2>17. ReportsHold'
    BY <1>1 DEF OutcomeInv, ReportsHold
  <2>18. QED
    BY <2>10, <2>11, <2>12, <2>13, <2>15, <2>16, <2>17 DEF OutcomeInv
<1>5. QED
  BY <1>3, <1>4 DEF InsertBatch

(* The owner concludes a chunk that is PROCESSING.                         *)
LEMMA ConcludeOutcome ==
    ASSUME StoreSyncConstants, ClaimInv, OutcomeInv, ClaimInv', NEW h \in Handlers,
           NEW c \in Chunks, Owns(h, c), chunk[c].status = "PROCESSING",
           UNCHANGED <<storeStatus, record, attendance, message>>,
           chunk'[c].status \in Terminal,
           chunk'[c].status = "SUCCESS" =>
              handler[h].pc = "succeed" /\ chunk'[c].inserted = handler[h].created,
           \A d \in Chunks \ {c} : chunk'[d] = chunk[d],
           handler'[h].pc \in {"summarise", "fail"}, handler'[h].chunk = c,
           \A g \in Handlers \ {h} : handler'[g] = handler[g]
    PROVE  OutcomeInv'
<1>1. \A g \in Handlers \ {h} :
         /\ handler[g].pc \in OwnerSteps => handler[g].chunk # c
         /\ Target(g)' = Target(g) /\ ParentOf(g)' = ParentOf(g)
  BY DEF ClaimInv, OneOwner, Owns, Target, ParentOf
<1>2. /\ handler[h].pc # "idle" /\ Target(h) = c /\ ParentOf(h) = RecordOf[c]
      /\ ParentOf(h)' = RecordOf[c] /\ RecordOf[c] \in Records
  BY DEF Owns, OwnerSteps, Target, ParentOf, StoreSyncConstants
<1>3. Together'
  BY DEF OutcomeInv, Together, Terminal
<1>4. Whole'
  <2>1. \A r \in Records : AllStored(r) => AllStored(r)'
    BY DEF AllStored, ChunksOf, Terminal
  <2>2. ASSUME NEW g \in Handlers, handler'[g].pc # "idle"
        PROVE  AllStored(ParentOf(g))'
    <3>1. handler[g].pc # "idle" /\ ParentOf(g)' = ParentOf(g)
      BY <1>1, <1>2, <2>2
    <3>2. AllStored(ParentOf(g)) /\ ParentOf(g) \in Records
      BY <3>1, Targets DEF OutcomeInv, Whole, ClaimInv
    <3>3. AllStored(ParentOf(g))'
      BY <2>1, <3>1, <3>2 DEF AllStored, ChunksOf
    <3>4. QED
      BY <3>3
  <2>3. ASSUME NEW d \in Chunks, message'[d].state # "unsent"
        PROVE  AllStored(RecordOf[d])'
    BY <2>1, <2>3 DEF OutcomeInv, Whole, StoreSyncConstants
  <2>4. QED
    BY <2>2, <2>3 DEF Whole
<1>5. RowsAccounted'
  <2>1. ASSUME NEW a \in Attendance, attendance'[a] # None
        PROVE  \E d \in Chunks : /\ RecordOf[d] = attendance'[a] /\ a \in Payload[d]
                                 /\ chunk'[d].status \in {"PROCESSING", "SUCCESS", "FAILED"}
                                 /\ Accounted(a, d)'
    <3>1. PICK d \in Chunks : /\ RecordOf[d] = attendance[a] /\ a \in Payload[d]
                              /\ chunk[d].status \in {"PROCESSING", "SUCCESS", "FAILED"}
                              /\ Accounted(a, d)
      BY <2>1 DEF OutcomeInv, RowsAccounted
    <3>2. \A g \in Handlers : Owns(g, d)' /\ handler'[g].pc # "fail" => g # h /\ Owns(g, d)
      BY DEF Owns, OwnerSteps
    <3>3. chunk'[d].status = "SUCCESS" => a \in chunk'[d].inserted
      <4>1. CASE d = c
        BY <3>1, <4>1 DEF Accounted
      <4>2. CASE d # c
        BY <3>1, <4>2 DEF Accounted
      <4>3. QED
        BY <4>1, <4>2
    <3>4. Accounted(a, d)'
      BY <3>1, <3>2, <3>3 DEF Accounted
    <3>5. QED
      BY <3>1, <3>4 DEF Terminal
  <2>2. QED
    BY <2>1 DEF RowsAccounted
<1>6. \A g \in Handlers : handler'[g].pc \in {"insert", "succeed", "settle"} =>
         /\ g # h /\ handler'[g] = handler[g] /\ Target(g)' = Target(g)
         /\ ParentOf(g)' = ParentOf(g)
  BY <1>1
<1>7. \A g \in Handlers : handler'[g].pc \in {"insert", "succeed"} =>
         Target(g) \in Chunks \ {c}
  BY <1>1, <1>6, Targets DEF ClaimInv, OwnerSteps
<1>8. CountedAreRows'
  BY <1>2, <1>6, <1>7 DEF OutcomeInv, CountedAreRows
<1>9. PayloadKept'
  <2>1. \A a \in Attendance : \A q : Kept(a, q)' <=> Kept(a, q)
    BY DEF Kept
  <2>2. ASSUME NEW d \in Chunks, chunk'[d].status = "SUCCESS", NEW a \in Payload[d]
        PROVE  Kept(a, RecordOf[d])'
    <3>1. CASE d = c
      BY <1>2, <2>2, <3>1 DEF OutcomeInv, PayloadKept, Kept
    <3>2. CASE d # c
      BY <2>2, <3>2 DEF OutcomeInv, PayloadKept, Kept
    <3>3. QED
      BY <3>1, <3>2
  <2>3. \A g \in Handlers : handler'[g].pc \in {"insert", "succeed"} =>
           \A a \in Attendance : Kept(a, ParentOf(g)) => Kept(a, ParentOf(g))'
    BY <1>6 DEF Kept
  <2>4. \A g \in Handlers : handler'[g].pc \in {"insert", "succeed"} =>
           handler[g].existing \subseteq Attendance /\ Payload[Target(g)] \subseteq Attendance
    BY <1>6, <1>7 DEF ClaimInv, TypeInv, WellFormed, HandlerState, StoreSyncConstants
  <2>5. QED
    BY <1>6, <1>7, <2>2, <2>3, <2>4 DEF OutcomeInv, PayloadKept
<1>10. SummariesHold'
  <2>1. ASSUME NEW g \in Handlers, handler'[g].pc = "settle",
               (record[ParentOf(g)].status # "REMOVED")'
        PROVE  SummaryHolds(g)'
    <3>1. /\ handler'[g] = handler[g] /\ ParentOf(g)' = ParentOf(g) /\ SummaryHolds(g)
          /\ ChunksOf(ParentOf(g)) \subseteq Chunks
      BY <1>6, <2>1 DEF OutcomeInv, SummariesHold, ChunksOf
    <3>2. c \notin handler[g].summary.failed
          /\ c \notin handler[g].summary.chunks \ handler[g].summary.nonSuccess
      BY <3>1 DEF SummaryHolds
    <3>3. QED
      BY <3>1, <3>2 DEF SummaryHolds
  <2>2. QED
    BY <2>1 DEF SummariesHold
<1>11. ReportsHold'
  BY DEF OutcomeInv, ReportsHold, ChunksOf
<1>12. QED
  BY <1>3, <1>4, <1>5, <1>8, <1>9, <1>10, <1>11 DEF OutcomeInv

(* MarkSuccess and the catch block.                                        *)
LEMMA MarkOutcome ==
    ASSUME StoreSyncConstants, ClaimInv, OutcomeInv, ClaimInv', NEW h \in Handlers,
           MarkSuccess(h) \/ MarkFailed(h)
    PROVE  OutcomeInv'
<1>1. /\ handler[h].pc \in {"succeed", "fail"} /\ handler[h].pc # "idle"
      /\ UNCHANGED <<storeStatus, record, attendance, message>>
  BY DEF MarkSuccess, MarkFailed, At
<1>2. PICK c \in Chunks : c = Target(h) /\ handler[h].chunk = c
  BY <1>1, Targets DEF ClaimInv
<1>3. Owns(h, c) /\ QuietRecords /\ QuietMessages
  BY <1>1, <1>2 DEF Owns, OwnerSteps, QuietRecords, QuietMessages
<1>4. /\ Finalizing(c, TRUE).pc = "summarise" /\ Finalizing(c, TRUE).chunk = c
      /\ Finalizing(c, FALSE).pc = "summarise" /\ Finalizing(c, FALSE).chunk = c
  BY DEF Idle, Finalizing
<1>5. CASE MarkSuccess(h) /\ chunk[c].status # "REMOVED"
  <2> DEFINE row == [status |-> "SUCCESS", inserted |-> CountInserted(h)]
  <2>1. handler[h].pc = "succeed"
    BY <1>5 DEF MarkSuccess, At
  <2>2. chunk[c].status = "PROCESSING"
    BY <1>2, <1>5, <2>1 DEF ClaimInv, OwnerStatus, OwnerSteps
  <2>3. chunk' = [chunk EXCEPT ![c] = row]
    BY <1>2, <1>5 DEF MarkSuccess
  <2>4. row.status = "SUCCESS" /\ row.inserted = handler[h].created
    BY DEF CountInserted
  <2> HIDE DEF row
  <2>5. chunk'[c] = row /\ \A d \in Chunks \ {c} : chunk'[d] = chunk[d]
    BY <2>3 DEF ClaimInv, TypeInv, TypeOK
  <2>6. /\ handler'[h].pc \in {"summarise", "fail"} /\ handler'[h].chunk = c
        /\ \A g \in Handlers \ {h} : handler'[g] = handler[g]
    <3>1. Become(h, Finalizing(c, TRUE)) \/ GoTo(h, "fail")
      BY <1>2, <1>5 DEF MarkSuccess, Continue
    <3>2. QED
      BY <1>2, <1>4, <3>1, BecomeMoves, GoToMoves DEF ClaimInv
  <2>7. QED
    BY <1>1, <1>3, <2>1, <2>2, <2>4, <2>5, <2>6, ConcludeOutcome DEF Terminal
<1>6. CASE MarkFailed(h) /\ chunk[c].status = "PROCESSING"
  <2>1. chunk'[c].status = "FAILED" /\ \A d \in Chunks \ {c} : chunk'[d] = chunk[d]
    BY <1>2, <1>6 DEF MarkFailed, GiveUp, ClaimInv, TypeInv, TypeOK, ChunkRow
  <2>2. /\ handler'[h].pc = "summarise" /\ handler'[h].chunk = c
        /\ \A g \in Handlers \ {h} : handler'[g] = handler[g]
    BY <1>2, <1>4, <1>6, BecomeMoves DEF MarkFailed, ClaimInv
  <2>3. QED
    BY <1>1, <1>3, <1>6, <2>1, <2>2, ConcludeOutcome DEF Terminal
<1>7. CASE /\ UNCHANGED chunk
           /\ GoTo(h, "fail") \/ Become(h, Finalizing(c, FALSE))
  <2>1. QuietChunks
    BY <1>7 DEF QuietChunks
  <2>2. /\ handler'[h].pc \in {"summarise", "fail"} /\ handler'[h].chunk = c
        /\ \A g \in Handlers \ {h} : handler'[g] = handler[g]
    BY <1>2, <1>4, <1>7, BecomeMoves, GoToMoves DEF ClaimInv
  <2>3. QED
    BY <1>1, <1>2, <1>3, <2>1, <2>2, MoveOutcome DEF OwnerSteps
<1>8. QED
  BY <1>2, <1>5, <1>6, <1>7 DEF MarkSuccess, MarkFailed, GiveUp

(* What the finalization can make of a row.                                *)
LEMMA SettledCases ==
    ASSUME NEW r \in Records, NEW sum
    PROVE  \/ Settled(r, sum) = record[r]
           \/ /\ sum.failed # {}
              /\ record[r].status \in {"PENDING", "PROCESSING", "FAILED"}
              /\ Settled(r, sum).status = "FAILED"
              /\ Settled(r, sum).error = ErrorOf(record[r], sum.failed)
           \/ /\ AllSucceeded(sum) /\ record[r].status = "PROCESSING"
              /\ Settled(r, sum).status = "SUCCESS"
              /\ Settled(r, sum).inserted = sum.inserted
           \/ /\ record[r].status \in {"PENDING", "PROCESSING"}
              /\ Settled(r, sum).status = "PROCESSING"
<1>1. CASE sum.failed # {} /\ record[r].status \in {"PENDING", "PROCESSING", "FAILED"}
  BY <1>1 DEF Settled
<1>2. CASE ~ (sum.failed # {} /\ record[r].status \in {"PENDING", "PROCESSING", "FAILED"})
  <2>1. CASE AllSucceeded(sum) /\ record[r].status = "PROCESSING"
    BY <1>2, <2>1 DEF Settled
  <2>2. CASE ~ (AllSucceeded(sum) /\ record[r].status = "PROCESSING")
    BY <1>2, <2>2 DEF Settled
  <2>3. QED
    BY <2>1, <2>2
<1>3. QED
  BY <1>1, <1>2

(* The finalization reports what its summary says, and that still holds.   *)
LEMMA SettleOutcome ==
    ASSUME StoreSyncConstants, ClaimInv, OutcomeInv, ClaimInv', NEW h \in Handlers, Settle(h)
    PROVE  OutcomeInv'
<1>1. /\ handler[h].pc = "settle" /\ handler[h].pc # "idle"
      /\ UNCHANGED <<storeStatus, chunk, attendance, message>>
  BY DEF Settle, At
<1>2. PICK r \in Records : r = ParentOf(h) /\ r = RecordOf[handler[h].chunk]
  BY <1>1, Targets DEF ClaimInv
<1>3. PICK sum \in Summary : sum = handler[h].summary
  BY DEF ClaimInv, TypeInv, WellFormed, HandlerState
<1>4. /\ record'[r] = Settled(r, sum) /\ \A q \in Records \ {r} : record'[q] = record[q]
  BY <1>2, <1>3 DEF Settle, ClaimInv, TypeInv, TypeOK
<1>5. record[r].status # "ABSENT"
  BY <1>1, <1>2, Targets DEF ClaimInv, OutcomeInv, Whole, AllStored, Together
<1>6. /\ record'[r].status # "ABSENT"
      /\ record'[r].status = "REMOVED" <=> record[r].status = "REMOVED"
  BY <1>4, <1>5, SettledCases
<1>7. /\ handler'[h].pc \in {"idle", "delete"}
      /\ handler'[h].pc # "idle" => handler'[h].chunk = handler[h].chunk
      /\ \A g \in Handlers \ {h} : handler'[g] = handler[g]
  <2>1. /\ Idle.pc = "idle" /\ Acknowledging(Target(h)).pc = "delete"
        /\ Acknowledging(Target(h)).chunk = handler[h].chunk
    BY DEF Idle, Acknowledging, Target
  <2>2. Become(h, Idle) \/ Become(h, Acknowledging(Target(h)))
    BY DEF Settle, Rejected
  <2>3. QED
    BY <2>1, <2>2, BecomeMoves DEF ClaimInv
<1>8. \A g \in Handlers : handler'[g].pc # "idle" =>
         handler[g].pc # "idle" /\ ParentOf(g)' = ParentOf(g) /\ Target(g)' = Target(g)
  BY <1>1, <1>7 DEF ParentOf, Target
<1>9. \A g \in Handlers : handler'[g].pc \in {"insert", "succeed", "settle"} =>
         handler'[g] = handler[g]
  BY <1>7
<1>10. Together'
  BY <1>1, <1>4, <1>5, <1>6 DEF OutcomeInv, Together
<1>11. Whole'
  BY <1>1, <1>8 DEF OutcomeInv, Whole, AllStored
<1>12. RowsAccounted'
  <2>1. \A a \in Attendance, c \in Chunks : Accounted(a, c) => Accounted(a, c)'
    <3>1. \A g \in Handlers, c \in Chunks : Owns(g, c)' => handler'[g] = handler[g] /\ Owns(g, c)
      BY <1>7 DEF Owns, OwnerSteps
    <3>2. QED
      BY <1>1, <3>1 DEF Accounted
  <2>2. QED
    BY <1>1, <2>1 DEF OutcomeInv, RowsAccounted
<1>13. CountedAreRows'
  BY <1>1, <1>8, <1>9 DEF OutcomeInv, CountedAreRows
<1>14. PayloadKept'
  BY <1>1, <1>8, <1>9 DEF OutcomeInv, PayloadKept, Kept
<1>15. SummariesHold'
  <2>1. ASSUME NEW g \in Handlers, handler'[g].pc = "settle",
               (record[ParentOf(g)].status # "REMOVED")'
        PROVE  SummaryHolds(g)'
    <3>1. ParentOf(g)' = ParentOf(g) /\ handler'[g] = handler[g] /\ ParentOf(g) \in Records
      BY <1>8, <1>9, <2>1, Targets DEF ClaimInv
    <3>2. record[ParentOf(g)].status # "REMOVED"
      BY <1>4, <1>6, <2>1, <3>1
    <3>3. QED
      BY <1>1, <2>1, <3>1, <3>2 DEF OutcomeInv, SummariesHold, SummaryHolds
  <2>2. QED
    BY <2>1 DEF SummariesHold
<1>16. ReportsHold'
  <2>1. ASSUME record'[r].status = "SUCCESS"
        PROVE  /\ \A c \in ChunksOf(r) : chunk[c].status = "SUCCESS"
               /\ record'[r].inserted = UNION {chunk[c].inserted : c \in ChunksOf(r)}
    <3>1. CASE record'[r] = record[r]
      BY <2>1, <3>1 DEF OutcomeInv, ReportsHold
    <3>2. CASE record'[r] # record[r]
      <4>1. /\ AllSucceeded(sum) /\ record[r].status = "PROCESSING"
            /\ record'[r].inserted = sum.inserted
        BY <1>4, <2>1, <3>2, SettledCases
      <4>2. SummaryHolds(h)
        BY <1>1, <1>2, <4>1 DEF OutcomeInv, SummariesHold
      <4>3. /\ sum.chunks = ChunksOf(r) /\ sum.nonSuccess = {}
            /\ \A c \in sum.chunks \ sum.nonSuccess : chunk[c].status = "SUCCESS"
            /\ sum.inserted = UNION {chunk[c].inserted : c \in sum.chunks}
        BY <1>2, <1>3, <4>1, <4>2 DEF SummaryHolds, AllSucceeded
      <4>4. QED
        BY <4>1, <4>3
    <3>3. QED
      BY <3>1, <3>2
  <2>2. ASSUME record'[r].status = "FAILED"
        PROVE  record'[r].error \in ChunksOf(r) /\ chunk[record'[r].error].status = "FAILED"
    <3>1. CASE record'[r] = record[r]
      BY <2>2, <3>1 DEF OutcomeInv, ReportsHold
    <3>2. CASE record'[r] # record[r]
      <4>1. /\ sum.failed # {} /\ record[r].status \in {"PENDING", "PROCESSING", "FAILED"}
            /\ record'[r].error = ErrorOf(record[r], sum.failed)
        BY <1>4, <2>2, <3>2, SettledCases
      <4>2. SummaryHolds(h)
        BY <1>1, <1>2, <4>1 DEF OutcomeInv, SummariesHold
      <4>3. CASE record[r].status = "FAILED"
        BY <4>1, <4>3 DEF OutcomeInv, ReportsHold, ErrorOf
      <4>4. CASE record[r].status # "FAILED"
        <5>1. sum.failed \in SUBSET Chunks
          BY DEF Summary
        <5>2. FirstOf(sum.failed) \in sum.failed
          BY <4>1, <5>1, FirstOfFailed
        <5>3. QED
          BY <1>2, <1>3, <4>1, <4>2, <4>4, <5>2 DEF SummaryHolds, ErrorOf
      <4>5. QED
        BY <4>3, <4>4
    <3>3. QED
      BY <3>1, <3>2
  <2>3. QED
    BY <1>1, <1>4, <2>1, <2>2 DEF OutcomeInv, ReportsHold
<1>17. QED
  BY <1>10, <1>11, <1>12, <1>13, <1>14, <1>15, <1>16 DEF OutcomeInv

(* Deleting a store takes its records, chunks and rows along.              *)
LEMMA RemoveOutcome ==
    ASSUME StoreSyncConstants, ClaimInv, OutcomeInv, ClaimInv', NEW s \in Stores,
           RemoveStore(s)
    PROVE  OutcomeInv'
<1> DEFINE gone == {r \in Records : StoreOf[r] = s /\ record[r].status # "ABSENT"}
<1>1. /\ UNCHANGED <<handler, message>>
      /\ \A q \in Stores : storeStatus'[q] = IF q = s THEN "removed" ELSE storeStatus[q]
      /\ \A r \in Records : IF r \in gone THEN record'[r].status = "REMOVED"
                                          ELSE record'[r] = record[r]
      /\ \A c \in Chunks : IF RecordOf[c] \in gone /\ chunk[c].status # "ABSENT"
                           THEN chunk'[c].status = "REMOVED" ELSE chunk'[c] = chunk[c]
      /\ \A a \in Attendance : attendance'[a] = IF attendance[a] \in gone
                                                THEN None ELSE attendance[a]
  BY DEF RemoveStore, ClaimInv, TypeInv, TypeOK
<1>2. \A r \in Records : r \in gone <=> StoreOf[r] = s /\ record[r].status # "ABSENT"
  OBVIOUS
<1> HIDE DEF gone
<1>3. \A g \in Handlers : handler[g].pc # "idle" =>
         /\ Target(g)' = Target(g) /\ ParentOf(g)' = ParentOf(g)
         /\ Target(g) \in Chunks /\ ParentOf(g) = RecordOf[Target(g)]
         /\ chunk[Target(g)].status # "ABSENT"
  <2>1. \A g \in Handlers : Target(g)' = Target(g) /\ ParentOf(g)' = ParentOf(g)
    BY <1>1 DEF Target, ParentOf
  <2>2. QED
    BY <2>1, Targets DEF ClaimInv, Known
<1>4. \A c \in Chunks : RecordOf[c] \in Records
  BY DEF StoreSyncConstants
<1>5. Together'
  BY <1>1, <1>2, <1>4 DEF OutcomeInv, Together
<1>6. Whole'
  BY <1>1, <1>3 DEF OutcomeInv, Whole, AllStored, ChunksOf
<1>7. RowsAccounted'
  <2>1. ASSUME NEW a \in Attendance, attendance'[a] # None
        PROVE  \E c \in Chunks : /\ RecordOf[c] = attendance'[a] /\ a \in Payload[c]
                                 /\ chunk'[c].status \in {"PROCESSING", "SUCCESS", "FAILED"}
                                 /\ Accounted(a, c)'
    <3>1. attendance'[a] = attendance[a] /\ attendance[a] \notin gone
      BY <1>1, <2>1
    <3>2. PICK c \in Chunks : /\ RecordOf[c] = attendance[a] /\ a \in Payload[c]
                              /\ chunk[c].status \in {"PROCESSING", "SUCCESS", "FAILED"}
                              /\ Accounted(a, c)
      BY <2>1, <3>1 DEF OutcomeInv, RowsAccounted
    <3>3. chunk'[c] = chunk[c]
      BY <1>1, <3>1, <3>2
    <3>4. Accounted(a, c)'
      BY <1>1, <3>2, <3>3 DEF Accounted, Owns
    <3>5. QED
      BY <3>1, <3>2, <3>3, <3>4
  <2>2. QED
    BY <2>1 DEF RowsAccounted
<1>8. \A c \in Chunks : chunk'[c].status # "REMOVED" /\ chunk[c].status # "ABSENT" =>
         RecordOf[c] \notin gone /\ chunk'[c] = chunk[c]
  BY <1>1
<1>9. CountedAreRows'
  <2>1. ASSUME NEW c \in Chunks, chunk'[c].status = "SUCCESS", NEW a \in chunk'[c].inserted
        PROVE  attendance'[a] = RecordOf[c]
    <3>1. chunk'[c] = chunk[c] /\ RecordOf[c] \notin gone
      BY <1>1, <1>8, <2>1
    <3>2. attendance[a] = RecordOf[c] /\ a \in Attendance
      BY <2>1, <3>1 DEF OutcomeInv, CountedAreRows, ClaimInv, TypeInv, TypeOK, ChunkRow
    <3>3. QED
      BY <1>1, <3>1, <3>2
  <2>2. ASSUME NEW g \in Handlers, handler'[g].pc = "succeed",
               (chunk[Target(g)].status # "REMOVED")', NEW a \in handler'[g].created
        PROVE  attendance'[a] = ParentOf(g)'
    <3>1. /\ handler[g].pc = "succeed" /\ chunk[Target(g)].status # "REMOVED"
          /\ ParentOf(g) \notin gone /\ ParentOf(g)' = ParentOf(g) /\ a \in handler[g].created
      BY <1>1, <1>3, <1>8, <2>2
    <3>2. attendance[a] = ParentOf(g) /\ a \in Attendance
      BY <3>1 DEF OutcomeInv, CountedAreRows, ClaimInv, TypeInv, WellFormed, HandlerState
    <3>3. QED
      BY <1>1, <3>1, <3>2
  <2>3. QED
    BY <2>1, <2>2 DEF CountedAreRows
<1>10. \A a \in Attendance, r \in Records :
          Kept(a, r) /\ record[r].status # "ABSENT" /\ r \notin gone => Kept(a, r)'
  <2>1. ASSUME NEW a \in Attendance, NEW r \in Records, Kept(a, r),
               record[r].status # "ABSENT", r \notin gone
        PROVE  Kept(a, r)'
    <3>1. StoreOf[r] # s
      BY <1>2, <2>1
    <3>2. CASE attendance[a] # None
      <4>1. CASE attendance[a] \in gone
        <5>1. PICK c \in Chunks : RecordOf[c] = attendance[a] /\ a \in Payload[c]
          BY <3>2 DEF OutcomeInv, RowsAccounted
        <5>2. StoreOf[RecordOf[c]] = s /\ storeStatus'[s] = "removed"
          BY <1>1, <1>2, <1>4, <4>1, <5>1
        <5>3. QED
          BY <3>1, <5>1, <5>2 DEF Kept
      <4>2. CASE attendance[a] \notin gone
        BY <1>1, <3>2, <4>2 DEF Kept
      <4>3. QED
        BY <4>1, <4>2
    <3>3. CASE attendance[a] = None
      <4>1. \A q \in Stores : storeStatus[q] = "removed" => storeStatus'[q] = "removed"
        BY <1>1
      <4>2. QED
        BY <2>1, <3>3, <4>1, KeptStays
    <3>4. QED
      BY <3>2, <3>3
  <2>2. QED
    BY <2>1
<1>11. PayloadKept'
  <2>1. \A c \in Chunks : chunk[c].status # "ABSENT" => record[RecordOf[c]].status # "ABSENT"
    BY DEF OutcomeInv, Together
  <2>2. \A c \in Chunks : Payload[c] \subseteq Attendance
    BY DEF StoreSyncConstants
  <2>3. ASSUME NEW c \in Chunks, chunk'[c].status = "SUCCESS", NEW a \in Payload[c]
        PROVE  Kept(a, RecordOf[c])'
    <3>1. chunk[c].status = "SUCCESS" /\ RecordOf[c] \notin gone
      BY <1>1, <1>8, <2>3
    <3>2. Kept(a, RecordOf[c]) /\ a \in Attendance /\ record[RecordOf[c]].status # "ABSENT"
      BY <2>1, <2>2, <2>3, <3>1 DEF OutcomeInv, PayloadKept
    <3>3. QED
      BY <1>4, <1>10, <3>1, <3>2
  <2>4. ASSUME NEW g \in Handlers, handler'[g].pc \in {"insert", "succeed"},
               (chunk[Target(g)].status # "REMOVED")'
        PROVE  /\ Target(g)' = Target(g) /\ chunk[Target(g)].status # "REMOVED"
               /\ \A a \in Attendance : Kept(a, ParentOf(g)) => Kept(a, ParentOf(g))'
    <3>1. /\ handler[g].pc # "idle" /\ chunk[Target(g)].status # "REMOVED"
          /\ ParentOf(g) \notin gone /\ ParentOf(g)' = ParentOf(g) /\ Target(g)' = Target(g)
          /\ ParentOf(g) \in Records /\ record[ParentOf(g)].status # "ABSENT"
      BY <1>1, <1>3, <1>4, <1>8, <2>1, <2>4
    <3>2. ASSUME NEW a \in Attendance, Kept(a, ParentOf(g))
          PROVE  Kept(a, ParentOf(g))'
      <4>1. PICK r \in Records : r = ParentOf(g)
        BY <3>1
      <4>2. Kept(a, r)'
        BY <1>10, <3>1, <3>2, <4>1
      <4>3. QED
        BY <3>1, <4>1, <4>2 DEF Kept
    <3>3. QED
      BY <3>1, <3>2
  <2>5. \A g \in Handlers : handler[g].existing \subseteq Attendance
    BY DEF ClaimInv, TypeInv, WellFormed, HandlerState
  <2>6. QED
    BY <1>1, <1>3, <2>2, <2>3, <2>4, <2>5 DEF OutcomeInv, PayloadKept
<1>12. SummariesHold'
  <2>1. ASSUME NEW g \in Handlers, handler'[g].pc = "settle",
               (record[ParentOf(g)].status # "REMOVED")'
        PROVE  SummaryHolds(g)'
    <3>1. /\ handler[g].pc = "settle" /\ ParentOf(g)' = ParentOf(g)
          /\ ParentOf(g) \in Records /\ ParentOf(g) \notin gone
          /\ record[ParentOf(g)].status # "REMOVED"
      BY <1>1, <1>3, <1>4, <2>1
    <3>2. \A c \in ChunksOf(ParentOf(g)) : chunk'[c] = chunk[c]
      BY <1>1, <3>1 DEF ChunksOf
    <3>3. SummaryHolds(g)
      BY <3>1 DEF OutcomeInv, SummariesHold
    <3>4. QED
      BY <1>1, <3>1, <3>2, <3>3 DEF SummaryHolds
  <2>2. QED
    BY <2>1 DEF SummariesHold
<1>13. ReportsHold'
  <2>1. ASSUME NEW r \in Records, record'[r].status \in {"SUCCESS", "FAILED"}
        PROVE  record'[r] = record[r] /\ \A c \in ChunksOf(r) : chunk'[c] = chunk[c]
    BY <1>1, <2>1 DEF ChunksOf
  <2>2. QED
    BY <2>1 DEF OutcomeInv, ReportsHold
<1>14. QED
  BY <1>5, <1>6, <1>7, <1>9, <1>11, <1>12, <1>13 DEF OutcomeInv

(* OutcomeInv is inductive, given ClaimInv.                                *)
LEMMA NextOutcome ==
    StoreSyncConstants /\ ClaimInv /\ ClaimInv' /\ OutcomeInv /\ [Next]_vars => OutcomeInv'
<1> SUFFICES ASSUME StoreSyncConstants, ClaimInv, ClaimInv', OutcomeInv, [Next]_vars
             PROVE  OutcomeInv'
  OBVIOUS
<1>1. CASE UNCHANGED vars
  BY <1>1, AsideOutcome
<1>2. CASE \E u \in Uploads : UploadStep(u) \/ AbortUpload(u)
  BY <1>2, AsideOutcome DEF UploadStep, RecordsOf
<1>3. CASE \E c \in Chunks : SendFails(c) \/ VisibilityTimeout(c)
  BY <1>3, AsideOutcome
<1>4. CASE \E h \in Handlers, c \in Chunks : Receive(h, c)
  BY <1>4, ReceiveOutcome
<1>5. CASE \E h \in Handlers : HandlerStep(h) \/ ThrowInTry(h) \/ Abort(h)
  BY <1>5, ReaderOutcome, ClaimOutcome, TryOutcome, InsertOutcome, MarkOutcome,
     SummariseOutcome, SettleOutcome
  DEF HandlerStep
<1>6. CASE \E s \in Stores : SetStoreStatus(s) \/ RemoveStore(s)
  BY <1>6, AsideOutcome, RemoveOutcome
<1>7. QED
  BY <1>1, <1>2, <1>3, <1>4, <1>5, <1>6 DEF Next

(* ... and therefore invariant.                                            *)
LEMMA OutcomeInvariant == Spec => [](ClaimInv /\ OutcomeInv)
<1>1. ClaimInv /\ OutcomeInv /\ [Next]_vars => (ClaimInv /\ OutcomeInv)'
  BY StoreSyncConstants, NextClaims, NextOutcome
<1>2. Init => ClaimInv /\ OutcomeInv
  BY StoreSyncConstants, InitClaims, InitOutcome
<1>3. QED
  BY <1>1, <1>2, PTL DEF Spec

-----------------------------------------------------------------------------
(* What follows from the invariant.                                        *)

(* What a record reports is true: SUCCESS means that every chunk succeeded *)
(* and left its payload in the table, FAILED quotes a chunk that did fail. *)
THEOREM OutcomesAreSound == Spec => []OutcomeSound
<1>1. OutcomeInv => OutcomeSound
  <2> SUFFICES ASSUME OutcomeInv, NEW r \in Records
               PROVE  /\ record[r].status = "SUCCESS" =>
                            \A c \in ChunksOf(r) : /\ chunk[c].status = "SUCCESS"
                                                   /\ \A a \in Payload[c] : Kept(a, r)
                      /\ record[r].status = "FAILED" =>
                            \E c \in ChunksOf(r) : chunk[c].status = "FAILED"
                                                   /\ record[r].error = c
    BY DEF OutcomeSound
  <2>1. ASSUME record[r].status = "SUCCESS", NEW c \in ChunksOf(r)
        PROVE  chunk[c].status = "SUCCESS" /\ \A a \in Payload[c] : Kept(a, r)
    <3>1. chunk[c].status = "SUCCESS" /\ c \in Chunks /\ RecordOf[c] = r
      BY <2>1 DEF OutcomeInv, ReportsHold, ChunksOf
    <3>2. QED
      BY <3>1 DEF OutcomeInv, PayloadKept
  <2>2. QED
    BY <2>1 DEF OutcomeInv, ReportsHold
<1>2. QED
  BY <1>1, OutcomeInvariant, PTL

(* A successful record counts the rows it owns, each once, although its    *)
(* chunks and other uploads were inserting the same ids at the same time.  *)
THEOREM CountsAreRows == Spec => []SuccessCountsRows
<1>1. StoreSyncConstants /\ ClaimInv /\ OutcomeInv => SuccessCountsRows
  <2> SUFFICES ASSUME StoreSyncConstants, ClaimInv, OutcomeInv,
                      NEW r \in Records, record[r].status = "SUCCESS"
               PROVE  record[r].inserted = {a \in Attendance : attendance[a] = r}
    BY DEF SuccessCountsRows
  <2>1. /\ \A c \in ChunksOf(r) : chunk[c].status = "SUCCESS"
        /\ record[r].inserted = UNION {chunk[c].inserted : c \in ChunksOf(r)}
    BY DEF OutcomeInv, ReportsHold
  <2>2. ASSUME NEW a \in record[r].inserted
        PROVE  a \in Attendance /\ attendance[a] = r
    <3>1. PICK c \in ChunksOf(r) : a \in chunk[c].inserted
      BY <2>1, <2>2
    <3>2. c \in Chunks /\ RecordOf[c] = r /\ chunk[c] \in ChunkRow
      BY DEF ChunksOf, ClaimInv, TypeInv, TypeOK
    <3>3. QED
      BY <2>1, <3>1, <3>2 DEF OutcomeInv, CountedAreRows, ChunkRow
  <2>3. ASSUME NEW a \in Attendance, attendance[a] = r
        PROVE  a \in record[r].inserted
    <3>1. attendance[a] # None
      BY <2>3 DEF StoreSyncConstants
    <3>2. PICK c \in Chunks : RecordOf[c] = attendance[a] /\ Accounted(a, c)
      BY <3>1 DEF OutcomeInv, RowsAccounted
    <3>3. c \in ChunksOf(r)
      BY <2>3, <3>2 DEF ChunksOf
    <3>4. a \in chunk[c].inserted
      BY <2>1, <3>2, <3>3 DEF Accounted
    <3>5. QED
      BY <2>1, <3>3, <3>4
  <2>4. QED
    BY <2>2, <2>3
<1>2. QED
  BY <1>1, StoreSyncConstants, OutcomeInvariant, PTL

(* Only three kinds of steps conclude a chunk or a record.                 *)
LEMMA StepKinds ==
    ASSUME StoreSyncConstants, ClaimInv, [Next]_vars
    PROVE  \/ QuietRecords /\ QuietChunks
           \/ \E h \in Handlers : MarkSuccess(h) \/ MarkFailed(h) \/ Settle(h)
           \/ \E s \in Stores : RemoveStore(s)
<1>1. TypeOK
  BY DEF ClaimInv, TypeInv
<1>2. ASSUME UNCHANGED <<record, chunk>>
      PROVE  QuietRecords /\ QuietChunks
  BY <1>2 DEF QuietRecords, QuietChunks
<1>3. ASSUME NEW r \in Records, CreateRecord(r)
      PROVE  QuietRecords /\ QuietChunks
  BY <1>1, <1>3 DEF CreateRecord, QuietRecords, QuietChunks, TypeOK, RecordRow
<1>4. ASSUME NEW c \in Chunks, CreateChunk(c)
      PROVE  QuietRecords /\ QuietChunks
  BY <1>1, <1>4 DEF CreateChunk, QuietRecords, QuietChunks, TypeOK, ChunkRow
<1>5. ASSUME NEW h \in Handlers, Claim(h)
      PROVE  QuietRecords /\ QuietChunks
  BY <1>1, <1>5 DEF Claim, Claimable, QuietRecords, QuietChunks, TypeOK, ChunkRow
<1>6. ASSUME NEW h \in Handlers, Start(h)
      PROVE  QuietRecords /\ QuietChunks
  <2>1. UNCHANGED chunk
    BY <1>6 DEF Start
  <2>2. CASE UNCHANGED record
    BY <2>1, <2>2 DEF QuietRecords, QuietChunks
  <2>3. CASE /\ record[ParentOf(h)].status = "PENDING"
             /\ record' = [record EXCEPT ![ParentOf(h)].status = "PROCESSING",
                                         ![ParentOf(h)].error = None]
    BY <1>1, <2>1, <2>3 DEF QuietRecords, QuietChunks, TypeOK, RecordRow
  <2>4. QED
    BY <1>6, <2>2, <2>3 DEF Start
<1>7. ASSUME NEW h \in Handlers, HandlerStep(h) \/ ThrowInTry(h) \/ Abort(h)
      PROVE  \/ QuietRecords /\ QuietChunks
             \/ MarkSuccess(h) \/ MarkFailed(h) \/ Settle(h)
  BY <1>2, <1>5, <1>6, <1>7
  DEF HandlerStep, ReadChunk, Reread, LookupDevices, ReadExisting, InsertBatch,
      Summarise, DeleteMessage, ThrowInTry, Abort, database
<1>8. ASSUME NEW u \in Uploads, UploadStep(u) \/ AbortUpload(u)
      PROVE  QuietRecords /\ QuietChunks
  BY <1>2, <1>3, <1>4, <1>8
  DEF UploadStep, CheckDevices, Send, AbortUpload, RecordsOf, database
<1>9. ASSUME NEW c \in Chunks,
             SendFails(c) \/ VisibilityTimeout(c) \/ \E h \in Handlers : Receive(h, c)
      PROVE  QuietRecords /\ QuietChunks
  BY <1>2, <1>9 DEF SendFails, VisibilityTimeout, Receive, database
<1>10. ASSUME NEW s \in Stores, SetStoreStatus(s)
       PROVE  QuietRecords /\ QuietChunks
  BY <1>2, <1>10 DEF SetStoreStatus
<1>11. CASE UNCHANGED vars
  BY <1>2, <1>11 DEF vars
<1>12. QED
  BY <1>7, <1>8, <1>9, <1>10, <1>11 DEF Next

(* A chunk is concluded by its owner, once, and on its own.                *)
LEMMA MarkConcludes ==
    ASSUME StoreSyncConstants, ClaimInv, NEW h \in Handlers,
           MarkSuccess(h) \/ MarkFailed(h)
    PROVE  /\ UNCHANGED record
           /\ \/ UNCHANGED chunk
              \/ \E c \in Chunks :
                    /\ chunk[c].status = "PROCESSING" /\ chunk'[c].status \in Terminal
                    /\ \A d \in Chunks \ {c} : chunk'[d] = chunk[d]
<1>1. handler[h].pc \in {"succeed", "fail"} /\ handler[h].pc # "idle" /\ UNCHANGED record
  BY DEF MarkSuccess, MarkFailed, At
<1>2. PICK c \in Chunks : c = Target(h) /\ handler[h].chunk = c
  BY <1>1, Targets DEF ClaimInv
<1>3. CASE MarkSuccess(h) /\ chunk[c].status # "REMOVED"
  <2>1. chunk[c].status = "PROCESSING"
    BY <1>2, <1>3 DEF MarkSuccess, At, ClaimInv, OwnerStatus, OwnerSteps
  <2>2. chunk'[c].status = "SUCCESS" /\ \A d \in Chunks \ {c} : chunk'[d] = chunk[d]
    BY <1>2, <1>3 DEF MarkSuccess, ClaimInv, TypeInv, TypeOK
  <2>3. QED
    BY <1>1, <2>1, <2>2 DEF Terminal
<1>4. CASE MarkFailed(h) /\ chunk[c].status = "PROCESSING"
  <2>1. chunk'[c].status = "FAILED" /\ \A d \in Chunks \ {c} : chunk'[d] = chunk[d]
    BY <1>2, <1>4 DEF MarkFailed, GiveUp, ClaimInv, TypeInv, TypeOK, ChunkRow
  <2>2. QED
    BY <1>1, <1>4, <2>1 DEF Terminal
<1>5. QED
  BY <1>1, <1>2, <1>3, <1>4 DEF MarkSuccess, MarkFailed, GiveUp

(* Deleting a store: its records and chunks go, the others keep their rows.*)
LEMMA RemoveSplits ==
    ASSUME StoreSyncConstants, TypeOK, NEW s \in Stores, RemoveStore(s)
    PROVE  \E gone \in SUBSET Records :
             /\ \A r \in gone : record'[r].status = "REMOVED"
             /\ \A r \in Records \ gone : record'[r] = record[r]
             /\ \A c \in Chunks : \/ chunk'[c] = chunk[c]
                                  \/ RecordOf[c] \in gone /\ chunk'[c].status = "REMOVED"
<1> DEFINE gone == {r \in Records : StoreOf[r] = s /\ record[r].status # "ABSENT"}
<1>1. gone \in SUBSET Records
  OBVIOUS
<1>2. \A r \in Records :
         record'[r] = IF r \in gone THEN [status |-> "REMOVED", inserted |-> {},
                                          failed |-> {}, error |-> None]
                      ELSE record[r]
  BY DEF RemoveStore
<1>3. \A c \in Chunks :
         chunk'[c] = IF RecordOf[c] \in gone /\ chunk[c].status # "ABSENT"
                     THEN [status |-> "REMOVED", inserted |-> {}] ELSE chunk[c]
  BY DEF RemoveStore
<1> HIDE DEF gone
<1>4. WITNESS gone \in SUBSET Records
<1>5. QED
  BY <1>1, <1>2, <1>3

(* An outcome, once reported, stays until the store is deleted.            *)
THEOREM OutcomesStay == Spec => TerminalStable
<1> DEFINE Stays ==
        /\ \A r \in Records :
             /\ record[r].status = "SUCCESS" =>
                   record'[r] = record[r] \/ record'[r].status = "REMOVED"
             /\ record[r].status = "FAILED" =>
                   \/ record'[r].status = "FAILED" /\ record'[r].error = record[r].error
                   \/ record'[r].status = "REMOVED"
        /\ \A c \in Chunks : chunk[c].status \in Terminal =>
                   chunk'[c] = chunk[c] \/ chunk'[c].status = "REMOVED"
<1>1. ASSUME StoreSyncConstants, ClaimInv, [Next]_vars
      PROVE  Stays
  <2>1. CASE QuietRecords /\ QuietChunks
    BY <2>1 DEF QuietRecords, QuietChunks, Terminal
  <2>2. ASSUME NEW h \in Handlers, MarkSuccess(h) \/ MarkFailed(h)
        PROVE  Stays
    <3>1. UNCHANGED record
      BY <1>1, <2>2, MarkConcludes
    <3>2. \A c \in Chunks : chunk[c].status \in Terminal => chunk'[c] = chunk[c]
      BY <1>1, <2>2, MarkConcludes DEF Terminal
    <3>3. QED
      BY <3>1, <3>2
  <2>3. ASSUME NEW h \in Handlers, Settle(h)
        PROVE  Stays
    <3>1. handler[h].pc # "idle" /\ UNCHANGED chunk
      BY <2>3 DEF Settle, At
    <3>2. PICK r \in Records : r = ParentOf(h)
      BY <1>1, <3>1, Targets DEF ClaimInv
    <3>3. /\ record'[r] = Settled(r, handler[h].summary)
          /\ \A q \in Records \ {r} : record'[q] = record[q]
      BY <1>1, <2>3, <3>2 DEF Settle, ClaimInv, TypeInv, TypeOK
    <3>4. QED
      BY <3>1, <3>3, SettledCases DEF ErrorOf
  <2>4. ASSUME NEW s \in Stores, RemoveStore(s)
        PROVE  Stays
    BY <1>1, <2>4, RemoveSplits DEF ClaimInv, TypeInv
  <2>5. QED
    BY <1>1, <2>1, <2>2, <2>3, <2>4, StepKinds
<1>2. StoreSyncConstants /\ ClaimInv /\ [Next]_vars => [Stays]_vars
  BY <1>1
<1>3. QED
  BY <1>2, StoreSyncConstants, ClaimInvariant, PTL DEF Spec, TerminalStable

-----------------------------------------------------------------------------
(* The pipeline implements SyncOutcome.                                    *)

(* What the refinement mapping makes of the rows.                          *)
OutcomeOf(row) == CASE row.status = "SUCCESS" -> "success"
                    [] row.status = "FAILED"  -> "failed"
                    [] row.status = "REMOVED" -> "removed"
                    [] OTHER -> "open"
ResultOf(row, parent) ==
    IF parent.status = "REMOVED" THEN "removed"
    ELSE CASE row.status = "SUCCESS" -> "done"
           [] row.status = "FAILED"  -> "failed"
           [] OTHER -> "open"

LEMMA Mapping ==
    /\ outcomeOf = [r \in Records |-> OutcomeOf(record[r])]
    /\ outcomeOf' = [r \in Records |-> OutcomeOf(record'[r])]
    /\ resultOf = [c \in Chunks |-> ResultOf(chunk[c], record[RecordOf[c]])]
    /\ resultOf' = [c \in Chunks |-> ResultOf(chunk'[c], record'[RecordOf[c]])]
  BY DEF outcomeOf, resultOf, OutcomeOf, ResultOf

(* Whatever does not conclude, report or delete is a stuttering step.      *)
LEMMA QuietStutters ==
    ASSUME StoreSyncConstants, QuietRecords, QuietChunks
    PROVE  UNCHANGED <<outcomeOf, resultOf>>
<1>1. \A r \in Records : /\ OutcomeOf(record'[r]) = OutcomeOf(record[r])
                         /\ record'[r].status = "REMOVED" <=> record[r].status = "REMOVED"
  BY DEF QuietRecords, OutcomeOf
<1>2. \A c \in Chunks : ResultOf(chunk'[c], record'[RecordOf[c]])
                           = ResultOf(chunk[c], record[RecordOf[c]])
  BY <1>1 DEF QuietChunks, ResultOf, StoreSyncConstants
<1>3. QED
  BY <1>1, <1>2, Mapping

(* Concluding a chunk resolves it.                                         *)
LEMMA MarkResolves ==
    ASSUME StoreSyncConstants, ClaimInv, OutcomeInv, NEW h \in Handlers,
           MarkSuccess(h) \/ MarkFailed(h)
    PROVE  \/ \E c \in Chunks : Outcome!Resolve(c)
           \/ UNCHANGED <<outcomeOf, resultOf>>
<1>1. UNCHANGED record
  BY MarkConcludes
<1>2. CASE UNCHANGED chunk
  BY <1>1, <1>2 DEF outcomeOf, resultOf
<1>3. ASSUME NEW c \in Chunks, chunk[c].status = "PROCESSING",
             chunk'[c].status \in Terminal, \A d \in Chunks \ {c} : chunk'[d] = chunk[d]
      PROVE  Outcome!Resolve(c)
  <2> DEFINE end == ResultOf(chunk'[c], record[RecordOf[c]])
  <2>1. record[RecordOf[c]].status # "REMOVED"
    BY <1>3 DEF OutcomeInv, Together
  <2>2. resultOf[c] = "open" /\ end \in {"done", "failed"}
    BY <1>3, <2>1, Mapping DEF ResultOf, Terminal
  <2>3. resultOf' = [resultOf EXCEPT ![c] = end]
    <3>1. \A d \in Chunks : ResultOf(chunk'[d], record'[RecordOf[d]])
                              = IF d = c THEN end ELSE resultOf[d]
      BY <1>1, <1>3, Mapping
    <3> HIDE DEF end
    <3>2. QED
      BY <3>1, Mapping
  <2>4. UNCHANGED outcomeOf
    BY <1>1, Mapping
  <2> HIDE DEF end
  <2>5. QED
    BY <2>2, <2>3, <2>4 DEF Outcome!Resolve
<1>4. QED
  BY <1>2, <1>3, MarkConcludes

(* The finalization gives a record its outcome, at most once, and only one *)
(* that its chunks justify at that moment.                                 *)
LEMMA SettleReports ==
    ASSUME StoreSyncConstants, ClaimInv, OutcomeInv, NEW h \in Handlers, Settle(h)
    PROVE  \/ \E r \in Records : Outcome!Succeed(r) \/ Outcome!Fail(r)
           \/ UNCHANGED <<outcomeOf, resultOf>>
<1>1. handler[h].pc = "settle" /\ handler[h].pc # "idle" /\ UNCHANGED chunk
  BY DEF Settle, At
<1>2. PICK r \in Records : r = ParentOf(h)
  BY <1>1, Targets DEF ClaimInv
<1>3. PICK sum \in Summary : sum = handler[h].summary
  BY DEF ClaimInv, TypeInv, WellFormed, HandlerState
<1>4. /\ record'[r] = Settled(r, sum) /\ \A q \in Records \ {r} : record'[q] = record[q]
  BY <1>2, <1>3 DEF Settle, ClaimInv, TypeInv, TypeOK
<1>5. record'[r].status = "REMOVED" <=> record[r].status = "REMOVED"
  BY <1>4, SettledCases
<1>6. UNCHANGED resultOf
  <2>1. \A c \in Chunks : ResultOf(chunk'[c], record'[RecordOf[c]])
                            = ResultOf(chunk[c], record[RecordOf[c]])
    BY <1>1, <1>4, <1>5 DEF ResultOf, StoreSyncConstants
  <2>2. QED
    BY <2>1, Mapping
<1>7. outcomeOf' = [outcomeOf EXCEPT ![r] = OutcomeOf(record'[r])]
  <2>1. \A q \in Records : OutcomeOf(record'[q])
                              = IF q = r THEN OutcomeOf(record'[r]) ELSE outcomeOf[q]
    BY <1>4, Mapping
  <2>2. QED
    BY <2>1, Mapping
<1>8. outcomeOf[r] = OutcomeOf(record[r]) /\ outcomeOf \in [Records -> {OutcomeOf(record[q]) : q \in Records}]
  BY Mapping
<1>9. SummaryHolds(h) \/ record[r].status = "REMOVED"
  BY <1>1, <1>2 DEF OutcomeInv, SummariesHold
<1>10. CASE OutcomeOf(record'[r]) = OutcomeOf(record[r])
  BY <1>6, <1>7, <1>8, <1>10
<1>11. CASE /\ sum.failed # {} /\ record[r].status \in {"PENDING", "PROCESSING"}
            /\ record'[r].status = "FAILED"
  <2>1. \E c \in ChunksOf(r) : chunk[c].status = "FAILED"
    BY <1>2, <1>3, <1>9, <1>11 DEF SummaryHolds
  <2>2. PICK c \in Chunks : RecordOf[c] = r /\ chunk[c].status = "FAILED"
    BY <2>1 DEF ChunksOf
  <2>3. c \in Outcome!ChunksOf(r) /\ resultOf[c] = "failed"
    BY <1>11, <2>2, Mapping DEF ResultOf, Outcome!ChunksOf
  <2>4. outcomeOf[r] = "open" /\ OutcomeOf(record'[r]) = "failed"
    BY <1>8, <1>11 DEF OutcomeOf
  <2>5. Outcome!Fail(r)
    BY <1>6, <1>7, <2>3, <2>4 DEF Outcome!Fail
  <2>6. QED
    BY <2>5
<1>12. CASE /\ AllSucceeded(sum) /\ record[r].status = "PROCESSING"
            /\ record'[r].status = "SUCCESS"
  <2>1. \A c \in ChunksOf(r) : chunk[c].status = "SUCCESS"
    BY <1>2, <1>3, <1>9, <1>12 DEF SummaryHolds, AllSucceeded
  <2>2. \A c \in Outcome!ChunksOf(r) : resultOf[c] = "done"
    BY <1>12, <2>1, Mapping DEF ResultOf, ChunksOf, Outcome!ChunksOf
  <2>3. outcomeOf[r] = "open" /\ OutcomeOf(record'[r]) = "success"
    BY <1>8, <1>12 DEF OutcomeOf
  <2>4. Outcome!Succeed(r)
    BY <1>6, <1>7, <2>2, <2>3 DEF Outcome!Succeed
  <2>5. QED
    BY <2>4
<1>13. QED
  BY <1>4, <1>10, <1>11, <1>12, SettledCases DEF OutcomeOf

(* Deleting a store removes its records, with their chunks.                *)
LEMMA RemoveRemoves ==
    ASSUME StoreSyncConstants, TypeOK, NEW s \in Stores, RemoveStore(s)
    PROVE  \E gone \in SUBSET Records : Outcome!Remove(gone)
<1>1. PICK gone \in SUBSET Records :
         /\ \A r \in gone : record'[r].status = "REMOVED"
         /\ \A r \in Records \ gone : record'[r] = record[r]
         /\ \A c \in Chunks : \/ chunk'[c] = chunk[c]
                              \/ RecordOf[c] \in gone /\ chunk'[c].status = "REMOVED"
  BY RemoveSplits
<1>2. \A r \in Records :
         OutcomeOf(record'[r]) = IF r \in gone THEN "removed" ELSE outcomeOf[r]
  BY <1>1, Mapping DEF OutcomeOf
<1>3. \A c \in Chunks :
         ResultOf(chunk'[c], record'[RecordOf[c]])
            = IF RecordOf[c] \in gone THEN "removed" ELSE resultOf[c]
  BY <1>1, Mapping DEF ResultOf, StoreSyncConstants
<1>4. Outcome!Remove(gone)
  BY <1>2, <1>3, Mapping DEF Outcome!Remove
<1>5. QED
  BY <1>4

(* The detailed pipeline implements the abstract promise: every chunk is   *)
(* resolved at most once, every record reported on at most once, and only  *)
(* as its chunks justify, whatever is redelivered, cut short or deleted.   *)
THEOREM PipelineImplementsOutcome == Spec => ImplementsSyncOutcome
<1>1. Init => Outcome!Init
  <2> SUFFICES ASSUME Init
               PROVE  Outcome!Init
    OBVIOUS
  <2>1. \A r \in Records : OutcomeOf(record[r]) = "open"
    BY DEF Init, OutcomeOf
  <2>2. \A c \in Chunks : ResultOf(chunk[c], record[RecordOf[c]]) = "open"
    BY StoreSyncConstants DEF StoreSyncConstants, Init, ResultOf
  <2>3. QED
    BY <2>1, <2>2, Mapping DEF Outcome!Init
<1>2. ASSUME StoreSyncConstants, ClaimInv, OutcomeInv, [Next]_vars
      PROVE  Outcome!Next \/ UNCHANGED <<outcomeOf, resultOf>>
  <2>1. CASE QuietRecords /\ QuietChunks
    BY <1>2, <2>1, QuietStutters
  <2>2. ASSUME NEW h \in Handlers, MarkSuccess(h) \/ MarkFailed(h)
        PROVE  Outcome!Next \/ UNCHANGED <<outcomeOf, resultOf>>
    BY <1>2, <2>2, MarkResolves DEF Outcome!Next
  <2>3. ASSUME NEW h \in Handlers, Settle(h)
        PROVE  Outcome!Next \/ UNCHANGED <<outcomeOf, resultOf>>
    BY <1>2, <2>3, SettleReports DEF Outcome!Next
  <2>4. ASSUME NEW s \in Stores, RemoveStore(s)
        PROVE  Outcome!Next
    BY <1>2, <2>4, RemoveRemoves DEF Outcome!Next, ClaimInv, TypeInv
  <2>5. QED
    BY <1>2, <2>1, <2>2, <2>3, <2>4, StepKinds
<1>3. StoreSyncConstants /\ ClaimInv /\ OutcomeInv /\ [Next]_vars
         => [Outcome!Next]_(Outcome!outcomeVars)
  BY <1>2 DEF Outcome!outcomeVars
<1>4. QED
  BY <1>1, <1>3, StoreSyncConstants, OutcomeInvariant, PTL
  DEF Spec, ImplementsSyncOutcome, Outcome!Spec
=============================================================================
