----------------------------- MODULE ChunkPayload -----------------------------
(***************************************************************************)
(* chunkSyncPayload: the logs of one store's devices are cut, in order,    *)
(* into chunks of at most Limit logs.  A device of the upload is its       *)
(* position in sync_record; a slice of its logs is their first position    *)
(* and their number.                                                       *)
(***************************************************************************)
EXTENDS Integers, Sequences, FiniteSets, SequencesExt

CONSTANTS
    Limit,         \* SYNC_CHUNK_ATTENDANCE_RECORD_LIMIT
    MaxDevices,    \* bound: devices of an upload
    MaxLogs        \* bound: logs of a device

ASSUME ChunkPayloadConstants ==
    Limit \in Nat \ {0} /\ MaxDevices \in Nat \ {0} /\ MaxLogs \in Nat

VARIABLES
    logs,            \* logs[d]: how many logs device d has (the input)
    device,          \* the device the outer loop is at
    offset,          \* how many of its logs have been taken
    currentRecords,  \* the slices of the chunk being filled
    currentCount,    \* currentAttendanceCount
    chunks,          \* the chunks flushed so far, then the result
    returned

vars == <<logs, device, offset, currentRecords, currentCount, chunks, returned>>

(* storeSyncRecord rejects an upload without devices.                      *)
Uploads == UNION {[1 .. n -> 0 .. MaxLogs] : n \in 1 .. MaxDevices}

Slice == [device : 1 .. MaxDevices, first : 1 .. MaxLogs + 1, size : 0 .. Limit]

(* The loop variables stay inside the upload, and a chunk that is being    *)
(* filled never exceeds the limit.                                         *)
TypeOK ==
    /\ logs \in Uploads
    /\ device \in 1 .. Len(logs) + 1
    /\ offset \in 0 .. MaxLogs
    /\ currentRecords \in Seq(Slice)
    /\ currentCount \in 0 .. Limit
    /\ chunks \in Seq(Seq(Slice))
    /\ returned \in BOOLEAN

Init ==
    /\ logs \in Uploads
    /\ device = 1 /\ offset = 0
    /\ currentRecords = <<>> /\ currentCount = 0
    /\ chunks = <<>> /\ returned = FALSE

(* flushChunk.  Mutant: the count is not reset.                            *)
FlushKeepingCount(slices, count) ==
    /\ chunks' = IF slices = <<>> THEN chunks ELSE Append(chunks, slices)
    /\ currentRecords' = <<>> /\ currentCount' = count
Flush(slices, count) ==
    /\ chunks' = IF slices = <<>> THEN chunks ELSE Append(chunks, slices)
    /\ currentRecords' = <<>>
    /\ currentCount' = IF slices = <<>> THEN count ELSE 0

(* A device without logs only leaves its name.  Mutant: it leaves nothing. *)
NoTrace(d) == <<>>
TraceOfEmpty(d) == << [device |-> d, first |-> 1, size |-> 0] >>

EmptyDevice ==
    /\ device <= Len(logs) /\ logs[device] = 0
    /\ currentRecords' = currentRecords \o TraceOfEmpty(device)
    /\ device' = device + 1
    /\ UNCHANGED <<logs, offset, currentCount, chunks, returned>>

(* Mutant: the room already used is forgotten.                             *)
SizeOfFreshChunk == Min({Limit, logs[device] - offset})
SizeOfSlice == Min({Limit - currentCount, logs[device] - offset})

IsFull(count) == count >= Limit

(* One round of the inner loop.                                            *)
TakeSlice ==
    LET count    == currentCount + SizeOfSlice
        finished == offset + SizeOfSlice = logs[device]
        slices   == Append(currentRecords,
            [device |-> device, first |-> offset + 1, size |-> SizeOfSlice])
    IN
    /\ device <= Len(logs) /\ offset < logs[device]
    /\ IF currentCount = Limit
       THEN Flush(currentRecords, currentCount) /\ UNCHANGED <<device, offset>>
       ELSE /\ IF IsFull(count)
               THEN Flush(slices, count)
               ELSE currentRecords' = slices /\ currentCount' = count /\ UNCHANGED chunks
            /\ device' = IF finished THEN device + 1 ELSE device
            /\ offset' = IF finished THEN 0 ELSE offset + SizeOfSlice
    /\ UNCHANGED <<logs, returned>>

(* The last flush; with at least one device there is at least one chunk.   *)
Return ==
    /\ device = Len(logs) + 1 /\ ~returned
    /\ Flush(currentRecords, currentCount)
    /\ returned' = TRUE
    /\ UNCHANGED <<logs, device, offset>>

Next == EmptyDevice \/ TakeSlice \/ Return

Spec == Init /\ [][Next]_vars

-----------------------------------------------------------------------------

(* The logs of the upload and the place of a log among them; the logs that *)
(* a slice or a chunk carries.                                             *)
Logs == {log \in (1 .. Len(logs)) \X (1 .. MaxLogs) : log[2] <= logs[log[1]]}
NotAfter(a, b) == a[1] < b[1] \/ (a[1] = b[1] /\ a[2] <= b[2])
Place(log) == Cardinality({other \in Logs : NotAfter(other, log)})

LogsOf(slice) == {slice.device} \X (slice.first .. slice.first + slice.size - 1)
LogsOfChunk(chunk) == UNION {LogsOf(chunk[k]) : k \in DOMAIN chunk}
Precedes(s, t) == s.device < t.device \/ (s.device = t.device /\ s.first + s.size <= t.first)

(* Reference: chunk n carries the n-th stretch of Limit logs of the        *)
(* upload, in order, so that no log is sent twice and every chunk but the  *)
(* last is full.                                                           *)
CutAsReference ==
    returned => \A n \in DOMAIN chunks :
        /\ LogsOfChunk(chunks[n]) =
              {log \in Logs : (n - 1) * Limit < Place(log) /\ Place(log) <= n * Limit}
        /\ \A k, l \in DOMAIN chunks[n] : k < l => Precedes(chunks[n][k], chunks[n][l])

(* No log is left over, no chunk is without a device (its handler would    *)
(* fail), and every device of the upload is in some chunk.                 *)
NothingLeftOut ==
    returned =>
        /\ \A log \in Logs : \E n \in DOMAIN chunks : log \in LogsOfChunk(chunks[n])
        /\ \A n \in DOMAIN chunks : chunks[n] # <<>>
        /\ \A d \in 1 .. Len(logs) : \E n \in DOMAIN chunks :
              \E k \in DOMAIN chunks[n] : chunks[n][k].device = d

(* The chunk being filled always has room: the test for a chunk without    *)
(* remaining capacity never holds, and the inner loop always moves on.     *)
RoomLeft == currentCount < Limit
=============================================================================
