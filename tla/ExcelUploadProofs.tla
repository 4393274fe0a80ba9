--------------------------- MODULE ExcelUploadProofs ---------------------------
(***************************************************************************)
(* Theorems about ExcelUpload and the loop of ChunkPayload it ends in, for *)
(* every limit, every file and every upload.                               *)
(***************************************************************************)
EXTENDS ExcelUpload, FilterProofs

(* The part of the loop's state that its arithmetic depends on.            *)
LoopInv ==
    /\ logs \in Uploads
    /\ device \in 1 .. Len(logs) + 1
    /\ offset \in Nat
    /\ offset > 0 => device <= Len(logs) /\ offset < logs[device]
    /\ currentCount \in 0 .. Limit - 1

(* The smaller of two integers.                                            *)
LEMMA MinOfTwo ==
    ASSUME NEW a \in Int, NEW b \in Int
    PROVE  /\ Min({a, b}) \in {a, b}
           /\ Min({a, b}) <= a /\ Min({a, b}) <= b
<1>1. \E x \in {a, b} : \A y \in {a, b} : x <= y
  OBVIOUS
<1>2. QED
  BY <1>1 DEF Min

(* An upload has between 1 and MaxDevices devices with natural log counts. *)
LEMMA UploadShape ==
    ASSUME ChunkPayloadConstants, logs \in Uploads
    PROVE  Len(logs) \in Nat \ {0} /\ \A d \in 1 .. Len(logs) : logs[d] \in Nat
<1>1. PICK n \in 1 .. MaxDevices : logs \in [1 .. n -> 0 .. MaxLogs]
  BY DEF Uploads
<1>2. Len(logs) = n /\ n \in Nat \ {0}
  BY <1>1 DEF ChunkPayloadConstants
<1>3. QED
  BY <1>1, <1>2 DEF ChunkPayloadConstants

(* While a device has logs left, a slice takes at least one of them and    *)
(* never more than there are or than the chunk has room for.               *)
LEMMA SliceFits ==
    ASSUME ChunkPayloadConstants, LoopInv, device <= Len(logs), offset < logs[device]
    PROVE  /\ SizeOfSlice \in Nat \ {0}
           /\ SizeOfSlice <= logs[device] - offset
           /\ currentCount + SizeOfSlice <= Limit
<1>1. logs[device] \in Nat /\ Len(logs) \in Nat
  BY UploadShape DEF LoopInv
<1>2. Limit - currentCount \in Nat \ {0} /\ logs[device] - offset \in Nat \ {0}
  BY <1>1 DEF LoopInv, ChunkPayloadConstants
<1>3. PICK room \in Nat \ {0}, rest \in Nat \ {0} :
          room = Limit - currentCount /\ rest = logs[device] - offset
  BY <1>2
<1>4. SizeOfSlice = Min({room, rest})
  BY <1>3 DEF SizeOfSlice
<1>5. room \in Int /\ rest \in Int
  OBVIOUS
<1>6. SizeOfSlice \in {room, rest} /\ SizeOfSlice <= room /\ SizeOfSlice <= rest
  BY <1>4, <1>5, MinOfTwo, Zenon
<1>7. currentCount \in Int /\ Limit \in Int
  BY DEF LoopInv, ChunkPayloadConstants
<1>8. QED
  BY <1>3, <1>6, <1>7

LEMMA LoopInit ==
    ASSUME ChunkPayloadConstants, Init
    PROVE  LoopInv
<1>1. Len(logs) \in Nat \ {0}
  BY UploadShape DEF Init
<1>2. QED
  BY <1>1 DEF Init, LoopInv, ChunkPayloadConstants

(* LoopInv is inductive.                                                   *)
LEMMA LoopStep ==
    ASSUME ChunkPayloadConstants, LoopInv, [Next]_vars
    PROVE  LoopInv'
<1>1. Len(logs) \in Nat \ {0} /\ \A d \in 1 .. Len(logs) : logs[d] \in Nat
  BY UploadShape DEF LoopInv
<1>2. CASE EmptyDevice
  BY <1>1, <1>2 DEF EmptyDevice, LoopInv
<1>3. CASE TakeSlice
  <2>1. device <= Len(logs) /\ offset < logs[device] /\ logs' = logs
    BY <1>3 DEF TakeSlice
  <2>2. /\ SizeOfSlice \in Nat \ {0}
        /\ SizeOfSlice <= logs[device] - offset
        /\ currentCount + SizeOfSlice <= Limit
    BY <2>1, SliceFits
  <2>3. currentCount' \in 0 .. Limit - 1
    <3> DEFINE slices == Append(currentRecords,
                  [device |-> device, first |-> offset + 1, size |-> SizeOfSlice])
    <3>1. currentCount # Limit
      BY DEF LoopInv, ChunkPayloadConstants
    <3>2. CASE IsFull(currentCount + SizeOfSlice)
      <4>1. Flush(slices, currentCount + SizeOfSlice)
        BY <1>3, <3>1, <3>2 DEF TakeSlice
      <4>2. currentCount' = IF slices = <<>> THEN currentCount + SizeOfSlice ELSE 0
        BY <4>1 DEF Flush
      <4>3. slices # <<>>
        OBVIOUS
      <4>4. QED
        BY <4>2, <4>3 DEF ChunkPayloadConstants
    <3>3. CASE ~IsFull(currentCount + SizeOfSlice)
      <4>1. currentCount' = currentCount + SizeOfSlice
        BY <1>3, <3>1, <3>3 DEF TakeSlice
      <4>2. QED
        BY <4>1, <3>3, <2>2 DEF IsFull, LoopInv, ChunkPayloadConstants
    <3>4. QED
      BY <3>2, <3>3
  <2>4. /\ device' = IF offset + SizeOfSlice = logs[device] THEN device + 1 ELSE device
        /\ offset' = IF offset + SizeOfSlice = logs[device] THEN 0
                     ELSE offset + SizeOfSlice
    BY <1>3 DEF TakeSlice, LoopInv, ChunkPayloadConstants
  <2>5. QED
    BY <1>1, <2>1, <2>2, <2>3, <2>4 DEF LoopInv
<1>4. CASE Return
  <2>1. currentCount' \in {currentCount, 0}
    BY <1>4 DEF Return, Flush
  <2>2. QED
    BY <1>1, <1>4, <2>1 DEF Return, LoopInv, ChunkPayloadConstants
<1>5. CASE UNCHANGED vars
  BY <1>5 DEF vars, LoopInv
<1>6. QED
  BY <1>2, <1>3, <1>4, <1>5 DEF Next

(* Records and chunks are made of slices of the upload.                    *)
SlicesTyped ==
    currentRecords \in Seq(Slice) /\ chunks \in Seq(Seq(Slice)) /\ returned \in BOOLEAN

LEMMA FlushTyped ==
    ASSUME SlicesTyped, NEW slices \in Seq(Slice), NEW count, Flush(slices, count)
    PROVE  currentRecords' \in Seq(Slice) /\ chunks' \in Seq(Seq(Slice))
  BY DEF Flush, SlicesTyped

LEMMA SlicesStep ==
    ASSUME ChunkPayloadConstants, LoopInv, SlicesTyped, [Next]_vars
    PROVE  SlicesTyped'
<1>1. PICK n \in 1 .. MaxDevices : logs \in [1 .. n -> 0 .. MaxLogs]
  BY DEF LoopInv, Uploads
<1>2. Len(logs) = n /\ n \in Nat /\ n <= MaxDevices
  BY <1>1 DEF ChunkPayloadConstants
<1>3. \A d \in 1 .. n : logs[d] \in 0 .. MaxLogs
  BY <1>1
<1>4. CASE EmptyDevice
  <2>1. device \in 1 .. MaxDevices
    BY <1>2, <1>4 DEF EmptyDevice, LoopInv, ChunkPayloadConstants
  <2>2. [device |-> device, first |-> 1, size |-> 0] \in Slice
    BY <2>1 DEF Slice, ChunkPayloadConstants
  <2>3. QED
    BY <1>4, <2>2 DEF EmptyDevice, TraceOfEmpty, SlicesTyped
<1>5. CASE TakeSlice
  <2>1. /\ device \in 1 .. n /\ offset \in Nat /\ logs[device] \in 0 .. MaxLogs
        /\ offset < logs[device] /\ currentCount \in 0 .. Limit - 1
    BY <1>2, <1>3, <1>5 DEF TakeSlice, LoopInv
  <2>2. SizeOfSlice \in 0 .. Limit
    <3>1. device <= Len(logs)
      BY <1>2, <2>1
    <3>2. SizeOfSlice \in Nat \ {0} /\ currentCount + SizeOfSlice <= Limit
      BY <3>1, <2>1, SliceFits
    <3>3. QED
      BY <3>2, <2>1 DEF ChunkPayloadConstants
  <2>3. device \in 1 .. MaxDevices /\ offset + 1 \in 1 .. MaxLogs + 1
    BY <1>2, <2>1 DEF ChunkPayloadConstants
  <2>4. [device |-> device, first |-> offset + 1, size |-> SizeOfSlice] \in Slice
    BY <2>2, <2>3 DEF Slice
  <2>5. PICK slices \in Seq(Slice) : slices = Append(currentRecords,
           [device |-> device, first |-> offset + 1, size |-> SizeOfSlice])
    <3>1. PICK s \in Slice :
              s = [device |-> device, first |-> offset + 1, size |-> SizeOfSlice]
      BY <2>4, Zenon
    <3>2. currentRecords \in Seq(Slice)
      BY DEF SlicesTyped
    <3>3. Append(currentRecords, s) \in Seq(Slice)
      BY <3>2
    <3>4. QED
      BY <3>1, <3>3
  <2>6. /\ \/ Flush(currentRecords, currentCount)
           \/ Flush(slices, currentCount + SizeOfSlice)
           \/ currentRecords' = slices /\ UNCHANGED chunks
        /\ UNCHANGED returned
    BY <1>5, <2>5 DEF TakeSlice
  <2>7. QED
    BY <2>6, FlushTyped DEF SlicesTyped
<1>6. CASE Return
  <2>1. currentRecords \in Seq(Slice) /\ Flush(currentRecords, currentCount)
        /\ returned' = TRUE
    BY <1>6 DEF Return, SlicesTyped
  <2>2. currentRecords' \in Seq(Slice) /\ chunks' \in Seq(Seq(Slice))
    BY <2>1, FlushTyped
  <2>3. QED
    BY <2>1, <2>2 DEF SlicesTyped
<1>7. CASE UNCHANGED vars
  BY <1>7 DEF vars, SlicesTyped
<1>8. QED
  BY <1>4, <1>5, <1>6, <1>7 DEF Next

LEMMA SlicesInit == Init => SlicesTyped
<1>1. <<>> \in Seq(Slice) /\ <<>> \in Seq(Seq(Slice))
  OBVIOUS
<1>2. QED
  BY <1>1 DEF Init, SlicesTyped

-----------------------------------------------------------------------------
(* The cut.  What has been taken of the upload is its first logs, so that  *)
(* their number tells them apart from the others by their place.           *)

Taken == {log \in Logs : log[1] < device \/ (log[1] = device /\ log[2] <= offset)}
Stretch(n) == {log \in Logs : (n - 1) * Limit < Place(log) /\ Place(log) <= n * Limit}
InOrder(part) == \A k, l \in DOMAIN part : k < l => Precedes(part[k], part[l])
Behind(slice, d, o) ==
    slice.device < d \/ (slice.device = d /\ slice.first + slice.size <= o + 1)

(* The chunk being filled, when base logs are in the chunks before it.     *)
PartSound(part, taken, base, d, o) ==
    /\ InOrder(part)
    /\ LogsOfChunk(part) = {log \in taken : base < Place(log)}
    /\ \A k \in DOMAIN part : Behind(part[k], d, o)

Parts == {chunks[n] : n \in DOMAIN chunks} \cup {currentRecords}
Has(part, d) == \E k \in DOMAIN part : part[k].device = d
Covered ==
    /\ \A log \in Taken : \E part \in Parts : log \in LogsOfChunk(part)
    /\ \A d \in 1 .. Len(logs) : d < device => \E part \in Parts : Has(part, d)

ChunksSound ==
    \A n \in DOMAIN chunks :
        LogsOfChunk(chunks[n]) = Stretch(n) /\ InOrder(chunks[n]) /\ chunks[n] # <<>>

CutInv ==
    /\ ChunksSound /\ Covered
    /\ ~returned =>
          /\ Cardinality(Taken) = Len(chunks) * Limit + currentCount
          /\ PartSound(currentRecords, Taken, Len(chunks) * Limit, device, offset)
    /\ returned => device = Len(logs) + 1 /\ currentRecords = <<>>

LEMMA LogsShape ==
    ASSUME ChunkPayloadConstants, LoopInv
    PROVE  /\ Len(logs) \in Nat \ {0} /\ Len(logs) <= MaxDevices
           /\ \A d \in 1 .. Len(logs) : logs[d] \in 0 .. MaxLogs
<1>1. PICK n \in 1 .. MaxDevices : logs \in [1 .. n -> 0 .. MaxLogs]
  BY DEF LoopInv, Uploads
<1>2. Len(logs) = n /\ n \in Nat \ {0} /\ n <= MaxDevices
  BY <1>1 DEF ChunkPayloadConstants
<1>3. QED
  BY <1>1, <1>2

LEMMA LogTyped ==
    ASSUME ChunkPayloadConstants, LoopInv, NEW log \in Logs
    PROVE  /\ log[1] \in 1 .. Len(logs) /\ log[1] \in Nat
           /\ log[2] \in 1 .. MaxLogs /\ log[2] \in Nat /\ log = <<log[1], log[2]>>
           /\ log[2] <= logs[log[1]] /\ logs[log[1]] \in Nat
  BY LogsShape DEF Logs, ChunkPayloadConstants

LEMMA LogsFinite ==
    ASSUME ChunkPayloadConstants, LoopInv, NEW S \in SUBSET Logs
    PROVE  IsFiniteSet(S) /\ Cardinality(S) \in Nat
<1>1. IsFiniteSet(1 .. Len(logs)) /\ IsFiniteSet(1 .. MaxLogs)
  BY FS_Interval, LogsShape DEF ChunkPayloadConstants
<1>2. IsFiniteSet((1 .. Len(logs)) \X (1 .. MaxLogs))
  BY <1>1, FS_Product
<1>3. S \in SUBSET ((1 .. Len(logs)) \X (1 .. MaxLogs))
  BY DEF Logs
<1>4. QED
  BY <1>2, <1>3, FS_Subset, FS_CardinalityType

(* The logs taken are those whose places do not exceed their number.       *)
LEMMA TakenByPlace ==
    ASSUME ChunkPayloadConstants, LoopInv, NEW log \in Logs
    PROVE  /\ Place(log) \in Nat /\ Cardinality(Taken) \in Nat
           /\ log \in Taken <=> Place(log) <= Cardinality(Taken)
<1>1. PICK upTo \in SUBSET Logs : upTo = {other \in Logs : NotAfter(other, log)}
  OBVIOUS
<1>2. IsFiniteSet(upTo) /\ Place(log) = Cardinality(upTo) /\ Place(log) \in Nat
  BY <1>1, LogsFinite DEF Place
<1>3. Taken \in SUBSET Logs
  BY DEF Taken
<1>4. IsFiniteSet(Taken) /\ Cardinality(Taken) \in Nat
  BY <1>3, LogsFinite
<1>5. device \in Nat /\ offset \in Nat
  BY LogsShape DEF LoopInv
<1>6. CASE log \in Taken
  <2>1. ASSUME NEW other \in upTo
        PROVE  other \in Taken
    BY <1>1, <1>5, <1>6, LogTyped DEF Taken, NotAfter
  <2>2. upTo \in SUBSET Taken
    BY <2>1
  <2>3. QED
    BY <1>2, <1>4, <1>6, <2>2, FS_Subset
<1>7. CASE log \notin Taken
  <2>1. log \in upTo
    BY <1>1, LogTyped DEF NotAfter
  <2>2. ASSUME NEW other \in Taken
        PROVE  other \in upTo \ {log}
    <3>1. other \in Logs /\ other # log
      BY <1>3, <1>7
    <3>2. NotAfter(other, log)
      BY <1>5, <1>7, <3>1, LogTyped DEF Taken, NotAfter
    <3>3. QED
      BY <1>1, <3>1, <3>2
  <2>3. Taken \in SUBSET (upTo \ {log})
    BY <2>2
  <2>4. IsFiniteSet(upTo \ {log}) /\ Cardinality(upTo \ {log}) = Cardinality(upTo) - 1
    BY <1>2, <2>1, FS_RemoveElement
  <2>5. Cardinality(Taken) <= Cardinality(upTo \ {log})
    BY <2>3, <2>4, FS_Subset
  <2>6. QED
    BY <1>2, <1>4, <1>7, <2>4, <2>5
<1>8. QED
  BY <1>2, <1>4, <1>6, <1>7

PlacesFit ==
    \A log \in Logs : /\ Place(log) \in Nat /\ Cardinality(Taken) \in Nat
                      /\ log \in Taken <=> Place(log) <= Cardinality(Taken)

LEMMA PlacesAlwaysFit == LoopInv => PlacesFit
  BY TakenByPlace, ChunkPayloadConstants DEF PlacesFit

(* What a step does to the logs: nothing.                                  *)
LEMMA PlacesStay ==
    ASSUME logs' = logs
    PROVE  Logs' = Logs /\ (\A log : Place(log)' = Place(log)) /\ (\A n : Stretch(n)' = Stretch(n))
<1>1. Logs' = Logs
  BY DEF Logs
<1>2. \A log : Place(log)' = Place(log)
  BY <1>1 DEF Place
<1>3. QED
  BY <1>1, <1>2 DEF Stretch

TheSlice == [device |-> device, first |-> offset + 1, size |-> SizeOfSlice]

(* One round of the inner loop: there is room, so that it takes a slice.   *)
LEMMA TakeSliceForm ==
    ASSUME ChunkPayloadConstants, LoopInv, SlicesTyped, TakeSlice
    PROVE  /\ TheSlice \in Slice /\ SizeOfSlice \in Nat \ {0}
           /\ SizeOfSlice <= logs[device] - offset /\ device \in 1 .. Len(logs)
           /\ UNCHANGED <<logs, returned>>
           /\ \/ /\ chunks' = Append(chunks, Append(currentRecords, TheSlice))
                 /\ currentRecords' = <<>> /\ currentCount' = 0
                 /\ currentCount + SizeOfSlice = Limit
              \/ /\ currentRecords' = Append(currentRecords, TheSlice)
                 /\ currentCount' = currentCount + SizeOfSlice
                 /\ chunks' = chunks
           /\ \/ /\ offset + SizeOfSlice = logs[device]
                 /\ device' = device + 1 /\ offset' = 0
              \/ /\ offset + SizeOfSlice # logs[device]
                 /\ device' = device /\ offset' = offset + SizeOfSlice
<1>1. device <= Len(logs) /\ offset < logs[device] /\ UNCHANGED <<logs, returned>>
  BY DEF TakeSlice
<1>2. /\ Len(logs) \in Nat \ {0} /\ Len(logs) <= MaxDevices
      /\ \A d \in 1 .. Len(logs) : logs[d] \in 0 .. MaxLogs
  BY LogsShape
<1>3. device \in 1 .. Len(logs) /\ offset \in Nat /\ currentCount \in 0 .. Limit - 1
  BY <1>1, <1>2 DEF LoopInv
<1>4. PICK size \in Nat \ {0} : /\ size = SizeOfSlice /\ size <= logs[device] - offset
                                /\ currentCount + size <= Limit
  BY <1>1, SliceFits
<1>5. TheSlice \in Slice
  BY <1>1, <1>2, <1>3, <1>4 DEF TheSlice, Slice, ChunkPayloadConstants
<1>6. PICK slices : slices = Append(currentRecords, TheSlice)
  OBVIOUS
<1>7. slices # <<>>
  BY <1>6 DEF SlicesTyped
<1>8. currentCount # Limit
  BY <1>3 DEF ChunkPayloadConstants
<1>9. /\ \/ IsFull(currentCount + size) /\ Flush(slices, currentCount + size)
         \/ /\ currentRecords' = slices /\ currentCount' = currentCount + size
            /\ UNCHANGED chunks
      /\ device' = IF offset + size = logs[device] THEN device + 1 ELSE device
      /\ offset' = IF offset + size = logs[device] THEN 0 ELSE offset + size
  BY <1>4, <1>6, <1>8 DEF TakeSlice, TheSlice
<1>10. \/ /\ chunks' = Append(chunks, slices) /\ currentRecords' = <<>> /\ currentCount' = 0
          /\ currentCount + size = Limit
       \/ /\ currentRecords' = slices /\ currentCount' = currentCount + size
          /\ chunks' = chunks
  <2>1. CASE IsFull(currentCount + size) /\ Flush(slices, currentCount + size)
    <3>1. currentCount + size = Limit
      BY <1>3, <1>4, <2>1 DEF IsFull, ChunkPayloadConstants
    <3>2. QED
      BY <1>7, <2>1, <3>1 DEF Flush
  <2>2. QED
    BY <1>9, <2>1
<1>11. QED
  BY <1>1, <1>3, <1>4, <1>5, <1>6, <1>9, <1>10

(* A slice carries as many logs as it says.                                *)
LEMMA LogsOfSize ==
    ASSUME ChunkPayloadConstants, NEW s \in Slice
    PROVE  IsFiniteSet(LogsOf(s)) /\ Cardinality(LogsOf(s)) = s.size
<1>1. PICK d \in Nat, first \in Nat, last \in Int, n \in Nat :
         d = s.device /\ first = s.first /\ n = s.size /\ last = first + n - 1
  BY DEF Slice, ChunkPayloadConstants
<1>2. IsFiniteSet(first .. last) /\ Cardinality(first .. last) = n
  <2>1. IsFiniteSet(first .. last)
        /\ Cardinality(first .. last) = IF first > last THEN 0 ELSE last - first + 1
    BY FS_Interval
  <2>2. QED
    BY <1>1, <2>1
<1>3. IsFiniteSet({d}) /\ Cardinality({d}) = 1
  BY FS_Singleton
<1>4. /\ IsFiniteSet({d} \X (first .. last))
      /\ Cardinality({d} \X (first .. last)) = Cardinality({d}) * Cardinality(first .. last)
  BY <1>2, <1>3, FS_Product
<1>5. Cardinality({d} \X (first .. last)) = 1 * n
  BY <1>2, <1>3, <1>4
<1>6. LogsOf(s) = {d} \X (first .. last)
  BY <1>1 DEF LogsOf
<1>7. QED
  BY <1>1, <1>4, <1>5, <1>6

(* A round takes the next logs, as many as its slice says.                 *)
LEMMA TakenGrows ==
    ASSUME ChunkPayloadConstants, LoopInv, SlicesTyped, TakeSlice
    PROVE  /\ Taken' = Taken \cup LogsOf(TheSlice) /\ Taken \cap LogsOf(TheSlice) = {}
           /\ Cardinality(Taken)' = Cardinality(Taken) + SizeOfSlice
<1>1. PICK n \in Nat \ {0} : n = SizeOfSlice
  BY TakeSliceForm
<1>2. /\ device \in Nat /\ offset \in Nat /\ logs[device] \in Nat /\ logs[device] <= MaxLogs
      /\ device \in 1 .. Len(logs) /\ offset + n <= logs[device] /\ logs' = logs
      /\ \/ offset + n = logs[device] /\ device' = device + 1 /\ offset' = 0
         \/ device' = device /\ offset' = offset + n
  BY <1>1, TakeSliceForm, LogsShape DEF LoopInv, ChunkPayloadConstants
<1>3. PICK new : new = {device} \X (offset + 1 .. offset + n)
  OBVIOUS
<1>4. LogsOf(TheSlice) = new
  <2>1. (offset + 1) + n - 1 = offset + n
    BY <1>2
  <2>2. QED
    BY <1>1, <1>3, <2>1 DEF LogsOf, TheSlice
<1>5. \A log : log \in new <=> /\ log = <<log[1], log[2]>> /\ log[1] = device
                               /\ log[2] \in offset + 1 .. offset + n
  BY <1>3
<1>6. new \in SUBSET Logs
  <2>1. ASSUME NEW log \in new
        PROVE  log \in Logs
    <3>1. log = <<log[1], log[2]>> /\ log[1] = device /\ log[2] \in offset + 1 .. offset + n
      BY <1>5
    <3>2. log[1] \in 1 .. Len(logs) /\ log[2] \in 1 .. MaxLogs /\ log[2] <= logs[log[1]]
      BY <1>2, <3>1 DEF ChunkPayloadConstants
    <3>3. QED
      BY <3>1, <3>2 DEF Logs
  <2>2. QED
    BY <2>1
<1>7. \A log \in Logs : log \in Taken <=>
         log[1] < device \/ (log[1] = device /\ log[2] <= offset)
  BY DEF Taken
<1>8. Logs' = Logs /\ (\A log \in Logs : log \in Taken' <=>
         log[1] < device' \/ (log[1] = device' /\ log[2] <= offset'))
  BY <1>2, PlacesStay DEF Taken
<1>9. ASSUME NEW log \in Logs
      PROVE  /\ log \in new => log \notin Taken
             /\ log \in Taken' <=> log \in Taken \/ log \in new
  <2>1. /\ log[1] \in Nat /\ log[2] \in Nat \ {0} /\ log = <<log[1], log[2]>>
        /\ log[1] = device => log[2] <= logs[device]
    BY LogTyped
  <2>2. QED
    BY <1>2, <1>5, <1>7, <1>8, <2>1
<1>10. Taken \in SUBSET Logs /\ Taken' \in SUBSET Logs
  BY <1>8 DEF Taken
<1>11. Taken' = Taken \cup new /\ Taken \cap new = {}
  BY <1>6, <1>9, <1>10
<1>12. Cardinality(Taken') = Cardinality(Taken) + n
  <2>1. IsFiniteSet(new) /\ Cardinality(new) = n
    <3>1. PICK s \in Slice : s = TheSlice /\ s.size = n
      BY <1>1, TakeSliceForm DEF TheSlice
    <3>2. QED
      BY <1>4, <3>1, LogsOfSize
  <2>2. IsFiniteSet(Taken) /\ Cardinality(Taken) \in Nat
    BY <1>10, LogsFinite
  <2>3. Cardinality(Taken \cup new)
          = Cardinality(Taken) + Cardinality(new) - Cardinality(Taken \cap new)
    BY <2>1, <2>2, FS_Union
  <2>4. Cardinality(Taken \cap new) = 0
    BY <1>11, FS_EmptySet
  <2>5. QED
    BY <1>11, <2>1, <2>2, <2>3, <2>4
<1>13. QED
  BY <1>1, <1>4, <1>11, <1>12

(* A slice put behind the others.                                          *)
LEMMA SliceAppended ==
    ASSUME NEW part \in Seq(Slice), NEW s \in Slice
    PROVE  /\ Append(part, s) \in Seq(Slice) /\ Append(part, s) # <<>>
           /\ LogsOfChunk(Append(part, s)) = LogsOfChunk(part) \cup LogsOf(s)
           /\ \A d : Has(part, d) => Has(Append(part, s), d)
           /\ Has(Append(part, s), s.device)
           /\ \A k \in DOMAIN Append(part, s) : Append(part, s)[k] = s \/ k \in DOMAIN part
           /\ \A k \in DOMAIN part : Append(part, s)[k] = part[k]
           /\ (InOrder(part) /\ \A k \in DOMAIN part : Precedes(part[k], s))
                 => InOrder(Append(part, s))
<1>1. PICK n \in Nat : n = Len(part) /\ DOMAIN part = 1 .. n
  OBVIOUS
<1>2. PICK longer : longer = Append(part, s)
  OBVIOUS
<1>3. /\ longer \in Seq(Slice) /\ longer # <<>> /\ DOMAIN longer = 1 .. n + 1
      /\ longer[n + 1] = s /\ \A k \in 1 .. n : longer[k] = part[k]
  BY <1>1, <1>2
<1>4. /\ \A k \in DOMAIN longer : k \in DOMAIN part \/ k = n + 1
      /\ \A k \in DOMAIN part : k \in DOMAIN longer /\ longer[k] = part[k]
      /\ n + 1 \in DOMAIN longer
  BY <1>1, <1>3
<1>5. LogsOfChunk(longer) = LogsOfChunk(part) \cup LogsOf(s)
  <2>1. \A log : log \in LogsOfChunk(longer) <=> \E k \in DOMAIN longer : log \in LogsOf(longer[k])
    BY DEF LogsOfChunk
  <2>2. \A log : log \in LogsOfChunk(part) <=> \E k \in DOMAIN part : log \in LogsOf(part[k])
    BY DEF LogsOfChunk
  <2>3. \A log : log \in LogsOfChunk(longer) <=> log \in LogsOfChunk(part) \/ log \in LogsOf(s)
    BY <1>3, <1>4, <2>1, <2>2
  <2>4. QED
    BY <2>3
<1>6. (\A d : Has(part, d) => Has(longer, d)) /\ Has(longer, s.device)
  BY <1>3, <1>4 DEF Has
<1>7. ASSUME InOrder(part), \A k \in DOMAIN part : Precedes(part[k], s)
      PROVE  InOrder(longer)
  <2>1. ASSUME NEW k \in DOMAIN longer, NEW l \in DOMAIN longer, k < l
        PROVE  Precedes(longer[k], longer[l])
    <3>1. k \in 1 .. n
      BY <1>3, <2>1
    <3>2. CASE l = n + 1
      BY <1>1, <1>3, <1>7, <3>1, <3>2
    <3>3. CASE l # n + 1
      BY <1>1, <1>3, <1>4, <1>7, <2>1, <3>1, <3>3 DEF InOrder
    <3>4. QED
      BY <3>2, <3>3
  <2>2. QED
    BY <2>1 DEF InOrder
<1>8. QED
  BY <1>2, <1>3, <1>4, <1>5, <1>6, <1>7

(* The slice of a round continues the chunk being filled.                  *)
LEMMA RoundSound ==
    ASSUME ChunkPayloadConstants, LoopInv, SlicesTyped, TakeSlice,
           NEW base \in Nat, base <= Cardinality(Taken),
           PartSound(currentRecords, Taken, base, device, offset)
    PROVE  PartSound(Append(currentRecords, TheSlice), Taken', base, device', offset')
<1>1. PICK slices : slices = Append(currentRecords, TheSlice)
  OBVIOUS
<1>2. PICK s \in Slice : s = TheSlice
  BY TakeSliceForm
<1>3. PICK n \in Nat \ {0} : n = SizeOfSlice
  BY TakeSliceForm
<1>4. s.device = device /\ s.first = offset + 1 /\ s.size = n
  BY <1>2, <1>3 DEF TheSlice
<1>5. /\ currentRecords \in Seq(Slice) /\ device \in Nat /\ offset \in Nat
      /\ \/ device' = device + 1 /\ offset' = 0
         \/ device' = device /\ offset' = offset + n
  BY <1>3, TakeSliceForm, LogsShape DEF LoopInv, SlicesTyped
<1>6. \A k \in DOMAIN currentRecords : currentRecords[k] \in Slice
  BY <1>5
<1>7. /\ slices # <<>> /\ LogsOfChunk(slices) = LogsOfChunk(currentRecords) \cup LogsOf(s)
      /\ \A k \in DOMAIN slices : slices[k] = s \/ k \in DOMAIN currentRecords
      /\ \A k \in DOMAIN currentRecords : slices[k] = currentRecords[k]
      /\ (InOrder(currentRecords)
            /\ \A k \in DOMAIN currentRecords : Precedes(currentRecords[k], s))
            => InOrder(slices)
  BY <1>1, <1>2, <1>5, SliceAppended
<1>8. \A k \in DOMAIN currentRecords : /\ Behind(currentRecords[k], device, offset)
                                       /\ Precedes(currentRecords[k], s)
  BY <1>4 DEF PartSound, Behind, Precedes
<1>9. InOrder(slices)
  BY <1>7, <1>8 DEF PartSound
<1>10. ASSUME NEW k \in DOMAIN slices
       PROVE  Behind(slices[k], device', offset')
  <2>1. CASE slices[k] = s
    BY <1>4, <1>5, <2>1 DEF Behind
  <2>2. CASE k \in DOMAIN currentRecords
    <3>1. /\ currentRecords[k].device \in Nat /\ currentRecords[k].first \in Nat
          /\ currentRecords[k].size \in Nat
      BY <1>6, <2>2 DEF Slice, ChunkPayloadConstants
    <3>2. QED
      BY <1>5, <1>7, <1>8, <2>2, <3>1 DEF Behind
  <2>3. QED
    BY <1>7, <2>1, <2>2
<1>11. LogsOfChunk(slices) = {log \in Taken' : base < Place(log)}
  <2>1. /\ Taken' = Taken \cup LogsOf(s) /\ Taken \cap LogsOf(s) = {}
        /\ Taken' \in SUBSET Logs
    <3>1. Logs' = Logs
      BY TakeSliceForm, PlacesStay
    <3>2. QED
      BY <1>2, <3>1, TakenGrows DEF Taken
  <2>2. \A log \in LogsOf(s) : base < Place(log)
    BY <2>1, TakenByPlace
  <2>3. LogsOfChunk(currentRecords) = {log \in Taken : base < Place(log)}
    BY DEF PartSound
  <2>4. QED
    BY <1>7, <2>1, <2>2, <2>3
<1>12. QED
  BY <1>1, <1>9, <1>10, <1>11 DEF PartSound

(* A chunk with the logs of the next stretch is put behind the others.     *)
LEMMA ChunkAppended ==
    ASSUME SlicesTyped, ChunksSound, logs' = logs, NEW slices \in Seq(Slice),
           chunks' = Append(chunks, slices), slices # <<>>, InOrder(slices),
           LogsOfChunk(slices) = Stretch(Len(chunks) + 1)
    PROVE  ChunksSound' /\ Len(chunks') = Len(chunks) + 1
<1>1. PICK n \in Nat : n = Len(chunks) /\ DOMAIN chunks = 1 .. n
  BY DEF SlicesTyped
<1>2. /\ DOMAIN chunks' = 1 .. n + 1 /\ chunks'[n + 1] = slices /\ Len(chunks') = n + 1
      /\ \A k \in 1 .. n : chunks'[k] = chunks[k]
  BY <1>1 DEF SlicesTyped
<1>3. \A k : Stretch(k)' = Stretch(k)
  BY PlacesStay
<1>4. ASSUME NEW k \in DOMAIN chunks'
      PROVE  LogsOfChunk(chunks'[k]) = Stretch(k)' /\ InOrder(chunks'[k]) /\ chunks'[k] # <<>>
  <2>1. CASE k = n + 1
    BY <1>1, <1>2, <1>3, <2>1
  <2>2. CASE k # n + 1
    <3>1. k \in DOMAIN chunks /\ chunks'[k] = chunks[k]
      BY <1>1, <1>2, <2>2
    <3>2. QED
      BY <1>3, <3>1 DEF ChunksSound
  <2>3. QED
    BY <2>1, <2>2
<1>5. ChunksSound'
  BY <1>4 DEF ChunksSound
<1>6. QED
  BY <1>1, <1>2, <1>5

(* What has been found in some part is found when that part has grown or   *)
(* become a chunk.                                                         *)
LEMMA PartsGrow ==
    ASSUME SlicesTyped, NEW slices \in Seq(Slice),
           \A log \in LogsOfChunk(currentRecords) : log \in LogsOfChunk(slices),
           \A d : Has(currentRecords, d) => Has(slices, d),
           \/ chunks' = Append(chunks, slices) /\ currentRecords' = <<>>
           \/ chunks' = chunks /\ currentRecords' = slices
    PROVE  /\ slices \in Parts'
           /\ \A part \in Parts : \E grown \in Parts' :
                 /\ \A log \in LogsOfChunk(part) : log \in LogsOfChunk(grown)
                 /\ \A d : Has(part, d) => Has(grown, d)
<1>1. PICK n \in Nat : n = Len(chunks) /\ DOMAIN chunks = 1 .. n
  BY DEF SlicesTyped
<1>2. CASE chunks' = Append(chunks, slices) /\ currentRecords' = <<>>
  <2>1. /\ DOMAIN chunks' = 1 .. n + 1 /\ chunks'[n + 1] = slices
        /\ \A k \in 1 .. n : chunks'[k] = chunks[k]
    BY <1>1, <1>2 DEF SlicesTyped
  <2>2. n + 1 \in DOMAIN chunks' /\ \A k \in DOMAIN chunks : k \in DOMAIN chunks'
    BY <1>1, <2>1
  <2>3. slices \in Parts' /\ \A k \in DOMAIN chunks : chunks[k] \in Parts'
    BY <1>1, <2>1, <2>2 DEF Parts
  <2>4. QED
    BY <2>3 DEF Parts
<1>3. CASE chunks' = chunks /\ currentRecords' = slices
  <2>1. slices \in Parts' /\ \A k \in DOMAIN chunks : chunks[k] \in Parts'
    BY <1>3 DEF Parts
  <2>2. QED
    BY <2>1 DEF Parts
<1>4. QED
  BY <1>2, <1>3

LEMMA TakeSliceCut ==
    ASSUME ChunkPayloadConstants, LoopInv, PlacesFit', SlicesTyped, CutInv, TakeSlice
    PROVE  CutInv'
<1>1. PICK s \in Slice : s = TheSlice
  BY TakeSliceForm
<1>2. PICK slices \in Seq(Slice) :
         /\ slices = Append(currentRecords, s) /\ slices # <<>>
         /\ LogsOfChunk(slices) = LogsOfChunk(currentRecords) \cup LogsOf(s)
         /\ \A d : Has(currentRecords, d) => Has(slices, d)
         /\ Has(slices, s.device)
  BY SliceAppended DEF SlicesTyped
<1>3. PICK size \in Nat \ {0} : size = SizeOfSlice
  BY TakeSliceForm
<1>4. /\ logs' = logs /\ returned' = returned /\ device \in 1 .. Len(logs)
      /\ s.device = device /\ (device' = device + 1 \/ device' = device)
      /\ \/ /\ chunks' = Append(chunks, slices) /\ currentRecords' = <<>> /\ currentCount' = 0
            /\ currentCount + size = Limit
         \/ /\ currentRecords' = slices /\ currentCount' = currentCount + size
            /\ chunks' = chunks
  BY <1>1, <1>2, <1>3, TakeSliceForm DEF TheSlice
<1>5. PICK n \in Nat : n = Len(chunks)
  BY DEF SlicesTyped
<1>6. PICK base \in Nat : base = n * Limit /\ (n + 1) * Limit = base + Limit
  BY <1>5 DEF ChunkPayloadConstants
<1>7. ~returned
  BY <1>4, LogsShape DEF CutInv
<1>8. /\ Cardinality(Taken) = base + currentCount /\ base <= Cardinality(Taken)
      /\ PartSound(currentRecords, Taken, base, device, offset)
      /\ currentCount \in Nat /\ Limit \in Nat
  BY <1>5, <1>6, <1>7 DEF CutInv, LoopInv, ChunkPayloadConstants
<1>9. /\ PartSound(slices, Taken', base, device', offset')
      /\ Cardinality(Taken)' = base + currentCount + size
      /\ Taken' = Taken \cup LogsOf(s)
  BY <1>1, <1>2, <1>3, <1>8, RoundSound, TakenGrows
<1>10. Covered'
  <2>1. /\ slices \in Parts'
        /\ \A part \in Parts : \E grown \in Parts' :
              /\ \A log \in LogsOfChunk(part) : log \in LogsOfChunk(grown)
              /\ \A d : Has(part, d) => Has(grown, d)
    BY <1>2, <1>4, PartsGrow
  <2>2. ASSUME NEW log \in Taken'
        PROVE  \E part \in Parts' : log \in LogsOfChunk(part)
    BY <1>2, <1>9, <2>1 DEF CutInv, Covered
  <2>3. ASSUME NEW d \in 1 .. Len(logs'), d < device'
        PROVE  \E part \in Parts' : Has(part, d)
    <3>1. CASE d < device
      BY <1>4, <2>1, <3>1 DEF CutInv, Covered
    <3>2. CASE ~(d < device)
      <4>1. d = device
        BY <1>4, <2>3, <3>2, LogsShape
      <4>2. QED
        BY <1>2, <1>4, <2>1, <4>1
    <3>3. QED
      BY <3>1, <3>2
  <2>4. QED
    BY <2>2, <2>3 DEF Covered
<1>11. ASSUME NEW log \in Logs'
       PROVE  /\ log \in Logs /\ Place(log) \in Nat /\ Place(log)' = Place(log)
              /\ log \in Taken' <=> Place(log) <= base + currentCount + size
  <2>1. log \in Logs /\ Place(log)' = Place(log)
    BY <1>4, PlacesStay
  <2>2. Place(log)' \in Nat /\ (log \in Taken' <=> Place(log)' <= Cardinality(Taken)')
    BY DEF PlacesFit
  <2>3. QED
    BY <1>9, <2>1, <2>2
<1>12. Logs' = Logs /\ Taken' \in SUBSET Logs
  BY <1>4, PlacesStay DEF Taken
<1>13. CASE /\ chunks' = Append(chunks, slices) /\ currentRecords' = <<>> /\ currentCount' = 0
            /\ currentCount + size = Limit
  <2>1. Cardinality(Taken)' = base + Limit
    BY <1>3, <1>8, <1>9, <1>13
  <2>2. \A log \in Logs : log \in Taken' <=> Place(log) <= base + Limit
    BY <1>3, <1>8, <1>11, <1>12, <1>13
  <2>3. Stretch(n + 1) = {log \in Logs : base < Place(log) /\ Place(log) <= base + Limit}
    <3>1. (n + 1) - 1 = n
      BY <1>5
    <3>2. QED
      BY <1>6, <3>1 DEF Stretch
  <2>4. LogsOfChunk(slices) = Stretch(n + 1)
    BY <1>9, <1>12, <2>2, <2>3 DEF PartSound
  <2>5. ChunksSound' /\ Len(chunks') = n + 1
    BY <1>2, <1>4, <1>5, <1>9, <1>13, <2>4, ChunkAppended DEF CutInv, PartSound
  <2>6. {log \in Taken' : base + Limit < Place(log)} = {}
    BY <1>8, <1>11, <1>12, <2>2
  <2>7. {log \in Taken' : base + Limit < Place(log)'} = {}
    BY <1>11, <1>12, <2>6
  <2>8. LogsOfChunk(<<>>) = {} /\ InOrder(<<>>)
    BY DEF LogsOfChunk, InOrder
  <2>9. PartSound(<<>>, Taken, base + Limit, device, offset)'
    BY <2>7, <2>8 DEF PartSound
  <2>10. /\ Cardinality(Taken)' = Len(chunks') * Limit + currentCount'
         /\ Len(chunks') * Limit = base + Limit
    BY <1>6, <1>8, <1>13, <2>1, <2>5
  <2>11. PartSound(currentRecords, Taken, Len(chunks) * Limit, device, offset)'
    BY <1>13, <2>9, <2>10
  <2>12. QED
    BY <1>4, <1>7, <1>10, <2>5, <2>10, <2>11 DEF CutInv
<1>14. CASE /\ currentRecords' = slices /\ currentCount' = currentCount + size
            /\ chunks' = chunks
  <2>1. ChunksSound'
    BY <1>4, <1>14, PlacesStay DEF CutInv, ChunksSound
  <2>2. \A log \in Taken' : Place(log)' = Place(log)
    BY <1>11, <1>12
  <2>3. PartSound(currentRecords, Taken, base, device, offset)'
    <3>1. {log \in Taken' : base < Place(log)'} = {log \in Taken' : base < Place(log)}
      BY <2>2
    <3>2. QED
      BY <1>9, <1>14, <3>1 DEF PartSound
  <2>4. Cardinality(Taken)' = base + currentCount' /\ Len(chunks') * Limit = base
    BY <1>3, <1>5, <1>6, <1>8, <1>9, <1>14
  <2>5. PartSound(currentRecords, Taken, Len(chunks) * Limit, device, offset)'
    BY <2>3, <2>4
  <2>6. QED
    BY <1>4, <1>7, <1>10, <2>1, <2>4, <2>5 DEF CutInv
<1>15. QED
  BY <1>4, <1>13, <1>14

LEMMA EmptyDeviceCut ==
    ASSUME ChunkPayloadConstants, LoopInv, SlicesTyped, CutInv, EmptyDevice
    PROVE  CutInv'
<1>1. /\ device \in 1 .. Len(logs) /\ device \in Nat /\ offset = 0 /\ offset' = 0
      /\ logs[device] = 0 /\ device' = device + 1
      /\ UNCHANGED <<logs, currentCount, chunks, returned>>
  BY LogsShape DEF EmptyDevice, LoopInv
<1>2. ~returned
  BY <1>1, LogsShape DEF CutInv
<1>3. PICK s \in Slice : s = [device |-> device, first |-> 1, size |-> 0]
  <2>1. device \in 1 .. MaxDevices
    BY <1>1, LogsShape DEF ChunkPayloadConstants
  <2>2. [device |-> device, first |-> 1, size |-> 0] \in Slice
    BY <2>1 DEF Slice, ChunkPayloadConstants
  <2>3. QED
    BY <2>2, Zenon
<1>4. s.device = device /\ s.first = 1 /\ s.size = 0 /\ LogsOf(s) = {}
  BY <1>3 DEF LogsOf
<1>5. currentRecords \in Seq(Slice) /\ \A k \in DOMAIN currentRecords : currentRecords[k] \in Slice
  BY DEF SlicesTyped
<1>6. currentRecords' = Append(currentRecords, s)
  BY <1>3, <1>5 DEF EmptyDevice, TraceOfEmpty
<1>7. PICK slices \in Seq(Slice) :
         /\ currentRecords' = slices /\ LogsOfChunk(slices) = LogsOfChunk(currentRecords)
         /\ \A d : Has(currentRecords, d) => Has(slices, d)
         /\ Has(slices, s.device)
         /\ \A k \in DOMAIN slices : slices[k] = s \/ k \in DOMAIN currentRecords
         /\ \A k \in DOMAIN currentRecords : slices[k] = currentRecords[k]
         /\ (InOrder(currentRecords)
               /\ \A k \in DOMAIN currentRecords : Precedes(currentRecords[k], s))
               => InOrder(slices)
  BY <1>4, <1>5, <1>6, SliceAppended
<1>8. Logs' = Logs /\ (\A log : Place(log)' = Place(log)) /\ (\A n : Stretch(n)' = Stretch(n))
  BY <1>1, PlacesStay
<1>9. Taken' = Taken
  <2>1. ASSUME NEW log \in Logs
        PROVE  log[1] < device \/ (log[1] = device /\ log[2] <= offset) <=>
               log[1] < device' \/ (log[1] = device' /\ log[2] <= offset')
    <3>1. /\ log[1] \in Nat /\ log[2] \in Nat \ {0}
          /\ log[1] = device => log[2] <= logs[device]
      BY LogTyped
    <3>2. QED
      BY <1>1, <3>1
  <2>2. QED
    BY <1>8, <2>1 DEF Taken
<1>10. PICK base : base = Len(chunks) * Limit
  OBVIOUS
<1>11. /\ Cardinality(Taken) = base + currentCount
       /\ PartSound(currentRecords, Taken, base, device, offset)
  BY <1>2, <1>10 DEF CutInv
<1>12. \A k \in DOMAIN currentRecords :
           /\ Behind(currentRecords[k], device, offset)
           /\ currentRecords[k].device \in Nat /\ currentRecords[k].first \in Nat
           /\ currentRecords[k].size \in Nat
  BY <1>5, <1>11 DEF PartSound, Slice, ChunkPayloadConstants
<1>13. InOrder(slices)
  <2>1. \A k \in DOMAIN currentRecords : Precedes(currentRecords[k], s)
    BY <1>1, <1>4, <1>12 DEF Behind, Precedes
  <2>2. QED
    BY <1>7, <1>11, <2>1 DEF PartSound
<1>14. \A k \in DOMAIN slices : Behind(slices[k], device', offset')
  <2>1. Behind(s, device', offset')
    BY <1>1, <1>4 DEF Behind
  <2>2. \A k \in DOMAIN currentRecords : Behind(currentRecords[k], device', offset')
    BY <1>1, <1>12 DEF Behind
  <2>3. QED
    BY <1>7, <2>1, <2>2
<1>15. PartSound(currentRecords, Taken, base, device, offset)'
  <2>1. LogsOfChunk(slices) = {log \in Taken' : base < Place(log)'}
    BY <1>7, <1>8, <1>9, <1>11 DEF PartSound
  <2>2. base' = base
    BY <1>1, <1>10
  <2>3. QED
    BY <1>7, <1>13, <1>14, <2>1 DEF PartSound
<1>16. ChunksSound'
  BY <1>1, <1>8 DEF CutInv, ChunksSound
<1>17. Covered'
  <2>1. /\ slices \in Parts'
        /\ \A part \in Parts : \E grown \in Parts' :
              /\ \A log \in LogsOfChunk(part) : log \in LogsOfChunk(grown)
              /\ \A d : Has(part, d) => Has(grown, d)
    BY <1>1, <1>7, PartsGrow
  <2>2. \A log \in Taken' : \E part \in Parts' : log \in LogsOfChunk(part)
    BY <1>9, <2>1 DEF CutInv, Covered
  <2>3. ASSUME NEW d \in 1 .. Len(logs'), d < device'
        PROVE  \E part \in Parts' : Has(part, d)
    <3>1. CASE d < device
      BY <1>1, <2>1, <3>1 DEF CutInv, Covered
    <3>2. CASE ~(d < device)
      <4>1. d = device
        BY <1>1, <2>3, <3>2, LogsShape
      <4>2. QED
        BY <1>4, <1>7, <2>1, <4>1
    <3>3. QED
      BY <3>1, <3>2
  <2>4. QED
    BY <2>2, <2>3 DEF Covered
<1>18. /\ Cardinality(Taken)' = Len(chunks') * Limit + currentCount'
       /\ PartSound(currentRecords, Taken, Len(chunks) * Limit, device, offset)'
  BY <1>1, <1>9, <1>10, <1>11, <1>15
<1>19. QED
  BY <1>1, <1>2, <1>16, <1>17, <1>18 DEF CutInv

LEMMA ReturnCut ==
    ASSUME ChunkPayloadConstants, LoopInv, PlacesFit, SlicesTyped, CutInv, Return
    PROVE  CutInv'
<1>1. /\ device = Len(logs) + 1 /\ ~returned /\ returned'
      /\ Flush(currentRecords, currentCount) /\ UNCHANGED <<logs, device, offset>>
  BY DEF Return
<1>2. Logs' = Logs /\ (\A n : Stretch(n)' = Stretch(n)) /\ Taken' = Taken
  BY <1>1, PlacesStay DEF Taken
<1>3. currentRecords \in Seq(Slice) /\ <<>> \in Seq(Slice)
  BY DEF SlicesTyped
<1>4. PICK n \in Nat : n = Len(chunks)
  BY DEF SlicesTyped
<1>5. PICK base \in Nat : base = n * Limit /\ (n + 1) * Limit = base + Limit
  BY <1>4 DEF ChunkPayloadConstants
<1>6. /\ Cardinality(Taken) = base + currentCount
      /\ PartSound(currentRecords, Taken, base, device, offset)
      /\ currentCount \in 0 .. Limit - 1
  BY <1>1, <1>4, <1>5 DEF CutInv, LoopInv
<1>7. Taken = Logs
  <2>1. ASSUME NEW log \in Logs
        PROVE  log[1] < device
    BY <1>1, LogTyped, LogsShape
  <2>2. QED
    BY <2>1 DEF Taken
<1>8. LogsOfChunk(currentRecords) = Stretch(n + 1)
  <2>1. \A log \in Logs : Place(log) \in Nat /\ Place(log) <= base + Limit
    BY <1>5, <1>6, <1>7 DEF PlacesFit, ChunkPayloadConstants
  <2>2. Stretch(n + 1) = {log \in Logs : base < Place(log) /\ Place(log) <= base + Limit}
    <3>1. (n + 1) - 1 = n
      BY <1>4
    <3>2. QED
      BY <1>5, <3>1 DEF Stretch
  <2>3. QED
    BY <1>6, <1>7, <2>1, <2>2 DEF PartSound
<1>9. currentRecords' = <<>>
  BY <1>1 DEF Flush
<1>10. ChunksSound'
  <2>1. CASE currentRecords = <<>>
    <3>1. chunks' = chunks
      BY <1>1, <2>1 DEF Flush
    <3>2. QED
      BY <1>2, <3>1 DEF CutInv, ChunksSound
  <2>2. CASE currentRecords # <<>>
    <3>1. chunks' = Append(chunks, currentRecords)
      BY <1>1, <2>2 DEF Flush
    <3>2. QED
      BY <1>1, <1>3, <1>4, <1>6, <1>8, <2>2, <3>1, ChunkAppended DEF CutInv, PartSound
  <2>3. QED
    BY <2>1, <2>2
<1>11. Covered'
  <2>1. \/ chunks' = Append(chunks, currentRecords) /\ currentRecords' = <<>>
        \/ chunks' = chunks /\ currentRecords' = currentRecords
    BY <1>1 DEF Flush
  <2>2. \A part \in Parts : \E grown \in Parts' :
              /\ \A log \in LogsOfChunk(part) : log \in LogsOfChunk(grown)
              /\ \A d : Has(part, d) => Has(grown, d)
    BY <1>3, <2>1, PartsGrow
  <2>3. QED
    BY <1>1, <1>2, <2>2 DEF CutInv, Covered
<1>12. QED
  BY <1>1, <1>9, <1>10, <1>11 DEF CutInv

(* The invariant of the loop, and its two halves.                          *)
ChunkInv == LoopInv /\ SlicesTyped /\ CutInv

LEMMA ChunkInit == Init => ChunkInv
<1>1. Init /\ LoopInv => CutInv
  <2> SUFFICES ASSUME Init, LoopInv
               PROVE  CutInv
    OBVIOUS
  <2>1. /\ chunks = <<>> /\ currentRecords = <<>> /\ currentCount = 0 /\ ~returned
        /\ device = 1 /\ offset = 0
    BY DEF Init
  <2>2. Taken = {}
    <3>1. ASSUME NEW log \in Logs
          PROVE  log \notin Taken
      BY <2>1, ChunkPayloadConstants, LogTyped DEF Taken
    <3>2. QED
      BY <3>1 DEF Taken
  <2>3. Cardinality(Taken) = 0 /\ Len(chunks) * Limit = 0
    BY <2>1, <2>2, FS_EmptySet, ChunkPayloadConstants DEF ChunkPayloadConstants
  <2>4. PartSound(<<>>, Taken, Len(chunks) * Limit, device, offset)
    BY <2>2 DEF PartSound, InOrder, LogsOfChunk
  <2>5. ChunksSound
    BY <2>1 DEF ChunksSound
  <2>6. Covered
    <3>1. \A d \in 1 .. Len(logs) : ~(d < device)
      BY <2>1
    <3>2. QED
      BY <2>2, <3>1 DEF Covered
  <2>7. QED
    BY <2>1, <2>3, <2>4, <2>5, <2>6 DEF CutInv
<1>2. QED
  BY <1>1, LoopInit, SlicesInit, ChunkPayloadConstants DEF ChunkInv

LEMMA CutStep ==
    ASSUME LoopInv, PlacesFit, PlacesFit', SlicesTyped, CutInv, [Next]_vars
    PROVE  CutInv'
<1>1. CASE EmptyDevice
  BY <1>1, EmptyDeviceCut, ChunkPayloadConstants
<1>2. CASE TakeSlice
  BY <1>2, TakeSliceCut, ChunkPayloadConstants
<1>3. CASE Return
  BY <1>3, ReturnCut, ChunkPayloadConstants
<1>4. CASE UNCHANGED vars
  <2>1. UNCHANGED <<logs, device, offset, currentRecords, currentCount, chunks, returned>>
    BY <1>4 DEF vars
  <2>2. Logs' = Logs /\ (\A log : Place(log)' = Place(log)) /\ (\A n : Stretch(n)' = Stretch(n))
    BY <2>1, PlacesStay
  <2>3. Taken' = Taken /\ Parts' = Parts /\ ChunksSound' /\ Covered'
    BY <2>1, <2>2 DEF Taken, Parts, CutInv, ChunksSound, Covered
  <2>4. PartSound(currentRecords, Taken, Len(chunks) * Limit, device, offset) =>
        PartSound(currentRecords, Taken, Len(chunks) * Limit, device, offset)'
    BY <2>1, <2>2, <2>3 DEF PartSound
  <2>5. QED
    BY <2>1, <2>3, <2>4 DEF CutInv
<1>5. QED
  BY <1>1, <1>2, <1>3, <1>4 DEF Next

LEMMA ChunkStep == ChunkInv /\ [Next]_vars => ChunkInv'
<1> SUFFICES ASSUME ChunkInv, [Next]_vars
             PROVE  ChunkInv'
  OBVIOUS
<1>1. LoopInv /\ SlicesTyped /\ CutInv
  BY DEF ChunkInv
<1>2. LoopInv' /\ SlicesTyped'
  BY <1>1, LoopStep, SlicesStep, ChunkPayloadConstants
<1>3. PlacesFit /\ PlacesFit'
  BY <1>1, <1>2, PlacesAlwaysFit, PTL
<1>4. CutInv'
  BY <1>1, <1>3, CutStep
<1>5. QED
  BY <1>2, <1>4 DEF ChunkInv

LEMMA ChunkMeansReference == ChunkInv => CutAsReference
  BY DEF ChunkInv, CutInv, ChunksSound, CutAsReference, Stretch, InOrder

LEMMA ChunkMeansNothingLeftOut == ChunkInv => NothingLeftOut
<1> SUFFICES ASSUME LoopInv, CutInv, returned
             PROVE  NothingLeftOut
  BY DEF NothingLeftOut, ChunkInv
<1>1. device = Len(logs) + 1 /\ currentRecords = <<>> /\ ChunksSound /\ Covered
  BY DEF CutInv
<1>2. \A part \in Parts : part = <<>> \/ \E n \in DOMAIN chunks : part = chunks[n]
  BY <1>1 DEF Parts
<1>3. LogsOfChunk(<<>>) = {} /\ \A d : ~Has(<<>>, d)
  BY DEF LogsOfChunk, Has
<1>4. ASSUME NEW log \in Logs
      PROVE  \E n \in DOMAIN chunks : log \in LogsOfChunk(chunks[n])
  <2>1. log \in Taken
    BY <1>1, LogTyped, LogsShape, ChunkPayloadConstants DEF Taken
  <2>2. QED
    BY <1>1, <1>2, <1>3, <2>1 DEF Covered
<1>5. ASSUME NEW d \in 1 .. Len(logs)
      PROVE  \E n \in DOMAIN chunks : Has(chunks[n], d)
  <2>1. d < device
    BY <1>1, LogsShape, ChunkPayloadConstants
  <2>2. QED
    BY <1>1, <1>2, <1>3, <2>1 DEF Covered
<1>6. QED
  BY <1>1, <1>4, <1>5 DEF NothingLeftOut, ChunksSound, Has

LEMMA ChunkMeansTypes == ChunkInv => TypeOK
<1> SUFFICES ASSUME LoopInv, SlicesTyped
             PROVE  TypeOK
  BY DEF ChunkInv
<1>1. PICK n \in 1 .. MaxDevices : logs \in [1 .. n -> 0 .. MaxLogs]
  BY DEF LoopInv, Uploads
<1>2. Len(logs) = n /\ n \in Nat
  BY <1>1, ChunkPayloadConstants DEF ChunkPayloadConstants
<1>3. offset > 0 => logs[device] \in 0 .. MaxLogs
  BY <1>1, <1>2 DEF LoopInv
<1>4. offset \in 0 .. MaxLogs
  BY <1>3, ChunkPayloadConstants DEF LoopInv, ChunkPayloadConstants
<1>5. currentCount \in 0 .. Limit
  BY ChunkPayloadConstants DEF LoopInv, ChunkPayloadConstants
<1>6. QED
  BY <1>4, <1>5 DEF LoopInv, SlicesTyped, TypeOK

(* The loop variables of chunkSyncPayload stay inside the upload, and the  *)
(* chunk being filled within the limit.                                    *)
THEOREM ChunkTypes == Spec => []TypeOK
  BY ChunkInit, ChunkStep, ChunkMeansTypes, PTL DEF Spec
-----------------------------------------------------------------------------
(* The file.  The rows that were read are those of the entries, each entry *)
(* has the rows of its device in order, and no device has two entries.     *)

Entry == [device : DOMAIN StoreOf, rows : Seq(Nat)]
EntrySound(entry, cells, read) ==
    /\ entry \in Entry /\ Len(entry.rows) <= read
    /\ \A i \in DOMAIN entry.rows :
          entry.rows[i] \in 1 .. read /\ Head(cells[entry.rows[i]]) = entry.device
    /\ \A i, j \in DOMAIN entry.rows : i < j => entry.rows[i] < entry.rows[j]
RowsIn(entry) == {entry.rows[i] : i \in DOMAIN entry.rows}

FileRead ==
    /\ file \in Seq(Cells \cup {Invalid}) /\ Len(file) <= MaxRows
    /\ row \in Nat /\ row <= Len(file)
    /\ syncRecords \in Seq(Entry)
    /\ \A k \in DOMAIN syncRecords : EntrySound(syncRecords[k], file, row)
    /\ \A k, l \in DOMAIN syncRecords : syncRecords[k].device = syncRecords[l].device => k = l
    /\ \A r \in 1 .. row : \E k \in DOMAIN syncRecords : r \in RowsIn(syncRecords[k])

(* The group that is cut: all entries of one store, once the whole file    *)
(* has been read, and the upload that the loop is given.                   *)
Grouped ==
    /\ row = Len(file) /\ group \in Seq(Entry) /\ Len(logs) = Len(group)
    /\ \A d \in DOMAIN group :
          /\ EntrySound(group[d], file, row) /\ logs[d] = Len(group[d].rows)
          /\ StoreOf[group[d].device] = StoreOf[group[1].device]
    /\ \A d, e \in DOMAIN group : group[d].device = group[e].device => d = e
    /\ \A k \in DOMAIN syncRecords : StoreOf[syncRecords[k].device] = StoreOf[group[1].device] =>
          \E d \in DOMAIN group : group[d] = syncRecords[k]

NotCut ==
    /\ device = 1 /\ offset = 0 /\ currentRecords = <<>> /\ currentCount = 0
    /\ chunks = <<>> /\ returned = FALSE /\ group = <<>>

ExcelInv ==
    /\ FileRead
    /\ group # <<>> => Grouped
    /\ progress = "grouped" => row = Len(file)
    /\ IF progress = "cutting" THEN ChunkInv ELSE NotCut

(* A row that is valid names a device.                                     *)
LEMMA CellNames ==
    ASSUME FileRead, row < Len(file), file[row + 1] # Invalid
    PROVE  /\ row + 1 \in 1 .. Len(file) /\ row + 1 \in Nat
           /\ Head(file[row + 1]) \in DOMAIN StoreOf
<1>1. row + 1 \in 1 .. Len(file) /\ row + 1 \in Nat
  BY DEF FileRead
<1>2. file[row + 1] \in Cells
  BY <1>1 DEF FileRead
<1>3. QED
  BY <1>1, <1>2, ExcelUploadConstants DEF ExcelUploadConstants

(* An entry stays sound when further rows have been read.                  *)
LEMMA EntryStays ==
    ASSUME FileRead, NEW entry, EntrySound(entry, file, row), row' = row + 1, file' = file
    PROVE  EntrySound(entry, file', row')
  BY DEF FileRead, EntrySound

(* The first row of a device, and another one.                             *)
LEMMA EntryBegins ==
    ASSUME FileRead, row' = row + 1, file' = file,
           NEW x \in DOMAIN StoreOf, Head(file[row + 1]) = x
    PROVE  /\ EntrySound([device |-> x, rows |-> <<row + 1>>], file', row')
           /\ RowsIn([device |-> x, rows |-> <<row + 1>>]) = {row + 1}
<1>1. PICK n \in Nat : n = row + 1 /\ n \in 1 .. row' /\ 1 <= row'
  BY DEF FileRead
<1>2. PICK entry : entry = [device |-> x, rows |-> <<n>>]
  OBVIOUS
<1>3. /\ entry.device = x /\ entry.rows = <<n>> /\ entry \in Entry
      /\ Len(entry.rows) = 1 /\ DOMAIN entry.rows = {1} /\ entry.rows[1] = n
  BY <1>2 DEF Entry
<1>4. EntrySound(entry, file', row')
  BY <1>1, <1>3 DEF EntrySound, Entry
<1>5. RowsIn(entry) = {n}
  BY <1>3 DEF RowsIn
<1>6. QED
  BY <1>1, <1>2, <1>4, <1>5

LEMMA EntryGrows ==
    ASSUME FileRead, row' = row + 1, file' = file, NEW entry, EntrySound(entry, file, row),
           Head(file[row + 1]) = entry.device
    PROVE  /\ EntrySound([device |-> entry.device, rows |-> Append(entry.rows, row + 1)], file', row')
           /\ RowsIn([device |-> entry.device, rows |-> Append(entry.rows, row + 1)])
                = RowsIn(entry) \cup {row + 1}
<1>1. PICK n \in Nat : n = row + 1 /\ row \in Nat /\ row' = n
  BY DEF FileRead
<1>2. PICK len \in Nat : /\ len = Len(entry.rows) /\ len <= row
                         /\ entry.rows \in Seq(Nat) /\ DOMAIN entry.rows = 1 .. len
                         /\ entry.device \in DOMAIN StoreOf
  BY DEF EntrySound, Entry
<1>3. PICK rows : /\ rows = Append(entry.rows, n) /\ rows \in Seq(Nat)
                  /\ Len(rows) = len + 1 /\ DOMAIN rows = 1 .. len + 1 /\ rows[len + 1] = n
                  /\ \A i \in 1 .. len : rows[i] = entry.rows[i]
  <2>1. PICK old \in Seq(Nat) : old = entry.rows
    BY <1>2
  <2>2. /\ Append(old, n) \in Seq(Nat) /\ Len(Append(old, n)) = Len(old) + 1
        /\ Append(old, n)[Len(old) + 1] = n
        /\ \A i \in 1 .. Len(old) : Append(old, n)[i] = old[i]
    OBVIOUS
  <2>3. DOMAIN Append(old, n) = 1 .. Len(old) + 1
    OBVIOUS
  <2>4. QED
    BY <1>2, <2>1, <2>2, <2>3
<1>4. PICK grown : grown = [device |-> entry.device, rows |-> rows]
  OBVIOUS
<1>5. grown \in Entry /\ grown.device = entry.device /\ grown.rows = rows
  BY <1>2, <1>3, <1>4 DEF Entry
<1>6. \A i \in 1 .. len : entry.rows[i] \in 1 .. row /\ Head(file[entry.rows[i]]) = entry.device
  BY <1>2 DEF EntrySound
<1>7. \A i \in 1 .. len + 1 : rows[i] \in 1 .. n /\ Head(file[rows[i]]) = entry.device
  <2> SUFFICES ASSUME NEW i \in 1 .. len + 1
               PROVE  rows[i] \in 1 .. n /\ Head(file[rows[i]]) = entry.device
    OBVIOUS
  <2>1. CASE i = len + 1
    BY <1>1, <1>3, <2>1
  <2>2. CASE i # len + 1
    <3>1. i \in 1 .. len
      BY <2>2
    <3>2. QED
      BY <1>1, <1>3, <1>6, <3>1
  <2>3. QED
    BY <2>1, <2>2
<1>8. \A i, j \in 1 .. len + 1 : i < j => rows[i] < rows[j]
  <2> SUFFICES ASSUME NEW i \in 1 .. len + 1, NEW j \in 1 .. len + 1, i < j
               PROVE  rows[i] < rows[j]
    OBVIOUS
  <2>1. i \in 1 .. len
    OBVIOUS
  <2>2. CASE j = len + 1
    BY <1>1, <1>3, <1>6, <2>1, <2>2
  <2>3. CASE j # len + 1
    <3>1. j \in 1 .. len
      BY <2>3
    <3>2. entry.rows[i] < entry.rows[j]
      BY <1>2, <2>1, <3>1 DEF EntrySound
    <3>3. QED
      BY <1>3, <2>1, <3>1, <3>2
  <2>4. QED
    BY <2>2, <2>3
<1>9. EntrySound(grown, file', row')
  <2>1. len + 1 <= row'
    BY <1>1, <1>2
  <2>2. QED
    BY <1>1, <1>3, <1>5, <1>7, <1>8, <2>1 DEF EntrySound, Entry
<1>10. RowsIn(grown) = RowsIn(entry) \cup {n}
  <2>1. DOMAIN rows = 1 .. len \cup {len + 1}
    BY <1>3
  <2>2. QED
    BY <1>2, <1>3, <1>5, <2>1 DEF RowsIn
<1>11. QED
  BY <1>1, <1>3, <1>4, <1>9, <1>10

LEMMA RowWasRead ==
    ASSUME FileRead, row' = row + 1, file' = file, row + 1 <= Len(file),
           syncRecords' \in Seq(Entry),
           \A k \in DOMAIN syncRecords' : EntrySound(syncRecords'[k], file', row'),
           \A k, l \in DOMAIN syncRecords' :
               syncRecords'[k].device = syncRecords'[l].device => k = l,
           \A r \in 1 .. row' : \E k \in DOMAIN syncRecords' : r \in RowsIn(syncRecords'[k])
    PROVE  FileRead'
<1>1. row' \in Nat /\ row' <= Len(file') /\ Len(file') <= MaxRows
      /\ file' \in Seq(Cells \cup {Invalid})
  BY DEF FileRead
<1>2. QED
  BY <1>1 DEF FileRead

LEMMA ReadRowSound ==
    ASSUME FileRead, ReadRow
    PROVE  FileRead'
<1>1. CASE file[row + 1] = Invalid
  BY <1>1 DEF ReadRow, FileRead, EntrySound
<1>2. CASE file[row + 1] # Invalid
  <2>1. PICK x \in DOMAIN StoreOf :
            /\ x = Head(file[row + 1]) /\ row + 1 \in Nat /\ row + 1 <= Len(file)
            /\ row' = row + 1 /\ file' = file
            /\ syncRecords' =
                 IF EntriesOf(x) = {}
                 THEN Append(syncRecords, [device |-> x, rows |-> <<row + 1>>])
                 ELSE [k \in DOMAIN syncRecords |->
                         IF k \in EntriesOf(x)
                         THEN [device |-> x, rows |-> Append(syncRecords[k].rows, row + 1)]
                         ELSE syncRecords[k]]
    <3>1. PICK x : x = DeviceOf(file[row + 1])
      OBVIOUS
    <3>2. row < Len(file) /\ file' = file
      BY DEF ReadRow
    <3>3. /\ row + 1 \in Nat /\ row + 1 \in 1 .. Len(file)
          /\ Head(file[row + 1]) \in DOMAIN StoreOf
      BY <1>2, <3>2, CellNames
    <3>4. x = Head(file[row + 1]) /\ x \in DOMAIN StoreOf /\ row + 1 <= Len(file)
      BY <3>1, <3>3 DEF DeviceOf
    <3>5. /\ row' = row + 1
          /\ syncRecords' =
                 IF EntriesOf(x) = {}
                 THEN Append(syncRecords, [device |-> x, rows |-> <<row + 1>>])
                 ELSE [k \in DOMAIN syncRecords |->
                         IF k \in EntriesOf(x)
                         THEN [device |-> x, rows |-> Append(syncRecords[k].rows, row + 1)]
                         ELSE syncRecords[k]]
      BY <1>2, <3>1, Zenon DEF ReadRow
    <3>6. QED
      BY <3>2, <3>3, <3>4, <3>5
  <2>2. PICK n \in Nat : n = Len(syncRecords) /\ DOMAIN syncRecords = 1 .. n
    BY DEF FileRead
  <2>3. \A k \in 1 .. n : EntrySound(syncRecords[k], file, row) /\ EntrySound(syncRecords[k], file', row')
    BY <2>1, <2>2, EntryStays DEF FileRead
  <2>4. \A r \in 1 .. row' : r \in 1 .. row \/ r = row + 1
    BY <2>1 DEF FileRead
  <2>5. CASE EntriesOf(x) = {}
    <3>1. PICK entry : /\ entry = [device |-> x, rows |-> <<row + 1>>] /\ entry.device = x
                       /\ EntrySound(entry, file', row') /\ RowsIn(entry) = {row + 1}
      BY <2>1, EntryBegins
    <3>2. entry \in Entry
      BY <3>1 DEF EntrySound
    <3>3. /\ syncRecords' \in Seq(Entry) /\ DOMAIN syncRecords' = 1 .. n + 1
          /\ syncRecords'[n + 1] = entry
          /\ \A k \in 1 .. n : syncRecords'[k] = syncRecords[k]
      BY <2>1, <2>2, <2>5, <3>1, <3>2 DEF FileRead
    <3>4. \A k \in 1 .. n : syncRecords[k].device # x
      BY <2>2, <2>5 DEF EntriesOf
    <3>5. \A k \in 1 .. n + 1 : k \in 1 .. n \/ k = n + 1
      OBVIOUS
    <3>6. n + 1 \in 1 .. n + 1 /\ \A k \in 1 .. n : k \in 1 .. n + 1
      OBVIOUS
    <3>7. \A k \in 1 .. n + 1 : EntrySound(syncRecords'[k], file', row')
      BY <2>3, <3>1, <3>3, <3>5
    <3>8. \A k, l \in 1 .. n + 1 : syncRecords'[k].device = syncRecords'[l].device => k = l
      <4>1. \A k, l \in 1 .. n : syncRecords[k].device = syncRecords[l].device => k = l
        BY <2>2 DEF FileRead
      <4>2. QED
        BY <3>1, <3>3, <3>4, <3>5, <4>1
    <3>9. \A r \in 1 .. row' : \E k \in 1 .. n + 1 : r \in RowsIn(syncRecords'[k])
      BY <2>2, <2>4, <3>1, <3>3, <3>6 DEF FileRead
    <3>10. row' = row + 1 /\ file' = file /\ row + 1 <= Len(file)
      BY <2>1
    <3>11. QED
      BY <3>3, <3>7, <3>8, <3>9, <3>10, RowWasRead
  <2>6. CASE EntriesOf(x) # {}
    <3>1. PICK k \in 1 .. n : syncRecords[k].device = x
      BY <2>2, <2>6 DEF EntriesOf
    <3>2. EntriesOf(x) = {k}
      BY <2>2, <3>1 DEF EntriesOf, FileRead
    <3>3. PICK grown :
             /\ grown = [device |-> x, rows |-> Append(syncRecords[k].rows, row + 1)]
             /\ grown.device = x /\ EntrySound(grown, file', row')
             /\ RowsIn(grown) = RowsIn(syncRecords[k]) \cup {row + 1}
      BY <2>1, <2>3, <3>1, EntryGrows
    <3>4. grown \in Entry
      BY <3>3 DEF EntrySound
    <3>5. /\ DOMAIN syncRecords' = 1 .. n /\ syncRecords'[k] = grown
          /\ \A l \in 1 .. n : l # k => syncRecords'[l] = syncRecords[l]
      BY <2>1, <2>2, <2>6, <3>2, <3>3
    <3>6. syncRecords' \in Seq(Entry)
      <4>1. \A l \in 1 .. n : syncRecords'[l] \in Entry
        BY <2>2, <3>4, <3>5 DEF FileRead
      <4>2. syncRecords' = [l \in 1 .. n |-> syncRecords'[l]]
        BY <2>1, <2>2, <2>6
      <4>3. syncRecords' \in [1 .. n -> Entry]
        BY <4>1, <4>2
      <4>4. QED
        BY <4>3
    <3>7. \A l \in 1 .. n : EntrySound(syncRecords'[l], file', row')
      BY <2>3, <3>3, <3>5
    <3>8. \A l, m \in 1 .. n : syncRecords'[l].device = syncRecords'[m].device => l = m
      <4>1. \A l \in 1 .. n : syncRecords'[l].device = syncRecords[l].device
        BY <3>1, <3>3, <3>5
      <4>2. QED
        BY <2>2, <4>1 DEF FileRead
    <3>9. \A r \in 1 .. row' : \E l \in 1 .. n : r \in RowsIn(syncRecords'[l])
      <4> SUFFICES ASSUME NEW r \in 1 .. row'
                   PROVE  \E l \in 1 .. n : r \in RowsIn(syncRecords'[l])
        OBVIOUS
      <4>1. CASE r = row + 1
        BY <3>3, <3>5, <4>1
      <4>2. CASE r \in 1 .. row
        <5>1. PICK l \in 1 .. n : r \in RowsIn(syncRecords[l])
          BY <2>2, <4>2 DEF FileRead
        <5>2. r \in RowsIn(syncRecords'[l])
          BY <3>3, <3>5, <5>1
        <5>3. QED
          BY <5>2
      <4>3. QED
        BY <2>4, <4>1, <4>2
    <3>10. row' = row + 1 /\ file' = file /\ row + 1 <= Len(file)
      BY <2>1
    <3>11. QED
      BY <3>5, <3>6, <3>7, <3>8, <3>9, <3>10, RowWasRead
  <2>7. QED
    BY <2>5, <2>6
<1>3. QED
  BY <1>1, <1>2
(* CutGroup gives the loop an upload of at most MaxDevices devices.        *)
LEMMA GroupIs ==
    ASSUME FileRead, NEW s, NEW entries, entries = GroupOf(s)
    PROVE  /\ entries \in Seq(Entry)
           /\ \A d \in DOMAIN entries : /\ EntrySound(entries[d], file, row)
                                        /\ StoreOf[entries[d].device] = s
           /\ \A d, e \in DOMAIN entries : entries[d].device = entries[e].device => d = e
           /\ \A k \in DOMAIN syncRecords : StoreOf[syncRecords[k].device] = s =>
                 \E d \in DOMAIN entries : entries[d] = syncRecords[k]
<1>1. PICK n \in Nat : n = Len(syncRecords) /\ DOMAIN syncRecords = 1 .. n
  BY DEF FileRead
<1>2. PICK all : /\ all = {k \in DOMAIN syncRecords : StoreOf[syncRecords[k].device] = s}
                 /\ all \in SUBSET (1 .. n) /\ entries = Kept(syncRecords, all)
  BY <1>1 DEF GroupOf
<1>3. PICK size \in Nat : size = Cardinality(all)
  BY <1>2, NthInOrder
<1>4. /\ \A d \in 1 .. size : Nth(all, d) \in all
      /\ \A d, e \in 1 .. size : d < e => Nth(all, d) < Nth(all, e)
      /\ \A k \in all : \E d \in 1 .. size : Nth(all, d) = k
  BY <1>2, <1>3, NthInOrder
<1>5. entries = [d \in 1 .. size |-> syncRecords[Nth(all, d)]]
  BY <1>2, <1>3 DEF Kept
<1>6. DOMAIN entries = 1 .. size /\ \A d \in 1 .. size : entries[d] = syncRecords[Nth(all, d)]
  BY <1>5
<1>7. \A k \in all : /\ EntrySound(syncRecords[k], file, row) /\ syncRecords[k] \in Entry
                     /\ StoreOf[syncRecords[k].device] = s
  BY <1>1, <1>2 DEF FileRead
<1>8. entries \in Seq(Entry)
  <2>1. entries \in [1 .. size -> Entry]
    BY <1>4, <1>5, <1>7
  <2>2. QED
    BY <2>1
<1>9. \A d, e \in 1 .. size : entries[d].device = entries[e].device => d = e
  <2> SUFFICES ASSUME NEW d \in 1 .. size, NEW e \in 1 .. size,
                      entries[d].device = entries[e].device
               PROVE  d = e
    OBVIOUS
  <2>1. PICK k \in all : k = Nth(all, d)
    BY <1>4
  <2>2. PICK l \in all : l = Nth(all, e)
    BY <1>4
  <2>3. k = l
    <3>1. entries[d] = syncRecords[k] /\ entries[e] = syncRecords[l]
      BY <1>6, <2>1, <2>2
    <3>2. k \in DOMAIN syncRecords /\ l \in DOMAIN syncRecords
      BY <1>2
    <3>3. syncRecords[k].device = syncRecords[l].device
      BY <3>1
    <3>4. QED
      BY <3>2, <3>3 DEF FileRead
  <2>4. k \in Nat /\ l \in Nat
    BY <1>2
  <2>5. ~ (k < l) /\ ~ (l < k)
    BY <2>3, <2>4
  <2>6. (d < e => k < l) /\ (e < d => l < k)
    BY <1>4, <2>1, <2>2
  <2>7. QED
    BY <2>5, <2>6
<1>10. \A k \in all : \E d \in 1 .. size : entries[d] = syncRecords[k]
  BY <1>4, <1>6
<1>11. \A d \in 1 .. size : EntrySound(entries[d], file, row) /\ StoreOf[entries[d].device] = s
  BY <1>4, <1>6, <1>7
<1>12. \A k \in DOMAIN syncRecords : StoreOf[syncRecords[k].device] = s =>
          \E d \in 1 .. size : entries[d] = syncRecords[k]
  BY <1>2, <1>10
<1>13. DOMAIN entries = 1 .. size
  BY <1>6
<1>14. QED
  BY <1>8, <1>9, <1>11, <1>12, <1>13

LEMMA FewDevices ==
    ASSUME NEW entries \in Seq(Entry),
           \A d, e \in DOMAIN entries : entries[d].device = entries[e].device => d = e
    PROVE  Len(entries) \in Nat /\ Len(entries) <= MaxDevices
<1>1. PICK n \in Nat : n = Len(entries) /\ DOMAIN entries = 1 .. n
  OBVIOUS
<1>2. PICK f : f = [d \in 1 .. n |-> entries[d].device]
  OBVIOUS
<1>3. \A d \in 1 .. n : entries[d].device \in DOMAIN StoreOf
  <2>1. \A d \in 1 .. n : entries[d] \in Entry
    BY <1>1
  <2>2. QED
    BY <2>1 DEF Entry
<1>4. f \in Injection(1 .. n, DOMAIN StoreOf)
  BY <1>1, <1>2, <1>3 DEF Injection, IsInjective
<1>5. IsFiniteSet(1 .. n) /\ Cardinality(1 .. n) = n
  BY FS_Interval
<1>6. IsFiniteSet(DOMAIN StoreOf) /\ Cardinality(DOMAIN StoreOf) <= MaxDevices
  BY ExcelUploadConstants DEF ExcelUploadConstants
<1>7. Cardinality(1 .. n) <= Cardinality(DOMAIN StoreOf)
  BY <1>4, <1>6, FS_Injection
<1>8. Cardinality(DOMAIN StoreOf) \in Nat /\ MaxDevices \in Nat
  BY <1>6, FS_CardinalityType, ChunkPayloadConstants DEF ChunkPayloadConstants
<1>9. QED
  BY <1>1, <1>5, <1>6, <1>7, <1>8

LEMMA CutGroupSound ==
    ASSUME ExcelInv, CutGroup
    PROVE  Grouped' /\ Init'
<1>1. /\ progress = "grouped" /\ row = Len(file) /\ FileRead /\ NotCut
      /\ UNCHANGED <<device, offset, currentRecords, currentCount, chunks, returned,
                     file, row, syncRecords>>
  BY DEF ExcelInv, CutGroup
<1>2. PICK s \in Range(StoreOf) :
          /\ group' = GroupOf(s) /\ GroupOf(s) # <<>>
          /\ logs' = [d \in DOMAIN GroupOf(s) |-> Len(GroupOf(s)[d].rows)]
  BY DEF CutGroup
<1>3. PICK entries : /\ entries = GroupOf(s) /\ group' = entries /\ entries # <<>>
                     /\ logs' = [d \in DOMAIN entries |-> Len(entries[d].rows)]
  BY <1>2
<1>4. /\ entries \in Seq(Entry)
      /\ \A d \in DOMAIN entries : /\ EntrySound(entries[d], file, row)
                                   /\ StoreOf[entries[d].device] = s
      /\ \A d, e \in DOMAIN entries : entries[d].device = entries[e].device => d = e
      /\ \A k \in DOMAIN syncRecords : StoreOf[syncRecords[k].device] = s =>
            \E d \in DOMAIN entries : entries[d] = syncRecords[k]
  BY <1>1, <1>3, GroupIs
<1>5. PICK n \in Nat : /\ n = Len(entries) /\ DOMAIN entries = 1 .. n
                       /\ n \in 1 .. MaxDevices
  <2>1. Len(entries) <= MaxDevices
    BY <1>4, FewDevices
  <2>2. Len(entries) \in Nat \ {0} /\ MaxDevices \in Nat
    BY <1>3, <1>4, ChunkPayloadConstants DEF ChunkPayloadConstants
  <2>3. QED
    BY <1>4, <2>1, <2>2
<1>6. \A d \in 1 .. n : Len(entries[d].rows) \in 0 .. MaxLogs
  <2> SUFFICES ASSUME NEW d \in 1 .. n
               PROVE  Len(entries[d].rows) \in 0 .. MaxLogs
    OBVIOUS
  <2>1. PICK entry : entry = entries[d] /\ EntrySound(entry, file, row)
    BY <1>4, <1>5
  <2>2. Len(entries[d].rows) \in Nat /\ Len(entries[d].rows) <= row
    BY <2>1 DEF EntrySound, Entry
  <2>3. row \in Nat /\ row <= MaxRows
    BY <1>1 DEF FileRead
  <2>4. MaxRows \in Nat /\ MaxRows <= MaxLogs /\ MaxLogs \in Nat
    BY ExcelUploadConstants, ChunkPayloadConstants
       DEF ExcelUploadConstants, ChunkPayloadConstants
  <2>5. QED
    BY <2>2, <2>3, <2>4
<1>7. logs' \in [1 .. n -> 0 .. MaxLogs] /\ Len(logs') = n
  BY <1>3, <1>5, <1>6
<1>8. Init'
  <2>1. logs' \in Uploads
    BY <1>5, <1>7 DEF Uploads
  <2>2. QED
    BY <1>1, <2>1 DEF Init, NotCut, Uploads
<1>9. StoreOf[entries[1].device] = s
  BY <1>4, <1>5
<1>10. \A d \in 1 .. n : logs'[d] = Len(entries[d].rows)
  BY <1>3, <1>5
<1>11. Grouped'
  <2>1. row' = Len(file') /\ entries \in Seq(Entry) /\ Len(logs') = Len(entries)
    BY <1>1, <1>4, <1>5, <1>7
  <2>2. \A d \in DOMAIN entries :
            /\ EntrySound(entries[d], file', row') /\ logs'[d] = Len(entries[d].rows)
            /\ StoreOf[entries[d].device] = StoreOf[entries[1].device]
    BY <1>1, <1>4, <1>5, <1>9, <1>10
  <2>3. \A k \in DOMAIN syncRecords' :
            StoreOf[syncRecords'[k].device] = StoreOf[entries[1].device] =>
                \E d \in DOMAIN entries : entries[d] = syncRecords'[k]
    BY <1>1, <1>4, <1>9
  <2>4. QED
    BY <1>3, <1>4, <2>1, <2>2, <2>3 DEF Grouped
<1>12. QED
  BY <1>8, <1>11

LEMMA ExcelInitSound == ExcelInit => ExcelInv
<1> SUFFICES ASSUME ExcelInit
             PROVE  ExcelInv
  OBVIOUS
<1>1. row = 0 /\ syncRecords = <<>> /\ group = <<>>
  BY DEF ExcelInit
<1>2. file \in Seq(Cells \cup {Invalid}) /\ Len(file) \in Nat /\ Len(file) <= MaxRows
  <2>1. MaxRows \in Nat
    BY ExcelUploadConstants DEF ExcelUploadConstants
  <2>2. CASE file = <<>>
    BY <2>1, <2>2
  <2>3. CASE file \in BoundedSeq(Cells \cup {Invalid}, MaxRows)
    <3>1. PICK m \in 0 .. MaxRows : file \in [1 .. m -> Cells \cup {Invalid}]
      BY <2>3 DEF BoundedSeq, SeqOf
    <3>2. m \in Nat /\ Len(file) = m
      BY <2>1, <3>1
    <3>3. QED
      BY <2>1, <3>1, <3>2
  <2>4. QED
    BY <2>2, <2>3 DEF ExcelInit
<1>3. FileRead
  <2>1. <<>> \in Seq(Entry) /\ DOMAIN syncRecords = {} /\ 1 .. row = {}
    BY <1>1
  <2>2. QED
    BY <1>1, <1>2, <2>1 DEF FileRead
<1>4. CASE Init /\ progress = "cutting"
  BY <1>1, <1>3, <1>4, ChunkInit DEF ExcelInv
<1>5. CASE progress = "reading"
  BY <1>1, <1>3, <1>5 DEF ExcelInv, NotCut, ExcelInit
<1>6. QED
  BY <1>4, <1>5 DEF ExcelInit

LEMMA ExcelStepSound == ExcelInv /\ [ExcelNext]_excelVars => ExcelInv'
<1> SUFFICES ASSUME ExcelInv, [ExcelNext]_excelVars
             PROVE  ExcelInv'
  OBVIOUS
<1>1. CASE ReadRow
  <2>1. FileRead'
    BY <1>1, ReadRowSound DEF ExcelInv
  <2>2. /\ progress = "reading" /\ progress' \in {"reading", "rejected"}
        /\ UNCHANGED <<vars, group>>
    BY <1>1 DEF ReadRow
  <2>3. NotCut' /\ group' = <<>>
    BY <2>2 DEF ExcelInv, NotCut, vars
  <2>4. QED
    BY <2>1, <2>2, <2>3 DEF ExcelInv
<1>2. CASE RowsRead
  <2>1. /\ progress = "reading" /\ progress' \in {"grouped", "rejected"} /\ row' = Len(file')
        /\ UNCHANGED <<vars, file, row, syncRecords, group>>
    BY <1>2 DEF RowsRead
  <2>2. NotCut' /\ FileRead' /\ group' = <<>>
    BY <2>1 DEF ExcelInv, NotCut, vars, FileRead
  <2>3. QED
    BY <2>1, <2>2 DEF ExcelInv
<1>3. CASE CutGroup
  <2>1. Grouped' /\ Init'
    BY <1>3, CutGroupSound
  <2>2. ChunkInv'
    BY <2>1, ChunkInit, PTL
  <2>3. FileRead' /\ progress' = "cutting"
    BY <1>3 DEF CutGroup, ExcelInv, FileRead
  <2>4. QED
    BY <2>1, <2>2, <2>3 DEF ExcelInv
<1>4. CASE progress = "cutting" /\ Next /\ UNCHANGED fileVars
  <2>1. ChunkInv'
    BY <1>4, ChunkStep DEF ExcelInv
  <2>2. logs' = logs /\ UNCHANGED <<file, row, syncRecords, progress, group>>
    BY <1>4 DEF Next, EmptyDevice, TakeSlice, Return, fileVars
  <2>3. FileRead' /\ (group' # <<>> => Grouped')
    BY <2>2 DEF ExcelInv, FileRead, Grouped
  <2>4. QED
    BY <1>4, <2>1, <2>2, <2>3 DEF ExcelInv
<1>5. CASE UNCHANGED excelVars
  <2>1. UNCHANGED <<vars, file, row, syncRecords, progress, group>>
    BY <1>5 DEF excelVars, fileVars
  <2>2. ChunkInv => ChunkInv'
    BY <2>1, ChunkStep
  <2>3. NotCut => NotCut'
    BY <2>1 DEF NotCut, vars
  <2>4. FileRead' /\ (group' # <<>> => Grouped')
    BY <2>1 DEF ExcelInv, FileRead, Grouped, vars
  <2>5. QED
    BY <2>1, <2>2, <2>3, <2>4 DEF ExcelInv
<1>6. QED
  BY <1>1, <1>2, <1>3, <1>4, <1>5 DEF ExcelNext

LEMMA ExcelInvariant == ExcelSpec => []ExcelInv
  BY ExcelInitSound, ExcelStepSound, PTL DEF ExcelSpec
(* The log that a carried row is, and the place of a log among the logs.   *)
LogOf(c) == <<SliceOf(c).device, SliceOf(c).first + c[3] - 1>>
Earlier(a, b) == a[1] < b[1] \/ (a[1] = b[1] /\ a[2] < b[2])

(* Where a carried row is.                                                 *)
Located(c) ==
    /\ c[1] \in DOMAIN chunks /\ c[2] \in DOMAIN chunks[c[1]]
    /\ c[1] \in Nat \ {0} /\ c[2] \in Nat /\ c[3] \in Nat /\ c[3] >= 1
    /\ SliceOf(c) = chunks[c[1]][c[2]] /\ c[3] <= SliceOf(c).size
    /\ SliceOf(c).device \in Nat /\ SliceOf(c).first \in Nat /\ SliceOf(c).size \in Nat

LEMMA CarriedIs == ASSUME ChunkInv, NEW c \in Carried PROVE Located(c)
<1>1. chunks \in Seq(Seq(Slice))
  BY DEF ChunkInv, SlicesTyped
<1>2. PICK n \in DOMAIN chunks :
          c \in UNION {{<<n, k, i>> : i \in 1 .. chunks[n][k].size} : k \in DOMAIN chunks[n]}
  BY DEF Carried
<1>3. PICK k \in DOMAIN chunks[n] : c \in {<<n, k, i>> : i \in 1 .. chunks[n][k].size}
  BY <1>2
<1>4. PICK i \in 1 .. chunks[n][k].size : c = <<n, k, i>>
  BY <1>3
<1>5. PICK part \in Seq(Slice) : part = chunks[n]
  BY <1>1
<1>6. PICK slice \in Slice : slice = chunks[n][k]
  BY <1>5
<1>7. c[1] = n /\ c[2] = k /\ c[3] = i /\ SliceOf(c) = slice
  BY <1>4, <1>6 DEF SliceOf
<1>8. n \in Nat \ {0} /\ k \in Nat
  BY <1>1, <1>5
<1>9. slice.device \in Nat /\ slice.first \in Nat /\ slice.size \in Nat
  BY ChunkPayloadConstants DEF Slice, ChunkPayloadConstants
<1>10. i \in Nat /\ i >= 1 /\ i <= slice.size
  BY <1>6, <1>9
<1>11. QED
  BY <1>6, <1>7, <1>8, <1>9, <1>10 DEF Located

(* Every carried row is a log of its chunk, and every log of a chunk is    *)
(* carried by it.                                                          *)
LEMMA CarriedIsLog ==
    ASSUME ChunkInv, NEW c \in Carried
    PROVE  LogOf(c) \in LogsOfChunk(chunks[c[1]])
<1>1. PICK slice : slice = SliceOf(c)
  OBVIOUS
<1>2. /\ slice.first \in Nat /\ slice.size \in Nat /\ c[3] \in Nat /\ c[3] >= 1
      /\ c[3] <= slice.size /\ c[2] \in DOMAIN chunks[c[1]] /\ slice = chunks[c[1]][c[2]]
  BY <1>1, CarriedIs DEF Located
<1>3. slice.first + c[3] - 1 \in slice.first .. slice.first + slice.size - 1
  BY <1>2
<1>4. LogOf(c) \in LogsOf(slice)
  BY <1>1, <1>3 DEF LogOf, LogsOf
<1>5. QED
  BY <1>2, <1>4 DEF LogsOfChunk

LEMMA LogIsCarried ==
    ASSUME ChunkInv, NEW n \in DOMAIN chunks, NEW log \in LogsOfChunk(chunks[n])
    PROVE  \E c \in Carried : LogOf(c) = log
<1>1. chunks \in Seq(Seq(Slice))
  BY DEF ChunkInv, SlicesTyped
<1>2. PICK part \in Seq(Slice) : part = chunks[n]
  BY <1>1
<1>3. PICK k \in DOMAIN part : log \in LogsOf(part[k])
  BY <1>2 DEF LogsOfChunk
<1>4. PICK slice \in Slice : slice = part[k]
  BY <1>2
<1>5. slice.device \in Nat /\ slice.first \in Nat /\ slice.size \in Nat
  BY ChunkPayloadConstants DEF Slice, ChunkPayloadConstants
<1>6. /\ log = <<log[1], log[2]>> /\ log[1] = slice.device
      /\ log[2] \in slice.first .. slice.first + slice.size - 1
  BY <1>3, <1>4 DEF LogsOf
<1>7. PICK i \in 1 .. slice.size : i = log[2] - slice.first + 1 /\ slice.first + i - 1 = log[2]
  BY <1>5, <1>6
<1>8. PICK c : c = <<n, k, i>>
  OBVIOUS
<1>9. c \in Carried
  <2>1. c \in {<<n, k, j>> : j \in 1 .. chunks[n][k].size}
    BY <1>2, <1>4, <1>7, <1>8
  <2>2. c \in UNION {{<<n, l, j>> : j \in 1 .. chunks[n][l].size} : l \in DOMAIN chunks[n]}
    BY <1>2, <2>1
  <2>3. QED
    BY <2>2 DEF Carried
<1>10. SliceOf(c) = slice /\ c[3] = i
  BY <1>2, <1>4, <1>8 DEF SliceOf
<1>11. LogOf(c) = log
  BY <1>6, <1>7, <1>10 DEF LogOf
<1>12. QED
  BY <1>9, <1>11

(* A log that does not come earlier has no smaller place.                  *)
LEMMA PlacesOrdered ==
    ASSUME LoopInv, NEW a \in Logs, NEW b \in Logs, ~ Earlier(a, b)
    PROVE  Place(a) \in Nat /\ Place(b) \in Nat /\ Place(b) <= Place(a)
<1>1. /\ a[1] \in Nat /\ a[2] \in Nat /\ b[1] \in Nat /\ b[2] \in Nat
  BY LogTyped, ChunkPayloadConstants
<1>2. PICK upToA \in SUBSET Logs : upToA = {other \in Logs : NotAfter(other, a)}
  OBVIOUS
<1>3. PICK upToB \in SUBSET Logs : upToB = {other \in Logs : NotAfter(other, b)}
  OBVIOUS
<1>4. NotAfter(b, a)
  BY <1>1 DEF Earlier, NotAfter
<1>5. ASSUME NEW other \in upToB
      PROVE  other \in upToA
  <2>1. other \in Logs /\ other[1] \in Nat /\ other[2] \in Nat /\ NotAfter(other, b)
    BY <1>3, LogTyped, ChunkPayloadConstants
  <2>2. NotAfter(other, a)
    BY <1>1, <1>4, <2>1 DEF NotAfter
  <2>3. QED
    BY <1>2, <2>1, <2>2
<1>6. upToB \in SUBSET upToA
  BY <1>5
<1>7. IsFiniteSet(upToA)
  BY <1>2, LogsFinite, ChunkPayloadConstants
<1>8. Cardinality(upToB) <= Cardinality(upToA)
  BY <1>6, <1>7, FS_Subset
<1>9. Cardinality(upToA) \in Nat /\ Cardinality(upToB) \in Nat
  BY <1>2, <1>3, LogsFinite, ChunkPayloadConstants
<1>10. QED
  BY <1>2, <1>3, <1>8, <1>9 DEF Place

LEMMA EarlierChunk ==
    ASSUME NEW m \in Nat \ {0}, NEW n \in Nat \ {0}, m < n, NEW p \in Nat, NEW q \in Nat,
           p <= m * Limit, (n - 1) * Limit < q
    PROVE  p < q
<1>1. Limit \in Nat
  BY ChunkPayloadConstants DEF ChunkPayloadConstants
<1>2. PICK d \in Nat : n - 1 = m + d
  <2>1. n - 1 - m \in Nat /\ n - 1 = m + (n - 1 - m)
    OBVIOUS
  <2>2. QED
    BY <2>1
<1>3. (m + d) * Limit = m * Limit + d * Limit /\ m * Limit \in Nat /\ d * Limit \in Nat
  BY <1>1
<1>4. QED
  BY <1>2, <1>3

(* The logs are carried in their order.                                    *)
LEMMA CarriedInOrder ==
    ASSUME ChunkInv, returned, NEW b \in Carried, NEW c \in Carried, Before(b, c)
    PROVE  Earlier(LogOf(b), LogOf(c))
<1>1. LoopInv /\ CutAsReference
  BY ChunkMeansReference DEF ChunkInv
<1>2. Located(b) /\ Located(c)
  BY CarriedIs
<1>3. /\ LogOf(b)[1] = SliceOf(b).device /\ LogOf(b)[2] = SliceOf(b).first + b[3] - 1
      /\ LogOf(c)[1] = SliceOf(c).device /\ LogOf(c)[2] = SliceOf(c).first + c[3] - 1
  BY DEF LogOf
<1>4. CASE b[1] < c[1]
  <2>1. PICK p \in Logs : p = LogOf(b) /\ Place(p) <= b[1] * Limit
    BY <1>1, <1>2, CarriedIsLog DEF CutAsReference, Located
  <2>2. PICK q \in Logs : q = LogOf(c) /\ (c[1] - 1) * Limit < Place(q)
    BY <1>1, <1>2, CarriedIsLog DEF CutAsReference, Located
  <2>3. Place(p) \in Nat /\ Place(q) \in Nat
    BY <1>1, TakenByPlace, ChunkPayloadConstants
  <2>4. Place(p) < Place(q)
    BY <1>2, <1>4, <2>1, <2>2, <2>3, EarlierChunk DEF Located
  <2>5. Earlier(p, q)
    <3>1. ASSUME ~ Earlier(p, q)
          PROVE  FALSE
      <4>1. Place(q) <= Place(p)
        BY <1>1, <3>1, PlacesOrdered
      <4>2. QED
        BY <2>3, <2>4, <4>1
    <3>2. QED
      BY <3>1
  <2>6. QED
    BY <2>1, <2>2, <2>5
<1>5. CASE b[1] = c[1] /\ b[2] < c[2]
  <2>1. Precedes(SliceOf(b), SliceOf(c))
    BY <1>1, <1>2, <1>5 DEF CutAsReference, Located
  <2>2. QED
    BY <1>2, <1>3, <2>1 DEF Precedes, Earlier, Located
<1>6. CASE b[1] = c[1] /\ b[2] = c[2] /\ b[3] < c[3]
  <2>1. SliceOf(b) = SliceOf(c)
    BY <1>6 DEF SliceOf
  <2>2. QED
    BY <1>2, <1>3, <1>6, <2>1 DEF Earlier, Located
<1>7. QED
  BY <1>4, <1>5, <1>6 DEF Before
(* A row that is carried is the row of a log of the group, and the other   *)
(* way round.                                                              *)
LEMMA GroupRows ==
    ASSUME LoopInv, Grouped, NEW log \in Logs
    PROVE  /\ log[1] \in DOMAIN group /\ log[2] \in DOMAIN group[log[1]].rows
           /\ log[1] \in Nat /\ log[2] \in Nat
<1>1. /\ log[1] \in 1 .. Len(logs) /\ log[2] \in Nat /\ log[2] >= 1 /\ log[1] \in Nat
      /\ log[2] <= logs[log[1]]
  BY LogTyped, ChunkPayloadConstants DEF ChunkPayloadConstants
<1>2. group \in Seq(Entry) /\ Len(group) = Len(logs) /\ log[1] \in DOMAIN group
  BY <1>1 DEF Grouped
<1>3. PICK entry \in Entry : entry = group[log[1]]
  BY <1>2
<1>4. logs[log[1]] = Len(entry.rows) /\ entry.rows \in Seq(Nat)
  BY <1>2, <1>3 DEF Grouped, Entry
<1>5. log[2] \in DOMAIN entry.rows
  BY <1>1, <1>4
<1>6. QED
  BY <1>1, <1>2, <1>3, <1>5

LEMMA CarriedRow ==
    ASSUME ChunkInv, returned, Grouped, NEW c \in Carried
    PROVE  \E d \in DOMAIN group : \E l \in DOMAIN group[d].rows :
              /\ LogOf(c) = <<d, l>> /\ d \in Nat /\ l \in Nat
              /\ RowOf(c) = group[d].rows[l] /\ SentFor(c) = group[d].device
<1>1. LoopInv /\ CutAsReference
  BY ChunkMeansReference DEF ChunkInv
<1>2. LogOf(c) \in Logs
  BY <1>1, CarriedIs, CarriedIsLog DEF CutAsReference, Located
<1>3. PICK log \in Logs : log = LogOf(c)
  BY <1>2
<1>4. log[1] = SliceOf(c).device /\ log[2] = SliceOf(c).first + c[3] - 1
  BY <1>3 DEF LogOf
<1>5. log = <<log[1], log[2]>>
  BY <1>3 DEF LogOf
<1>6. RowOf(c) = group[log[1]].rows[log[2]] /\ SentFor(c) = group[log[1]].device
  BY <1>4 DEF RowOf, SentFor
<1>7. /\ log[1] \in DOMAIN group /\ log[2] \in DOMAIN group[log[1]].rows
      /\ log[1] \in Nat /\ log[2] \in Nat
  BY <1>1, GroupRows
<1>8. QED
  BY <1>3, <1>5, <1>6, <1>7

LEMMA RowIsCarried ==
    ASSUME ChunkInv, returned, Grouped, NEW d \in DOMAIN group, NEW l \in DOMAIN group[d].rows
    PROVE  \E c \in Carried : RowOf(c) = group[d].rows[l]
<1>1. LoopInv /\ NothingLeftOut
  BY ChunkMeansNothingLeftOut DEF ChunkInv
<1>2. group \in Seq(Entry) /\ Len(group) = Len(logs) /\ logs[d] = Len(group[d].rows)
  BY DEF Grouped
<1>3. PICK entry \in Entry : entry = group[d]
  BY <1>2
<1>4. entry.rows \in Seq(Nat) /\ l \in 1 .. Len(entry.rows)
  BY <1>3 DEF Entry
<1>5. d \in 1 .. Len(logs)
  BY <1>2
<1>6. logs[d] \in 0 .. MaxLogs /\ MaxLogs \in Nat
  BY <1>1, <1>5, LogsShape, ChunkPayloadConstants DEF ChunkPayloadConstants
<1>7. l \in 1 .. MaxLogs /\ l <= logs[d]
  BY <1>2, <1>3, <1>4, <1>6
<1>8. <<d, l>> \in Logs
  BY <1>5, <1>7 DEF Logs
<1>9. PICK n \in DOMAIN chunks : <<d, l>> \in LogsOfChunk(chunks[n])
  BY <1>1, <1>8 DEF NothingLeftOut
<1>10. PICK c \in Carried : LogOf(c) = <<d, l>>
  BY <1>9, LogIsCarried
<1>11. SliceOf(c).device = d /\ SliceOf(c).first + c[3] - 1 = l
  BY <1>10 DEF LogOf
<1>12. RowOf(c) = group[d].rows[l]
  BY <1>11 DEF RowOf
<1>13. QED
  BY <1>12

LEMMA RowsOnce ==
    ASSUME ExcelInv, returned, group # <<>>
    PROVE  EveryRowOnce
<1>1. ChunkInv /\ Grouped /\ FileRead
  BY DEF ExcelInv, NotCut
<1>2. PICK s : s = StoreOf[group[1].device]
  OBVIOUS
<1>3. \A d \in DOMAIN group : EntrySound(group[d], file, row) /\ StoreOf[group[d].device] = s
  BY <1>1, <1>2 DEF Grouped
<1>4. row = Len(file) /\ DOMAIN file = 1 .. row
  BY <1>1 DEF Grouped, FileRead
<1>5. ASSUME NEW c \in Carried
      PROVE  /\ RowOf(c) \in DOMAIN file /\ SentFor(c) = Head(file[RowOf(c)])
             /\ StoreOf[SentFor(c)] = s
  <2>1. PICK d \in DOMAIN group : \E l \in DOMAIN group[d].rows :
            RowOf(c) = group[d].rows[l] /\ SentFor(c) = group[d].device
    BY <1>1, CarriedRow
  <2>2. PICK l \in DOMAIN group[d].rows :
            RowOf(c) = group[d].rows[l] /\ SentFor(c) = group[d].device
    BY <2>1
  <2>3. RowOf(c) \in 1 .. row /\ Head(file[RowOf(c)]) = SentFor(c)
    BY <1>3, <2>2 DEF EntrySound
  <2>4. QED
    BY <1>3, <1>4, <2>2, <2>3
<1>6. ASSUME NEW r \in DOMAIN file, StoreOf[Head(file[r])] = s
      PROVE  \E c \in Carried : RowOf(c) = r
  <2>1. PICK k \in DOMAIN syncRecords : r \in RowsIn(syncRecords[k])
    BY <1>1, <1>4 DEF FileRead
  <2>2. PICK entry : entry = syncRecords[k] /\ EntrySound(entry, file, row)
    BY <1>1 DEF FileRead
  <2>3. PICK i \in DOMAIN entry.rows : entry.rows[i] = r
    BY <2>1, <2>2 DEF RowsIn
  <2>4. entry.device = Head(file[r])
    BY <2>2, <2>3 DEF EntrySound
  <2>5. PICK d \in DOMAIN group : group[d] = entry
    BY <1>1, <1>2, <1>6, <2>2, <2>4 DEF Grouped
  <2>6. \E c \in Carried : RowOf(c) = group[d].rows[i]
    BY <1>1, <2>3, <2>5, RowIsCarried
  <2>7. QED
    BY <2>3, <2>5, <2>6
<1>7. ASSUME NEW b \in Carried, NEW c \in Carried, Before(b, c), SentFor(b) = SentFor(c)
      PROVE  RowOf(b) < RowOf(c)
  <2>1. Earlier(LogOf(b), LogOf(c))
    BY <1>1, <1>7, CarriedInOrder
  <2>2. PICK d \in DOMAIN group : \E l \in DOMAIN group[d].rows :
            /\ LogOf(b) = <<d, l>> /\ d \in Nat /\ l \in Nat
            /\ RowOf(b) = group[d].rows[l] /\ SentFor(b) = group[d].device
    BY <1>1, CarriedRow
  <2>3. PICK l \in DOMAIN group[d].rows :
            /\ LogOf(b) = <<d, l>> /\ d \in Nat /\ l \in Nat
            /\ RowOf(b) = group[d].rows[l] /\ SentFor(b) = group[d].device
    BY <2>2
  <2>4. PICK e \in DOMAIN group : \E m \in DOMAIN group[e].rows :
            /\ LogOf(c) = <<e, m>> /\ e \in Nat /\ m \in Nat
            /\ RowOf(c) = group[e].rows[m] /\ SentFor(c) = group[e].device
    BY <1>1, CarriedRow
  <2>5. PICK m \in DOMAIN group[e].rows :
            /\ LogOf(c) = <<e, m>> /\ e \in Nat /\ m \in Nat
            /\ RowOf(c) = group[e].rows[m] /\ SentFor(c) = group[e].device
    BY <2>4
  <2>6. d = e
    <3>1. group[d].device = group[e].device
      BY <1>7, <2>3, <2>5
    <3>2. \A f, g \in DOMAIN group : group[f].device = group[g].device => f = g
      BY <1>1 DEF Grouped
    <3>3. QED
      BY <2>2, <2>4, <3>1, <3>2
  <2>7. l < m
    BY <2>1, <2>3, <2>5, <2>6 DEF Earlier
  <2>8. QED
    BY <1>3, <2>3, <2>5, <2>6, <2>7 DEF EntrySound
<1>8. {RowOf(c) : c \in Carried} = {r \in DOMAIN file : StoreOf[Head(file[r])] = s}
  BY <1>5, <1>6
<1>9. QED
  BY <1>2, <1>5, <1>7, <1>8 DEF EveryRowOnce

(* Whatever the file, the devices and the limit: the chunks of a store     *)
(* carry exactly the rows that parseExcelAndSync read for it, each once,   *)
(* under the first serial number of the row, in the order of the file.     *)
THEOREM EveryRowIsSentOnce == ExcelSpec => []EveryRowOnce
<1>1. ExcelInv => EveryRowOnce
  BY RowsOnce DEF EveryRowOnce
<1>2. QED
  BY <1>1, ExcelInvariant, PTL

(* chunkSyncPayload cuts every upload, that of a device or of a store of a *)
(* file, as the reference says: chunk n has the n-th stretch of Limit logs,*)
(* in order, however the logs are spread over the devices.                 *)
THEOREM CutIsReference == ExcelSpec => []CutAsReference
<1>1. ExcelInv => CutAsReference
  <2>1. NotCut => CutAsReference
    BY DEF NotCut, CutAsReference
  <2>2. QED
    BY <2>1, ChunkMeansReference DEF ExcelInv
<1>2. QED
  BY <1>1, ExcelInvariant, PTL

(* No log of an upload is lost, no chunk is empty and every device is in   *)
(* some chunk, for every limit and every upload.                           *)
THEOREM NothingIsLeftOut == ExcelSpec => []NothingLeftOut
<1>1. ExcelInv => NothingLeftOut
  <2>1. NotCut => NothingLeftOut
    BY DEF NotCut, NothingLeftOut
  <2>2. QED
    BY <2>1, ChunkMeansNothingLeftOut DEF ExcelInv
<1>2. QED
  BY <1>1, ExcelInvariant, PTL

(* The chunk being filled always has room, whatever the limit.             *)
THEOREM RoomAlwaysLeft == ExcelSpec => []RoomLeft
<1>1. ExcelInv => RoomLeft
  BY ChunkPayloadConstants
     DEF ExcelInv, NotCut, ChunkInv, LoopInv, RoomLeft, ChunkPayloadConstants
<1>2. QED
  BY <1>1, ExcelInvariant, PTL
=============================================================================
