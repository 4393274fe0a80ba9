------------------------------ MODULE ExcelUpload ------------------------------
(***************************************************************************)
(* From an uploaded file to chunks: parseExcelAndSync turns the rows of a  *)
(* signed Excel file into the upload that a device would have sent,        *)
(* storeSyncRecord groups it by store, and ChunkPayload cuts the group of  *)
(* each store, of which one, whichever it is, is followed.  An upload that *)
(* comes as JSON skips the file.                                           *)
(*                                                                         *)
(* A row is its list of serial numbers, or Invalid if a field is missing   *)
(* or its log type is no integer.                                          *)
(***************************************************************************)
EXTENDS ChunkPayload, Filter

CONSTANTS
    Cells, Invalid,
    StoreOf,       \* StoreOf[x]: the store of the device with serial number x
    MaxRows        \* bound: rows of a file

ASSUME ExcelUploadConstants ==
    /\ \A cell \in Cells : cell # <<>> /\ Head(cell) \in DOMAIN StoreOf
    /\ IsFiniteSet(DOMAIN StoreOf) /\ Cardinality(DOMAIN StoreOf) <= MaxDevices
    /\ MaxRows \in Nat /\ MaxRows <= MaxLogs

VARIABLES
    file,          \* the rows below the header
    row,           \* how many of them have been read
    syncRecords,   \* the devices in order of appearance, each with its rows
    progress,      \* "reading", "grouped", "cutting" or "rejected"
    group          \* the part of syncRecords that is cut

fileVars == <<file, row, syncRecords, progress, group>>
excelVars == <<vars, fileVars>>

ExcelInit ==
    /\ row = 0 /\ syncRecords = <<>> /\ group = <<>>
    /\ \/ Init /\ file = <<>> /\ progress = "cutting"
       \/ /\ logs = <<>> /\ device = 1 /\ offset = 0 /\ currentRecords = <<>>
          /\ currentCount = 0 /\ chunks = <<>> /\ returned = FALSE
          /\ file \in BoundedSeq(Cells \cup {Invalid}, MaxRows) /\ progress = "reading"

-----------------------------------------------------------------------------

(* The device of a row.  Mutant: the last one it names.                    *)
LastNamed(cell) == Last(cell)
DeviceOf(cell) == Head(cell)

EntriesOf(x) == {k \in DOMAIN syncRecords : syncRecords[k].device = x}

(* One row; an invalid one rejects the file.                               *)
ReadRow ==
    /\ progress = "reading" /\ row < Len(file)
    /\ IF file[row + 1] = Invalid
       THEN progress' = "rejected" /\ UNCHANGED <<row, syncRecords>>
       ELSE LET x == DeviceOf(file[row + 1]) IN
            /\ row' = row + 1
            /\ syncRecords' =
                 IF EntriesOf(x) = {}
                 THEN Append(syncRecords, [device |-> x, rows |-> <<row + 1>>])
                 ELSE [k \in DOMAIN syncRecords |->
                         IF k \in EntriesOf(x)
                         THEN [device |-> x, rows |-> Append(syncRecords[k].rows, row + 1)]
                         ELSE syncRecords[k]]
            /\ UNCHANGED progress
    /\ UNCHANGED <<vars, file, group>>

RowsRead ==
    /\ progress = "reading" /\ row = Len(file)
    /\ progress' = IF file = <<>> THEN "rejected" ELSE "grouped"
    /\ UNCHANGED <<vars, file, row, syncRecords, group>>

(* The loop over recordsByStore comes to a store.                          *)
GroupOf(s) ==
    Kept(syncRecords, {k \in DOMAIN syncRecords : StoreOf[syncRecords[k].device] = s})

CutGroup ==
    /\ progress = "grouped"
    /\ \E s \in Range(StoreOf) :
          /\ GroupOf(s) # <<>>
          /\ group' = GroupOf(s)
          /\ logs' = [d \in DOMAIN GroupOf(s) |-> Len(GroupOf(s)[d].rows)]
    /\ progress' = "cutting"
    /\ UNCHANGED <<device, offset, currentRecords, currentCount, chunks, returned,
                   file, row, syncRecords>>

ExcelNext ==
    \/ ReadRow \/ RowsRead \/ CutGroup
    \/ progress = "cutting" /\ Next /\ UNCHANGED fileVars

ExcelSpec == ExcelInit /\ [][ExcelNext]_excelVars /\ WF_excelVars(ExcelNext)

-----------------------------------------------------------------------------

(* What the chunks carry: the i-th row of the k-th slice of chunk n; its   *)
(* number in the file, and the device that it is sent for.                 *)
Carried ==
    UNION {UNION {{<<n, k, i>> : i \in 1 .. chunks[n][k].size} : k \in DOMAIN chunks[n]} :
              n \in DOMAIN chunks}
SliceOf(c) == chunks[c[1]][c[2]]
RowOf(c) == group[SliceOf(c).device].rows[SliceOf(c).first + c[3] - 1]
SentFor(c) == group[SliceOf(c).device].device
Before(b, c) ==
    b[1] < c[1] \/ (b[1] = c[1] /\ (b[2] < c[2] \/ (b[2] = c[2] /\ b[3] < c[3])))

(* The chunks of a store carry exactly the rows that the file has for the  *)
(* store, each under the first of its serial numbers, and a device keeps   *)
(* the order of its rows, so that none is sent twice.                      *)
EveryRowOnce ==
    returned /\ group # <<>> =>
        /\ {RowOf(c) : c \in Carried} =
              {r \in DOMAIN file : StoreOf[Head(file[r])] = StoreOf[group[1].device]}
        /\ \A c \in Carried : SentFor(c) = Head(file[RowOf(c)])
        /\ \A b, c \in Carried :
              Before(b, c) /\ SentFor(b) = SentFor(c) => RowOf(b) < RowOf(c)

(* An upload is cut to its end, or its file was rejected.                  *)
ExcelReturns == <>(returned \/ progress = "rejected")
=============================================================================
