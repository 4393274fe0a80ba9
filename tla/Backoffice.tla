------------------------------ MODULE Backoffice ------------------------------
(***************************************************************************)
(* What the administrators see: AttendanceService (the import and the page *)
(* of general records), the sync status report of SyncService, and         *)
(* StatisticsService, over the stores of Catalog, which come and go, and   *)
(* the sync records that StoreSync and LegacySync leave behind.            *)
(*                                                                         *)
(* A query is one step; queries awaited together run in any order.  The    *)
(* records of a store that is gone are gone with it: they stay in the      *)
(* sequence and no query sees them.                                        *)
(***************************************************************************)
EXTENDS Catalog, Sequences, SequencesExt, Filter

(* The messages that fill sync records: those of storeSyncRecord, one for  *)
(* each chunk of a record, and the one of older producers for all records. *)
MessageTypes == {"SYNC_RECORD_CHUNK", "SYNC_RECORDS"}

CONSTANTS
    Imports,      \* importAttendanceRecords calls
    Files,        \* the store names of the rows of the files they are given
    Days, DayOf,  \* DayOf[t]: the day of the t-th moment (bound: how many there are)
    PageSize      \* pageSize of getGeneralRecord, at page 1

ASSUME BackofficeConstants ==
    /\ Files \subseteq Seq(Names) /\ PageSize \in Nat \ {0}
    /\ DayOf \in Seq(Days) /\ DayOf # <<>> /\ None \notin Days
    /\ Imports \cap MessageTypes = {}

VARIABLES
    records,      \* the StoreSyncRecord rows, in the order of their insertion
    import,       \* import[i]: the locals of an import
    page,         \* the locals of getGeneralRecord
    figures,      \* the locals of a statistics request
    clock         \* the moment it is

backofficeVars == <<records, import, page, figures, clock>>
vars == <<catalogVars, left, backofficeVars>>

(* at: syncDate; rows: the rows of the file it got; from: the import that  *)
(* created it, or the type of the messages that fill it.                   *)
RecordRow == [store : Stores, status : {"PENDING", "PROCESSING", "SUCCESS", "FAILED"},
              at : DOMAIN DayOf, from : Imports \cup MessageTypes, rows : SUBSET Nat]

(* storeOf: the stores of the rows; next: the row it is at; recordOf: the  *)
(* sync record it has created for a store, 0 for none.                     *)
ImportState == [pc : {"idle", "insert", "done", "dead"}, storeOf : Seq(Stores),
                next : Nat, recordOf : [Stores -> Nat]]

(* The queries of a statistics request that are compared with one another; *)
(* activeStores is counted by a third one and only shown.                  *)
Queries == {"total", "synced"}

(* The tables, and the imports that write them, keep their types; pages    *)
(* and figures are answers, which nothing is written from.                 *)
TypeOK ==
    /\ CatalogTypeOK
    /\ records \in Seq(RecordRow)
    /\ import \in [Imports -> ImportState]
    /\ clock \in DOMAIN DayOf

(* Of a page: the ids found, in order, each with the syncDate of its       *)
(* latest record, and the stores fetched, with the one fetched.  Of the    *)
(* figures: the queries that are still to be answered and, as history,     *)
(* whether stores came or went since the first of them.                    *)
Init ==
    /\ CatalogInit
    /\ records = <<>>
    /\ import = [i \in Imports |-> [pc |-> "idle", storeOf |-> <<>>, next |-> 1,
                                    recordOf |-> [s \in Stores |-> 0]]]
    /\ page = [pc |-> "idle", found |-> <<>>, items |-> <<>>]
    /\ figures = [day |-> None, reads |-> {},
                  count |-> [query \in Queries |-> 0], changed |-> FALSE]
    /\ clock = 1

-----------------------------------------------------------------------------

RecordsOf(s) == {r \in DOMAIN records : records[r].store = s}

(* The syncDate of the latest sync record of a store, 0 for none.          *)
Latest(s) == IF RecordsOf(s) = {} THEN 0 ELSE Max({records[r].at : r \in RecordsOf(s)})

Insert(s, i) ==
    /\ s \in LiveStores
    /\ records' = Append(records,
          [store |-> s, status |-> "PENDING", at |-> clock, from |-> i, rows |-> {}])

-----------------------------------------------------------------------------
(* The surroundings: syncs create records and write their status,          *)
(* administrators change the catalog, time passes.                         *)

SyncStarts ==
    /\ \E s \in Stores, type \in MessageTypes : Insert(s, type) /\ Spend(type)
    /\ UNCHANGED <<catalogVars, import, page, figures, clock>>

SetStatus(r, st) ==
    /\ records[r].store \in LiveStores
    /\ records' = [records EXCEPT ![r].status = st]

(* A record whose chunks are messages is concluded once.                   *)
ChunkMoves(r, st) ==
    /\ records[r].from = "SYNC_RECORD_CHUNK"
    /\ \/ records[r].status = "PENDING"
       \/ records[r].status = "PROCESSING" /\ st # "PROCESSING"
    /\ SetStatus(r, st)

(* processSyncRecords updates by id.  Each delivery starts with PROCESSING,*)
(* whatever the status, and ends with SUCCESS, or with FAILED, also when it*)
(* could not start; deliveries overlap.  The records of one message, of    *)
(* different stores, are written together in the code, and one by one here.*)
LegacyMoves(r, st) ==
    /\ records[r].from = "SYNC_RECORDS"
    /\ st = "SUCCESS" => records[r].status # "PENDING"
    /\ SetStatus(r, st)

SyncMoves ==
    /\ \E r \in DOMAIN records, st \in {"PROCESSING", "SUCCESS", "FAILED"} :
          ChunkMoves(r, st) \/ LegacyMoves(r, st)
    /\ UNCHANGED <<catalogVars, left, import, page, figures, clock>>

CatalogStep ==
    /\ CatalogNext
    /\ figures' = [figures EXCEPT !.changed = @ \/ (LiveStores' # LiveStores)]
    /\ UNCHANGED <<records, import, page, clock>>

(* Time matters as long as there are records to come.                      *)
Tick ==
    /\ clock + 1 \in DOMAIN DayOf /\ \E type \in MessageTypes : left[type] > 0
    /\ clock' = clock + 1
    /\ UNCHANGED <<catalogVars, left, records, import, page, figures>>

-----------------------------------------------------------------------------
(* importAttendanceRecords.  A file with an invalid row, or a row whose    *)
(* store is not found, is rejected as a whole.  Of several stores with one *)
(* name the last that the query returns is taken.                          *)

ReadFile(i) ==
    /\ import[i].pc = "idle"
    /\ \E file \in Files : \E found \in [Range(file) -> LiveStores] :
          /\ \A n \in Range(file) : store[found[n]].name = n
          /\ import' = [import EXCEPT ![i].pc = "insert",
                            ![i].storeOf = [k \in DOMAIN file |-> found[file[k]]]]
    /\ Spend("imports")
    /\ UNCHANGED <<catalogVars, records, page, figures, clock>>

NextStore(i) == import[i].storeOf[import[i].next]
Inserting(i) == import[i].pc = "insert" /\ import[i].next <= Len(import[i].storeOf)

(* Mutant: the sync record is not remembered for the rows to come.         *)
ForgetRecord(i) == 0
RememberRecord(i) == Len(records) + 1

CreateSyncRecord(i) ==
    /\ Inserting(i)
    /\ import[i].recordOf[NextStore(i)] = 0
    /\ Insert(NextStore(i), i)
    /\ import' = [import EXCEPT ![i].recordOf[NextStore(i)] = RememberRecord(i)]
    /\ UNCHANGED <<catalogVars, left, page, figures, clock>>

CreateAttendance(i) ==
    /\ Inserting(i)
    /\ import[i].recordOf[NextStore(i)] # 0 /\ NextStore(i) \in LiveStores
    /\ records' = [records EXCEPT ![import[i].recordOf[NextStore(i)]].rows = @ \cup {import[i].next}]
    /\ import' = [import EXCEPT ![i].next = @ + 1]
    /\ UNCHANGED <<catalogVars, left, page, figures, clock>>

(* No transaction: what an import has inserted before it died stays.       *)
EndImport(i) ==
    /\ import[i].pc = "insert"
    /\ import' = [import EXCEPT ![i].pc = IF Inserting(i) THEN "dead" ELSE "done"]
    /\ UNCHANGED <<catalogVars, left, records, page, figures, clock>>

-----------------------------------------------------------------------------
(* exportStoreSyncStatus: the row of a store and a day, from its attempts  *)
(* of that day in whatever order the database returns them.                *)

(* findLatestAttempt, of one attempt or more.                              *)
(* Mutant: the last one that was returned.                                 *)
LastReturned(attempts) == attempts[Len(attempts)]
LatestAttempt(attempts) ==
    LET latest[k \in 1 .. Len(attempts)] ==
            IF k = 1 \/ attempts[k].at >= latest[k - 1].at THEN attempts[k]
            ELSE latest[k - 1]
    IN latest[Len(attempts)]

(* Mutant: the latest attempt decides.                                     *)
LatestDecides(attempts) == attempts
Decisive(attempts) ==
    LET with(st) == {k \in DOMAIN attempts : attempts[k].status = st} IN
    CASE with("SUCCESS") # {} -> Kept(attempts, with("SUCCESS"))
      [] with("SUCCESS") = {} /\ with("PROCESSING") # {} -> Kept(attempts, with("PROCESSING"))
      [] OTHER -> attempts

(* A failed attempt is reported as pending.                                *)
Shown(attempt) ==
    [syncStatus |-> CASE attempt.status = "SUCCESS" -> "Success"
                      [] attempt.status = "PROCESSING" -> "Processing"
                      [] OTHER -> "Pending",
     syncedAt |-> attempt.at]
ReportRow(attempts) ==
    IF attempts = <<>> THEN [syncStatus |-> "Pending", syncedAt |-> 0]
    ELSE Shown(LatestAttempt(Decisive(attempts)))

AttemptsOf(s, day) == {r \in RecordsOf(s) : DayOf[records[r].at] = day}
Returned(order) == [k \in DOMAIN order |-> records[order[k]]]
Reported(s, day) == ReportRow(Kept(records, AttemptsOf(s, day)))

-----------------------------------------------------------------------------
(* getGeneralRecord: the stores a filter leaves, sorted by their latest    *)
(* sync record (two that tie in any order), then fetched by their ids.     *)
(* totalItems is counted by a query of its own and compared with nothing.  *)

FindIds ==
    /\ page.pc # "fetch"
    /\ \E kept \in SUBSET LiveStores : \E order \in SetToSeqs(kept) :
          /\ \A i, j \in DOMAIN order : i < j => Latest(order[i]) >= Latest(order[j])
          /\ page' = [pc |-> "fetch", items |-> <<>>,
                      found |-> [k \in 1 .. Min({PageSize, Len(order)}) |->
                                   [store |-> order[k], at |-> Latest(order[k])]]]
    /\ Spend("pages")
    /\ UNCHANGED <<catalogVars, records, import, figures, clock>>

(* The one record that is fetched with a store.  Mutant: its first one.    *)
FirstRecord(s) ==
    IF RecordsOf(s) = {} THEN 0 ELSE Min({records[r].at : r \in RecordsOf(s)})
FetchedRecord(s) == Latest(s)

FetchStores ==
    LET there == Kept(page.found,
                      {f \in DOMAIN page.found : page.found[f].store \in LiveStores})
    IN
    /\ page.pc = "fetch"
    /\ page' = [page EXCEPT !.pc = "done",
                   !.items = [k \in DOMAIN there |-> [store |-> there[k].store,
                                                     at |-> FetchedRecord(there[k].store)]]]
    /\ UNCHANGED <<catalogVars, left, records, import, figures, clock>>

-----------------------------------------------------------------------------
(* getTotalStoreUnsynced, getStoreSyncChartData: figures counted by queries*)
(* of their own and subtracted from one another.                           *)

AskFigures ==
    /\ figures.reads = {}
    /\ \E day \in Days : figures' = [figures EXCEPT !.day = day, !.reads = Queries,
                                                   !.changed = FALSE]
    /\ Spend("figures")
    /\ UNCHANGED <<catalogVars, records, import, page, clock>>

SuccessOn(day) ==
    {r \in DOMAIN records : records[r].store \in LiveStores /\ records[r].status = "SUCCESS"
                              /\ DayOf[records[r].at] = day}

(* Mutant: the sync records are counted, not their stores.                 *)
SyncedRecords(day) == SuccessOn(day)
SyncedStores(day) == {records[r].store : r \in SuccessOn(day)}

Count(query) ==
    Cardinality(CASE query = "total" -> LiveStores
                  [] query = "synced" -> SyncedStores(figures.day))

Answer ==
    /\ \E query \in figures.reads :
          figures' = [figures EXCEPT !.reads = @ \ {query}, !.count[query] = Count(query)]
    /\ UNCHANGED <<catalogVars, left, records, import, page, clock>>

-----------------------------------------------------------------------------

Next ==
    \/ SyncStarts \/ SyncMoves \/ CatalogStep \/ Tick
    \/ \E i \in Imports :
          ReadFile(i) \/ CreateSyncRecord(i) \/ CreateAttendance(i) \/ EndImport(i)
    \/ FindIds \/ FetchStores
    \/ AskFigures \/ Answer

Spec == Init /\ [][Next]_vars

-----------------------------------------------------------------------------

(* However an import ends, exactly the rows before the one it had reached  *)
(* are stored, each once and under its own store, and a store has got one  *)
(* sync record: a file that was cut short can be told from a whole one.    *)
RecordsFrom(i) == {r \in DOMAIN records : records[r].from = i}
ImportIsPrefix ==
    \A i \in Imports :
        /\ \A k \in DOMAIN import[i].storeOf :
              {r \in RecordsFrom(i) : k \in records[r].rows} =
              {r \in RecordsFrom(i) : k < import[i].next
                                      /\ records[r].store = import[i].storeOf[k]}
        /\ \A q, r \in RecordsFrom(i) : records[q].store = records[r].store => q = r
        /\ \A k \in 1 .. import[i].next - 1 :
              \E r \in RecordsFrom(i) : k \in records[r].rows

(* The query asks for no order of the attempts; the report does not depend *)
(* on the order it gets.                                                   *)
ReportOrderFree ==
    \A s \in LiveStores, day \in Days :
        \A order \in SetToSeqs(AttemptsOf(s, day)) :
            ReportRow(Returned(order)) = Reported(s, day)

(* A store that is reported as synced for a day stays so, and not with an  *)
(* earlier time, whatever attempts follow, unless a SYNC_RECORDS message   *)
(* that is delivered again takes back the very attempt that was reported.  *)
(* A success whose chunks were messages is not taken back: whatever a      *)
(* SYNC_RECORDS message does, the report does not fall behind it.          *)
SyncedSince(row, at) == row.syncStatus = "Success" /\ row.syncedAt >= at
Succeeded(s, day, type) ==
    {r \in AttemptsOf(s, day) : records[r].from = type /\ records[r].status = "SUCCESS"}
ReportedSuccessStays ==
    [][records' # records => \A s \in LiveStores \cap LiveStores', day \in Days :
          LET before == Reported(s, day)
              after  == Reported(s, day)'
          IN
          /\ before.syncStatus = "Success" =>
                \/ SyncedSince(after, before.syncedAt)
                \/ \E r \in Succeeded(s, day, "SYNC_RECORDS") :
                      records[r].at = before.syncedAt /\ records'[r].status # "SUCCESS"
          /\ \A r \in Succeeded(s, day, "SYNC_RECORD_CHUNK") :
                SyncedSince(after, records[r].at)]_vars

(* A page has every store it has found, in that order, but for those that  *)
(* were removed meanwhile, each with a record not older than the one it    *)
(* was sorted by.                                                          *)
PageShowsNewer ==
    page.pc = "done" =>
        \E fetched \in [DOMAIN page.items -> DOMAIN page.found] :
            /\ \A k, l \in DOMAIN page.items : k < l => fetched[k] < fetched[l]
            /\ \A k \in DOMAIN page.items :
                  /\ page.items[k].store = page.found[fetched[k]].store
                  /\ page.items[k].at >= page.found[fetched[k]].at
            /\ \A f \in DOMAIN page.found \ Range(fetched) :
                  store[page.found[f].store] = Gone

(* The stores that are left to sync are not negative in number, unless a   *)
(* store was created or removed between the queries.                       *)
FiguresAddUp ==
    figures.reads = {} /\ ~figures.changed =>
        figures.count["synced"] <= figures.count["total"]
=============================================================================
