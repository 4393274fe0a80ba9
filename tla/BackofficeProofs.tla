--------------------------- MODULE BackofficeProofs ---------------------------
(***************************************************************************)
(* Theorems about Backoffice, for any number of calls, stores, devices and *)
(* imports: its tables keep their types, the catalog of stores and devices *)
(* is never changed by the imports, pages and reports around it, an import *)
(* stores a prefix of its file, pages show nothing older than they found,  *)
(* reports depend on no order, and figures counted one by one add up.      *)
(***************************************************************************)
EXTENDS Backoffice, FilterProofs

(* Every step of the whole is a step of the catalog or leaves it alone.    *)
THEOREM BackofficeHasCatalog == Spec => CatalogSpec
<1>1. Init => CatalogInit
  BY DEF Init
<1>2. [Next]_vars => [CatalogNext]_catalogVars
  BY DEF Next, vars, SyncStarts, SyncMoves, CatalogStep, Tick, ReadFile, CreateSyncRecord,
     CreateAttendance, EndImport, FindIds, FetchStores, AskFigures, Answer
<1>3. QED
  BY <1>1, <1>2, PTL DEF Spec, CatalogSpec

-----------------------------------------------------------------------------
(* Types.                                                                  *)

(* What a call has checked fits what it is about to write.                 *)
CallKeys ==
    \A c \in Calls : /\ call[c].op = "store" => call[c].key \in Names
                     /\ call[c].op = "device" => call[c].key \in Serials
                     /\ call[c].op = "deactivate" =>
                           call[c].of \in Devices /\ device[call[c].of] # Unborn

CatalogInv == CatalogTypeOK /\ CallKeys

LEMMA IdleTyped == Idle \in CallState /\ Idle.op = "idle"
  BY DEF Idle, CallState

LEMMA InitTypes == CatalogConstants /\ CatalogInit => CatalogInv
<1> SUFFICES ASSUME CatalogConstants, CatalogInit
             PROVE  CatalogInv
  OBVIOUS
<1>1. store \in [Stores -> StoreRow \cup NoRow]
  BY DEF CatalogInit, StoreRow, Status, NoRow
<1>2. device \in [Devices -> DeviceRow \cup NoRow] /\ LiveDevices = {}
  BY DEF CatalogInit, NoRow, LiveDevices
<1>3. call \in [Calls -> CallState] /\ \A c \in Calls : call[c].op = "idle"
  BY IdleTyped DEF CatalogInit
<1>4. QED
  BY <1>1, <1>2, <1>3 DEF CatalogInit, CatalogInv, CatalogTypeOK, CallKeys

(* A call that begins or ends.                                             *)
LEMMA CallTypes ==
    ASSUME CatalogConstants, CatalogInv, NEW c \in Calls, NEW s \in CallState,
           call' = [call EXCEPT ![c] = s],
           s.op = "store" => s.key \in Names,
           s.op = "device" => s.key \in Serials,
           s.op = "deactivate" => s.of \in Devices /\ device'[s.of] # Unborn,
           \A d \in Devices : device[d] # Unborn => device'[d] # Unborn
    PROVE  call' \in [Calls -> CallState] /\ CallKeys'
  BY DEF CatalogInv, CatalogTypeOK, CallKeys

(* A live row is a row.                                                    *)
LEMMA LiveRows ==
    ASSUME CatalogConstants, CatalogTypeOK
    PROVE  /\ \A s \in Stores : s \in LiveStores <=> store[s] \in StoreRow
           /\ \A d \in Devices : d \in LiveDevices <=> device[d] \in DeviceRow
  BY DEF CatalogConstants, CatalogTypeOK, LiveStores, LiveDevices

LEMMA NextTypes == CatalogConstants /\ CatalogInv /\ [CatalogNext]_catalogVars => CatalogInv'
<1> SUFFICES ASSUME CatalogConstants, CatalogInv, [CatalogNext]_catalogVars
             PROVE  CatalogInv'
  OBVIOUS
<1> USE DEF CatalogInv
<1>1. ASSUME NEW c \in Calls, CheckName(c) \/ CheckSerial(c) \/ ReadDevice(c)
      PROVE  CatalogInv'
  <2>1. PICK op, key, of, kind :
            /\ Begins(c, kind, op, key, of)
            /\ \/ op = "store" /\ key \in Names /\ of = None
               \/ op = "device" /\ key \in Serials /\ of \in Stores
               \/ op = "deactivate" /\ key = None /\ of \in LiveDevices
    BY <1>1 DEF CheckName, CheckSerial, ReadDevice, LiveStores, MayDeactivate
  <2>2. UNCHANGED <<store, device, renamed, disturbed>>
    BY <2>1 DEF Begins
  <2> DEFINE s == [op |-> op, key |-> key, of |-> of]
  <2>3. s \in CallState /\ s.op = op /\ s.key = key /\ s.of = of
    BY <2>1 DEF CallState, LiveDevices
  <2>4. call' = [call EXCEPT ![c] = s]
    BY <2>1 DEF Begins
  <2>5. op = "deactivate" => of \in Devices /\ device[of] # Unborn
    BY <2>1 DEF LiveDevices, NoRow
  <2> HIDE DEF s
  <2>6. call' \in [Calls -> CallState] /\ CallKeys'
    BY <2>1, <2>2, <2>3, <2>4, <2>5, CallTypes
  <2>7. QED
    BY <2>2, <2>6 DEF CatalogTypeOK, LiveStores, LiveDevices
<1>2. ASSUME NEW c \in Calls, CreateStore(c) \/ CreateDevice(c) \/ DeactivateDevice(c)
                               \/ GiveUp(c)
      PROVE  CatalogInv'
  <2>1. call' = [call EXCEPT ![c] = Idle] /\ UNCHANGED <<renamed, disturbed>>
    BY <1>2 DEF CreateStore, CreateDevice, DeactivateDevice, GiveUp, Ends
  <2>2. /\ store' \in [Stores -> StoreRow \cup NoRow]
        /\ device' \in [Devices -> DeviceRow \cup NoRow]
        /\ \A d \in Devices : device[d] # Unborn => device'[d] # Unborn
        /\ (\A d \in LiveDevices : device[d].store \in LiveStores)'
    <3>1. CASE CreateStore(c)
      <4>1. PICK s \in Stores, st \in Status :
                /\ store[s] = Unborn
                /\ store' = [store EXCEPT ![s] = [name |-> call[c].key, status |-> st]]
                /\ device' = device
        BY <3>1 DEF CreateStore
      <4>2. [name |-> call[c].key, status |-> st] \in StoreRow
        BY <3>1 DEF CreateStore, CallKeys, StoreRow
      <4>3. store' \in [Stores -> StoreRow \cup NoRow] /\ LiveStores \subseteq LiveStores'
        BY <4>1, <4>2 DEF CatalogTypeOK, LiveStores, CatalogConstants
      <4>4. QED
        BY <4>1, <4>3 DEF CatalogTypeOK, LiveDevices
    <3>2. CASE CreateDevice(c)
      <4>1. PICK d \in Devices :
                /\ device[d] = Unborn
                /\ device' = [device EXCEPT ![d] = [serial |-> call[c].key,
                                     store |-> call[c].of, status |-> "active"]]
                /\ call[c].of \in LiveStores /\ store' = store
        BY <3>2 DEF CreateDevice
      <4> DEFINE row == [serial |-> call[c].key, store |-> call[c].of, status |-> "active"]
      <4>2. row \in DeviceRow /\ row.store \in LiveStores
        BY <3>2, <4>1 DEF CreateDevice, CallKeys, DeviceRow, Status, LiveStores
      <4> HIDE DEF row
      <4>3. row \notin NoRow
        BY <4>2 DEF CatalogConstants
      <4>4. device' \in [Devices -> DeviceRow \cup NoRow] /\ device' = [device EXCEPT ![d] = row]
        BY <4>1, <4>2 DEF CatalogTypeOK, row
      <4>5. LiveStores' = LiveStores
        BY <4>1 DEF LiveStores
      <4>6. QED
        BY <4>1, <4>2, <4>3, <4>4, <4>5 DEF CatalogTypeOK, LiveDevices, NoRow
    <3>3. CASE DeactivateDevice(c)
      <4>1. PICK d \in LiveDevices :
                device' = [device EXCEPT ![d].status = "inactive"] /\ store' = store
        BY <3>3 DEF DeactivateDevice
      <4>2. device[d] \in DeviceRow /\ d \in Devices
        BY <4>1, LiveRows DEF LiveDevices
      <4> DEFINE row == [device[d] EXCEPT !.status = "inactive"]
      <4>3. row \in DeviceRow /\ row.store = device[d].store
        BY <4>2 DEF DeviceRow, Status
      <4> HIDE DEF row
      <4>4. row \notin NoRow /\ LiveStores' = LiveStores
        BY <4>1, <4>3 DEF CatalogConstants, LiveStores
      <4>5. device' = [device EXCEPT ![d] = row]
        BY <4>1, <4>2 DEF row, CatalogTypeOK
      <4>6. QED
        BY <4>1, <4>2, <4>3, <4>4, <4>5 DEF CatalogTypeOK, LiveDevices, NoRow
    <3>4. CASE GiveUp(c)
      BY <3>4 DEF GiveUp, CatalogTypeOK, LiveDevices, LiveStores
    <3>5. QED
      BY <1>2, <3>1, <3>2, <3>3, <3>4
  <2>3. call' \in [Calls -> CallState] /\ CallKeys'
    BY <2>1, <2>2, IdleTyped, CallTypes
  <2>4. QED
    BY <2>1, <2>2, <2>3 DEF CatalogTypeOK
<1>3. ASSUME NEW s \in Stores, UpdateStore(s) \/ DeactivateStore(s) \/ RemoveStore(s)
      PROVE  CatalogInv'
  <2>1. call' = call /\ s \in LiveStores /\ store[s] \in StoreRow
    BY <1>3, LiveRows DEF UpdateStore, DeactivateStore, RemoveStore
  <2>2. CASE UpdateStore(s) \/ DeactivateStore(s)
    <3>1. PICK row \in StoreRow : store' = [store EXCEPT ![s] = row] /\ device' = device
      <4>1. CASE UpdateStore(s)
        BY <4>1 DEF UpdateStore
      <4>2. CASE DeactivateStore(s)
        <5>1. [store[s] EXCEPT !.status = "inactive"] \in StoreRow
          BY <2>1 DEF StoreRow, Status
        <5>2. store' = [store EXCEPT ![s] = [store[s] EXCEPT !.status = "inactive"]]
          BY <2>1, <4>2 DEF DeactivateStore, CatalogTypeOK
        <5>3. QED
          BY <4>2, <5>1, <5>2 DEF DeactivateStore
      <4>3. QED
        BY <2>2, <4>1, <4>2
    <3>2. store' \in [Stores -> StoreRow \cup NoRow] /\ LiveStores' = LiveStores
      BY <2>1, <3>1 DEF CatalogTypeOK, LiveStores, CatalogConstants
    <3>3. LiveDevices' = LiveDevices
      BY <3>1 DEF LiveDevices
    <3>4. renamed' \subseteq Stores \cup Devices /\ disturbed' \subseteq Devices
      BY <2>2 DEF UpdateStore, DeactivateStore, CatalogTypeOK, DevicesOf, LiveDevices
    <3>5. QED
      BY <2>1, <3>1, <3>2, <3>3, <3>4 DEF CatalogTypeOK, CallKeys
  <2>3. CASE RemoveStore(s)
    <3>1. /\ store' = [store EXCEPT ![s] = Gone]
          /\ device' = [d \in Devices |-> IF d \in DevicesOf(s) THEN Gone ELSE device[d]]
          /\ UNCHANGED <<renamed, disturbed>>
      BY <2>3 DEF RemoveStore
    <3>2. store' \in [Stores -> StoreRow \cup NoRow] /\ device' \in [Devices -> DeviceRow \cup NoRow]
      BY <3>1 DEF CatalogTypeOK, NoRow
    <3>3. LiveDevices' = LiveDevices \ DevicesOf(s) /\ LiveStores' = LiveStores \ {s}
      BY <3>1 DEF CatalogTypeOK, LiveDevices, LiveStores, NoRow
    <3>4. \A d \in LiveDevices' : device'[d] = device[d] /\ device[d].store # s
      BY <3>1, <3>3 DEF DevicesOf, LiveDevices
    <3>5. (\A d \in LiveDevices : device[d].store \in LiveStores)'
      BY <3>3, <3>4 DEF CatalogTypeOK
    <3>6. CallKeys'
      BY <2>1, <3>1 DEF CallKeys, CatalogConstants
    <3>7. QED
      BY <2>1, <3>1, <3>2, <3>5, <3>6 DEF CatalogTypeOK
  <2>4. QED
    BY <1>3, <2>2, <2>3
<1>4. ASSUME NEW d \in Devices, UpdateDevice(d)
      PROVE  CatalogInv'
  <2>1. PICK x \in Serials, s \in LiveStores :
            /\ device' = [device EXCEPT ![d] =
                             [serial |-> x, store |-> s, status |-> device[d].status]]
            /\ renamed' \subseteq renamed \cup {d} /\ disturbed' \subseteq disturbed \cup {d}
            /\ UNCHANGED <<store, call>>
    BY <1>4 DEF UpdateDevice
  <2>2. device[d] \in DeviceRow
    BY <1>4, LiveRows DEF UpdateDevice
  <2> DEFINE row == [serial |-> x, store |-> s, status |-> device[d].status]
  <2>3. row \in DeviceRow /\ row.store = s
    BY <2>1, <2>2 DEF DeviceRow, LiveStores
  <2>4. device' = [device EXCEPT ![d] = row]
    BY <2>1
  <2> HIDE DEF row
  <2>5. row \notin NoRow /\ LiveStores' = LiveStores
    BY <2>1, <2>3 DEF CatalogConstants, LiveStores
  <2>6. device' \in [Devices -> DeviceRow \cup NoRow]
    BY <2>3, <2>4 DEF CatalogTypeOK
  <2>7. (\A e \in LiveDevices : device[e].store \in LiveStores)'
    BY <2>1, <2>3, <2>4, <2>5 DEF CatalogTypeOK, LiveDevices
  <2>8. CallKeys'
    BY <2>1, <2>4, <2>5 DEF CallKeys, CatalogTypeOK, NoRow
  <2>9. QED
    BY <2>1, <2>6, <2>7, <2>8 DEF CatalogTypeOK
<1>5. ASSUME NEW d \in Devices, RemoveDevice(d)
      PROVE  CatalogInv'
  <2>1. device' = [device EXCEPT ![d] = Gone] /\ UNCHANGED <<store, call, renamed, disturbed>>
    BY <1>5 DEF RemoveDevice
  <2>2. (\A e \in LiveDevices : device[e].store \in LiveStores)'
    BY <2>1 DEF CatalogTypeOK, LiveDevices, LiveStores, NoRow
  <2>3. QED
    BY <2>1, <2>2 DEF CatalogTypeOK, CallKeys, CatalogConstants, NoRow
<1>6. CASE UNCHANGED catalogVars
  BY <1>6 DEF catalogVars, CatalogTypeOK, CallKeys, LiveStores, LiveDevices
<1>7. QED
  BY <1>1, <1>2, <1>3, <1>4, <1>5, <1>6 DEF CatalogNext

LEMMA TypesCorrect == CatalogSpec => []CatalogInv
  BY InitTypes, NextTypes, CatalogConstants, PTL DEF CatalogSpec

(* Every row keeps its type and no device outlives its store, whatever the *)
(* calls at work do.                                                       *)
THEOREM CatalogTypes == Spec => []CatalogTypeOK
<1>1. CatalogInv => CatalogTypeOK
  BY DEF CatalogInv
<1>2. QED
  BY <1>1, TypesCorrect, BackofficeHasCatalog, PTL

(* The other tables and the imports.                                       *)
TablesTyped ==
    records \in Seq(RecordRow) /\ import \in [Imports -> ImportState] /\ clock \in DOMAIN DayOf

LEMMA InsertTyped ==
    ASSUME BackofficeConstants, TablesTyped, NEW s, NEW i \in Imports \cup MessageTypes, Insert(s, i)
    PROVE  records' \in Seq(RecordRow)
<1>1. [store |-> s, status |-> "PENDING", at |-> clock, from |-> i, rows |-> {}] \in RecordRow
  BY DEF Insert, LiveStores, TablesTyped, RecordRow
<1>2. QED
  BY <1>1 DEF Insert, TablesTyped

(* Whatever sync it belongs to, one record gets another status.            *)
LEMMA MovedRecord ==
    ASSUME SyncMoves
    PROVE  \E r \in DOMAIN records, st \in {"PROCESSING", "SUCCESS", "FAILED"} :
              /\ records[r].from \in MessageTypes
              /\ records' = [records EXCEPT ![r].status = st]
              /\ records[r].from = "SYNC_RECORD_CHUNK" =>
                    records[r].status \in {"PENDING", "PROCESSING"}
  BY DEF SyncMoves, ChunkMoves, LegacyMoves, SetStatus, MessageTypes

(* Replacing an element, or none, of a sequence.                           *)
LEMMA ReplaceTyped ==
    ASSUME NEW S, NEW seq \in Seq(S), NEW k, NEW e, k \in DOMAIN seq => e \in S
    PROVE  [seq EXCEPT ![k] = e] \in Seq(S)
<1>1. Len(seq) \in Nat /\ DOMAIN seq = 1 .. Len(seq) /\ seq \in [1 .. Len(seq) -> S]
  OBVIOUS
<1>2. [seq EXCEPT ![k] = e] \in [1 .. Len(seq) -> S]
  BY <1>1
<1>3. QED
  BY <1>1, <1>2

LEMMA TablesStep ==
    ASSUME BackofficeConstants, TablesTyped, [Next]_vars
    PROVE  TablesTyped'
<1>1. CASE UNCHANGED <<records, import, clock>>
  BY <1>1 DEF TablesTyped
<1>2. CASE SyncStarts
  BY <1>2, InsertTyped DEF SyncStarts, TablesTyped
<1>3. CASE SyncMoves
  <2>1. PICK r \in DOMAIN records, st \in {"PROCESSING", "SUCCESS", "FAILED"} :
           records' = [records EXCEPT ![r].status = st]
    BY <1>3, MovedRecord
  <2>2. records[r] \in RecordRow
    BY DEF TablesTyped
  <2>3. [records[r] EXCEPT !.status = st] \in RecordRow
    BY <2>2 DEF RecordRow
  <2>4. records \in Seq(RecordRow)
            /\ records' = [records EXCEPT ![r] = [records[r] EXCEPT !.status = st]]
    BY <2>1 DEF TablesTyped
  <2>5. records' \in Seq(RecordRow)
    BY <2>3, <2>4, ReplaceTyped
  <2>6. QED
    BY <1>3, <2>5 DEF SyncMoves, TablesTyped
<1>4. CASE Tick
  BY <1>4 DEF Tick, TablesTyped
<1>5. ASSUME NEW i \in Imports, ReadFile(i)
      PROVE  TablesTyped'
  <2>1. PICK file \in Files : \E found \in [Range(file) -> LiveStores] :
           import' = [import EXCEPT ![i].pc = "insert",
                         ![i].storeOf = [k \in DOMAIN file |-> found[file[k]]]]
    BY <1>5 DEF ReadFile
  <2>2. PICK found \in [Range(file) -> LiveStores] :
           import' = [import EXCEPT ![i].pc = "insert",
                         ![i].storeOf = [k \in DOMAIN file |-> found[file[k]]]]
    BY <2>1
  <2>3. PICK stores : stores = [k \in DOMAIN file |-> found[file[k]]]
    OBVIOUS
  <2>4. file \in Seq(Names) /\ DOMAIN file = 1 .. Len(file) /\ Len(file) \in Nat
    BY DEF BackofficeConstants
  <2>5. \A k \in DOMAIN file : file[k] \in Range(file)
    BY DEF Range
  <2>6. stores \in Seq(Stores)
    BY <2>3, <2>4, <2>5 DEF LiveStores
  <2>7. import[i] \in ImportState
    BY DEF TablesTyped
  <2>8. [import[i] EXCEPT !.pc = "insert", !.storeOf = stores] \in ImportState
    BY <2>6, <2>7 DEF ImportState
  <2>9. import' = [import EXCEPT ![i] = [import[i] EXCEPT !.pc = "insert", !.storeOf = stores]]
    BY <2>2, <2>3 DEF TablesTyped
  <2>10. QED
    BY <1>5, <2>8, <2>9 DEF ReadFile, TablesTyped
<1>6. ASSUME NEW i \in Imports, CreateSyncRecord(i)
      PROVE  TablesTyped'
  <2>1. records' \in Seq(RecordRow)
    BY <1>6, InsertTyped DEF CreateSyncRecord
  <2>2. PICK n \in Nat : import' = [import EXCEPT ![i].recordOf[NextStore(i)] = n]
    <3>1. Len(records) + 1 \in Nat
      BY DEF TablesTyped
    <3>2. QED
      BY <1>6, <3>1 DEF CreateSyncRecord, RememberRecord
  <2>3. import[i] \in ImportState
    BY DEF TablesTyped
  <2>4. PICK known \in [Stores -> Nat] : known = [import[i].recordOf EXCEPT ![NextStore(i)] = n]
    BY <2>3 DEF ImportState
  <2>5. [import[i] EXCEPT !.recordOf = known] \in ImportState
    BY <2>3 DEF ImportState
  <2>6. import' = [import EXCEPT ![i] = [import[i] EXCEPT !.recordOf = known]]
    BY <2>2, <2>4 DEF TablesTyped
  <2>7. QED
    BY <1>6, <2>1, <2>5, <2>6 DEF CreateSyncRecord, TablesTyped
<1>7. ASSUME NEW i \in Imports, CreateAttendance(i)
      PROVE  TablesTyped'
  <2>1. import[i] \in ImportState
    BY DEF TablesTyped
  <2>2. PICK n \in Nat : n = import[i].next
    BY <2>1 DEF ImportState
  <2>3. PICK m \in Nat : m = n + 1
    OBVIOUS
  <2>4. [import[i] EXCEPT !.next = m] \in ImportState
    BY <2>1 DEF ImportState
  <2>5. import' = [import EXCEPT ![i] = [import[i] EXCEPT !.next = m]]
    BY <1>7, <2>2, <2>3 DEF CreateAttendance, TablesTyped
  <2>6. PICK r : records' = [records EXCEPT ![r].rows = @ \cup {n}]
    BY <1>7, <2>2 DEF CreateAttendance
  <2>7. r \in DOMAIN records => [records[r] EXCEPT !.rows = @ \cup {n}] \in RecordRow
    <3>1. r \in DOMAIN records => records[r] \in RecordRow
      BY DEF TablesTyped
    <3>2. QED
      BY <3>1 DEF RecordRow
  <2>8. records' \in Seq(RecordRow)
    <3>1. PICK row : row = [records[r] EXCEPT !.rows = @ \cup {n}]
      OBVIOUS
    <3>2. records \in Seq(RecordRow) /\ records' = [records EXCEPT ![r] = row]
      BY <2>6, <3>1 DEF TablesTyped
    <3>3. QED
      BY <2>7, <3>1, <3>2, ReplaceTyped
  <2>9. QED
    BY <1>7, <2>4, <2>5, <2>8 DEF CreateAttendance, TablesTyped
<1>8. ASSUME NEW i \in Imports, EndImport(i)
      PROVE  TablesTyped'
  <2>1. PICK step \in {"dead", "done"} : import' = [import EXCEPT ![i].pc = step]
    BY <1>8 DEF EndImport
  <2>2. import[i] \in ImportState
    BY DEF TablesTyped
  <2>3. [import[i] EXCEPT !.pc = step] \in ImportState
    BY <2>2 DEF ImportState
  <2>4. QED
    BY <1>8, <2>1, <2>3 DEF EndImport, TablesTyped
<1>9. QED
  BY <1>1, <1>2, <1>3, <1>4, <1>5, <1>6, <1>7, <1>8
     DEF Next, vars, backofficeVars, CatalogStep, FindIds, FetchStores, AskFigures, Answer

(* Every table keeps its type, whatever imports, pages, figures and        *)
(* catalog calls overlap.                                                  *)
THEOREM BackofficeTypes == Spec => []TypeOK
<1>1. Init => TablesTyped
  <2> SUFFICES ASSUME Init
               PROVE  TablesTyped
    OBVIOUS
  <2>1. clock \in DOMAIN DayOf
    BY BackofficeConstants DEF BackofficeConstants, Init
  <2>2. \A i \in Imports : import[i] \in ImportState
    BY DEF Init, ImportState
  <2>3. QED
    BY <2>1, <2>2 DEF Init, TablesTyped
<1>2. TablesTyped /\ [Next]_vars => TablesTyped'
  BY BackofficeConstants, TablesStep
<1>3. TablesTyped /\ CatalogTypeOK => TypeOK
  BY DEF TypeOK, TablesTyped
<1>4. QED
  BY <1>1, <1>2, <1>3, CatalogTypes, PTL DEF Spec

-----------------------------------------------------------------------------
(* Devices that share a serial number.                                     *)

(* The creates that have found x free; each of them may still insert it.   *)
Creating(x) == {c \in Calls : call[c].op = "device" /\ call[c].key = x}
SharedInv == \A x \in Serials :
    Cardinality(Holders(x)) + Cardinality(Creating(x)) <= Cardinality(Calls)

LEMMA SharedFinite ==
    ASSUME CatalogConstants, NEW x
    PROVE  /\ IsFiniteSet(Holders(x)) /\ Cardinality(Holders(x)) \in Nat
           /\ IsFiniteSet(Creating(x)) /\ Cardinality(Creating(x)) \in Nat
           /\ Cardinality(Creating(x)) <= Cardinality(Calls)
           /\ Cardinality(Calls) \in Nat
<1>1. Holders(x) \subseteq Devices /\ Creating(x) \subseteq Calls
  BY DEF Holders, LiveDevices, Creating
<1>2. IsFiniteSet(Devices) /\ IsFiniteSet(Calls)
  BY DEF CatalogConstants
<1>3. QED
  BY <1>1, <1>2, FS_Subset, FS_CardinalityType

(* Fewer holders and fewer creates at work.                                *)
LEMMA SharedShrinks ==
    ASSUME CatalogConstants, SharedInv, NEW x \in Serials,
           Holders(x)' \subseteq Holders(x), Creating(x)' \subseteq Creating(x)
    PROVE  Cardinality(Holders(x)') + Cardinality(Creating(x)') <= Cardinality(Calls)
<1>1. /\ Cardinality(Holders(x)') <= Cardinality(Holders(x))
      /\ Cardinality(Holders(x)') \in Nat
  BY SharedFinite, FS_Subset, FS_CardinalityType
<1>2. /\ Cardinality(Creating(x)') <= Cardinality(Creating(x))
      /\ Cardinality(Creating(x)') \in Nat
  BY SharedFinite, FS_Subset, FS_CardinalityType
<1>3. Cardinality(Holders(x)) + Cardinality(Creating(x)) <= Cardinality(Calls)
  BY DEF SharedInv
<1>4. QED
  BY <1>1, <1>2, <1>3, SharedFinite

(* The check that finds a serial number free: there is no holder.          *)
LEMMA CheckShared ==
    ASSUME CatalogConstants, CatalogInv, SharedInv, NEW c \in Calls, CheckSerial(c)
    PROVE  SharedInv'
<1>1. PICK x \in Serials, s \in LiveStores :
          SerialFree(x) /\ Begins(c, "devices", "device", x, s)
  BY DEF CheckSerial
<1>2. /\ call' = [call EXCEPT ![c] = [op |-> "device", key |-> x, of |-> s]]
      /\ UNCHANGED <<device, renamed>>
  BY <1>1 DEF Begins
<1>3. \A y : Holders(y)' = Holders(y)
  BY <1>2 DEF Holders, LiveDevices
<1>4. Holders(x) = {}
  BY <1>1 DEF SerialFree, Holders
<1>5. ASSUME NEW y \in Serials
      PROVE  Cardinality(Holders(y)') + Cardinality(Creating(y)') <= Cardinality(Calls)
  <2>1. CASE y = x
    <3>1. Creating(y)' \subseteq Calls /\ IsFiniteSet(Calls)
      BY DEF Creating, CatalogConstants
    <3>2. Cardinality(Creating(y)') <= Cardinality(Calls) /\ Cardinality(Creating(y)') \in Nat
      BY <3>1, FS_Subset, FS_CardinalityType
    <3>3. Cardinality(Holders(y)') = 0
      BY <1>3, <1>4, <2>1, FS_EmptySet
    <3>4. QED
      BY <3>2, <3>3
  <2>2. CASE y # x
    <3>1. Creating(y)' \subseteq Creating(y)
      BY <1>2, <2>2 DEF Creating, CatalogInv, CatalogTypeOK
    <3>2. QED
      BY <1>3, <3>1, SharedShrinks
  <2>3. QED
    BY <2>1, <2>2
<1>6. QED
  BY <1>5 DEF SharedInv

(* A create that inserts: one holder more, one create at work less.        *)
LEMMA CreateShared ==
    ASSUME CatalogConstants, CatalogInv, SharedInv, NEW c \in Calls, CreateDevice(c)
    PROVE  SharedInv'
<1>1. PICK d \in Devices, x \in Serials :
          /\ x = call[c].key /\ device[d] = Unborn /\ call[c].op = "device"
          /\ device' = [device EXCEPT ![d] =
                [serial |-> x, store |-> call[c].of, status |-> "active"]]
          /\ call' = [call EXCEPT ![c] = Idle] /\ renamed' = renamed
  BY DEF CreateDevice, CatalogInv, CallKeys, Ends
<1>2. \A e \in Devices : e # d => device'[e] = device[e]
  BY <1>1 DEF CatalogInv, CatalogTypeOK
<1>3. device'[d].serial = x
  BY <1>1 DEF CatalogInv, CatalogTypeOK
<1>4. ASSUME NEW y \in Serials
      PROVE  Cardinality(Holders(y)') + Cardinality(Creating(y)') <= Cardinality(Calls)
  <2>1. CASE y = x
    <3>1. Creating(y)' = Creating(y) \ {c} /\ c \in Creating(y)
      BY <1>1, <2>1, IdleTyped DEF Creating, CatalogInv, CatalogTypeOK
    <3>2. IsFiniteSet(Creating(y)) /\ IsFiniteSet(Holders(y))
      BY SharedFinite
    <3>3. Cardinality(Creating(y)') = Cardinality(Creating(y)) - 1
      BY <3>1, <3>2, FS_RemoveElement
    <3>4. Holders(y)' \subseteq Holders(y) \cup {d}
      BY <1>1, <1>2 DEF Holders, LiveDevices
    <3>5. /\ IsFiniteSet(Holders(y) \cup {d})
          /\ Cardinality(Holders(y) \cup {d}) <= Cardinality(Holders(y)) + 1
      <4>1. /\ IsFiniteSet(Holders(y) \cup {d})
            /\ \/ Cardinality(Holders(y) \cup {d}) = Cardinality(Holders(y))
               \/ Cardinality(Holders(y) \cup {d}) = Cardinality(Holders(y)) + 1
        BY <3>2, FS_AddElement
      <4>2. Cardinality(Holders(y)) \in Nat
        BY SharedFinite
      <4>3. QED
        BY <4>1, <4>2
    <3>6. /\ Cardinality(Holders(y)') <= Cardinality(Holders(y) \cup {d})
          /\ Cardinality(Holders(y)') \in Nat /\ Cardinality(Holders(y) \cup {d}) \in Nat
      BY <3>4, <3>5, FS_Subset, FS_CardinalityType
    <3>7. Cardinality(Holders(y)) + Cardinality(Creating(y)) <= Cardinality(Calls)
      BY DEF SharedInv
    <3>8. QED
      BY <3>3, <3>5, <3>6, <3>7, SharedFinite
  <2>2. CASE y # x
    <3>1. Holders(y)' \subseteq Holders(y)
      BY <1>1, <1>2, <1>3, <2>2 DEF Holders, LiveDevices
    <3>2. Creating(y)' \subseteq Creating(y)
      BY <1>1, IdleTyped DEF Creating, CatalogInv, CatalogTypeOK
    <3>3. QED
      BY <3>1, <3>2, SharedShrinks
  <2>3. QED
    BY <2>1, <2>2
<1>5. QED
  BY <1>4 DEF SharedInv

(* Any other step of a call: no row becomes a holder.                      *)
LEMMA CallShared ==
    ASSUME CatalogConstants, CatalogInv, SharedInv, NEW c \in Calls,
           \/ CheckName(c) \/ CreateStore(c) \/ ReadDevice(c) \/ DeactivateDevice(c)
           \/ GiveUp(c)
    PROVE  SharedInv'
<1>1. ASSUME NEW x \in Serials
      PROVE  Holders(x)' \subseteq Holders(x)
  <2>1. CASE CheckName(c) \/ CreateStore(c) \/ ReadDevice(c) \/ GiveUp(c)
    BY <2>1 DEF CheckName, CreateStore, ReadDevice, GiveUp, Begins, Holders, LiveDevices
  <2>2. CASE DeactivateDevice(c)
    <3>1. PICK e \in LiveDevices : device' = [device EXCEPT ![e].status = "inactive"]
                                   /\ renamed' = renamed
      BY <2>2 DEF DeactivateDevice
    <3>2. e \in Devices /\ device[e] \in DeviceRow
      BY <3>1, LiveRows DEF CatalogInv, LiveDevices
    <3>3. /\ device'[e].serial = device[e].serial
          /\ \A f \in Devices : f # e => device'[f] = device[f]
      BY <3>1, <3>2 DEF CatalogInv, CatalogTypeOK, DeviceRow
    <3>4. QED
      BY <3>1, <3>3 DEF Holders, LiveDevices
  <2>3. QED
    BY <2>1, <2>2
<1>2. ASSUME NEW x \in Serials
      PROVE  Creating(x)' \subseteq Creating(x)
  <2>1. \A b \in Calls : call'[b].op = "device" => call'[b] = call[b]
    BY IdleTyped DEF CheckName, ReadDevice, Begins, CreateStore, DeactivateDevice, GiveUp,
       Ends, CatalogInv, CatalogTypeOK
  <2>2. QED
    BY <2>1 DEF Creating
<1>3. ASSUME NEW x \in Serials
      PROVE  Cardinality(Holders(x)') + Cardinality(Creating(x)') <= Cardinality(Calls)
  BY <1>1, <1>2, SharedShrinks
<1>4. QED
  BY <1>3 DEF SharedInv

(* A step on a store: at most, its devices are removed.                    *)
LEMMA StoreShared ==
    ASSUME CatalogConstants, CatalogInv, SharedInv, NEW s \in Stores,
           UpdateStore(s) \/ DeactivateStore(s) \/ RemoveStore(s)
    PROVE  SharedInv'
<1>1. ASSUME NEW x \in Serials
      PROVE  Holders(x)' \subseteq Holders(x) /\ Creating(x)' = Creating(x)
  <2>1. renamed \subseteq renamed' /\ call' = call
    BY DEF UpdateStore, DeactivateStore, RemoveStore
  <2>2. \A d \in LiveDevices' : d \in LiveDevices /\ device'[d] = device[d]
    BY DEF UpdateStore, DeactivateStore, RemoveStore, LiveDevices, NoRow
  <2>3. QED
    BY <2>1, <2>2 DEF Holders, Creating
<1>2. ASSUME NEW x \in Serials
      PROVE  Cardinality(Holders(x)') + Cardinality(Creating(x)') <= Cardinality(Calls)
  BY <1>1, SharedShrinks
<1>3. QED
  BY <1>2 DEF SharedInv

(* A step on a device: it is removed, or a holder by its own row only if it*)
(* was one before.                                                         *)
LEMMA DeviceShared ==
    ASSUME CatalogConstants, CatalogInv, SharedInv, NEW d \in Devices,
           UpdateDevice(d) \/ RemoveDevice(d)
    PROVE  SharedInv'
<1>1. ASSUME NEW x \in Serials
      PROVE  Holders(x)' \subseteq Holders(x) /\ Creating(x)' = Creating(x)
  <2>1. call' = call
    BY DEF UpdateDevice, RemoveDevice
  <2>2. CASE RemoveDevice(d)
    BY <2>1, <2>2 DEF RemoveDevice, Holders, LiveDevices, CatalogInv, CatalogTypeOK, NoRow,
       Creating
  <2>3. CASE UpdateDevice(d)
    <3>1. PICK y \in Serials, r \in LiveStores :
              /\ device' = [device EXCEPT ![d] =
                               [serial |-> y, store |-> r, status |-> device[d].status]]
              /\ renamed' = IF y # device[d].serial THEN renamed \cup {d} ELSE renamed
      BY <2>3 DEF UpdateDevice
    <3>2. /\ device'[d].serial = y /\ d \in LiveDevices
          /\ \A f \in Devices : f # d => device'[f] = device[f]
      BY <2>3, <3>1 DEF UpdateDevice, CatalogInv, CatalogTypeOK
    <3>3. QED
      BY <2>1, <3>1, <3>2 DEF Holders, LiveDevices, Creating
  <2>4. QED
    BY <2>2, <2>3
<1>2. ASSUME NEW x \in Serials
      PROVE  Cardinality(Holders(x)') + Cardinality(Creating(x)') <= Cardinality(Calls)
  BY <1>1, SharedShrinks
<1>3. QED
  BY <1>2 DEF SharedInv

LEMMA SharedCorrect == CatalogSpec => []SharedInv
<1>1. CatalogConstants /\ CatalogInit => SharedInv
  <2> SUFFICES ASSUME CatalogConstants, CatalogInit, NEW x \in Serials
               PROVE  Cardinality(Holders(x)) + Cardinality(Creating(x)) <= Cardinality(Calls)
    BY DEF SharedInv
  <2>1. Holders(x) = {}
    BY DEF CatalogInit, Holders, LiveDevices, NoRow
  <2>2. Cardinality(Holders(x)) = 0
    BY <2>1, FS_EmptySet
  <2>3. QED
    BY <2>2, SharedFinite
<1>2. CatalogConstants /\ CatalogInv /\ SharedInv /\ [CatalogNext]_catalogVars => SharedInv'
  <2> SUFFICES ASSUME CatalogConstants, CatalogInv, SharedInv, [CatalogNext]_catalogVars
               PROVE  SharedInv'
    OBVIOUS
  <2>1. CASE UNCHANGED catalogVars
    BY <2>1 DEF SharedInv, catalogVars, Holders, LiveDevices, Creating
  <2>2. ASSUME NEW c \in Calls,
               \/ CheckName(c) \/ CreateStore(c) \/ ReadDevice(c) \/ DeactivateDevice(c)
               \/ GiveUp(c)
        PROVE  SharedInv'
    BY <2>2, CallShared
  <2>3. ASSUME NEW s \in Stores, UpdateStore(s) \/ DeactivateStore(s) \/ RemoveStore(s)
        PROVE  SharedInv'
    BY <2>3, StoreShared
  <2>4. ASSUME NEW d \in Devices, UpdateDevice(d) \/ RemoveDevice(d)
        PROVE  SharedInv'
    BY <2>4, DeviceShared
  <2>5. QED
    BY <2>1, <2>2, <2>3, <2>4, CheckShared, CreateShared DEF CatalogNext
<1>3. QED
  BY <1>1, <1>2, TypesCorrect, CatalogConstants, PTL DEF CatalogSpec

(* Serial numbers given by creates are shared by no more devices than there*)
(* are calls at work: the price of a check before the insert.              *)
THEOREM DuplicatesAreBounded == Spec => []DuplicatesBounded
<1>1. CatalogConstants /\ SharedInv => DuplicatesBounded
  <2> SUFFICES ASSUME CatalogConstants, SharedInv, NEW x \in Serials
               PROVE  Cardinality(Holders(x)) <= Cardinality(Calls)
    BY DEF DuplicatesBounded
  <2>1. Cardinality(Holders(x)) + Cardinality(Creating(x)) <= Cardinality(Calls)
    BY DEF SharedInv
  <2>2. QED
    BY <2>1, SharedFinite
<1>2. QED
  BY <1>1, SharedCorrect, BackofficeHasCatalog, CatalogConstants, PTL

-----------------------------------------------------------------------------
(* Devices that are inactive.                                              *)

(* A device that is inactive, or about to be, under an active store.       *)
Explained(d) ==
    d \in LiveDevices /\ store[device[d].store].status = "active" => d \in disturbed
Deactivated(d) ==
    \/ d \in LiveDevices /\ device[d].status = "inactive"
    \/ \E c \in Calls : call[c].op = "deactivate" /\ call[c].of = d
InactiveInv == \A d \in Devices : Deactivated(d) => Explained(d)

(* A step of a call, a store or a device keeps what was explained.         *)
LEMMA StaysExplained ==
    ASSUME CatalogConstants, CatalogInv, CatalogInv', CatalogNext, NEW d \in Devices,
           device[d] # Unborn, Explained(d)
    PROVE  Explained(d)'
<1> USE DEF CatalogInv
<1> SUFFICES ASSUME d \in LiveDevices', store'[device'[d].store].status = "active"
             PROVE  d \in disturbed'
  BY DEF Explained
<1>1. ASSUME NEW c \in Calls, CheckName(c) \/ CheckSerial(c) \/ ReadDevice(c) \/ GiveUp(c)
      PROVE  d \in disturbed'
  BY <1>1 DEF CheckName, CheckSerial, ReadDevice, Begins, GiveUp, Explained, LiveDevices
<1>2. ASSUME NEW c \in Calls, CreateStore(c)
      PROVE  d \in disturbed'
  <2>1. d \in LiveDevices /\ device' = device /\ disturbed' = disturbed
    BY <1>2 DEF CreateStore, LiveDevices
  <2>2. store'[device[d].store] = store[device[d].store]
    BY <1>2, <2>1 DEF CreateStore, CatalogTypeOK, LiveStores, NoRow
  <2>3. QED
    BY <2>1, <2>2 DEF Explained
<1>3. ASSUME NEW c \in Calls, CreateDevice(c)
      PROVE  d \in disturbed'
  <2>1. device'[d] = device[d] /\ store' = store /\ disturbed' = disturbed
    BY <1>3 DEF CreateDevice, CatalogTypeOK
  <2>2. QED
    BY <2>1 DEF Explained, LiveDevices
<1>4. ASSUME NEW c \in Calls, DeactivateDevice(c)
      PROVE  d \in disturbed'
  <2>1. PICK e \in LiveDevices : device' = [device EXCEPT ![e].status = "inactive"]
    BY <1>4 DEF DeactivateDevice
  <2>2. e \in Devices /\ device[e] \in DeviceRow
    BY <2>1, LiveRows DEF LiveDevices
  <2>3. device'[e].store = device[e].store /\ (d # e => device'[d] = device[d])
    BY <2>1, <2>2 DEF CatalogTypeOK, DeviceRow
  <2>4. store' = store /\ disturbed' = disturbed
    BY <1>4 DEF DeactivateDevice
  <2>5. d \in LiveDevices /\ device'[d].store = device[d].store
    BY <2>1, <2>3 DEF LiveDevices
  <2>6. QED
    BY <2>4, <2>5 DEF Explained
<1>5. ASSUME NEW s \in Stores, UpdateStore(s)
      PROVE  d \in disturbed'
  <2>1. PICK row \in StoreRow :
            /\ store' = [store EXCEPT ![s] = row]
            /\ disturbed' = IF row.status = "active" /\ store[s].status = "inactive"
                            THEN disturbed \cup DevicesOf(s) ELSE disturbed
    BY <1>5 DEF UpdateStore
  <2>2. device' = device /\ store[s] \in StoreRow /\ d \in LiveDevices
    BY <1>5, LiveRows DEF UpdateStore, LiveDevices
  <2>3. CASE device[d].store # s
    BY <2>1, <2>2, <2>3 DEF Explained, CatalogTypeOK
  <2>4. CASE device[d].store = s
    <3>1. store'[s] = row /\ d \in DevicesOf(s) /\ store[s].status \in Status
      BY <2>1, <2>2, <2>4 DEF CatalogTypeOK, DevicesOf, StoreRow
    <3>2. row.status = "active"
      BY <2>2, <2>4, <3>1
    <3>3. QED
      BY <2>1, <2>2, <2>4, <3>1, <3>2 DEF Explained, Status
  <2>5. QED
    BY <2>3, <2>4
<1>6. ASSUME NEW s \in Stores, DeactivateStore(s)
      PROVE  d \in disturbed'
  <2>1. device' = device /\ store[s] \in StoreRow /\ d \in LiveDevices /\ disturbed' = disturbed
    BY <1>6, LiveRows DEF DeactivateStore, LiveDevices
  <2>2. store'[s].status = "inactive" /\ \A r \in Stores : r # s => store'[r] = store[r]
    BY <1>6, <2>1 DEF DeactivateStore, CatalogTypeOK, StoreRow
  <2>3. device[d].store # s /\ device[d].store \in Stores
    BY <2>1, <2>2 DEF CatalogTypeOK, LiveStores
  <2>4. QED
    BY <2>1, <2>2, <2>3 DEF Explained
<1>7. ASSUME NEW s \in Stores, RemoveStore(s)
      PROVE  d \in disturbed'
  <2>1. d \in LiveDevices /\ device'[d] = device[d] /\ device[d].store # s
    BY <1>7 DEF RemoveStore, LiveDevices, DevicesOf, NoRow
  <2>2. store'[device[d].store] = store[device[d].store] /\ disturbed' = disturbed
    BY <1>7, <2>1 DEF RemoveStore, CatalogTypeOK, LiveStores
  <2>3. QED
    BY <2>1, <2>2 DEF Explained
<1>8. ASSUME NEW e \in Devices, UpdateDevice(e)
      PROVE  d \in disturbed'
  <2>1. PICK x \in Serials, s \in LiveStores :
            /\ device' = [device EXCEPT ![e] =
                             [serial |-> x, store |-> s, status |-> device[e].status]]
            /\ disturbed' = IF s # device[e].store THEN disturbed \cup {e} ELSE disturbed
            /\ store' = store /\ e \in LiveDevices
    BY <1>8 DEF UpdateDevice
  <2>2. d # e => device'[d] = device[d]
    BY <2>1 DEF CatalogTypeOK
  <2>3. device'[e].store = s
    BY <2>1 DEF CatalogTypeOK
  <2>4. QED
    BY <2>1, <2>2, <2>3 DEF Explained, LiveDevices
<1>9. ASSUME NEW e \in Devices, RemoveDevice(e)
      PROVE  d \in disturbed'
  BY <1>9 DEF RemoveDevice, Explained, LiveDevices, CatalogTypeOK, NoRow
<1>10. QED
  BY <1>1, <1>2, <1>3, <1>4, <1>5, <1>6, <1>7, <1>8, <1>9 DEF CatalogNext

(* A device that is, or is about to be, deactivated after a step was so    *)
(* before it, or was just found under a store that is not active.          *)
LEMMA NewlyDeactivated ==
    ASSUME CatalogConstants, CatalogInv, CatalogNext, NEW d \in Devices, Deactivated(d)'
    PROVE  (device[d] # Unborn /\ Deactivated(d)) \/ Explained(d)'
<1> USE DEF CatalogInv
<1>1. ASSUME NEW c \in Calls, ReadDevice(c)
      PROVE  (device[d] # Unborn /\ Deactivated(d)) \/ Explained(d)'
  <2>1. PICK e \in LiveDevices :
            /\ store[device[e].store].status # "active"
            /\ call' = [call EXCEPT ![c] = [op |-> "deactivate", key |-> None, of |-> e]]
            /\ UNCHANGED <<store, device, disturbed>>
    BY <1>1 DEF ReadDevice, MayDeactivate, Begins
  <2>2. CASE d = e
    BY <2>1, <2>2 DEF Explained
  <2>3. CASE d # e
    <3>1. Deactivated(d)
      BY <2>1, <2>3 DEF Deactivated, LiveDevices, CatalogTypeOK
    <3>2. QED
      BY <3>1 DEF Deactivated, CallKeys, LiveDevices, NoRow
  <2>4. QED
    BY <2>2, <2>3
<1>2. ASSUME NEW c \in Calls, CheckName(c) \/ CheckSerial(c) \/ CreateStore(c) \/ GiveUp(c)
      PROVE  device[d] # Unborn /\ Deactivated(d)
  <2>1. device' = device /\ \A b \in Calls : call'[b].op = "deactivate" => call'[b] = call[b]
    BY <1>2, IdleTyped DEF CheckName, CheckSerial, CreateStore, GiveUp, Begins, Ends, CatalogTypeOK
  <2>2. QED
    BY <2>1 DEF Deactivated, LiveDevices, CallKeys, NoRow
<1>3. ASSUME NEW c \in Calls, CreateDevice(c)
      PROVE  device[d] # Unborn /\ Deactivated(d)
  <2>1. PICK e \in Devices : /\ device[e] = Unborn
                             /\ device' = [device EXCEPT ![e] = [serial |-> call[c].key,
                                            store |-> call[c].of, status |-> "active"]]
                             /\ call' = [call EXCEPT ![c] = Idle]
    BY <1>3 DEF CreateDevice, Ends
  <2>2. /\ device'[e].status = "active"
        /\ \A f \in Devices : f # e => device'[f] = device[f]
        /\ \A b \in Calls : call'[b].op = "deactivate" => call'[b] = call[b]
    BY <2>1, IdleTyped DEF CatalogTypeOK
  <2>3. QED
    BY <2>1, <2>2 DEF Deactivated, LiveDevices, CallKeys, NoRow
<1>4. ASSUME NEW c \in Calls, DeactivateDevice(c)
      PROVE  device[d] # Unborn /\ Deactivated(d)
  <2>1. /\ call[c].op = "deactivate" /\ call[c].of \in LiveDevices
        /\ \A f \in Devices : f # call[c].of => device'[f] = device[f]
        /\ \A b \in Calls : call'[b].op = "deactivate" => call'[b] = call[b]
    BY <1>4, IdleTyped DEF DeactivateDevice, Ends, CatalogTypeOK
  <2>2. QED
    BY <2>1 DEF Deactivated, LiveDevices, CallKeys, NoRow
<1>5. ASSUME NEW s \in Stores, UpdateStore(s) \/ DeactivateStore(s) \/ RemoveStore(s)
      PROVE  device[d] # Unborn /\ Deactivated(d)
  <2>1. call' = call /\ \A e \in LiveDevices' : e \in LiveDevices /\ device'[e] = device[e]
    BY <1>5 DEF UpdateStore, DeactivateStore, RemoveStore, LiveDevices, NoRow
  <2>2. QED
    BY <2>1 DEF Deactivated, CallKeys, LiveDevices, NoRow
<1>6. ASSUME NEW e \in Devices, UpdateDevice(e) \/ RemoveDevice(e)
      PROVE  device[d] # Unborn /\ Deactivated(d)
  <2>1. call' = call
    BY <1>6 DEF UpdateDevice, RemoveDevice
  <2>2. \A f \in LiveDevices' : f \in LiveDevices /\ device'[f].status = device[f].status
    BY <1>6 DEF UpdateDevice, RemoveDevice, LiveDevices, NoRow, CatalogTypeOK
  <2>3. QED
    BY <2>1, <2>2 DEF Deactivated, CallKeys, LiveDevices, NoRow
<1>7. QED
  BY <1>1, <1>2, <1>3, <1>4, <1>5, <1>6 DEF CatalogNext

(* An inactive device of an active store was moved there, or its store was *)
(* activated after the device, or the call that deactivated it, was read.  *)
THEOREM InactiveIsExplained == Spec => []InactiveExplained
<1>1. CatalogInit => InactiveInv
  BY IdleTyped DEF CatalogInit, InactiveInv, Deactivated, LiveDevices, NoRow
<1>2. CatalogConstants /\ CatalogInv /\ CatalogInv' /\ InactiveInv /\ [CatalogNext]_catalogVars
        => InactiveInv'
  <2> SUFFICES ASSUME CatalogConstants, CatalogInv, CatalogInv', InactiveInv,
                      [CatalogNext]_catalogVars
               PROVE  InactiveInv'
    OBVIOUS
  <2>1. CASE UNCHANGED catalogVars
    BY <2>1 DEF InactiveInv, Deactivated, Explained, LiveDevices, catalogVars
  <2>2. ASSUME CatalogNext, NEW d \in Devices, Deactivated(d)'
        PROVE  Explained(d)'
    <3>1. CASE device[d] # Unborn /\ Deactivated(d)
      BY <2>2, <3>1, StaysExplained DEF InactiveInv
    <3>2. QED
      BY <2>2, <3>1, NewlyDeactivated
  <2>3. QED
    BY <2>1, <2>2 DEF InactiveInv
<1>3. InactiveInv => InactiveExplained
  BY DEF InactiveInv, InactiveExplained, Deactivated, Explained, LiveDevices
<1>4. QED
  BY <1>1, <1>2, <1>3, TypesCorrect, BackofficeHasCatalog, CatalogConstants, PTL
     DEF CatalogSpec

-----------------------------------------------------------------------------
(* Imports.                                                                *)

(* ImportIsPrefix is not inductive: an import must also know the sync      *)
(* records it has created, exactly one for every store it has got to.      *)
ImportSound(i) ==
    /\ import[i].next \in 1 .. Len(import[i].storeOf) + 1
    /\ import[i].pc = "idle" => import[i].storeOf = <<>> /\ RecordsFrom(i) = {}
    /\ \A r \in RecordsFrom(i) :
          /\ import[i].recordOf[records[r].store] = r
          /\ records[r].rows = {k \in 1 .. import[i].next - 1 :
                                   import[i].storeOf[k] = records[r].store}
    /\ \A s \in Stores : import[i].recordOf[s] # 0 =>
          /\ import[i].recordOf[s] \in RecordsFrom(i)
          /\ records[import[i].recordOf[s]].store = s
    /\ \A k \in 1 .. import[i].next - 1 : import[i].recordOf[import[i].storeOf[k]] # 0

LEMMA RowsTyped ==
    ASSUME TablesTyped
    PROVE  /\ DOMAIN records = 1 .. Len(records) /\ Len(records) \in Nat
           /\ \A r \in DOMAIN records : records[r] \in RecordRow
           /\ \A i \in Imports : /\ import[i] \in ImportState
                                 /\ import[i].next \in Nat
                                 /\ import[i].storeOf \in Seq(Stores)
                                 /\ Len(import[i].storeOf) \in Nat
                                 /\ DOMAIN import[i].storeOf = 1 .. Len(import[i].storeOf)
                                 /\ import[i].recordOf \in [Stores -> Nat]
<1>1. ASSUME NEW i \in Imports
      PROVE  /\ import[i] \in ImportState /\ import[i].next \in Nat
             /\ import[i].storeOf \in Seq(Stores) /\ import[i].recordOf \in [Stores -> Nat]
  BY DEF TablesTyped, ImportState
<1>2. \A seq \in Seq(Stores) : Len(seq) \in Nat /\ DOMAIN seq = 1 .. Len(seq)
  OBVIOUS
<1>3. QED
  BY <1>1, <1>2 DEF TablesTyped

(* Nothing happens to an import, or to the records it has created.         *)
LEMMA ImportKept ==
    ASSUME NEW i \in Imports, ImportSound(i), import'[i] = import[i],
           RecordsFrom(i)' = RecordsFrom(i),
           \A r \in RecordsFrom(i) : /\ records'[r].store = records[r].store
                                     /\ records'[r].rows = records[r].rows
    PROVE  ImportSound(i)'
  BY DEF ImportSound

(* A new record, of which only its import learns.                          *)
LEMMA RecordAdded ==
    ASSUME TablesTyped, NEW new, records' = Append(records, new)
    PROVE  /\ \A r \in DOMAIN records : records'[r] = records[r]
           /\ records'[Len(records) + 1] = new
           /\ DOMAIN records' = DOMAIN records \cup {Len(records) + 1}
           /\ Len(records) + 1 \notin DOMAIN records /\ 0 \notin DOMAIN records
           /\ \A i : new.from # i => RecordsFrom(i)' = RecordsFrom(i)
           /\ \A i : new.from = i => RecordsFrom(i)' = RecordsFrom(i) \cup {Len(records) + 1}
<1>1. /\ records \in Seq(RecordRow) /\ Len(records) \in Nat
      /\ DOMAIN records = 1 .. Len(records)
  BY RowsTyped DEF TablesTyped
<1>2. /\ \A r \in 1 .. Len(records) : records'[r] = records[r]
      /\ records'[Len(records) + 1] = new
      /\ DOMAIN records' = 1 .. Len(records) + 1
  BY <1>1
<1>3. DOMAIN records' = DOMAIN records \cup {Len(records) + 1}
      /\ Len(records) + 1 \notin DOMAIN records /\ 0 \notin DOMAIN records
  BY <1>1, <1>2
<1>4. QED
  BY <1>1, <1>2, <1>3 DEF RecordsFrom

(* A row of a record is replaced.                                          *)
LEMMA RecordReplaced ==
    ASSUME TablesTyped, NEW q \in DOMAIN records, NEW new,
           records' = [records EXCEPT ![q] = new], new.from = records[q].from
    PROVE  /\ \A r \in DOMAIN records : r # q => records'[r] = records[r]
           /\ records'[q] = new
           /\ \A i : RecordsFrom(i)' = RecordsFrom(i)
<1>1. /\ DOMAIN records' = DOMAIN records /\ records'[q] = new
      /\ \A r \in DOMAIN records : r # q => records'[r] = records[r]
  BY DEF TablesTyped
<1>2. QED
  BY <1>1 DEF RecordsFrom

LEMMA OthersKept ==
    ASSUME TablesTyped, \A i \in Imports : ImportSound(i),
           \/ SyncStarts \/ SyncMoves
           \/ UNCHANGED <<records, import>>,
           Imports \cap MessageTypes = {}
    PROVE  \A i \in Imports : ImportSound(i)'
<1>1. CASE UNCHANGED <<records, import>>
  BY <1>1, ImportKept DEF RecordsFrom
<1>2. CASE SyncStarts
  <2>1. PICK new : records' = Append(records, new) /\ new.from \in MessageTypes
    BY <1>2 DEF SyncStarts, Insert
  <2>2. UNCHANGED import
    BY <1>2 DEF SyncStarts
  <2>3. ASSUME NEW i \in Imports
        PROVE  ImportSound(i)'
    <3>1. RecordsFrom(i)' = RecordsFrom(i)
      BY <2>1, RecordAdded
    <3>2. \A r \in RecordsFrom(i) : records'[r] = records[r]
      BY <2>1, RecordAdded DEF RecordsFrom
    <3>3. QED
      BY <2>2, <3>1, <3>2, ImportKept
  <2>4. QED
    BY <2>3
<1>3. CASE SyncMoves
  <2>1. PICK q \in DOMAIN records, st \in {"PROCESSING", "SUCCESS", "FAILED"} :
           /\ records[q].from \in MessageTypes
           /\ records' = [records EXCEPT ![q].status = st]
    BY <1>3, MovedRecord
  <2>2. PICK new : new = [records[q] EXCEPT !.status = st]
    OBVIOUS
  <2>3. new.from = records[q].from /\ records' = [records EXCEPT ![q] = new]
    BY <2>1, <2>2, RowsTyped DEF RecordRow
  <2>4. UNCHANGED import
    BY <1>3 DEF SyncMoves
  <2>5. ASSUME NEW i \in Imports
        PROVE  ImportSound(i)'
    <3>1. RecordsFrom(i)' = RecordsFrom(i) /\ q \notin RecordsFrom(i)
      BY <2>1, <2>3, RecordReplaced DEF RecordsFrom
    <3>2. \A r \in RecordsFrom(i) : records'[r] = records[r]
      BY <2>3, <3>1, RecordReplaced DEF RecordsFrom
    <3>3. QED
      BY <2>4, <3>1, <3>2, ImportKept
  <2>6. QED
    BY <2>5
<1>4. QED
  BY <1>1, <1>2, <1>3

LEMMA ReadFileSound ==
    ASSUME BackofficeConstants, TablesTyped, \A j \in Imports : ImportSound(j),
           NEW i \in Imports, ReadFile(i)
    PROVE  \A j \in Imports : ImportSound(j)'
<1>1. PICK file \in Files :
         \E found \in [Range(file) -> LiveStores] :
            import' = [import EXCEPT ![i].pc = "insert",
                          ![i].storeOf = [k \in DOMAIN file |-> found[file[k]]]]
  BY DEF ReadFile
<1> PICK found \in [Range(file) -> LiveStores] :
       import' = [import EXCEPT ![i].pc = "insert",
                     ![i].storeOf = [k \in DOMAIN file |-> found[file[k]]]]
  BY <1>1
<1>2. PICK stores : stores = [k \in DOMAIN file |-> found[file[k]]]
  OBVIOUS
<1>3. PICK new : new = [import[i] EXCEPT !.pc = "insert", !.storeOf = stores]
  OBVIOUS
<1>4. import' = [import EXCEPT ![i] = new]
  BY <1>1, <1>2, <1>3, RowsTyped DEF TablesTyped
<1>5. /\ new.pc = "insert" /\ new.storeOf = stores /\ new.next = import[i].next
      /\ new.recordOf = import[i].recordOf
  BY <1>3, RowsTyped DEF ImportState
<1>6. import'[i] = new /\ \A j \in Imports : j # i => import'[j] = import[j]
  BY <1>4 DEF TablesTyped
<1>7. UNCHANGED records /\ \A j : RecordsFrom(j)' = RecordsFrom(j)
  BY DEF ReadFile, RecordsFrom
<1>8. \A j \in Imports : j # i => ImportSound(j)'
  BY <1>6, <1>7, ImportKept
<1>9. ImportSound(i)'
  <2>1. /\ import[i].storeOf = <<>> /\ RecordsFrom(i) = {}
        /\ import[i].next \in 1 .. Len(import[i].storeOf) + 1
        /\ \A s \in Stores : import[i].recordOf[s] = 0
    BY DEF ReadFile, ImportSound
  <2>2. import[i].next = 1
    BY <2>1
  <2>3. file \in Seq(Names) /\ Len(file) \in Nat /\ DOMAIN file = 1 .. Len(file)
    BY DEF BackofficeConstants
  <2>4. Len(stores) = Len(file)
    BY <1>2, <2>3
  <2>5. 1 \in 1 .. Len(stores) + 1 /\ 1 .. 1 - 1 = {}
    BY <2>3, <2>4
  <2>6. QED
    BY <1>5, <1>6, <1>7, <2>1, <2>2, <2>5 DEF ImportSound
<1>10. QED
  BY <1>8, <1>9

LEMMA CreateSyncRecordSound ==
    ASSUME TablesTyped, \A j \in Imports : ImportSound(j),
           NEW i \in Imports, CreateSyncRecord(i)
    PROVE  \A j \in Imports : ImportSound(j)'
<1>1. PICK n : n = Len(records) + 1
  OBVIOUS
<1>2. PICK s \in Stores : s = NextStore(i)
  BY DEF CreateSyncRecord, Insert, LiveStores
<1>3. PICK new : /\ records' = Append(records, new) /\ new.store = s /\ new.from = i
                 /\ new.rows = {}
  BY <1>2 DEF CreateSyncRecord, Insert
<1>4. /\ import[i].recordOf[s] = 0 /\ import[i].pc = "insert" /\ n # 0
      /\ import' = [import EXCEPT ![i].recordOf[s] = n]
  BY <1>1, <1>2, RowsTyped DEF CreateSyncRecord, RememberRecord, Inserting
<1>5. PICK known : known = [import[i].recordOf EXCEPT ![s] = n]
  OBVIOUS
<1>6. PICK state : state = [import[i] EXCEPT !.recordOf = known]
  OBVIOUS
<1>7. /\ state.pc = import[i].pc /\ state.storeOf = import[i].storeOf
      /\ state.next = import[i].next /\ state.recordOf = known
  BY <1>6, RowsTyped DEF ImportState
<1>8. import'[i] = state /\ \A j \in Imports : j # i => import'[j] = import[j]
  BY <1>4, <1>5, <1>6 DEF TablesTyped
<1>9. known[s] = n /\ \A q \in Stores : q # s => known[q] = import[i].recordOf[q]
  BY <1>5, RowsTyped
<1>10. /\ \A r \in DOMAIN records : records'[r] = records[r]
       /\ records'[n] = new /\ n \notin DOMAIN records
       /\ RecordsFrom(i)' = RecordsFrom(i) \cup {n}
       /\ \A j : j # i => RecordsFrom(j)' = RecordsFrom(j)
  BY <1>1, <1>3, RecordAdded
<1>11. \A j \in Imports : j # i => ImportSound(j)'
  BY <1>8, <1>10, ImportKept DEF RecordsFrom
<1>12. ImportSound(i)'
  <2>1. /\ import[i].next \in 1 .. Len(import[i].storeOf) + 1
        /\ \A r \in RecordsFrom(i) :
              /\ import[i].recordOf[records[r].store] = r
              /\ records[r].rows = {k \in 1 .. import[i].next - 1 :
                                       import[i].storeOf[k] = records[r].store}
        /\ \A q \in Stores : import[i].recordOf[q] # 0 =>
              /\ import[i].recordOf[q] \in RecordsFrom(i)
              /\ records[import[i].recordOf[q]].store = q
        /\ \A k \in 1 .. import[i].next - 1 : import[i].recordOf[import[i].storeOf[k]] # 0
    BY DEF ImportSound
  <2>2. \A k \in 1 .. import[i].next - 1 : import[i].storeOf[k] # s
                                          /\ import[i].storeOf[k] \in Stores
    BY <1>4, <2>1, RowsTyped
  <2>3. ASSUME NEW r \in RecordsFrom(i)
        PROVE  r \in DOMAIN records /\ records[r].store # s /\ records[r].store \in Stores
               /\ r # n /\ records'[r] = records[r]
    <3>1. r \in DOMAIN records /\ records[r] \in RecordRow
      BY RowsTyped DEF RecordsFrom
    <3>2. r # 0 /\ records[r].store \in Stores
      BY <3>1, RowsTyped DEF RecordRow
    <3>3. QED
      BY <1>4, <1>10, <2>1, <3>1, <3>2
  <2>4. ASSUME NEW r \in RecordsFrom(i)'
        PROVE  /\ known[records'[r].store] = r
               /\ records'[r].rows = {k \in 1 .. import[i].next - 1 :
                                         import[i].storeOf[k] = records'[r].store}
    <3>1. CASE r = n
      <4>1. /\ records'[r].store = s /\ records'[r].rows = {}
        BY <1>3, <1>10, <3>1
      <4>2. {k \in 1 .. import[i].next - 1 : import[i].storeOf[k] = records'[r].store} = {}
        BY <2>2, <4>1
      <4>3. known[records'[r].store] = r
        BY <1>9, <3>1, <4>1
      <4>4. QED
        BY <4>1, <4>2, <4>3
    <3>2. CASE r # n
      BY <1>9, <1>10, <2>1, <2>3, <2>4, <3>2
    <3>3. QED
      BY <3>1, <3>2
  <2>5. ASSUME NEW q \in Stores, known[q] # 0
        PROVE  known[q] \in RecordsFrom(i)' /\ records'[known[q]].store = q
    <3>1. CASE q = s
      BY <1>3, <1>9, <1>10, <3>1
    <3>2. CASE q # s
      BY <1>9, <1>10, <2>1, <2>3, <2>5, <3>2
    <3>3. QED
      BY <3>1, <3>2
  <2>6. \A k \in 1 .. import[i].next - 1 : known[import[i].storeOf[k]] # 0
    BY <1>9, <2>1, <2>2
  <2>7. /\ import'[i].pc # "idle" /\ import'[i].storeOf = import[i].storeOf
        /\ import'[i].next = import[i].next /\ import'[i].recordOf = known
    BY <1>4, <1>7, <1>8
  <2>8. QED
    BY <2>1, <2>4, <2>5, <2>6, <2>7 DEF ImportSound
<1>13. QED
  BY <1>11, <1>12

LEMMA CreateAttendanceSound ==
    ASSUME TablesTyped, \A j \in Imports : ImportSound(j),
           NEW i \in Imports, CreateAttendance(i)
    PROVE  \A j \in Imports : ImportSound(j)'
<1>1. PICK m \in Nat : m = import[i].next
  BY RowsTyped
<1>2. PICK s : s = import[i].storeOf[m]
  OBVIOUS
<1>3. /\ s \in Stores /\ import[i].recordOf[s] # 0 /\ import[i].pc = "insert"
      /\ m <= Len(import[i].storeOf)
  BY <1>1, <1>2 DEF CreateAttendance, NextStore, LiveStores, Inserting
<1>4. PICK q : q = import[i].recordOf[s]
  OBVIOUS
<1>5. /\ m \in 1 .. Len(import[i].storeOf) + 1
      /\ \A r \in RecordsFrom(i) :
            /\ import[i].recordOf[records[r].store] = r
            /\ records[r].rows = {k \in 1 .. m - 1 : import[i].storeOf[k] = records[r].store}
      /\ \A t \in Stores : import[i].recordOf[t] # 0 =>
            /\ import[i].recordOf[t] \in RecordsFrom(i)
            /\ records[import[i].recordOf[t]].store = t
      /\ \A k \in 1 .. m - 1 : import[i].recordOf[import[i].storeOf[k]] # 0
  BY <1>1 DEF ImportSound
<1>6. q \in RecordsFrom(i) /\ q \in DOMAIN records /\ records[q].store = s /\ records[q].from = i
  BY <1>3, <1>4, <1>5 DEF RecordsFrom
<1>7. records' = [records EXCEPT ![q].rows = @ \cup {m}]
      /\ import' = [import EXCEPT ![i].next = m + 1]
  BY <1>1, <1>2, <1>4, RowsTyped DEF CreateAttendance, NextStore, TablesTyped
<1>8. PICK new : new = [records[q] EXCEPT !.rows = @ \cup {m}]
  OBVIOUS
<1>9. new.store = s /\ new.from = i /\ new.rows = records[q].rows \cup {m}
  BY <1>6, <1>8, RowsTyped DEF RecordRow
<1>10. /\ \A r \in DOMAIN records : r # q => records'[r] = records[r]
       /\ records'[q] = new /\ \A j : RecordsFrom(j)' = RecordsFrom(j)
  <2>1. records' = [records EXCEPT ![q] = new]
    BY <1>7, <1>8
  <2>2. QED
    BY <1>6, <1>9, <2>1, RecordReplaced
<1>11. PICK state : state = [import[i] EXCEPT !.next = m + 1]
  OBVIOUS
<1>12. /\ state.pc = import[i].pc /\ state.storeOf = import[i].storeOf
       /\ state.next = m + 1 /\ state.recordOf = import[i].recordOf
  BY <1>11, RowsTyped DEF ImportState
<1>13. import'[i] = state /\ \A j \in Imports : j # i => import'[j] = import[j]
  BY <1>7, <1>11 DEF TablesTyped
<1>14. ASSUME NEW j \in Imports, j # i
       PROVE  ImportSound(j)'
  <2>1. \A r \in RecordsFrom(j) : r # q /\ records'[r] = records[r]
    BY <1>6, <1>10, <1>14 DEF RecordsFrom
  <2>2. QED
    BY <1>10, <1>13, <1>14, <2>1, ImportKept
<1>15. ImportSound(i)'
  <2>1. m + 1 \in 1 .. Len(import[i].storeOf) + 1 /\ (m + 1) - 1 = m /\ m \in 1 .. m
        /\ 1 .. m = (1 .. m - 1) \cup {m}
    BY <1>3, <1>5, RowsTyped
  <2>2. ASSUME NEW r \in RecordsFrom(i)
        PROVE  /\ records'[r].store = records[r].store
               /\ records'[r].rows = {k \in 1 .. m : import[i].storeOf[k] = records'[r].store}
    <3>1. r \in DOMAIN records
      BY DEF RecordsFrom
    <3>2. CASE r = q
      BY <1>2, <1>5, <1>6, <1>9, <1>10, <2>1, <3>2
    <3>3. CASE r # q
      <4>1. records'[r] = records[r] /\ records[r].store # s
        BY <1>4, <1>5, <1>10, <3>1, <3>3
      <4>2. QED
        BY <1>2, <1>5, <2>1, <4>1
    <3>4. QED
      BY <3>2, <3>3
  <2>3. \A t \in Stores : import[i].recordOf[t] # 0 =>
            /\ import[i].recordOf[t] \in RecordsFrom(i)
            /\ records'[import[i].recordOf[t]].store = t
    BY <1>5, <2>2
  <2>4. \A k \in 1 .. m : import[i].recordOf[import[i].storeOf[k]] # 0
    BY <1>2, <1>3, <1>5, <2>1
  <2>5. \A r \in RecordsFrom(i) : import[i].recordOf[records'[r].store] = r
    BY <1>5, <2>2
  <2>6. QED
    BY <1>3, <1>10, <1>12, <1>13, <2>1, <2>2, <2>3, <2>4, <2>5 DEF ImportSound
<1>16. QED
  BY <1>14, <1>15

LEMMA EndImportSound ==
    ASSUME TablesTyped, \A j \in Imports : ImportSound(j),
           NEW i \in Imports, EndImport(i)
    PROVE  \A j \in Imports : ImportSound(j)'
<1>1. PICK step \in {"dead", "done"} : import' = [import EXCEPT ![i].pc = step]
  BY DEF EndImport
<1>2. PICK state : state = [import[i] EXCEPT !.pc = step]
  OBVIOUS
<1>3. /\ state.pc # "idle" /\ state.storeOf = import[i].storeOf
      /\ state.next = import[i].next /\ state.recordOf = import[i].recordOf
  BY <1>2, RowsTyped DEF ImportState
<1>4. import'[i] = state /\ \A j \in Imports : j # i => import'[j] = import[j]
  BY <1>1, <1>2 DEF TablesTyped
<1>5. UNCHANGED records /\ \A j : RecordsFrom(j)' = RecordsFrom(j)
  BY DEF EndImport, RecordsFrom
<1>6. \A j \in Imports : j # i => ImportSound(j)'
  BY <1>4, <1>5, ImportKept
<1>7. ImportSound(i)'
  BY <1>3, <1>4, <1>5 DEF ImportSound
<1>8. QED
  BY <1>6, <1>7

(* However an import ends, and whatever happens to its stores meanwhile:   *)
(* exactly the rows before the one it had reached are stored, each under   *)
(* its own store, and a store has got one sync record.                     *)
THEOREM ImportsArePrefixes == Spec => []ImportIsPrefix
<1>1. Init => \A i \in Imports : ImportSound(i)
  <2> SUFFICES ASSUME Init, NEW i \in Imports
               PROVE  ImportSound(i)
    OBVIOUS
  <2>1. /\ import[i].pc = "idle" /\ import[i].storeOf = <<>> /\ import[i].next = 1
        /\ \A s \in Stores : import[i].recordOf[s] = 0
        /\ records = <<>>
    BY DEF Init
  <2>2. RecordsFrom(i) = {} /\ 1 \in 1 .. Len(<<>>) + 1 /\ 1 .. 1 - 1 = {}
    BY <2>1 DEF RecordsFrom
  <2>3. QED
    BY <2>1, <2>2 DEF ImportSound
<1>2. TypeOK /\ (\A i \in Imports : ImportSound(i)) /\ [Next]_vars
        => (\A i \in Imports : ImportSound(i))'
  <2> SUFFICES ASSUME TypeOK, \A i \in Imports : ImportSound(i), [Next]_vars
               PROVE  \A i \in Imports : ImportSound(i)'
    OBVIOUS
  <2>1. TablesTyped /\ Imports \cap MessageTypes = {}
    BY BackofficeConstants DEF TypeOK, TablesTyped, BackofficeConstants
  <2>2. CASE SyncStarts \/ SyncMoves \/ UNCHANGED <<records, import>>
    BY <2>1, <2>2, OthersKept
  <2>3. ASSUME NEW i \in Imports,
               \/ ReadFile(i) \/ CreateSyncRecord(i) \/ CreateAttendance(i) \/ EndImport(i)
        PROVE  \A j \in Imports : ImportSound(j)'
    BY <2>1, <2>3, BackofficeConstants, ReadFileSound, CreateSyncRecordSound,
       CreateAttendanceSound, EndImportSound
  <2>4. QED
    BY <2>2, <2>3 DEF Next, vars, backofficeVars, CatalogStep, Tick, FindIds, FetchStores,
       AskFigures, Answer
<1>3. TypeOK /\ (\A i \in Imports : ImportSound(i)) => ImportIsPrefix
  <2> SUFFICES ASSUME TypeOK, NEW i \in Imports, ImportSound(i)
               PROVE  /\ \A k \in DOMAIN import[i].storeOf :
                            {r \in RecordsFrom(i) : k \in records[r].rows} =
                            {r \in RecordsFrom(i) : k < import[i].next
                                        /\ records[r].store = import[i].storeOf[k]}
                      /\ \A q, r \in RecordsFrom(i) : records[q].store = records[r].store => q = r
                      /\ \A k \in 1 .. import[i].next - 1 :
                            \E r \in RecordsFrom(i) : k \in records[r].rows
    BY DEF ImportIsPrefix
  <2>1. TablesTyped
    BY DEF TypeOK, TablesTyped
  <2>2. /\ import[i].next \in Nat /\ DOMAIN import[i].storeOf = 1 .. Len(import[i].storeOf)
        /\ Len(import[i].storeOf) \in Nat /\ import[i].storeOf \in Seq(Stores)
    BY <2>1, RowsTyped
  <2>3. /\ import[i].next \in 1 .. Len(import[i].storeOf) + 1
        /\ \A r \in RecordsFrom(i) :
              /\ import[i].recordOf[records[r].store] = r
              /\ records[r].rows = {k \in 1 .. import[i].next - 1 :
                                       import[i].storeOf[k] = records[r].store}
        /\ \A s \in Stores : import[i].recordOf[s] # 0 =>
              /\ import[i].recordOf[s] \in RecordsFrom(i)
              /\ records[import[i].recordOf[s]].store = s
        /\ \A k \in 1 .. import[i].next - 1 : import[i].recordOf[import[i].storeOf[k]] # 0
    BY DEF ImportSound
  <2>4. ASSUME NEW k \in DOMAIN import[i].storeOf
        PROVE  {r \in RecordsFrom(i) : k \in records[r].rows} =
               {r \in RecordsFrom(i) : k < import[i].next
                                       /\ records[r].store = import[i].storeOf[k]}
    <3>1. k \in 1 .. import[i].next - 1 <=> k < import[i].next
      BY <2>2, <2>3
    <3>2. QED
      BY <2>3, <3>1
  <2>5. ASSUME NEW q \in RecordsFrom(i), NEW r \in RecordsFrom(i),
               records[q].store = records[r].store
        PROVE  q = r
    BY <2>3, <2>5
  <2>6. ASSUME NEW k \in 1 .. import[i].next - 1
        PROVE  \E r \in RecordsFrom(i) : k \in records[r].rows
    <3>1. PICK s \in Stores : s = import[i].storeOf[k]
      BY <2>2, <2>3
    <3>2. import[i].recordOf[s] \in RecordsFrom(i) /\ records[import[i].recordOf[s]].store = s
      BY <2>3, <3>1
    <3>3. QED
      BY <2>3, <3>1, <3>2
  <2>7. QED
    BY <2>4, <2>5, <2>6
<1>4. QED
  BY <1>1, <1>2, <1>3, BackofficeTypes, PTL DEF Spec

-----------------------------------------------------------------------------
(* Figures.                                                                *)

(* The property holds of the request that is answered; while it is open,   *)
(* what has been counted since the first query still says how many stores  *)
(* there are, and no other figure is beyond that number.                   *)
Within(query) == figures.count[query] <= figures.count["total"]
FiguresSound ==
    /\ figures \in [day : Days \cup {None}, reads : SUBSET Queries,
                    count : [Queries -> Nat], changed : BOOLEAN]
    /\ figures.reads = {} /\ ~figures.changed => \A query \in Queries : Within(query)
    /\ figures.reads # {} /\ ~figures.changed =>
          /\ "total" \notin figures.reads => figures.count["total"] = Cardinality(LiveStores)
          /\ \A query \in Queries \ figures.reads :
                figures.count[query] <= Cardinality(LiveStores)

LEMMA CountBounded ==
    ASSUME CatalogConstants, NEW query \in Queries
    PROVE  /\ Cardinality(LiveStores) \in Nat /\ Count(query) \in Nat
           /\ Count(query) <= Cardinality(LiveStores)
           /\ query = "total" => Count(query) = Cardinality(LiveStores)
<1>1. IsFiniteSet(LiveStores) /\ Cardinality(LiveStores) \in Nat
  <2>1. LiveStores \in SUBSET Stores /\ IsFiniteSet(Stores)
    BY DEF LiveStores, CatalogConstants
  <2>2. QED
    BY <2>1, FS_Subset, FS_CardinalityType
<1>2. PICK counted \in SUBSET LiveStores :
         Count(query) = Cardinality(counted) /\ (query = "total" => counted = LiveStores)
  <2>1. SyncedStores(figures.day) \in SUBSET LiveStores
    BY DEF SyncedStores, SuccessOn
  <2>2. QED
    BY <2>1 DEF Count, Queries
<1>3. Cardinality(counted) \in Nat /\ Cardinality(counted) <= Cardinality(LiveStores)
  BY <1>1, FS_Subset, FS_CardinalityType
<1>4. QED
  BY <1>1, <1>2, <1>3

LEMMA AskSound ==
    ASSUME FiguresSound, AskFigures
    PROVE  FiguresSound'
<1>1. PICK day \in Days : figures' = [figures EXCEPT !.day = day, !.reads = Queries,
                                                    !.changed = FALSE]
  BY DEF AskFigures
<1>2. figures' \in [day : Days \cup {None}, reads : SUBSET Queries,
                    count : [Queries -> Nat], changed : BOOLEAN]
  BY <1>1 DEF FiguresSound
<1>3. figures'.reads = Queries
  BY <1>1 DEF FiguresSound
<1>4. "total" \in Queries
  BY DEF Queries
<1>5. QED
  BY <1>2, <1>3, <1>4 DEF FiguresSound

LEMMA AnswerSound ==
    ASSUME CatalogConstants, FiguresSound, Answer
    PROVE  FiguresSound'
<1>1. PICK query \in figures.reads :
         figures' = [figures EXCEPT !.reads = @ \ {query}, !.count[query] = Count(query)]
  BY DEF Answer
<1>2. UNCHANGED LiveStores
  BY DEF Answer, catalogVars, LiveStores
<1>3. query \in Queries
  BY DEF FiguresSound
<1>4. PICK size \in Nat : size = Cardinality(LiveStores) /\ size = Cardinality(LiveStores)'
  BY <1>2, <1>3, CountBounded
<1>5. PICK n \in Nat : n = Count(query) /\ n <= size /\ (query = "total" => n = size)
  BY <1>3, <1>4, CountBounded
<1>6. PICK count : count = [figures.count EXCEPT ![query] = n]
  OBVIOUS
<1>7. /\ figures'.day = figures.day /\ figures'.reads = figures.reads \ {query}
      /\ figures'.count = count /\ figures'.changed = figures.changed
      /\ figures' \in [day : Days \cup {None}, reads : SUBSET Queries,
                       count : [Queries -> Nat], changed : BOOLEAN]
  BY <1>1, <1>3, <1>5, <1>6 DEF FiguresSound
<1>8. /\ figures.count \in [Queries -> Nat] /\ count \in [Queries -> Nat]
      /\ count[query] = n /\ \A q \in Queries : q # query => count[q] = figures.count[q]
  BY <1>3, <1>6 DEF FiguresSound
<1>9. "total" \in Queries
  BY DEF Queries
<1>10. ASSUME ~figures.changed
       PROVE  /\ "total" \notin figures.reads \ {query} => count["total"] = size
              /\ \A q \in Queries \ (figures.reads \ {query}) : count[q] <= size
  <2>1. /\ "total" \notin figures.reads => figures.count["total"] = size
        /\ \A q \in Queries \ figures.reads : figures.count[q] <= size
    BY <1>1, <1>4, <1>10 DEF FiguresSound
  <2>2. QED
    BY <1>5, <1>8, <1>9, <2>1
<1>11. ASSUME ~figures.changed, figures.reads \ {query} = {}
       PROVE  \A q \in Queries : count[q] <= count["total"]
  BY <1>10, <1>11
<1>12. QED
  BY <1>4, <1>7, <1>10, <1>11 DEF FiguresSound, Within

LEMMA FiguresKept ==
    ASSUME FiguresSound, CatalogStep \/ UNCHANGED <<store, figures>>
    PROVE  FiguresSound'
<1>1. CASE UNCHANGED <<store, figures>>
  BY <1>1 DEF FiguresSound, Within, LiveStores
<1>2. CASE CatalogStep
  <2>1. figures' = [figures EXCEPT !.changed = @ \/ (LiveStores' # LiveStores)]
    BY <1>2 DEF CatalogStep
  <2>2. PICK changed \in BOOLEAN : changed = (figures.changed \/ (LiveStores' # LiveStores))
    BY DEF FiguresSound
  <2>3. /\ figures'.day = figures.day /\ figures'.reads = figures.reads
        /\ figures'.count = figures.count /\ figures'.changed = changed
        /\ figures' \in [day : Days \cup {None}, reads : SUBSET Queries,
                         count : [Queries -> Nat], changed : BOOLEAN]
    BY <2>1, <2>2 DEF FiguresSound
  <2>4. ~changed => ~figures.changed /\ LiveStores' = LiveStores
    BY <2>2
  <2>5. QED
    BY <2>3, <2>4 DEF FiguresSound, Within
<1>3. QED
  BY <1>1, <1>2

(* Whatever syncs, imports and administrators do between the queries of a  *)
(* request, unless they create or remove a store, the figures subtracted   *)
(* from the number of stores are not beyond it.                            *)
THEOREM FiguresAlwaysAddUp == Spec => []FiguresAddUp
<1>1. Init => FiguresSound
  BY DEF Init, FiguresSound, Within, Queries
<1>2. CatalogConstants /\ FiguresSound /\ [Next]_vars => FiguresSound'
  <2> SUFFICES ASSUME CatalogConstants, FiguresSound, [Next]_vars
               PROVE  FiguresSound'
    OBVIOUS
  <2>1. CASE AskFigures
    BY <2>1, AskSound
  <2>2. CASE Answer
    BY <2>2, AnswerSound
  <2>3. CASE CatalogStep \/ UNCHANGED <<store, figures>>
    BY <2>3, FiguresKept
  <2>4. QED
    BY <2>1, <2>2, <2>3 DEF Next, vars, catalogVars, backofficeVars, SyncStarts, SyncMoves,
       Tick, ReadFile, CreateSyncRecord, CreateAttendance, EndImport, FindIds, FetchStores
<1>3. FiguresSound => FiguresAddUp
  BY DEF FiguresSound, FiguresAddUp, Within, Queries
<1>4. QED
  BY <1>1, <1>2, <1>3, CatalogConstants, PTL DEF Spec

-----------------------------------------------------------------------------
(* The page of general records.                                            *)

(* A bounded set of numbers has a largest one.                             *)
LEMMA MaxOfSome ==
    ASSUME NEW n \in Nat, NEW A \in SUBSET (0 .. n), A # {}
    PROVE  Max(A) \in A /\ \A x \in A : x <= Max(A)
<1>1. \A x \in A : n - x \in Nat /\ x \in Nat
  OBVIOUS
<1>2. PICK gaps : gaps = {n - x : x \in A} /\ gaps # {} /\ gaps \in SUBSET Nat
  <2>1. {n - x : x \in A} \in SUBSET Nat /\ {n - x : x \in A} # {}
    BY <1>1
  <2>2. QED
    BY <2>1
<1>3. PICK g \in gaps : \A h \in gaps : g <= h
  BY <1>2, LeastOfSome
<1>4. PICK x \in A : \A y \in A : n - x <= n - y
  BY <1>2, <1>3
<1>5. \A y \in A : x >= y
  BY <1>1, <1>4
<1>6. QED
  BY <1>5 DEF Max

(* A store has no sync record later than its latest.                       *)
LatestSound ==
    \A s \in Stores : /\ Latest(s) \in Nat
                      /\ \A r \in RecordsOf(s) : records[r].at <= Latest(s)
                      /\ Latest(s) = 0 \/ \E r \in RecordsOf(s) : records[r].at = Latest(s)

LEMMA LatestIsSound ==
    ASSUME BackofficeConstants, TablesTyped
    PROVE  LatestSound
<1> SUFFICES ASSUME NEW s \in Stores
             PROVE  /\ Latest(s) \in Nat
                    /\ \A r \in RecordsOf(s) : records[r].at <= Latest(s)
                    /\ Latest(s) = 0 \/ \E r \in RecordsOf(s) : records[r].at = Latest(s)
  BY DEF LatestSound
<1>1. CASE RecordsOf(s) = {}
  BY <1>1 DEF Latest
<1>2. CASE RecordsOf(s) # {}
  <2>1. PICK n \in Nat : DOMAIN DayOf = 1 .. n
    BY DEF BackofficeConstants
  <2>2. \A r \in RecordsOf(s) : records[r].at \in 0 .. n
    <3>1. \A r \in RecordsOf(s) : records[r] \in RecordRow
      BY DEF RecordsOf, TablesTyped
    <3>2. QED
      BY <2>1, <3>1 DEF RecordRow
  <2>3. PICK A \in SUBSET (0 .. n) : A = {records[r].at : r \in RecordsOf(s)}
    BY <2>2
  <2>4. A # {} /\ Latest(s) = Max(A)
    BY <1>2, <2>3 DEF Latest
  <2>5. Max(A) \in A /\ \A x \in A : x <= Max(A)
    BY <2>4, MaxOfSome
  <2>6. PICK last \in A : last = Latest(s) /\ \A x \in A : x <= last
    BY <2>4, <2>5
  <2>7. last \in Nat
    OBVIOUS
  <2>8. QED
    BY <2>3, <2>6, <2>7
<1>3. QED
  BY <1>1, <1>2

(* A record keeps its store and its time, and its status once that is      *)
(* SUCCESS, unless it is one of a SYNC_RECORDS message.                    *)
Stays(r) ==
    /\ r \in DOMAIN records'
    /\ records'[r].store = records[r].store /\ records'[r].at = records[r].at
    /\ records[r].status = "SUCCESS" /\ records[r].from # "SYNC_RECORDS" =>
          records'[r].status = "SUCCESS"

LEMMA RecordsStay ==
    ASSUME TablesTyped, [Next]_vars
    PROVE  \A r \in DOMAIN records : Stays(r)
<1>1. CASE UNCHANGED records
  BY <1>1 DEF Stays
<1>2. ASSUME NEW s, NEW i, Insert(s, i)
      PROVE  \A r \in DOMAIN records : Stays(r)
  BY <1>2, RecordAdded DEF Insert, Stays
<1>3. CASE SyncStarts
  BY <1>2, <1>3 DEF SyncStarts
<1>4. \A r \in DOMAIN records : records[r] \in RecordRow
  BY RowsTyped
<1>5. ASSUME NEW q \in DOMAIN records, NEW new, records' = [records EXCEPT ![q] = new],
             new.store = records[q].store, new.at = records[q].at,
             records[q].status = "SUCCESS" /\ records[q].from # "SYNC_RECORDS" =>
                new.status = "SUCCESS"
      PROVE  \A r \in DOMAIN records : Stays(r)
  <2>1. DOMAIN records' = DOMAIN records
        /\ \A r \in DOMAIN records : records'[r] = IF r = q THEN new ELSE records[r]
    BY <1>5 DEF TablesTyped
  <2>2. QED
    BY <1>5, <2>1 DEF Stays
<1>6. CASE SyncMoves
  <2>1. PICK q \in DOMAIN records, st \in {"PROCESSING", "SUCCESS", "FAILED"} :
           /\ records[q].from \in MessageTypes
           /\ records' = [records EXCEPT ![q].status = st]
           /\ records[q].from = "SYNC_RECORD_CHUNK" =>
                 records[q].status \in {"PENDING", "PROCESSING"}
    BY <1>6, MovedRecord
  <2>2. PICK new : new = [records[q] EXCEPT !.status = st]
    OBVIOUS
  <2>3. new.store = records[q].store /\ new.at = records[q].at
    BY <1>4, <2>2 DEF RecordRow
  <2>4. /\ records' = [records EXCEPT ![q] = new]
        /\ records[q].from # "SYNC_RECORDS" => records[q].status # "SUCCESS"
    BY <2>1, <2>2 DEF MessageTypes
  <2>5. QED
    BY <1>5, <2>3, <2>4
<1>7. ASSUME NEW i \in Imports, CreateSyncRecord(i)
      PROVE  \A r \in DOMAIN records : Stays(r)
  BY <1>2, <1>7 DEF CreateSyncRecord
<1>8. ASSUME NEW i \in Imports, CreateAttendance(i)
      PROVE  \A r \in DOMAIN records : Stays(r)
  <2>1. PICK q, k : records' = [records EXCEPT ![q].rows = @ \cup {k}]
    BY <1>8 DEF CreateAttendance
  <2>2. CASE q \in DOMAIN records
    <3>1. PICK new : new = [records[q] EXCEPT !.rows = @ \cup {k}]
      OBVIOUS
    <3>2. /\ new.store = records[q].store /\ new.at = records[q].at
          /\ new.status = records[q].status
      BY <1>4, <2>2, <3>1 DEF RecordRow
    <3>3. records' = [records EXCEPT ![q] = new]
      BY <2>1, <3>1
    <3>4. QED
      BY <1>5, <2>2, <3>2, <3>3
  <2>3. CASE q \notin DOMAIN records
    <3>1. records' = records
      BY <2>1, <2>3 DEF TablesTyped
    <3>2. QED
      BY <1>1, <3>1
  <2>4. QED
    BY <2>2, <2>3
<1>9. CASE \/ CatalogStep \/ Tick \/ FindIds \/ FetchStores \/ AskFigures \/ Answer
           \/ \E i \in Imports : ReadFile(i) \/ EndImport(i)
           \/ UNCHANGED vars
  BY <1>1, <1>9 DEF CatalogStep, Tick, FindIds, FetchStores, AskFigures, Answer, ReadFile,
     EndImport, vars, backofficeVars
<1>10. QED
  BY <1>3, <1>6, <1>7, <1>8, <1>9 DEF Next

LEMMA LatestGrows ==
    ASSUME TablesTyped, LatestSound, LatestSound', [Next]_vars, NEW s \in Stores
    PROVE  Latest(s) <= Latest(s)'
<1>1. PICK old \in Nat : old = Latest(s)
                         /\ (old = 0 \/ \E r \in RecordsOf(s) : records[r].at = old)
  BY DEF LatestSound
<1>2. PICK new \in Nat : new = Latest(s)' /\ \A r \in RecordsOf(s)' : records'[r].at <= new
  BY DEF LatestSound
<1>3. CASE old = 0
  BY <1>1, <1>2, <1>3
<1>4. CASE \E r \in RecordsOf(s) : records[r].at = old
  <2>1. PICK r \in RecordsOf(s) : records[r].at = old
    BY <1>4
  <2>2. r \in RecordsOf(s)' /\ records'[r].at = old
    BY <2>1, RecordsStay DEF RecordsOf, Stays
  <2>3. QED
    BY <1>1, <1>2, <2>2
<1>5. QED
  BY <1>1, <1>3, <1>4

(* A store that is gone never comes back, and none is unborn again.        *)
LEMMA StoresStay ==
    ASSUME CatalogConstants, CatalogTypeOK, [Next]_vars, NEW s \in Stores, store[s] # Unborn
    PROVE  store'[s] # Unborn /\ (store[s] = Gone => store'[s] = Gone)
<1>1. CASE UNCHANGED store
  BY <1>1
<1>2. ASSUME NEW c \in Calls, CreateStore(c)
      PROVE  store'[s] = store[s]
  BY <1>2 DEF CreateStore, CatalogTypeOK
<1>3. ASSUME NEW r \in LiveStores, NEW row, row # Unborn, store' = [store EXCEPT ![r] = row]
      PROVE  store'[s] # Unborn /\ (store[s] = Gone => store'[s] = Gone)
  BY <1>3 DEF CatalogTypeOK, LiveStores, NoRow
<1>4. \A row \in StoreRow : row # Unborn
  BY DEF CatalogConstants, NoRow
<1>5. ASSUME NEW r \in Stores, UpdateStore(r)
      PROVE  store'[s] # Unborn /\ (store[s] = Gone => store'[s] = Gone)
  BY <1>3, <1>4, <1>5 DEF UpdateStore
<1>6. ASSUME NEW r \in Stores, DeactivateStore(r)
      PROVE  store'[s] # Unborn /\ (store[s] = Gone => store'[s] = Gone)
  <2>1. r \in LiveStores /\ store' = [store EXCEPT ![r] = [store[r] EXCEPT !.status = "inactive"]]
    BY <1>6 DEF DeactivateStore
  <2>2. store[r] \in StoreRow
    BY <2>1 DEF LiveStores, CatalogTypeOK
  <2>3. [store[r] EXCEPT !.status = "inactive"] \in StoreRow
    BY <2>2 DEF StoreRow, Status
  <2>4. QED
    BY <1>3, <1>4, <2>1, <2>3
<1>7. ASSUME NEW r \in Stores, RemoveStore(r)
      PROVE  store'[s] # Unborn /\ (store[s] = Gone => store'[s] = Gone)
  BY <1>3, <1>7 DEF RemoveStore, CatalogConstants
<1>8. CASE CatalogNext
  BY <1>1, <1>2, <1>5, <1>6, <1>7, <1>8 DEF CatalogNext, CheckName, CheckSerial, CreateDevice,
     ReadDevice, DeactivateDevice, GiveUp, UpdateDevice, RemoveDevice, Begins
<1>9. [CatalogNext]_catalogVars
  BY DEF Next, vars, SyncStarts, SyncMoves, CatalogStep, Tick, ReadFile, CreateSyncRecord,
     CreateAttendance, EndImport, FindIds, FetchStores, AskFigures, Answer
<1>10. QED
  BY <1>1, <1>8, <1>9 DEF catalogVars

(* What a request has found are stores, none with a time later than its    *)
(* latest record while it is there.                                        *)
FoundSound(entry) ==
    /\ entry.store \in Stores /\ store[entry.store] # Unborn /\ entry.at \in Nat
    /\ entry.store \in LiveStores => entry.at <= Latest(entry.store)

PageSound ==
    /\ page = [pc |-> page.pc, found |-> page.found, items |-> page.items]
    /\ \E n \in Nat : DOMAIN page.found = 1 .. n
    /\ \A f \in DOMAIN page.found : FoundSound(page.found[f])
    /\ PageShowsNewer

LEMMA FoundStays ==
    ASSUME CatalogConstants, CatalogTypeOK, TablesTyped, LatestSound, LatestSound', [Next]_vars,
           NEW entry, FoundSound(entry)
    PROVE  FoundSound(entry)'
<1>1. entry.store \in Stores /\ store[entry.store] # Unborn /\ entry.at \in Nat
  BY DEF FoundSound
<1>2. store'[entry.store] # Unborn
      /\ (store[entry.store] = Gone => store'[entry.store] = Gone)
  BY <1>1, StoresStay
<1>3. ASSUME entry.store \in LiveStores'
      PROVE  entry.at <= Latest(entry.store)'
  <2>1. entry.store \in LiveStores
    BY <1>1, <1>2, <1>3 DEF LiveStores, NoRow
  <2>2. PICK old \in Nat : old = Latest(entry.store) /\ entry.at <= old
    BY <1>1, <2>1 DEF FoundSound, LatestSound
  <2>3. PICK new \in Nat : new = Latest(entry.store)' /\ old <= new
    BY <1>1, <2>2, LatestGrows DEF LatestSound
  <2>4. QED
    BY <1>1, <2>2, <2>3
<1>4. QED
  BY <1>1, <1>2, <1>3 DEF FoundSound

LEMMA PageKept ==
    ASSUME CatalogConstants, CatalogTypeOK, TablesTyped, LatestSound, LatestSound', [Next]_vars,
           PageSound, UNCHANGED page
    PROVE  PageSound'
<1>1. \A f \in DOMAIN page.found : FoundSound(page.found[f])'
  BY FoundStays DEF PageSound
<1>2. PageShowsNewer'
  <2> SUFFICES ASSUME page.pc = "done"
               PROVE  PageShowsNewer'
    BY DEF PageShowsNewer
  <2>1. PICK fetched \in [DOMAIN page.items -> DOMAIN page.found] :
            /\ \A k, l \in DOMAIN page.items : k < l => fetched[k] < fetched[l]
            /\ \A k \in DOMAIN page.items :
                  /\ page.items[k].store = page.found[fetched[k]].store
                  /\ page.items[k].at >= page.found[fetched[k]].at
            /\ \A f \in DOMAIN page.found \ Range(fetched) :
                  store[page.found[f].store] = Gone
    BY DEF PageSound, PageShowsNewer
  <2>2. \A f \in DOMAIN page.found \ Range(fetched) : store'[page.found[f].store] = Gone
    <3> SUFFICES ASSUME NEW f \in DOMAIN page.found \ Range(fetched)
                 PROVE  store'[page.found[f].store] = Gone
      OBVIOUS
    <3>1. page.found[f].store \in Stores /\ store[page.found[f].store] # Unborn
      BY DEF PageSound, FoundSound
    <3>2. QED
      BY <2>1, <3>1, StoresStay
  <2>3. QED
    BY <2>1, <2>2 DEF PageShowsNewer
<1>3. QED
  BY <1>1, <1>2 DEF PageSound

LEMMA FindIdsSound ==
    ASSUME CatalogConstants, BackofficeConstants, CatalogTypeOK, LatestSound, FindIds
    PROVE  PageSound'
<1>0. PICK kept \in SUBSET LiveStores : \E order \in SetToSeqs(kept) :
         page' = [pc |-> "fetch", items |-> <<>>,
                  found |-> [k \in 1 .. Min({PageSize, Len(order)}) |->
                               [store |-> order[k], at |-> Latest(order[k])]]]
  BY DEF FindIds
<1>1. PICK order \in SetToSeqs(kept) :
         page' = [pc |-> "fetch", items |-> <<>>,
                  found |-> [k \in 1 .. Min({PageSize, Len(order)}) |->
                               [store |-> order[k], at |-> Latest(order[k])]]]
  BY <1>0
<1>2. PICK n \in Nat : n = Min({PageSize, Len(order)}) /\ 1 .. n \subseteq DOMAIN order
  <2>1. kept \in SUBSET Stores
    BY DEF LiveStores
  <2>2. PICK size \in Nat : size = Cardinality(kept)
    BY <2>1, FS_Subset, FS_CardinalityType DEF CatalogConstants
  <2>3. order \in [1 .. size -> kept]
    BY <2>2 DEF SetToSeqs
  <2>4. order \in Seq(kept) /\ Len(order) = size
    BY <2>2, <2>3
  <2>5. PageSize \in Nat
    BY DEF BackofficeConstants
  <2>6. \E m \in {PageSize, size} : \A l \in {PageSize, size} : m <= l
    BY <2>5
  <2>7. PICK n \in {PageSize, size} : n = Min({PageSize, Len(order)}) /\ n <= size
    BY <2>4, <2>6 DEF Min
  <2>8. QED
    BY <2>3, <2>5, <2>7
<1>3. \A k \in DOMAIN order : order[k] \in LiveStores
  BY DEF SetToSeqs
<1>4. UNCHANGED <<store, records>>
  BY DEF FindIds, catalogVars
<1>5. \A s \in Stores : Latest(s)' = Latest(s)
  BY <1>4 DEF Latest, RecordsOf
<1>6. PICK found : found = [k \in 1 .. n |-> [store |-> order[k], at |-> Latest(order[k])]]
  OBVIOUS
<1>7. ASSUME NEW k \in 1 .. n
      PROVE  FoundSound(found[k])'
  <2>1. order[k] \in LiveStores /\ order[k] \in Stores /\ store[order[k]] # Unborn
    BY <1>2, <1>3 DEF LiveStores, NoRow
  <2>2. found[k] = [store |-> order[k], at |-> Latest(order[k])]
    BY <1>6
  <2>3. PICK last \in Nat : last = Latest(order[k]) /\ last = Latest(order[k])'
    BY <1>5, <2>1 DEF LatestSound
  <2>4. found[k].store = order[k] /\ found[k].at = last
    BY <2>2, <2>3
  <2>5. QED
    BY <1>4, <2>1, <2>3, <2>4 DEF FoundSound
<1>8. page' = [pc |-> "fetch", items |-> <<>>, found |-> found]
  BY <1>1, <1>2, <1>6
<1>9. page'.pc = "fetch" /\ page'.found = found /\ page'.items = <<>> /\ DOMAIN found = 1 .. n
  BY <1>6, <1>8
<1>10. QED
  BY <1>7, <1>8, <1>9 DEF PageSound, PageShowsNewer

LEMMA FetchSound ==
    ASSUME CatalogTypeOK, LatestSound, PageSound, FetchStores
    PROVE  PageSound'
<1> DEFINE there == {f \in DOMAIN page.found : page.found[f].store \in LiveStores}
<1>1. PICK n \in Nat : DOMAIN page.found = 1 .. n
  BY DEF PageSound
<1>2. there \in SUBSET (1 .. n)
  BY <1>1
<1>3. PICK kept : kept = Kept(page.found, there)
  OBVIOUS
<1>4. PICK items : /\ items = [k \in DOMAIN kept |-> [store |-> kept[k].store,
                                                      at |-> Latest(kept[k].store)]]
                   /\ page' = [page EXCEPT !.pc = "done", !.items = items]
  BY <1>3 DEF FetchStores, FetchedRecord
<1>5. page'.pc = "done" /\ page'.found = page.found /\ page'.items = items
      /\ page' = [pc |-> page'.pc, found |-> page'.found, items |-> page'.items]
  BY <1>4 DEF PageSound
<1>6. UNCHANGED <<store, records>>
  BY DEF FetchStores, catalogVars
<1>7. \A f \in DOMAIN page.found : FoundSound(page.found[f])'
  <2> HIDE DEF there
  <2>1. LiveStores' = LiveStores /\ \A s : Latest(s)' = Latest(s)
    BY <1>6 DEF LiveStores, Latest, RecordsOf
  <2>2. ASSUME NEW entry, FoundSound(entry)
        PROVE  FoundSound(entry)'
    BY <1>6, <2>1, <2>2 DEF FoundSound
  <2>3. QED
    BY <1>5, <2>2 DEF PageSound
<1>8. PageShowsNewer'
  <2> HIDE DEF there
  <2>1. PICK size \in Nat : size = Cardinality(there)
    BY <1>2, NthInOrder
  <2>2. /\ \A k \in 1 .. size : Nth(there, k) \in there
        /\ \A k, l \in 1 .. size : k < l => Nth(there, k) < Nth(there, l)
        /\ \A m \in there : \E k \in 1 .. size : Nth(there, k) = m
    BY <1>2, <2>1, NthInOrder
  <2>3. PICK fetched : fetched = [k \in 1 .. size |-> Nth(there, k)]
    OBVIOUS
  <2>k. DOMAIN kept = 1 .. size
        /\ \A k \in 1 .. size : kept[k] = page.found[Nth(there, k)]
    BY <1>3, <2>1 DEF Kept
  <2>4. DOMAIN items = 1 .. size /\ DOMAIN fetched = 1 .. size
    BY <1>4, <2>k, <2>3
  <2>5. \A f \in there : f \in DOMAIN page.found /\ page.found[f].store \in LiveStores
    BY DEF there
  <2>6. fetched \in [1 .. size -> DOMAIN page.found]
    BY <2>2, <2>3, <2>5
  <2>7. \A k, l \in 1 .. size : k < l => fetched[k] < fetched[l]
    BY <2>2, <2>3
  <2>8. ASSUME NEW k \in 1 .. size
        PROVE  /\ items[k].store = page.found[fetched[k]].store
               /\ items[k].at >= page.found[fetched[k]].at
    <3>1. PICK f \in there : f = fetched[k] /\ f = Nth(there, k)
      BY <2>2, <2>3
    <3>2. items[k] = [store |-> page.found[f].store, at |-> Latest(page.found[f].store)]
      BY <1>4, <2>k, <3>1
    <3>3. FoundSound(page.found[f]) /\ page.found[f].store \in LiveStores
      BY <2>5 DEF PageSound
    <3>4. PICK last \in Nat : last = Latest(page.found[f].store) /\ page.found[f].at <= last
      BY <3>3 DEF FoundSound, LatestSound
    <3>5. page.found[f].at \in Nat /\ items[k].at = last
      BY <3>2, <3>3, <3>4 DEF FoundSound
    <3>6. QED
      BY <3>1, <3>2, <3>4, <3>5
  <2>9. ASSUME NEW f \in DOMAIN page.found \ Range(fetched)
        PROVE  store'[page.found[f].store] = Gone
    <3>1. f \notin there
      BY <2>2, <2>3, <2>4, <2>9 DEF Range
    <3>2. page.found[f].store \notin LiveStores
      BY <3>1 DEF there
    <3>3. QED
      BY <1>6, <3>2 DEF PageSound, FoundSound, LiveStores, NoRow
  <2>10. QED
    BY <1>5, <2>4, <2>6, <2>7, <2>8, <2>9 DEF PageShowsNewer
<1>9. QED
  BY <1>1, <1>5, <1>7, <1>8 DEF PageSound

(* Whatever is synced, imported or removed between the two queries of a    *)
(* page, it shows the stores it has found in their order, those that were  *)
(* removed aside, and no record older than the one it was sorted by.       *)
THEOREM PagesShowNewer == Spec => []PageShowsNewer
<1>1. Init => PageSound
  <2> SUFFICES ASSUME Init
               PROVE  PageSound
    OBVIOUS
  <2>1. page = [pc |-> "idle", found |-> <<>>, items |-> <<>>]
    BY DEF Init
  <2>2. page.pc = "idle" /\ page.found = <<>> /\ page.items = <<>>
    BY <2>1
  <2>3. DOMAIN page.found = 1 .. 0 /\ \A f \in DOMAIN page.found : FALSE
    BY <2>2
  <2>4. QED
    BY <2>1, <2>2, <2>3 DEF PageSound, PageShowsNewer
<1>2. CatalogTypeOK /\ TablesTyped /\ LatestSound /\ LatestSound' /\ PageSound /\ [Next]_vars
         => PageSound'
  <2> SUFFICES ASSUME CatalogTypeOK, TablesTyped, LatestSound, LatestSound', PageSound,
                      [Next]_vars
               PROVE  PageSound'
    OBVIOUS
  <2>1. CASE FindIds
    BY <2>1, CatalogConstants, BackofficeConstants, FindIdsSound
  <2>2. CASE FetchStores
    BY <2>2, FetchSound
  <2>3. CASE UNCHANGED page
    BY <2>3, CatalogConstants, PageKept
  <2>4. QED
    BY <2>1, <2>2, <2>3 DEF Next, vars, backofficeVars, SyncStarts, SyncMoves, CatalogStep,
       Tick, ReadFile, CreateSyncRecord, CreateAttendance, EndImport, AskFigures, Answer
<1>3. TypeOK => CatalogTypeOK /\ TablesTyped
  BY DEF TypeOK, TablesTyped
<1>4. TablesTyped => LatestSound
  BY BackofficeConstants, LatestIsSound
<1>5. PageSound => PageShowsNewer
  BY DEF PageSound
<1>6. QED
  BY <1>1, <1>2, <1>3, <1>4, <1>5, BackofficeTypes, PTL DEF Spec

-----------------------------------------------------------------------------
(* The report.                                                             *)

(* What findLatestAttempt has reached after each of n attempts; it is the  *)
(* latest of them.                                                         *)
Running(attempts, n, latest) ==
    latest = [k \in 1 .. n |->
                IF k = 1 \/ attempts[k].at >= latest[k - 1].at THEN attempts[k]
                ELSE latest[k - 1]]

LEMMA RunningExists ==
    ASSUME NEW attempts, NEW n \in Nat
    PROVE  \E latest : Running(attempts, n, latest)
<1> DEFINE without == {m \in Nat : ~ \E latest : Running(attempts, m, latest)}
<1>1. SUFFICES ASSUME without # {}
               PROVE  FALSE
  OBVIOUS
<1>2. PICK m \in without : \A x \in without : m <= x
  BY <1>1, LeastOfSome
<1>3. m \in Nat /\ ~ \E latest : Running(attempts, m, latest)
  OBVIOUS
<1>4. CASE m = 0
  <2>1. Running(attempts, 0, [k \in 1 .. 0 |-> attempts[k]])
    BY DEF Running
  <2>2. QED
    BY <1>3, <1>4, <2>1
<1>5. CASE m # 0
  <2>1. m - 1 \in Nat /\ m - 1 \notin without
    BY <1>2, <1>3, <1>5
  <2>2. PICK latest : Running(attempts, m - 1, latest)
    BY <2>1
  <2>3. PICK next : next = [k \in 1 .. m |->
                              IF k = 1 \/ attempts[k].at >= latest[k - 1].at
                              THEN attempts[k] ELSE latest[k - 1]]
    OBVIOUS
  <2>4. \A k \in 1 .. m - 1 : next[k] = latest[k]
    BY <1>3, <2>2, <2>3 DEF Running
  <2>5. \A k \in 1 .. m : k # 1 => latest[k - 1] = next[k - 1]
    <3> SUFFICES ASSUME NEW k \in 1 .. m, k # 1
                 PROVE  latest[k - 1] = next[k - 1]
      OBVIOUS
    <3>1. k - 1 \in 1 .. m - 1
      BY <1>3
    <3>2. QED
      BY <2>4, <3>1
  <2>6. \A k \in 1 .. m : next[k] = IF k = 1 \/ attempts[k].at >= next[k - 1].at
                                    THEN attempts[k] ELSE next[k - 1]
    BY <2>3, <2>5
  <2>7. Running(attempts, m, next)
    BY <2>3, <2>6 DEF Running
  <2>8. QED
    BY <1>3, <2>7
<1>6. QED
  BY <1>4, <1>5

(* One attempt that is not earlier than any other up to m.                 *)
LatestUpTo(attempts, m, attempt) ==
    \E i \in 1 .. m : /\ attempt = attempts[i]
                      /\ \A j \in 1 .. m : attempts[j].at <= attempts[i].at

LEMMA RunningIsLatest ==
    ASSUME NEW attempts, NEW n \in Nat, NEW latest, Running(attempts, n, latest),
           \A k \in 1 .. n : attempts[k].at \in Nat
    PROVE  \A m \in 1 .. n : LatestUpTo(attempts, m, latest[m])
<1> DEFINE wrong == {m \in 1 .. n : ~ LatestUpTo(attempts, m, latest[m])}
<1>1. SUFFICES ASSUME wrong # {}
               PROVE  FALSE
  OBVIOUS
<1>2. PICK m \in wrong : \A x \in wrong : m <= x
  <2>1. wrong \in SUBSET Nat
    OBVIOUS
  <2> HIDE DEF wrong
  <2>2. QED
    BY <1>1, <2>1, LeastOfSome
<1>3. m \in 1 .. n /\ m \in Nat /\ ~ LatestUpTo(attempts, m, latest[m])
  OBVIOUS
<1>4. latest[m] = IF m = 1 \/ attempts[m].at >= latest[m - 1].at
                  THEN attempts[m] ELSE latest[m - 1]
  BY <1>3 DEF Running
<1>5. CASE m = 1
  BY <1>3, <1>4, <1>5 DEF LatestUpTo
<1>6. CASE m # 1
  <2>1. m - 1 \in 1 .. n /\ m - 1 \notin wrong
    BY <1>2, <1>3, <1>6
  <2>2. PICK i \in 1 .. m - 1 : /\ latest[m - 1] = attempts[i]
                                /\ \A j \in 1 .. m - 1 : attempts[j].at <= attempts[i].at
    BY <2>1 DEF LatestUpTo
  <2>3. \A j \in 1 .. m : j = m \/ j \in 1 .. m - 1
    BY <1>3
  <2>4. attempts[m].at \in Nat /\ attempts[i].at \in Nat /\ i \in 1 .. m /\ m \in 1 .. m
    BY <1>3, <2>2
  <2>5. CASE attempts[m].at >= attempts[i].at
    <3>1. latest[m] = attempts[m]
      BY <1>4, <2>2, <2>5
    <3>2. \A j \in 1 .. m - 1 : attempts[j].at \in Nat
      BY <1>3
    <3>3. \A j \in 1 .. m : attempts[j].at <= attempts[m].at
      BY <2>2, <2>3, <2>4, <2>5, <3>2
    <3>4. QED
      BY <1>3, <2>4, <3>1, <3>3 DEF LatestUpTo
  <2>6. CASE ~ (attempts[m].at >= attempts[i].at)
    <3>1. latest[m] = attempts[i]
      BY <1>4, <1>6, <2>2, <2>6
    <3>2. \A j \in 1 .. m : attempts[j].at <= attempts[i].at
      BY <2>2, <2>3, <2>4, <2>6
    <3>3. QED
      BY <1>3, <2>4, <3>1, <3>2 DEF LatestUpTo
  <2>7. QED
    BY <2>5, <2>6
<1>7. QED
  BY <1>5, <1>6

(* The attempts of a sequence, without their order.                        *)
LEMMA RowsOf ==
    ASSUME BackofficeConstants, NEW attempts \in Seq(RecordRow)
    PROVE  /\ Len(attempts) \in Nat /\ DOMAIN attempts = 1 .. Len(attempts)
           /\ \A k \in 1 .. Len(attempts) : attempts[k] \in RecordRow /\ attempts[k].at \in Nat
           /\ attempts = <<>> <=> Range(attempts) = {}
           /\ Range(attempts) = {attempts[k] : k \in 1 .. Len(attempts)}
           /\ Range(attempts) \in SUBSET RecordRow
           /\ \A a \in RecordRow : a.at \in Nat
<1>1. Len(attempts) \in Nat /\ DOMAIN attempts = 1 .. Len(attempts)
      /\ \A k \in 1 .. Len(attempts) : attempts[k] \in RecordRow
  OBVIOUS
<1>2. DOMAIN DayOf \in SUBSET Nat
  BY DEF BackofficeConstants
<1>3. \A a \in RecordRow : a.at \in Nat
  BY <1>2 DEF RecordRow
<1>4. Range(attempts) = {attempts[k] : k \in 1 .. Len(attempts)}
  BY <1>1 DEF Range
<1>5. attempts = <<>> <=> Range(attempts) = {}
  <2>1. attempts = <<>> <=> Len(attempts) = 0
    OBVIOUS
  <2>2. Len(attempts) # 0 <=> 1 \in 1 .. Len(attempts)
    BY <1>1
  <2>3. Len(attempts) = 0 => \A k : k \notin 1 .. Len(attempts)
    OBVIOUS
  <2>4. QED
    BY <1>4, <2>1, <2>2, <2>3
<1>6. QED
  BY <1>1, <1>3, <1>4, <1>5

LEMMA LatestIs ==
    ASSUME BackofficeConstants, NEW attempts \in Seq(RecordRow), attempts # <<>>
    PROVE  \E a \in Range(attempts) : /\ LatestAttempt(attempts) = a
                                      /\ \A b \in Range(attempts) : b.at <= a.at
<1>1. PICK n \in Nat : n = Len(attempts) /\ n # 0
  BY RowsOf
<1>2. PICK latest : /\ latest = CHOOSE f : Running(attempts, Len(attempts), f)
                    /\ Running(attempts, n, latest)
  BY <1>1, RunningExists
<1>3. LatestAttempt(attempts) = latest[n]
  BY <1>1, <1>2 DEF LatestAttempt, Running
<1>4. n \in 1 .. n
  BY <1>1
<1>5. \A k \in 1 .. n : attempts[k].at \in Nat
  BY <1>1, RowsOf
<1>6. LatestUpTo(attempts, n, latest[n])
  BY <1>2, <1>4, <1>5, RunningIsLatest
<1>7. QED
  BY <1>1, <1>3, <1>6, RowsOf DEF LatestUpTo

LEMMA KeptIs ==
    ASSUME BackofficeConstants, NEW attempts \in Seq(RecordRow), NEW S \in SUBSET (DOMAIN attempts)
    PROVE  /\ Kept(attempts, S) \in Seq(RecordRow)
           /\ Range(Kept(attempts, S)) = {attempts[k] : k \in S}
<1>1. PICK n \in Nat : n = Len(attempts) /\ DOMAIN attempts = 1 .. n
  BY RowsOf
<1>2. PICK size \in Nat : size = Cardinality(S)
  BY <1>1, NthInOrder
<1>3. /\ \A k \in 1 .. size : Nth(S, k) \in S
      /\ \A m \in S : \E k \in 1 .. size : Nth(S, k) = m
  <2>1. S \in SUBSET (1 .. n)
    BY <1>1
  <2>2. \A k \in 1 .. Cardinality(S) : Nth(S, k) \in S
    BY <2>1, NthInOrder
  <2>3. \A m \in S : \E k \in 1 .. Cardinality(S) : Nth(S, k) = m
    BY <2>1, NthInOrder
  <2>4. QED
    BY <1>2, <2>2, <2>3
<1>4. Kept(attempts, S) = [k \in 1 .. size |-> attempts[Nth(S, k)]]
  BY <1>2 DEF Kept
<1>5. \A k \in 1 .. size : attempts[Nth(S, k)] \in RecordRow
  BY <1>1, <1>3, RowsOf
<1>6. Kept(attempts, S) \in Seq(RecordRow)
  <2>1. Kept(attempts, S) \in [1 .. size -> RecordRow]
    BY <1>4, <1>5
  <2>2. QED
    BY <1>2, <2>1
<1>7. Range(Kept(attempts, S)) = {attempts[k] : k \in S}
  BY <1>3, <1>4 DEF Range
<1>8. QED
  BY <1>6, <1>7

(* Of a set of attempts, those that decide, and what is reported of it.    *)
With(A, st) == {a \in A : a.status = st}
DecisiveOf(A) ==
    IF With(A, "SUCCESS") # {} THEN With(A, "SUCCESS")
    ELSE IF With(A, "PROCESSING") # {} THEN With(A, "PROCESSING")
    ELSE A

Reports(row, A) ==
    /\ A = {} => row = [syncStatus |-> "Pending", syncedAt |-> 0]
    /\ A # {} => \E a \in DecisiveOf(A) :
          row = Shown(a) /\ \A b \in DecisiveOf(A) : b.at <= a.at

LEMMA DecisiveIs ==
    ASSUME BackofficeConstants, NEW attempts \in Seq(RecordRow)
    PROVE  /\ Decisive(attempts) \in Seq(RecordRow)
           /\ Range(Decisive(attempts)) = DecisiveOf(Range(attempts))
<1> DEFINE at(st) == {k \in DOMAIN attempts : attempts[k].status = st}
<1>1. ASSUME NEW st
      PROVE  /\ Kept(attempts, at(st)) \in Seq(RecordRow)
             /\ Range(Kept(attempts, at(st))) = With(Range(attempts), st)
             /\ at(st) = {} <=> With(Range(attempts), st) = {}
  <2>1. at(st) \in SUBSET (DOMAIN attempts)
    OBVIOUS
  <2>2. With(Range(attempts), st) = {attempts[k] : k \in at(st)}
    BY DEF With, Range
  <2>3. PICK S : S = at(st)
    OBVIOUS
  <2>4. S \in SUBSET (DOMAIN attempts)
    BY <2>1, <2>3
  <2>5. /\ Kept(attempts, S) \in Seq(RecordRow)
        /\ Range(Kept(attempts, S)) = {attempts[k] : k \in S}
    BY <2>4, KeptIs
  <2> HIDE DEF at
  <2>6. QED
    BY <2>2, <2>3, <2>5
<1>2. Decisive(attempts) = IF at("SUCCESS") # {} THEN Kept(attempts, at("SUCCESS"))
                           ELSE IF at("PROCESSING") # {} THEN Kept(attempts, at("PROCESSING"))
                           ELSE attempts
  BY DEF Decisive
<1> HIDE DEF at
<1>3. QED
  BY <1>1, <1>2 DEF DecisiveOf

LEMMA ReportIs ==
    ASSUME BackofficeConstants, NEW attempts \in Seq(RecordRow)
    PROVE  Reports(ReportRow(attempts), Range(attempts))
<1>1. CASE attempts = <<>>
  BY <1>1, RowsOf DEF Reports, ReportRow
<1>2. CASE attempts # <<>>
  <2>1. PICK decisive \in Seq(RecordRow) : decisive = Decisive(attempts)
                                           /\ Range(decisive) = DecisiveOf(Range(attempts))
    BY DecisiveIs
  <2>2. Range(attempts) # {} /\ DecisiveOf(Range(attempts)) # {}
    BY <1>2, RowsOf DEF DecisiveOf
  <2>3. decisive # <<>>
    BY <2>1, <2>2, RowsOf
  <2>4. PICK a \in Range(decisive) : /\ LatestAttempt(decisive) = a
                                     /\ \A b \in Range(decisive) : b.at <= a.at
    BY <2>3, LatestIs
  <2>5. ReportRow(attempts) = Shown(a)
    BY <1>2, <2>1, <2>4 DEF ReportRow
  <2>6. QED
    BY <2>1, <2>2, <2>4, <2>5 DEF Reports
<1>3. QED
  BY <1>1, <1>2

(* The attempts decide, not their order.                                   *)
LEMMA ReportsOnce ==
    ASSUME BackofficeConstants, NEW A \in SUBSET RecordRow, NEW row, NEW other,
           Reports(row, A), Reports(other, A)
    PROVE  row = other
<1>1. CASE A = {}
  BY <1>1 DEF Reports
<1>2. CASE A # {}
  <2>1. PICK a \in DecisiveOf(A) : row = Shown(a) /\ \A c \in DecisiveOf(A) : c.at <= a.at
    BY <1>2 DEF Reports
  <2>2. PICK b \in DecisiveOf(A) : other = Shown(b) /\ \A c \in DecisiveOf(A) : c.at <= b.at
    BY <1>2 DEF Reports
  <2>3. a \in RecordRow /\ b \in RecordRow
    BY DEF DecisiveOf, With
  <2>4. a.at \in Nat /\ b.at \in Nat
    <3>1. DOMAIN DayOf \in SUBSET Nat
      BY DEF BackofficeConstants
    <3>2. QED
      BY <2>3, <3>1 DEF RecordRow
  <2>5. a.at = b.at
    BY <2>1, <2>2, <2>4
  <2>6. Shown(a).syncStatus = Shown(b).syncStatus
    BY DEF Shown, DecisiveOf, With
  <2>7. QED
    BY <2>1, <2>2, <2>5, <2>6 DEF Shown
<1>3. QED
  BY <1>1, <1>2

(* Whatever the order in which the database returns the attempts, the set  *)
(* of them is the same.                                                    *)
AttemptRows(s, day) == {records[r] : r \in AttemptsOf(s, day)}

LEMMA ReturnedIs ==
    ASSUME BackofficeConstants, TablesTyped, NEW s, NEW day,
           NEW order \in SetToSeqs(AttemptsOf(s, day))
    PROVE  /\ Returned(order) \in Seq(RecordRow)
           /\ Range(Returned(order)) = AttemptRows(s, day)
<1>1. PICK A : A = AttemptsOf(s, day) /\ A \in SUBSET (DOMAIN records)
  BY DEF AttemptsOf, RecordsOf
<1>2. PICK n \in Nat : DOMAIN records = 1 .. n
  BY RowsTyped
<1>3. IsFiniteSet(A)
  BY <1>1, <1>2, FS_Interval, FS_Subset
<1>4. PICK size \in Nat : size = Cardinality(A)
  BY <1>3, FS_CardinalityType
<1>5. order \in [1 .. size -> A] /\ \A i, j \in 1 .. size : i # j => order[i] # order[j]
  BY <1>1, <1>4 DEF SetToSeqs
<1>6. \A a \in A : \E k \in 1 .. size : order[k] = a
  <2>1. order \in Injection(1 .. size, A)
    BY <1>5 DEF Injection, IsInjective
  <2>2. Cardinality(1 .. size) = size
    BY FS_Interval
  <2>3. order \in Surjection(1 .. size, A)
    BY <1>3, <1>4, <2>1, <2>2, FS_Injection
  <2>4. QED
    BY <2>3 DEF Surjection
<1>7. Returned(order) = [k \in 1 .. size |-> records[order[k]]]
  BY <1>5 DEF Returned
<1>8. \A k \in 1 .. size : records[order[k]] \in RecordRow
  BY <1>1, <1>5, RowsTyped
<1>9. Returned(order) \in [1 .. size -> RecordRow]
  BY <1>7, <1>8
<1>10. Returned(order) \in Seq(RecordRow)
  BY <1>4, <1>9
<1>11. Range(Returned(order)) = AttemptRows(s, day)
  BY <1>1, <1>5, <1>6, <1>7 DEF Range, AttemptRows
<1>12. QED
  BY <1>10, <1>11

(* Of all attempts of a store and a day the report is what it should be.   *)
ReportSound ==
    \A s \in Stores, day \in Days : Reports(Reported(s, day), AttemptRows(s, day))

LEMMA ReportIsSound ==
    ASSUME BackofficeConstants, TablesTyped
    PROVE  ReportSound
<1> SUFFICES ASSUME NEW s \in Stores, NEW day \in Days
             PROVE  Reports(Reported(s, day), AttemptRows(s, day))
  BY DEF ReportSound
<1>1. AttemptsOf(s, day) \in SUBSET (DOMAIN records) /\ records \in Seq(RecordRow)
  BY DEF AttemptsOf, RecordsOf, TablesTyped
<1>2. /\ Kept(records, AttemptsOf(s, day)) \in Seq(RecordRow)
      /\ Range(Kept(records, AttemptsOf(s, day))) = AttemptRows(s, day)
  BY <1>1, KeptIs DEF AttemptRows
<1>3. QED
  BY <1>2, ReportIs DEF Reported

(* The report does not depend on the order of the attempts.                *)
THEOREM ReportsAreOrderFree == Spec => []ReportOrderFree
<1>1. TablesTyped => ReportOrderFree
  <2> SUFFICES ASSUME TablesTyped, NEW s \in LiveStores, NEW day \in Days,
                      NEW order \in SetToSeqs(AttemptsOf(s, day))
               PROVE  ReportRow(Returned(order)) = Reported(s, day)
    BY DEF ReportOrderFree
  <2>1. Reports(ReportRow(Returned(order)), AttemptRows(s, day))
    BY BackofficeConstants, ReturnedIs, ReportIs
  <2>2. Reports(Reported(s, day), AttemptRows(s, day))
    BY BackofficeConstants, ReportIsSound DEF ReportSound, LiveStores
  <2>3. AttemptRows(s, day) \in SUBSET RecordRow
    BY RowsTyped DEF AttemptRows, AttemptsOf, RecordsOf
  <2>4. QED
    BY <2>1, <2>2, <2>3, BackofficeConstants, ReportsOnce
<1>2. TypeOK => TablesTyped
  BY DEF TypeOK, TablesTyped
<1>3. QED
  BY <1>1, <1>2, BackofficeTypes, PTL

(* A success is shown, at its time or a later one.                         *)
SuccessShown ==
    \A s \in Stores, day \in Days : \A r \in AttemptsOf(s, day) :
        records[r].status = "SUCCESS" => SyncedSince(Reported(s, day), records[r].at)

LEMMA SuccessIsShown ==
    ASSUME BackofficeConstants, TablesTyped
    PROVE  SuccessShown
<1> SUFFICES ASSUME NEW s \in Stores, NEW day \in Days, NEW r \in AttemptsOf(s, day),
                    records[r].status = "SUCCESS"
             PROVE  SyncedSince(Reported(s, day), records[r].at)
  BY DEF SuccessShown
<1>1. PICK A : A = AttemptRows(s, day) /\ records[r] \in A /\ Reports(Reported(s, day), A)
  BY ReportIsSound DEF ReportSound, AttemptRows
<1>2. records[r] \in With(A, "SUCCESS") /\ DecisiveOf(A) = With(A, "SUCCESS")
  BY <1>1 DEF With, DecisiveOf
<1>3. PICK b \in With(A, "SUCCESS") : Reported(s, day) = Shown(b) /\ records[r].at <= b.at
  BY <1>1, <1>2 DEF Reports
<1>4. b.at \in Nat /\ records[r].at \in Nat
  <2>1. b \in RecordRow /\ records[r] \in RecordRow
    BY <1>1, <1>2, RowsTyped DEF With, AttemptRows, AttemptsOf, RecordsOf
  <2>2. DOMAIN DayOf \in SUBSET Nat
    BY DEF BackofficeConstants
  <2>3. QED
    BY <2>1, <2>2 DEF RecordRow
<1>5. QED
  BY <1>3, <1>4 DEF SyncedSince, Shown, With

(* A day that is reported as synced stays so, and its time does not go     *)
(* back, unless a SYNC_RECORDS message takes back the attempt that was     *)
(* reported; a success whose chunks were messages stays reported whatever  *)
(* such a message does.                                                    *)
THEOREM SuccessStaysReported == Spec => ReportedSuccessStays
<1> DEFINE Justified(s, day) ==
       Reported(s, day).syncStatus = "Success" =>
          \/ SyncedSince(Reported(s, day)', Reported(s, day).syncedAt)
          \/ \E r \in Succeeded(s, day, "SYNC_RECORDS") :
                /\ records[r].at = Reported(s, day).syncedAt
                /\ records'[r].status # "SUCCESS"
    Lasting(s, day) ==
       \A r \in Succeeded(s, day, "SYNC_RECORD_CHUNK") :
          SyncedSince(Reported(s, day)', records[r].at)
<1>1. ASSUME TablesTyped, ReportSound, SuccessShown', [Next]_vars,
             NEW s \in LiveStores, NEW day \in Days
      PROVE  Justified(s, day) /\ Lasting(s, day)
  <2>1. s \in Stores
    BY DEF LiveStores
  <2>2. ASSUME NEW r \in AttemptsOf(s, day), records'[r].status = "SUCCESS"
        PROVE  SyncedSince(Reported(s, day)', records[r].at)
    <3>1. r \in AttemptsOf(s, day)' /\ records'[r].at = records[r].at
      BY <1>1, RecordsStay DEF AttemptsOf, RecordsOf, Stays
    <3>2. QED
      BY <1>1, <2>1, <2>2, <3>1 DEF SuccessShown
  <2>3. ASSUME NEW r \in AttemptsOf(s, day), records[r].status = "SUCCESS",
               records[r].from # "SYNC_RECORDS"
        PROVE  SyncedSince(Reported(s, day)', records[r].at)
    BY <1>1, <2>2, <2>3, RecordsStay DEF AttemptsOf, RecordsOf, Stays
  <2>4. ASSUME Reported(s, day).syncStatus = "Success"
        PROVE  \E r \in AttemptsOf(s, day) :
                  records[r].status = "SUCCESS" /\ records[r].at = Reported(s, day).syncedAt
    <3>1. PICK A : A = AttemptRows(s, day) /\ Reports(Reported(s, day), A)
      BY <1>1, <2>1 DEF ReportSound
    <3>2. A # {}
      BY <2>4, <3>1 DEF Reports
    <3>3. PICK a \in DecisiveOf(A) : Reported(s, day) = Shown(a)
      BY <3>1, <3>2 DEF Reports
    <3>4. a.status = "SUCCESS" /\ a.at = Reported(s, day).syncedAt
      BY <2>4, <3>3 DEF Shown
    <3>5. a \in A
      BY <3>3 DEF DecisiveOf, With
    <3>6. QED
      BY <3>1, <3>4, <3>5 DEF AttemptRows
  <2>5. Justified(s, day)
    <3>1. SUFFICES ASSUME Reported(s, day).syncStatus = "Success",
                          ~SyncedSince(Reported(s, day)', Reported(s, day).syncedAt)
                   PROVE  \E r \in Succeeded(s, day, "SYNC_RECORDS") :
                             /\ records[r].at = Reported(s, day).syncedAt
                             /\ records'[r].status # "SUCCESS"
      OBVIOUS
    <3>2. PICK r \in AttemptsOf(s, day) :
             records[r].status = "SUCCESS" /\ records[r].at = Reported(s, day).syncedAt
      BY <2>4, <3>1
    <3>3. records'[r].status # "SUCCESS" /\ records[r].from = "SYNC_RECORDS"
      BY <2>2, <2>3, <3>1, <3>2
    <3>4. QED
      BY <3>2, <3>3 DEF Succeeded
  <2>6. Lasting(s, day)
    BY <2>3 DEF Succeeded
  <2>7. QED
    BY <2>5, <2>6
<1>2. TablesTyped /\ ReportSound /\ SuccessShown' /\ [Next]_vars =>
        [records' # records => \A s \in LiveStores \cap LiveStores', day \in Days :
            LET before == Reported(s, day)
                after  == Reported(s, day)'
            IN
            /\ before.syncStatus = "Success" =>
                  \/ SyncedSince(after, before.syncedAt)
                  \/ \E r \in Succeeded(s, day, "SYNC_RECORDS") :
                        records[r].at = before.syncedAt /\ records'[r].status # "SUCCESS"
            /\ \A r \in Succeeded(s, day, "SYNC_RECORD_CHUNK") :
                  SyncedSince(after, records[r].at)]_vars
  BY <1>1
<1>3. TablesTyped => ReportSound /\ SuccessShown
  BY BackofficeConstants, ReportIsSound, SuccessIsShown
<1>4. TypeOK => TablesTyped
  BY DEF TypeOK, TablesTyped
<1>5. QED
  BY <1>2, <1>3, <1>4, BackofficeTypes, PTL DEF ReportedSuccessStays, Spec
=============================================================================
