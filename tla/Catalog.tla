-------------------------------- MODULE Catalog -------------------------------
(***************************************************************************)
(* StoreService and DeviceService: the stores, the devices they own, and   *)
(* the administrators' calls that change them, any number at a time.       *)
(*                                                                         *)
(* An id is never given twice, so that a row is unborn, there, or gone.    *)
(* A call whose last check and write cannot disagree, because the write    *)
(* fails for a row or a foreign key that is gone, is one step; a call that *)
(* only throws is none.  The columns left out are never compared.          *)
(***************************************************************************)
EXTENDS Naturals, FiniteSets

CONSTANTS
    Stores, Devices, Names, Serials,
    Calls,        \* calls that may be between their check and their write
    None, Unborn, Gone,
    Budgets       \* bound: how often each kind of operation may happen

(* What is bounded; the last two are the sync records of either origin.    *)
Kinds == {"stores", "devices", "imports", "pages", "figures",
          "SYNC_RECORD_CHUNK", "SYNC_RECORDS"}

Status == {"active", "inactive"}
StoreRow == [name : Names, status : Status]
DeviceRow == [serial : Serials, store : Stores, status : Status]
NoRow == {Unborn, Gone}

ASSUME CatalogConstants ==
    /\ IsFiniteSet(Calls) /\ IsFiniteSet(Devices) /\ IsFiniteSet(Stores)
    /\ Unborn # Gone /\ NoRow \cap (StoreRow \cup DeviceRow) = {}
    /\ Budgets \subseteq [Kinds -> Nat]

VARIABLES
    store,        \* store[s]: the row of the Stores table
    device,       \* device[d]: the row of the Devices table
    call,         \* call[c]: the locals of a call between check and write
    left,         \* how much of the bound is left
    renamed,      \* history: rows whose name or serial number was updated
    disturbed     \* history: devices moved to a store, or whose store was activated

catalogVars == <<store, device, call, renamed, disturbed>>

(* key: the name or serial number found free; of: the store of the new     *)
(* device, or the device to deactivate.                                    *)
CallState == [op : {"idle", "store", "device", "deactivate"},
              key : Names \cup Serials \cup {None}, of : Stores \cup Devices \cup {None}]
Idle == [op |-> "idle", key |-> None, of |-> None]

LiveStores == {s \in Stores : store[s] \notin NoRow}
LiveDevices == {d \in Devices : device[d] \notin NoRow}
DevicesOf(s) == {d \in LiveDevices : device[d].store = s}

(* Every variable keeps its type; in particular a device's store is there. *)
CatalogTypeOK ==
    /\ store \in [Stores -> StoreRow \cup NoRow]
    /\ device \in [Devices -> DeviceRow \cup NoRow]
    /\ \A d \in LiveDevices : device[d].store \in LiveStores
    /\ call \in [Calls -> CallState]
    /\ renamed \subseteq Stores \cup Devices
    /\ disturbed \subseteq Devices

(* The seeded stores have different names and are active.                  *)
CatalogInit ==
    /\ store \in [Stores -> [name : Names, status : {"active"}] \cup {Unborn}]
    /\ \A s, r \in LiveStores : store[s] = store[r] => s = r
    /\ device = [d \in Devices |-> Unborn]
    /\ call = [c \in Calls |-> Idle]
    /\ left \in Budgets
    /\ renamed = {} /\ disturbed = {}

Spend(kind) == left[kind] > 0 /\ left' = [left EXCEPT ![kind] = @ - 1]

Begins(c, kind, op, key, of) ==
    /\ call[c] = Idle
    /\ call' = [call EXCEPT ![c] = [op |-> op, key |-> key, of |-> of]]
    /\ Spend(kind)
    /\ UNCHANGED <<store, device, renamed, disturbed>>

Ends(c) ==
    /\ call' = [call EXCEPT ![c] = Idle]
    /\ UNCHANGED left

-----------------------------------------------------------------------------
(* Creating: the name, or the serial number, is looked up first; no unique *)
(* constraint backs the check.  Mutant: the serial number is not looked up.*)

NameFree(n) == \A s \in LiveStores : store[s].name # n

NotLookedUp(x) == x \in Serials
SerialFree(x) == \A d \in LiveDevices : device[d].serial # x

CheckName(c) ==
    \E n \in Names : NameFree(n) /\ Begins(c, "stores", "store", n, None)

CreateStore(c) ==
    /\ call[c].op = "store"
    /\ \E s \in Stores, st \in Status :
          /\ store[s] = Unborn
          /\ store' = [store EXCEPT ![s] = [name |-> call[c].key, status |-> st]]
    /\ Ends(c)
    /\ UNCHANGED <<device, renamed, disturbed>>

(* The store is looked up second.  Its id came with the call, so that if it*)
(* is there then it was there before: one step says as much as two.        *)
CheckSerial(c) ==
    \E x \in Serials, s \in LiveStores :
        SerialFree(x) /\ Begins(c, "devices", "device", x, s)

CreateDevice(c) ==
    /\ call[c].op = "device"
    /\ call[c].of \in LiveStores
    /\ \E d \in Devices :
          /\ device[d] = Unborn
          /\ device' = [device EXCEPT ![d] =
                [serial |-> call[c].key, store |-> call[c].of, status |-> "active"]]
    /\ Ends(c)
    /\ UNCHANGED <<store, renamed, disturbed>>

-----------------------------------------------------------------------------
(* Updating and removing.                                                  *)

UpdateStore(s) ==
    /\ s \in LiveStores
    /\ \E row \in StoreRow :
          /\ store' = [store EXCEPT ![s] = row]
          /\ renamed' = IF row.name # store[s].name THEN renamed \cup {s} ELSE renamed
          /\ disturbed' = IF row.status = "active" /\ store[s].status = "inactive"
                          THEN disturbed \cup DevicesOf(s) ELSE disturbed
    /\ Spend("stores")
    /\ UNCHANGED <<device, call>>

DeactivateStore(s) ==
    /\ s \in LiveStores
    /\ store' = [store EXCEPT ![s].status = "inactive"]
    /\ Spend("stores")
    /\ UNCHANGED <<device, call, renamed, disturbed>>

(* The devices and the sync records of the store go with it.               *)
RemoveStore(s) ==
    /\ s \in LiveStores
    /\ store' = [store EXCEPT ![s] = Gone]
    /\ device' = [d \in Devices |-> IF d \in DevicesOf(s) THEN Gone ELSE device[d]]
    /\ Spend("stores")
    /\ UNCHANGED <<call, renamed, disturbed>>

(* The serial number and the store, without any look at other devices.     *)
UpdateDevice(d) ==
    /\ d \in LiveDevices
    /\ \E x \in Serials, s \in LiveStores :
          /\ device' = [device EXCEPT ![d] =
                [serial |-> x, store |-> s, status |-> device[d].status]]
          /\ renamed' = IF x # device[d].serial THEN renamed \cup {d} ELSE renamed
          /\ disturbed' = IF s # device[d].store THEN disturbed \cup {d} ELSE disturbed
    /\ Spend("devices")
    /\ UNCHANGED <<store, call>>

RemoveDevice(d) ==
    /\ d \in LiveDevices
    /\ device' = [device EXCEPT ![d] = Gone]
    /\ Spend("devices")
    /\ UNCHANGED <<store, call, renamed, disturbed>>

-----------------------------------------------------------------------------
(* A device may be deactivated when the store it was read with is not      *)
(* active; the update goes by id.  Mutant: whatever its store.             *)

AnyDevice(d) == d \in LiveDevices
MayDeactivate(d) == d \in LiveDevices /\ store[device[d].store].status # "active"

ReadDevice(c) ==
    \E d \in Devices : MayDeactivate(d) /\ Begins(c, "devices", "deactivate", None, d)

DeactivateDevice(c) ==
    /\ call[c].op = "deactivate"
    /\ call[c].of \in LiveDevices
    /\ device' = [device EXCEPT ![call[c].of].status = "inactive"]
    /\ Ends(c)
    /\ UNCHANGED <<store, renamed, disturbed>>

(* A statement fails, for a foreign key or a row that is gone among others,*)
(* or the process dies.                                                    *)
GiveUp(c) ==
    /\ call[c] # Idle
    /\ Ends(c)
    /\ UNCHANGED <<store, device, renamed, disturbed>>

CatalogNext ==
    \/ \E c \in Calls :
          \/ CheckName(c) \/ CreateStore(c) \/ CheckSerial(c) \/ CreateDevice(c)
          \/ ReadDevice(c) \/ DeactivateDevice(c) \/ GiveUp(c)
    \/ \E s \in Stores : UpdateStore(s) \/ DeactivateStore(s) \/ RemoveStore(s)
    \/ \E d \in Devices : UpdateDevice(d) \/ RemoveDevice(d)

CatalogSpec == CatalogInit /\ [][CatalogNext]_catalogVars

-----------------------------------------------------------------------------

(* A serial number is held by no more devices than there are calls at work *)
(* at a time, those aside that were given it by an update: a second create *)
(* succeeds only if it had looked before the first one inserted.           *)
Holders(x) == {d \in LiveDevices \ renamed : device[d].serial = x}
DuplicatesBounded == \A x \in Serials : Cardinality(Holders(x)) <= Cardinality(Calls)

(* A device that is inactive under an active store was moved there, or the *)
(* store was activated later, possibly between the check and the write of  *)
(* the deactivation.                                                       *)
InactiveExplained ==
    \A d \in LiveDevices :
        device[d].status = "inactive" /\ store[device[d].store].status = "active"
            => d \in disturbed
=============================================================================
