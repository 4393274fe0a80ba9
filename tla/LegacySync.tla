------------------------------ MODULE LegacySync ------------------------------
(***************************************************************************)
(* The SYNC_RECORDS message of older producers: one message carries the    *)
(* logs of several stores together with the ids of their sync records, and *)
(* processSyncRecords handles them as one.  Unlike the chunk of StoreSync  *)
(* a record is not claimed: every delivery starts it again.                *)
(***************************************************************************)
EXTENDS Naturals, Sequences, FiniteSets

CONSTANTS
    Messages, Records, Attendance, Handlers, None,
    MessageOf,      \* the message that carries a sync record
    Payload,        \* the logs of a message: their id and their store's record
    BatchSize,      \* CHUNK_SIZE
    MaxAborts,      \* bound: crashes and calls that fail outside the try block
    MaxErrors,      \* bound: failed calls or lost replies inside it
    MaxTimeouts,    \* bound: visibility timeouts that overtake a handler
    MaxRemovals     \* bound: deleted stores

ASSUME LegacySyncConstants ==
    /\ MessageOf \in [Records -> Messages]
    /\ Payload \in [Messages -> Seq([id : Attendance, record : Records])]
    /\ \A m \in Messages : \A i \in DOMAIN Payload[m] : MessageOf[Payload[m][i].record] = m
    /\ BatchSize \in Nat \ {0}
    /\ {MaxAborts, MaxErrors, MaxTimeouts, MaxRemovals} \subseteq Nat
    /\ IsFiniteSet(Attendance)
    /\ None \notin Records \cup Messages \cup Handlers

VARIABLES
    record,      \* record[r]: the StoreSyncRecord row of r
    attendance,  \* attendance[a]: the record that owns the row of a
    message,     \* message[m]: what SQS knows of m
    handler,     \* handler[h]: the locals of a processMessage call
    faults       \* how many faults of each kind have happened

database == <<record, attendance>>
vars == <<record, attendance, message, handler, faults>>

RecordsOf(m) == {r \in Records : MessageOf[r] = m}

TrySteps == {"start", "devices", "existing", "insert"}
Faults == {"aborts", "errors", "timeouts", "removals"}

(* The logs a handler has yet to offer are known by their place in the     *)
(* payload.                                                                *)
HandlerState == [pc : TrySteps \cup {"idle", "fail", "delete"},
                 message : Messages \cup {None}, todo : SUBSET Nat,
                 counts : [Records -> 0 .. Cardinality(Attendance)]]

Idle == [pc |-> "idle", message |-> None, todo |-> {},
         counts |-> [r \in Records |-> 0]]

(* Every variable keeps its type.  In particular no record counts more rows*)
(* than there are attendance ids, and no handler does, over all batches.   *)
TypeOK ==
    /\ record \in [Records -> [status : {"PENDING", "PROCESSING", "SUCCESS", "FAILED",
                                         "REMOVED"},
                               inserted : 0 .. Cardinality(Attendance)]]
    /\ attendance \in [Attendance -> Records \cup {None}]
    /\ message \in [Messages -> [state : {"visible", "inflight", "deleted"},
                                 receipt : Handlers \cup {None},
                                 redelivered : BOOLEAN]]
    /\ handler \in [Handlers -> HandlerState]
    /\ faults \in [Faults -> Nat]

(* The producer has stored its records and sent its messages.              *)
Init ==
    /\ record = [r \in Records |-> [status |-> "PENDING", inserted |-> 0]]
    /\ attendance = [a \in Attendance |-> None]
    /\ message = [m \in Messages |-> [state |-> "visible", receipt |-> None,
                                      redelivered |-> FALSE]]
    /\ handler = [h \in Handlers |-> Idle]
    /\ faults = [kind \in Faults |-> 0]

Spend(kind, bound) ==
    /\ faults[kind] < bound
    /\ faults' = [faults EXCEPT ![kind] = @ + 1]

-----------------------------------------------------------------------------
(* SQS, as in StoreSync.                                                   *)

Receive(h, m) ==
    /\ handler[h].pc = "idle"
    /\ message[m].state = "visible"
    /\ message' = [message EXCEPT ![m].state = "inflight", ![m].receipt = h]
    /\ handler' = [handler EXCEPT ![h] = [Idle EXCEPT !.pc = "start", !.message = m]]
    /\ UNCHANGED <<database, faults>>

BeingHandled(m) == \E h \in Handlers : message[m].receipt = h /\ handler[h].message = m

VisibilityTimeout(m) ==
    /\ message[m].state = "inflight"
    /\ IF BeingHandled(m) THEN Spend("timeouts", MaxTimeouts) ELSE UNCHANGED faults
    /\ message' = [message EXCEPT ![m] = [state |-> "visible", receipt |-> None,
                                          redelivered |-> TRUE]]
    /\ UNCHANGED <<database, handler>>

-----------------------------------------------------------------------------
(* SqsProcessor.processSyncRecords.                                        *)

At(h, step) == handler[h].pc = step
Target(h) == handler[h].message
Become(h, state) == handler' = [handler EXCEPT ![h] = state]
GoTo(h, step) == handler' = [handler EXCEPT ![h].pc = step]

(* The reply of a write arrives, or is lost and the catch block runs.      *)
Continue(h, state) ==
    \/ Become(h, state) /\ UNCHANGED faults
    \/ GoTo(h, "fail") /\ Spend("errors", MaxErrors)

(* updateMany by id: whatever the status, rows that are still there.       *)
SetStatus(m, status) ==
    record' = [r \in Records |-> IF MessageOf[r] = m /\ record[r].status # "REMOVED"
                                 THEN [record[r] EXCEPT !.status = status]
                                 ELSE record[r]]

Start(h) ==
    /\ At(h, "start")
    /\ SetStatus(Target(h), "PROCESSING")
    /\ Continue(h, [handler[h] EXCEPT !.pc = "devices"])
    /\ UNCHANGED <<attendance, message>>

(* The devices of a deleted store are not found.                           *)
LookupDevices(h) ==
    LET logs == Payload[Target(h)] IN
    /\ At(h, "devices")
    /\ GoTo(h, IF \E i \in DOMAIN logs : record[logs[i].record].status = "REMOVED"
               THEN "fail" ELSE "existing")
    /\ UNCHANGED <<database, message, faults>>

(* The logs to offer: of each id that has no row yet, its first log.       *)
ToInsert(m) ==
    LET logs == Payload[m] IN
    {i \in DOMAIN logs : /\ attendance[logs[i].id] = None
                        /\ \A j \in DOMAIN logs : logs[j].id = logs[i].id => i <= j}

ReadExisting(h) ==
    /\ At(h, "existing")
    /\ Become(h, [handler[h] EXCEPT !.pc = "insert", !.todo = ToInsert(Target(h))])
    /\ UNCHANGED <<database, message, faults>>

(* Mutant: the last batch, which is not full, is forgotten.                *)
HasFullBatch(todo) == Cardinality(todo) >= BatchSize
HasBatch(todo) == todo # {}

NextBatch(todo) == {i \in todo : Cardinality({j \in todo : j < i}) < BatchSize}

(* Mutant: the row is given the message for its owner.                     *)
MessageOwns(log) == MessageOf[log.record]
OwnerOf(log) == log.record

(* How many rows of a batch are counted for each record: with a single     *)
(* record those that were created, with several records all or none.       *)
(* Mutants: the whole batch; all or none with a single record, too.        *)
LogsOf(h, batch, r) == {i \in batch : Payload[Target(h)][i].record = r}
CountBatch(h, batch, created) ==
    [r \in Records |-> handler[h].counts[r] + Cardinality(LogsOf(h, batch, r))]
CountFullOnly(h, batch, created) ==
    [r \in Records |-> handler[h].counts[r] +
        IF created = batch THEN Cardinality(LogsOf(h, created, r)) ELSE 0]
Counted(h, batch, created) ==
    [r \in Records |-> handler[h].counts[r] +
        IF created = batch \/ RecordsOf(Target(h)) = {r}
        THEN Cardinality(LogsOf(h, created, r)) ELSE 0]

Created(m, batch) == {i \in batch : attendance[Payload[m][i].id] = None}
LogWith(m, places, a) == Payload[m][CHOOSE i \in places : Payload[m][i].id = a]

(* createMany with skipDuplicates; a row of a deleted record is refused.   *)
InsertBatch(h) ==
    LET m       == Target(h)
        todo    == handler[h].todo
        batch   == NextBatch(todo)
        created == Created(m, batch)
    IN
    /\ At(h, "insert") /\ HasBatch(todo)
    /\ IF \E i \in created : record[Payload[m][i].record].status = "REMOVED"
       THEN GoTo(h, "fail") /\ UNCHANGED <<attendance, faults>>
       ELSE /\ attendance' = [a \in Attendance |->
                    IF \E i \in created : Payload[m][i].id = a
                    THEN OwnerOf(LogWith(m, created, a)) ELSE attendance[a]]
            /\ Continue(h, [handler[h] EXCEPT !.todo = todo \ batch,
                                              !.counts = Counted(h, batch, created)])
    /\ UNCHANGED <<record, message>>

(* One transaction over the records: if one is gone, none is updated.      *)
MarkSuccess(h) ==
    LET m == Target(h) IN
    /\ At(h, "insert") /\ ~HasBatch(handler[h].todo)
    /\ IF \E r \in RecordsOf(m) : record[r].status = "REMOVED"
       THEN GoTo(h, "fail") /\ UNCHANGED <<record, faults>>
       ELSE /\ record' = [r \in Records |-> IF MessageOf[r] = m
                    THEN [status |-> "SUCCESS", inserted |-> handler[h].counts[r]]
                    ELSE record[r]]
            /\ Continue(h, [Idle EXCEPT !.pc = "delete", !.message = m])
    /\ UNCHANGED <<attendance, message>>

(* A call inside the try block fails without effect; a store is inactive;  *)
(* a device is no longer one of the stores; a log date does not parse.     *)
ThrowInTry(h) ==
    /\ handler[h].pc \in TrySteps
    /\ Spend("errors", MaxErrors)
    /\ GoTo(h, "fail")
    /\ UNCHANGED <<database, message>>

(* The catch block rethrows, so that the message is delivered again.       *)
(* Mutant: it acknowledges the message.                                    *)
Acknowledged(h) == [Idle EXCEPT !.pc = "delete", !.message = Target(h)]
Rethrown(h) == Idle

MarkFailed(h) ==
    /\ At(h, "fail")
    /\ SetStatus(Target(h), "FAILED")
    /\ Become(h, Rethrown(h))
    /\ UNCHANGED <<attendance, message, faults>>

DeleteMessage(h) ==
    LET m == Target(h) IN
    /\ At(h, "delete")
    /\ \/ message' = [message EXCEPT ![m].state = "deleted", ![m].receipt = None]
       \/ message[m].receipt # h /\ UNCHANGED message
    /\ Become(h, Idle)
    /\ UNCHANGED <<database, faults>>

(* The process dies, or the update in the catch block throws.              *)
Abort(h) ==
    /\ handler[h].pc # "idle"
    /\ Spend("aborts", MaxAborts)
    /\ Become(h, Idle)
    /\ UNCHANGED <<database, message>>

(* StoreService.remove, of the store of one record.                        *)
RemoveStore(r) ==
    /\ record[r].status # "REMOVED"
    /\ Spend("removals", MaxRemovals)
    /\ record' = [record EXCEPT ![r] = [status |-> "REMOVED", inserted |-> 0]]
    /\ attendance' = [a \in Attendance |->
                        IF attendance[a] = r THEN None ELSE attendance[a]]
    /\ UNCHANGED <<message, handler>>

HandlerStep(h) ==
    \/ Start(h) \/ LookupDevices(h) \/ ReadExisting(h) \/ InsertBatch(h)
    \/ MarkSuccess(h) \/ MarkFailed(h) \/ DeleteMessage(h)

Next ==
    \/ \E h \in Handlers, m \in Messages : Receive(h, m)
    \/ \E m \in Messages : VisibilityTimeout(m)
    \/ \E h \in Handlers : HandlerStep(h) \/ ThrowInTry(h) \/ Abort(h)
    \/ \E r \in Records : RemoveStore(r)

Fairness ==
    /\ \A h \in Handlers : WF_vars(HandlerStep(h))
    /\ \A m \in Messages : SF_vars(\E h \in Handlers : Receive(h, m))
    /\ \A m \in Messages : WF_vars(VisibilityTimeout(m) /\ ~BeingHandled(m))

Spec == Init /\ [][Next]_vars /\ Fairness

-----------------------------------------------------------------------------

OwnedBy(r) == {a \in Attendance : attendance[a] = r}
IdsOf(r) == LET logs == Payload[MessageOf[r]]
            IN  {logs[i].id : i \in {j \in DOMAIN logs : logs[j].record = r}}

(* A record reported SUCCESS has every attendance id of its store in the   *)
(* table, its own or a duplicate's, unless the duplicate's store has been  *)
(* deleted: also with batches, overlapping deliveries and repeated passes. *)
SuccessComplete ==
    \A r \in Records : record[r].status = "SUCCESS" =>
        \A a \in IdsOf(r) :
            \/ attendance[a] # None
            \/ \E q \in Records \ {r} : record[q].status = "REMOVED" /\ a \in IdsOf(q)

(* insertedRecords never claims a row that the record does not own.        *)
CountSound ==
    \A r \in Records : record[r].inserted <= Cardinality(OwnedBy(r))

(* The comment in insertBatch: per-record counts are exact when no row was *)
(* skipped, that is, when the records of the message own all of its rows   *)
(* after one delivery; with a single record they always are.               *)
CountExact ==
    \A r \in Records :
        LET m == MessageOf[r] IN
        /\ record[r].status = "SUCCESS" /\ ~message[m].redelivered
        /\ RecordsOf(m) = {r} \/ \A q \in RecordsOf(m) : \A a \in IdsOf(q) :
                                    attendance[a] \in RecordsOf(m)
        => record[r].inserted = Cardinality(OwnedBy(r))

(* The records of a message end up SUCCESS for good whatever fails on the  *)
(* way, unless a store was deleted, or a failure met an early redelivery   *)
(* (the overtaken handler then has the last word, and its message may be   *)
(* gone).                                                                  *)
Succeeds ==
    \/ <>[](\A r \in Records : record[r].status = "SUCCESS")
    \/ <>(faults["removals"] > 0)
    \/ <>(faults["timeouts"] > 0 /\ faults["aborts"] + faults["errors"] > 0)
=============================================================================
