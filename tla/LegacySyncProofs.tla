--------------------------- MODULE LegacySyncProofs ---------------------------
(***************************************************************************)
(* The SYNC_RECORDS message: SUCCESS means complete, no record claims rows *)
(* it does not own, and where the code promises exact counts they are      *)
(* exact.  Proofs for every instance.                                      *)
(***************************************************************************)
EXTENDS LegacySync, FiniteSetTheorems, SequenceTheorems, WellFoundedInduction, TLAPS

(* What a handler that is not idle has.                                    *)
UsedWell(h) ==
    /\ handler[h].message # None <=> handler[h].pc # "idle"
    /\ handler[h].todo \subseteq (IF handler[h].pc \in {"insert", "fail"}
                                 THEN DOMAIN Payload[handler[h].message] ELSE {})
Busy == \A h \in Handlers : UsedWell(h)

(* The id of place i of the payload of m, and of the places of a set.      *)
IdAt(m, i) == Payload[m][i].id
OwnerAt(m, i) == Payload[m][i].record
Ids(m) == {IdAt(m, i) : i \in DOMAIN Payload[m]}

(* A handler offers every id once.                                         *)
OncePerId ==
    \A h \in Handlers : \A i, j \in handler[h].todo :
        IdAt(handler[h].message, i) = IdAt(handler[h].message, j) => i = j

-----------------------------------------------------------------------------
(* SUCCESS means complete.                                                 *)

(* Rows belong to records that asked for them.                             *)
RowsAreAsked == \A a \in Attendance : attendance[a] # None => a \in IdsOf(attendance[a])

(* The row of a is there, or was deleted with its store.                   *)
RemovedWithStore(a) == \E q \in Records : record[q].status = "REMOVED" /\ a \in IdsOf(q)
HadRow(a) == attendance[a] # None \/ RemovedWithStore(a)

(* What is no longer to be offered has had its row.                        *)
OfferedHadRow ==
    \A h \in Handlers : handler[h].pc = "insert" =>
        \A a \in Ids(handler[h].message) :
            HadRow(a) \/ \E i \in handler[h].todo : IdAt(handler[h].message, i) = a

CompleteInv == RowsAreAsked /\ OfferedHadRow /\ SuccessComplete

-----------------------------------------------------------------------------
(* Counts are sound.                                                       *)

(* What a handler has counted for a record, that record owns.              *)
CountedAreOwned ==
    \A h \in Handlers, r \in Records :
        record[r].status # "REMOVED" => handler[h].counts[r] <= Cardinality(OwnedBy(r))

SoundInv == TypeOK /\ Busy /\ OncePerId /\ CountedAreOwned /\ CountSound

-----------------------------------------------------------------------------
(* Counts are exact after a single delivery.                               *)

Fresh(m) == ~message[m].redelivered

(* Until it is redelivered a message has one handler, which holds its      *)
(* receipt; before it is received, none of its records has rows.           *)
SingleHandler ==
    \A m \in Messages : Fresh(m) =>
        \A h \in Handlers : handler[h].message = m =>
            message[m].state = "inflight" /\ message[m].receipt = h
Waiting(m, steps) ==
    \/ message[m].state = "visible"
    \/ \E h \in Handlers : handler[h].message = m /\ handler[h].pc \in steps
NothingBefore ==
    \A m \in Messages : Fresh(m) /\ Waiting(m, {"start", "devices", "existing"}) =>
        \A r \in RecordsOf(m) : OwnedBy(r) = {}
CountsFromZero ==
    \A h \in Handlers : handler[h].pc \in {"start", "devices", "existing"} =>
        handler[h].counts = [r \in Records |-> 0]

(* Its records are not SUCCESS before that handler says so ...             *)
NotYetSuccess ==
    \A m \in Messages : Fresh(m) /\ Waiting(m, TrySteps) =>
        \A r \in RecordsOf(m) : record[r].status # "SUCCESS"

(* ... and what the handler has yet to offer is not theirs.                *)
OfferedAreNew ==
    \A h \in Handlers : handler[h].pc = "insert" /\ Fresh(handler[h].message) =>
        \A i \in handler[h].todo :
            attendance[IdAt(handler[h].message, i)] \notin RecordsOf(handler[h].message)

(* An id of m is not owned by the records of m, so that a row was skipped. *)
Skipped(m, todo) ==
    \E a \in Ids(m) : attendance[a] \notin RecordsOf(m) /\ \A i \in todo : IdAt(m, i) # a

Single(r) == RecordsOf(MessageOf[r]) = {r}

CountingExactly ==
    \A h \in Handlers : handler[h].pc \in TrySteps /\ Fresh(handler[h].message) =>
        \A r \in RecordsOf(handler[h].message) :
            \/ record[r].status = "REMOVED"
            \/ handler[h].counts[r] = Cardinality(OwnedBy(r))
            \/ ~Single(r) /\ Skipped(handler[h].message, handler[h].todo)
CountedExactly ==
    \A r \in Records : record[r].status = "SUCCESS" /\ Fresh(MessageOf[r]) =>
        \/ record[r].inserted = Cardinality(OwnedBy(r))
        \/ ~Single(r) /\ Skipped(MessageOf[r], {})

ExactInv ==
    /\ SingleHandler /\ NothingBefore /\ CountsFromZero /\ NotYetSuccess
    /\ OfferedAreNew /\ CountingExactly /\ CountedExactly

-----------------------------------------------------------------------------
(* Handlers and their payload.                                             *)

LEMMA BecomeMoves ==
    ASSUME TypeOK, NEW h \in Handlers, NEW state, Become(h, state)
    PROVE  handler'[h] = state /\ \A g \in Handlers \ {h} : handler'[g] = handler[g]
  BY DEF Become, TypeOK

LEMMA GoToMoves ==
    ASSUME TypeOK, NEW h \in Handlers, NEW step, GoTo(h, step)
    PROVE  /\ handler'[h] = [handler[h] EXCEPT !.pc = step]
           /\ handler'[h].pc = step /\ handler'[h].message = handler[h].message
           /\ handler'[h].todo = handler[h].todo /\ handler'[h].counts = handler[h].counts
           /\ \A g \in Handlers \ {h} : handler'[g] = handler[g]
<1>1. handler[h] \in HandlerState
  BY DEF TypeOK
<1>2. /\ handler'[h] = [handler[h] EXCEPT !.pc = step]
      /\ \A g \in Handlers \ {h} : handler'[g] = handler[g]
  BY DEF GoTo, TypeOK
<1>3. QED
  BY <1>1, <1>2 DEF HandlerState

(* The logs of the messages of busy handlers.                              *)
LEMMA Places ==
    ASSUME LegacySyncConstants, TypeOK, Busy, NEW h \in Handlers, handler[h].pc # "idle"
    PROVE  /\ handler[h].message \in Messages /\ Target(h) = handler[h].message
           /\ handler[h].todo \in SUBSET DOMAIN Payload[handler[h].message]
<1>1. handler[h].message \in Messages \cup {None} /\ handler[h].message # None
  BY DEF TypeOK, HandlerState, Busy, UsedWell
<1>2. QED
  BY <1>1 DEF Busy, UsedWell, Target

LEMMA Logs ==
    ASSUME LegacySyncConstants, NEW m \in Messages, NEW i \in DOMAIN Payload[m]
    PROVE  /\ IdAt(m, i) \in Attendance /\ OwnerAt(m, i) \in Records
           /\ MessageOf[OwnerAt(m, i)] = m /\ OwnerAt(m, i) \in RecordsOf(m)
           /\ IdAt(m, i) \in Ids(m) /\ IdAt(m, i) \in IdsOf(OwnerAt(m, i))
<1>1. /\ Payload[m] \in Seq([id : Attendance, record : Records])
      /\ MessageOf[OwnerAt(m, i)] = m
  BY DEF LegacySyncConstants, OwnerAt
<1>2. i \in 1 .. Len(Payload[m])
  BY <1>1
<1>3. Payload[m][i] \in [id : Attendance, record : Records]
  BY <1>1, <1>2, ElementOfSeq
<1>4. QED
  BY <1>1, <1>3 DEF IdAt, OwnerAt, RecordsOf, Ids, IdsOf

LEMMA PlacesFinite ==
    ASSUME LegacySyncConstants, NEW m \in Messages
    PROVE  DOMAIN Payload[m] \in SUBSET Nat /\ IsFiniteSet(DOMAIN Payload[m])
<1>1. Payload[m] \in Seq([id : Attendance, record : Records])
  BY DEF LegacySyncConstants
<1>2. DOMAIN Payload[m] = 1 .. Len(Payload[m]) /\ Len(Payload[m]) \in Nat
  BY <1>1
<1>3. QED
  BY <1>2, FS_Interval

(* Rows are counted in natural numbers, up to the number of ids.           *)
LEMMA OwnedFinite ==
    ASSUME LegacySyncConstants, NEW r
    PROVE  /\ IsFiniteSet(OwnedBy(r)) /\ Cardinality(OwnedBy(r)) \in Nat
           /\ Cardinality(Attendance) \in Nat
           /\ Cardinality(OwnedBy(r)) <= Cardinality(Attendance)
<1>1. OwnedBy(r) \in SUBSET Attendance
  BY DEF OwnedBy
<1>2. QED
  BY <1>1, FS_Subset, FS_CardinalityType DEF LegacySyncConstants

(* The state of a handler that starts, or has only to acknowledge.         *)
Started(m) == [Idle EXCEPT !.pc = "start", !.message = m]
Acknowledging(m) == [Idle EXCEPT !.pc = "delete", !.message = m]

LEMMA IdleTyped ==
    ASSUME LegacySyncConstants
    PROVE  /\ Idle \in HandlerState /\ Idle.pc = "idle" /\ Idle.message = None
           /\ Idle.todo = {} /\ Idle.counts = [r \in Records |-> 0]
<1>1. Cardinality(Attendance) \in Nat
  BY FS_CardinalityType DEF LegacySyncConstants
<1>2. [r \in Records |-> 0] \in [Records -> 0 .. Cardinality(Attendance)]
  BY <1>1
<1>3. QED
  BY <1>2 DEF Idle, HandlerState

LEMMA CalledTyped ==
    ASSUME LegacySyncConstants, NEW m \in Messages, NEW state,
           state = Started(m) \/ state = Acknowledging(m)
    PROVE  /\ state \in HandlerState /\ state.pc \in {"start", "delete"}
           /\ state.message = m
           /\ state.todo = {} /\ state.counts = [r \in Records |-> 0]
  BY IdleTyped DEF Started, Acknowledging, HandlerState, TrySteps

LEMMA InitSound == LegacySyncConstants /\ Init => SoundInv
<1> SUFFICES ASSUME LegacySyncConstants, Init
             PROVE  SoundInv
  OBVIOUS
<1>1. \A r \in Records : Cardinality(OwnedBy(r)) \in Nat
  BY OwnedFinite
<1>2. TypeOK
  <2>1. Cardinality(Attendance) \in Nat
    BY FS_CardinalityType DEF LegacySyncConstants
  <2>2. record \in [Records -> [status : {"PENDING", "PROCESSING", "SUCCESS", "FAILED",
                                         "REMOVED"},
                               inserted : 0 .. Cardinality(Attendance)]]
    BY <2>1 DEF Init
  <2>3. QED
    BY <2>2, IdleTyped DEF Init, TypeOK, Faults
<1>3. Busy /\ OncePerId
  BY IdleTyped DEF Init, Busy, UsedWell, OncePerId
<1>4. CountedAreOwned
  <2>1. \A h \in Handlers, r \in Records : handler[h].counts[r] = 0
    BY IdleTyped DEF Init
  <2>2. QED
    BY <1>1, <2>1 DEF CountedAreOwned
<1>5. CountSound
  <2>1. \A r \in Records : record[r].inserted = 0
    BY DEF Init
  <2>2. QED
    BY <1>1, <2>1 DEF CountSound
<1>6. QED
  BY <1>2, <1>3, <1>4, <1>5 DEF SoundInv

(* What most steps do: rows stay, records keep their count or get a sound   *)
(* one and are not deleted, and no handler takes on new logs or counts.    *)
QuietRecords ==
    \A r \in Records : /\ \/ record'[r].inserted = record[r].inserted
                          \/ record'[r].inserted <= Cardinality(OwnedBy(r))
                       /\ record'[r].status = "REMOVED" <=> record[r].status = "REMOVED"
QuietMove(h) ==
    /\ handler'[h].message # None <=> handler'[h].pc # "idle"
    /\ \/ handler'[h].todo = {}
       \/ /\ handler'[h].message = handler[h].message /\ handler'[h].todo = handler[h].todo
          /\ handler'[h].pc = "fail" /\ handler[h].pc # "idle"
    /\ handler'[h].pc # "insert"
    /\ \/ handler'[h].counts = handler[h].counts
       \/ handler'[h].counts = [r \in Records |-> 0]
Quiet ==
    /\ UNCHANGED attendance /\ QuietRecords
    /\ \A h \in Handlers : handler'[h] = handler[h] \/ QuietMove(h)

LEMMA QuietSound ==
    ASSUME LegacySyncConstants, SoundInv, TypeOK', Quiet
    PROVE  SoundInv'
<1>1. Busy'
  <2>1. ASSUME NEW h \in Handlers
        PROVE  UsedWell(h)'
    <3>1. CASE handler'[h] = handler[h]
      BY <3>1 DEF SoundInv, Busy, UsedWell
    <3>2. CASE QuietMove(h)
      BY <3>2, Places DEF SoundInv, QuietMove, UsedWell
    <3>3. QED
      BY <3>1, <3>2 DEF Quiet
  <2>2. QED
    BY <2>1 DEF Busy
<1>2. OncePerId'
  <2>1. ASSUME NEW h \in Handlers
        PROVE  \/ handler'[h].todo = {}
               \/ handler'[h].message = handler[h].message /\ handler'[h].todo = handler[h].todo
    BY DEF Quiet, QuietMove
  <2>2. QED
    BY <2>1 DEF SoundInv, OncePerId, IdAt
<1>3. \A r \in Records : OwnedBy(r)' = OwnedBy(r) /\ Cardinality(OwnedBy(r)) \in Nat
  BY OwnedFinite DEF Quiet, OwnedBy
<1>4. CountedAreOwned'
  <2>1. ASSUME NEW h \in Handlers, NEW r \in Records, record'[r].status # "REMOVED"
        PROVE  handler'[h].counts[r] <= Cardinality(OwnedBy(r))
    <3>1. handler[h].counts[r] <= Cardinality(OwnedBy(r))
      BY <2>1 DEF SoundInv, CountedAreOwned, Quiet, QuietRecords
    <3>2. CASE handler'[h].counts = handler[h].counts
      BY <3>1, <3>2
    <3>3. CASE handler'[h].counts = [q \in Records |-> 0]
      BY <1>3, <3>3
    <3>4. QED
      BY <3>2, <3>3 DEF Quiet, QuietMove
  <2>2. QED
    BY <1>3, <2>1 DEF CountedAreOwned
<1>5. CountSound'
  BY <1>3 DEF Quiet, QuietRecords, SoundInv, CountSound
<1>6. QED
  BY <1>1, <1>2, <1>4, <1>5 DEF SoundInv

(* The steps of SQS and of a handler that only move on or give up.         *)
LEMMA SpendTyped ==
    ASSUME TypeOK, NEW kind \in Faults, NEW bound, Spend(kind, bound)
    PROVE  faults' \in [Faults -> Nat]
  BY DEF TypeOK, Spend

(* A step of one handler to an uneventful state is quiet for the handlers. *)
LEMMA AloneMoves ==
    ASSUME LegacySyncConstants, TypeOK, Busy, NEW h \in Handlers,
           \/ Become(h, Idle)
           \/ \E m \in Messages : Become(h, Started(m)) \/ Become(h, Acknowledging(m))
           \/ handler[h].pc # "idle" /\ GoTo(h, "fail")
           \/ handler[h].pc = "start" /\ Become(h, [handler[h] EXCEPT !.pc = "devices"])
           \/ handler[h].pc = "devices" /\ GoTo(h, "existing")
    PROVE  /\ handler' \in [Handlers -> HandlerState] /\ QuietMove(h)
           /\ \A g \in Handlers \ {h} : handler'[g] = handler[g]
<1>1. handler[h] \in HandlerState
  BY DEF TypeOK
<1>2. \A state \in HandlerState : Become(h, state) => handler' \in [Handlers -> HandlerState]
  BY DEF Become, TypeOK
<1>3. CASE Become(h, Idle)
  <2>1. handler'[h] = Idle /\ \A g \in Handlers \ {h} : handler'[g] = handler[g]
    BY <1>3, BecomeMoves
  <2>2. handler' \in [Handlers -> HandlerState]
    BY <1>2, <1>3, IdleTyped
  <2>3. QuietMove(h)
    BY <2>1, IdleTyped DEF QuietMove
  <2>4. QED
    BY <2>1, <2>2, <2>3
<1>4. ASSUME NEW m \in Messages, NEW state, Become(h, state),
             state = Started(m) \/ state = Acknowledging(m)
      PROVE  /\ handler' \in [Handlers -> HandlerState] /\ QuietMove(h)
             /\ \A g \in Handlers \ {h} : handler'[g] = handler[g]
  <2>1. m # None
    BY DEF LegacySyncConstants
  <2>2. handler'[h] = state /\ \A g \in Handlers \ {h} : handler'[g] = handler[g]
    BY <1>4, BecomeMoves
  <2>3. /\ state \in HandlerState /\ state.pc \in {"start", "delete"} /\ state.message = m
        /\ state.todo = {} /\ state.counts = [r \in Records |-> 0]
    BY <1>4, CalledTyped
  <2>4. handler' \in [Handlers -> HandlerState]
    BY <1>2, <1>4, <2>3
  <2>5. QuietMove(h)
    BY <2>1, <2>2, <2>3 DEF QuietMove
  <2>6. QED
    BY <2>2, <2>4, <2>5
<1>5. ASSUME NEW step \in {"fail", "devices", "existing"}, GoTo(h, step),
             handler[h].pc # "idle", handler[h].todo = {} \/ step = "fail"
      PROVE  /\ handler' \in [Handlers -> HandlerState] /\ QuietMove(h)
             /\ \A g \in Handlers \ {h} : handler'[g] = handler[g]
  <2>1. [handler[h] EXCEPT !.pc = step] \in HandlerState
    BY <1>1 DEF HandlerState, TrySteps
  <2>2. Become(h, [handler[h] EXCEPT !.pc = step])
    BY <1>5 DEF GoTo, Become
  <2>3. handler' \in [Handlers -> HandlerState]
    BY <1>2, <2>1, <2>2
  <2>4. QED
    BY <1>5, <2>3, GoToMoves DEF QuietMove, Busy, UsedWell
<1>6. handler[h].pc \in {"start", "devices"} => handler[h].todo = {}
  BY DEF Busy, UsedWell
<1>7. Become(h, [handler[h] EXCEPT !.pc = "devices"]) => GoTo(h, "devices")
  BY DEF Become, GoTo
<1>8. QED
  BY <1>3, <1>4, <1>5, <1>6, <1>7

LEMMA StatusTyped ==
    ASSUME TypeOK, NEW m, NEW status \in {"PROCESSING", "FAILED"}, SetStatus(m, status)
    PROVE  /\ record' \in [Records -> [status : {"PENDING", "PROCESSING", "SUCCESS", "FAILED",
                                                 "REMOVED"},
                                       inserted : 0 .. Cardinality(Attendance)]]
           /\ QuietRecords
           /\ \A r \in Records : IF MessageOf[r] = m /\ record[r].status # "REMOVED"
                                 THEN record'[r].status = status ELSE record'[r] = record[r]
  BY DEF TypeOK, SetStatus, QuietRecords

(* Everything but reading, inserting, succeeding and deleting stores.      *)
Uneventful ==
    \/ \E h \in Handlers, m \in Messages : Receive(h, m)
    \/ \E m \in Messages : VisibilityTimeout(m)
    \/ \E h \in Handlers : \/ Start(h) \/ LookupDevices(h) \/ MarkFailed(h)
                           \/ DeleteMessage(h) \/ ThrowInTry(h) \/ Abort(h)
    \/ UNCHANGED vars

LEMMA UneventfulQuiet ==
    ASSUME LegacySyncConstants, SoundInv, Uneventful
    PROVE  TypeOK' /\ Quiet
<1>1. TypeOK /\ Busy
  BY DEF SoundInv
<1>2. ASSUME NEW h \in Handlers, NEW m \in Messages, Receive(h, m)
      PROVE  TypeOK' /\ Quiet
  <2>1. Become(h, Started(m)) /\ UNCHANGED <<database, faults>>
    BY <1>2 DEF Receive, Become, Started
  <2>2. message' \in [Messages -> [state : {"visible", "inflight", "deleted"},
                                   receipt : Handlers \cup {None}, redelivered : BOOLEAN]]
    BY <1>1, <1>2 DEF Receive, TypeOK
  <2>3. QED
    BY <1>1, <2>1, <2>2, AloneMoves DEF TypeOK, Quiet, QuietRecords, database
<1>3. ASSUME NEW m \in Messages, VisibilityTimeout(m)
      PROVE  TypeOK' /\ Quiet
  <2>1. faults' \in [Faults -> Nat]
    BY <1>1, <1>3, SpendTyped DEF VisibilityTimeout, Faults, TypeOK
  <2>2. QED
    BY <1>1, <1>3, <2>1 DEF VisibilityTimeout, TypeOK, Quiet, QuietRecords, database
<1>4. ASSUME NEW h \in Handlers, Start(h)
      PROVE  TypeOK' /\ Quiet
  <2>1. /\ handler[h].pc = "start" /\ UNCHANGED <<attendance, message>>
        /\ SetStatus(Target(h), "PROCESSING")
        /\ \/ Become(h, [handler[h] EXCEPT !.pc = "devices"]) /\ UNCHANGED faults
           \/ GoTo(h, "fail") /\ Spend("errors", MaxErrors)
    BY <1>4 DEF Start, At, Continue
  <2>2. faults' \in [Faults -> Nat]
    BY <1>1, <2>1, SpendTyped DEF Faults, TypeOK
  <2>3. QED
    BY <1>1, <2>1, <2>2, AloneMoves, StatusTyped DEF TypeOK, Quiet
<1>5. ASSUME NEW h \in Handlers, LookupDevices(h)
      PROVE  TypeOK' /\ Quiet
  <2>1. /\ handler[h].pc = "devices" /\ UNCHANGED <<database, message, faults>>
        /\ GoTo(h, "fail") \/ GoTo(h, "existing")
    BY <1>5 DEF LookupDevices, At
  <2>2. QED
    BY <1>1, <2>1, AloneMoves DEF TypeOK, Quiet, QuietRecords, database
<1>6. ASSUME NEW h \in Handlers, MarkFailed(h)
      PROVE  TypeOK' /\ Quiet
  BY <1>1, <1>6, AloneMoves, StatusTyped DEF MarkFailed, Rethrown, TypeOK, Quiet
<1>7. ASSUME NEW h \in Handlers, DeleteMessage(h)
      PROVE  TypeOK' /\ Quiet
  <2>1. message' \in [Messages -> [state : {"visible", "inflight", "deleted"},
                                   receipt : Handlers \cup {None}, redelivered : BOOLEAN]]
    <3>1. handler[h].pc # "idle"
      BY <1>7 DEF DeleteMessage, At
    <3>2. PICK m \in Messages : m = Target(h)
      BY <1>1, <3>1, Places
    <3>3. \/ message' = [message EXCEPT ![m].state = "deleted", ![m].receipt = None]
          \/ UNCHANGED message
      BY <1>7, <3>2 DEF DeleteMessage
    <3>4. message \in [Messages -> [state : {"visible", "inflight", "deleted"},
                                   receipt : Handlers \cup {None}, redelivered : BOOLEAN]]
      BY <1>1 DEF TypeOK
    <3>5. message' # message => message'
             = [message EXCEPT ![m] = [message[m] EXCEPT !.state = "deleted", !.receipt = None]]
      BY <3>3, <3>4
    <3>6. [message[m] EXCEPT !.state = "deleted", !.receipt = None]
             \in [state : {"visible", "inflight", "deleted"},
                  receipt : Handlers \cup {None}, redelivered : BOOLEAN]
      BY <3>4
    <3>7. QED
      BY <3>4, <3>5, <3>6
  <2>2. Become(h, Idle) /\ UNCHANGED <<database, faults>>
    BY <1>7 DEF DeleteMessage
  <2>3. QED
    BY <1>1, <2>1, <2>2, AloneMoves DEF TypeOK, Quiet, QuietRecords, database
<1>8. ASSUME NEW h \in Handlers, ThrowInTry(h)
      PROVE  TypeOK' /\ Quiet
  <2>1. faults' \in [Faults -> Nat] /\ handler[h].pc # "idle"
    BY <1>1, <1>8, SpendTyped DEF ThrowInTry, Faults, TrySteps
  <2>2. QED
    BY <1>1, <1>8, <2>1, AloneMoves DEF ThrowInTry, TypeOK, Quiet, QuietRecords, database
<1>9. ASSUME NEW h \in Handlers, Abort(h)
      PROVE  TypeOK' /\ Quiet
  <2>1. faults' \in [Faults -> Nat]
    BY <1>1, <1>9, SpendTyped DEF Abort, Faults
  <2>2. QED
    BY <1>1, <1>9, <2>1, AloneMoves DEF Abort, TypeOK, Quiet, QuietRecords, database
<1>10. CASE UNCHANGED vars
  BY <1>1, <1>10 DEF vars, TypeOK, Quiet, QuietRecords
<1>11. QED
  BY <1>2, <1>3, <1>4, <1>5, <1>6, <1>7, <1>8, <1>9, <1>10 DEF Uneventful

(* Reading the table: of every id that has no row, one log is offered.     *)
LEMMA ReadOffers ==
    ASSUME LegacySyncConstants, SoundInv, NEW h \in Handlers, ReadExisting(h)
    PROVE  /\ handler[h].pc = "existing" /\ handler[h].message \in Messages
           /\ UNCHANGED <<record, attendance, message, faults>>
           /\ handler'[h] = [handler[h] EXCEPT !.pc = "insert",
                                               !.todo = ToInsert(handler[h].message)]
           /\ handler'[h].pc = "insert" /\ handler'[h].message = handler[h].message
           /\ handler'[h].todo = ToInsert(handler[h].message)
           /\ handler'[h].counts = handler[h].counts
           /\ handler' \in [Handlers -> HandlerState]
           /\ \A g \in Handlers \ {h} : handler'[g] = handler[g]
<1>1. /\ handler[h].pc = "existing" /\ handler[h].pc # "idle" /\ TypeOK
      /\ UNCHANGED <<record, attendance, message, faults>>
  BY DEF ReadExisting, At, database, SoundInv
<1>2. handler[h].message \in Messages /\ Target(h) = handler[h].message
  BY <1>1, Places DEF SoundInv
<1>3. ToInsert(handler[h].message) \in SUBSET Nat
  BY <1>2, PlacesFinite DEF ToInsert
<1>4. PICK state : state = [handler[h] EXCEPT !.pc = "insert",
                                               !.todo = ToInsert(handler[h].message)]
  OBVIOUS
<1>5. /\ state \in HandlerState /\ state.pc = "insert" /\ state.message = handler[h].message
      /\ state.todo = ToInsert(handler[h].message) /\ state.counts = handler[h].counts
  BY <1>1, <1>3, <1>4 DEF TypeOK, HandlerState, TrySteps
<1>6. Become(h, state)
  BY <1>2, <1>4 DEF ReadExisting
<1>7. handler'[h] = state /\ \A g \in Handlers \ {h} : handler'[g] = handler[g]
  BY <1>1, <1>6, BecomeMoves
<1>8. handler' \in [Handlers -> HandlerState]
  BY <1>1, <1>5, <1>6 DEF Become, TypeOK
<1>9. QED
  BY <1>1, <1>2, <1>4, <1>5, <1>7, <1>8

LEMMA ReadSound ==
    ASSUME LegacySyncConstants, SoundInv, NEW h \in Handlers, ReadExisting(h)
    PROVE  SoundInv'
<1>1. PICK m \in Messages :
         /\ m = handler[h].message
         /\ UNCHANGED <<record, attendance, message, faults>>
         /\ handler[h].pc = "existing" /\ handler'[h].pc = "insert"
         /\ handler'[h].message = m /\ handler'[h].todo = ToInsert(m)
         /\ handler'[h].counts = handler[h].counts
         /\ handler' \in [Handlers -> HandlerState]
         /\ \A g \in Handlers \ {h} : handler'[g] = handler[g]
  BY ReadOffers
<1>2. TypeOK'
  BY <1>1 DEF SoundInv, TypeOK
<1>3. /\ \A g \in Handlers : handler'[g].message = handler[g].message
                              /\ handler'[g].counts = handler[g].counts
      /\ handler'[h].todo = ToInsert(m)
      /\ \A g \in Handlers \ {h} : handler'[g].todo = handler[g].todo
  BY <1>1
<1>4. Busy'
  <2>1. ToInsert(m) \subseteq DOMAIN Payload[m] /\ m # None
    BY DEF ToInsert, LegacySyncConstants
  <2>2. UsedWell(h)'
    BY <1>1, <2>1 DEF UsedWell
  <2>3. \A g \in Handlers \ {h} : UsedWell(g)'
    BY <1>1 DEF SoundInv, Busy, UsedWell
  <2>4. QED
    BY <2>2, <2>3 DEF Busy
<1>5. OncePerId'
  <2>1. \A i, j \in ToInsert(m) : IdAt(m, i) = IdAt(m, j) => i = j
    <3>1. DOMAIN Payload[m] \in SUBSET Nat
      BY PlacesFinite
    <3>2. \A i, j \in ToInsert(m) : IdAt(m, i) = IdAt(m, j) => i <= j /\ j <= i
                                                              /\ i \in Nat /\ j \in Nat
      BY <3>1 DEF ToInsert, IdAt
    <3>3. QED
      BY <3>2
  <2>2. ASSUME NEW g \in Handlers, NEW i \in handler'[g].todo, NEW j \in handler'[g].todo,
               IdAt(handler'[g].message, i) = IdAt(handler'[g].message, j)
        PROVE  i = j
    <3>1. CASE g = h
      BY <1>1, <2>1, <2>2, <3>1
    <3>2. CASE g # h
      BY <1>3, <2>2, <3>2 DEF SoundInv, OncePerId
    <3>3. QED
      BY <3>1, <3>2
  <2>3. QED
    BY <2>2 DEF OncePerId, IdAt
<1>6. \A r : OwnedBy(r)' = OwnedBy(r)
  BY <1>1 DEF OwnedBy
<1>7. CountedAreOwned' /\ CountSound'
  BY <1>1, <1>3, <1>6 DEF SoundInv, CountedAreOwned, CountSound
<1>8. QED
  BY <1>2, <1>4, <1>5, <1>7 DEF SoundInv

(* A set of logs with different ids has as many ids as logs.               *)
LEMMA DistinctIds ==
    ASSUME LegacySyncConstants, NEW m \in Messages,
           NEW logs \in SUBSET DOMAIN Payload[m],
           \A i, j \in logs : IdAt(m, i) = IdAt(m, j) => i = j
    PROVE  /\ IsFiniteSet(logs) /\ Cardinality(logs) \in Nat
           /\ IsFiniteSet({IdAt(m, i) : i \in logs})
           /\ Cardinality({IdAt(m, i) : i \in logs}) = Cardinality(logs)
<1> DEFINE ids == {IdAt(m, i) : i \in logs}
           f == [i \in logs |-> IdAt(m, i)]
<1>1. IsFiniteSet(logs) /\ Cardinality(logs) \in Nat
  BY PlacesFinite, FS_Subset, FS_CardinalityType
<1>2. f \in Bijection(logs, ids)
  BY DEF Bijection, Injection, Surjection, IsInjective
<1>3. ExistsBijection(logs, ids)
  BY <1>2 DEF ExistsBijection
<1>4. QED
  BY <1>1, <1>3, FS_Bijection

(* What a batch adds to the rows of a record.                              *)
Adds(m, created, r, mine, rows) ==
    /\ created \in SUBSET DOMAIN Payload[m] /\ mine \in SUBSET created
    /\ \A i, j \in created : IdAt(m, i) = IdAt(m, j) => i = j
    /\ \A i \in created : /\ attendance[IdAt(m, i)] = None
                          /\ attendance'[IdAt(m, i)] = OwnerAt(m, i)
    /\ \A a \in Attendance : (\A i \in created : IdAt(m, i) # a)
                             => attendance'[a] = attendance[a]
    /\ \A i \in created : i \in mine <=> OwnerAt(m, i) = r
    /\ rows \in SUBSET Attendance
    /\ \A a \in Attendance : a \in rows <=> attendance'[a] = r
Grew(rows, r, mine) ==
    /\ Cardinality(mine) \in Nat /\ Cardinality(OwnedBy(r)) \in Nat
    /\ Cardinality(rows) = Cardinality(OwnedBy(r)) + Cardinality(mine)

LEMMA OwnedGrows ==
    ASSUME LegacySyncConstants, NEW m \in Messages, NEW created, NEW r \in Records,
           NEW mine, NEW rows, Adds(m, created, r, mine, rows)
    PROVE  Grew(rows, r, mine)
<1> USE DEF Adds
<1> DEFINE ids == {IdAt(m, i) : i \in mine}
<1>1. /\ Cardinality(mine) \in Nat
      /\ IsFiniteSet(ids) /\ Cardinality(ids) = Cardinality(mine)
  <2>1. mine \in SUBSET DOMAIN Payload[m]
    OBVIOUS
  <2>2. \A i, j \in mine : IdAt(m, i) = IdAt(m, j) => i = j
    OBVIOUS
  <2>3. QED
    BY <2>1, <2>2, DistinctIds
<1>2. IsFiniteSet(OwnedBy(r)) /\ Cardinality(OwnedBy(r)) \in Nat
  BY OwnedFinite
<1>3. r # None
  BY DEF LegacySyncConstants
<1>4. OwnedBy(r) \cap ids = {}
  BY <1>3 DEF OwnedBy
<1>5. rows = OwnedBy(r) \cup ids
  <2>1. ASSUME NEW a \in ids
        PROVE  a \in Attendance /\ attendance'[a] = r
    <3>1. PICK i \in mine : a = IdAt(m, i)
      BY <2>1
    <3>2. i \in created /\ i \in DOMAIN Payload[m] /\ OwnerAt(m, i) = r
      BY <3>1
    <3>3. QED
      BY <3>1, <3>2, Logs
  <2>2. ASSUME NEW a \in Attendance, a \notin ids
        PROVE  attendance'[a] = r <=> attendance[a] = r
    <3>1. CASE \A i \in created : IdAt(m, i) # a
      BY <2>2, <3>1
    <3>2. ASSUME NEW i \in created, IdAt(m, i) = a
          PROVE  attendance'[a] = r <=> attendance[a] = r
      BY <1>3, <2>2, <3>2
    <3>3. QED
      BY <3>1, <3>2
  <2>3. ids \subseteq rows
    BY <2>1 DEF OwnedBy
  <2>4. \A a \in Attendance : a \notin ids => (a \in rows <=> a \in OwnedBy(r))
    BY <2>2 DEF OwnedBy
  <2>5. OwnedBy(r) \subseteq Attendance /\ rows \subseteq Attendance
    BY DEF OwnedBy
  <2>6. QED
    BY <1>4, <2>3, <2>4, <2>5
<1>6. Cardinality(OwnedBy(r) \cup ids)
         = Cardinality(OwnedBy(r)) + Cardinality(ids) - Cardinality(OwnedBy(r) \cap ids)
  BY <1>1, <1>2, FS_Union
<1>7. Cardinality(OwnedBy(r) \cap ids) = 0
  BY <1>4, FS_EmptySet
<1> HIDE DEF ids
<1>8. QED
  BY <1>1, <1>2, <1>5, <1>6, <1>7 DEF Grew

(* Inserting a batch: either nothing happens and the handler gives up, or  *)
(* the rows are there and the handler has noted them, or not.              *)
BatchOf(h) == NextBatch(handler[h].todo)
NewOf(h) == Created(handler[h].message, BatchOf(h))
Inserts(m, created) ==
    /\ attendance' \in [Attendance -> Records \cup {None}]
    /\ \A i \in created : /\ record[OwnerAt(m, i)].status # "REMOVED"
                          /\ attendance'[IdAt(m, i)] = OwnerAt(m, i)
    /\ \A a \in Attendance : (\A i \in created : IdAt(m, i) # a)
                             => attendance'[a] = attendance[a]
InsertEffect(h, m, batch, created) ==
    \/ UNCHANGED attendance /\ GoTo(h, "fail")
    \/ Inserts(m, created) /\ GoTo(h, "fail")
    \/ /\ Inserts(m, created)
       /\ Become(h, [handler[h] EXCEPT !.todo = handler[h].todo \ batch,
                                       !.counts = Counted(h, batch, created)])

LEMMA InsertCases ==
    ASSUME LegacySyncConstants, SoundInv, NEW h \in Handlers, InsertBatch(h)
    PROVE  /\ handler[h].pc = "insert" /\ handler[h].message \in Messages
           /\ Target(h) = handler[h].message
           /\ handler[h].todo \in SUBSET DOMAIN Payload[handler[h].message]
           /\ BatchOf(h) \in SUBSET handler[h].todo
           /\ NewOf(h) = {i \in BatchOf(h) : attendance[IdAt(handler[h].message, i)] = None}
           /\ \A i, j \in handler[h].todo :
                 IdAt(handler[h].message, i) = IdAt(handler[h].message, j) => i = j
           /\ UNCHANGED <<record, message>> /\ faults' \in [Faults -> Nat]
           /\ InsertEffect(h, handler[h].message, BatchOf(h), NewOf(h))
<1> DEFINE m == handler[h].message
           created == NewOf(h)
           row(a) == IF \E i \in created : IdAt(m, i) = a
                     THEN OwnerOf(LogWith(m, created, a)) ELSE attendance[a]
<1>1. /\ handler[h].pc = "insert" /\ handler[h].pc # "idle"
      /\ TypeOK /\ UNCHANGED <<record, message>>
  BY DEF InsertBatch, At, SoundInv
<1>2. /\ m \in Messages /\ m = Target(h) /\ handler[h].todo \in SUBSET DOMAIN Payload[m]
  BY <1>1, Places DEF SoundInv
<1>3. /\ BatchOf(h) \in SUBSET handler[h].todo
      /\ created = {i \in BatchOf(h) : attendance[IdAt(m, i)] = None}
  BY DEF BatchOf, NextBatch, NewOf, Created, IdAt
<1>4. \/ UNCHANGED <<attendance, faults>> /\ GoTo(h, "fail")
      \/ /\ ~ \E i \in created : record[OwnerAt(m, i)].status = "REMOVED"
         /\ attendance' = [a \in Attendance |-> row(a)]
         /\ Continue(h, [handler[h] EXCEPT !.todo = handler[h].todo \ BatchOf(h),
                                           !.counts = Counted(h, BatchOf(h), created)])
  BY DEF InsertBatch, IdAt, OwnerAt, BatchOf, NewOf, Target
<1>5. \A i, j \in handler[h].todo : IdAt(m, i) = IdAt(m, j) => i = j
  BY DEF SoundInv, OncePerId
<1>6. \A i \in created : IdAt(m, i) \in Attendance /\ OwnerAt(m, i) \in Records
  BY <1>2, <1>3, Logs
<1>7. \A i \in created : row(IdAt(m, i)) = OwnerAt(m, i)
  <2>1. ASSUME NEW i \in created
        PROVE  LogWith(m, created, IdAt(m, i)) = Payload[m][i]
    <3>1. \A j \in created : Payload[m][j].id = IdAt(m, i) => j = i
      BY <1>3, <1>5, <2>1 DEF IdAt
    <3>2. (CHOOSE j \in created : Payload[m][j].id = IdAt(m, i)) = i
      BY <2>1, <3>1 DEF IdAt
    <3>3. QED
      BY <3>2 DEF LogWith
  <2>2. QED
    BY <2>1 DEF OwnerOf, OwnerAt
<1>8. ASSUME attendance' = [a \in Attendance |-> row(a)],
             ~ \E i \in created : record[OwnerAt(m, i)].status = "REMOVED"
      PROVE  Inserts(m, created)
  <2>1. \A a \in Attendance : (\A i \in created : IdAt(m, i) # a) => row(a) = attendance[a]
    OBVIOUS
  <2>2. \A a \in Attendance : row(a) \in Records \cup {None}
    <3>1. ASSUME NEW a \in Attendance, NEW i \in created, IdAt(m, i) = a
          PROVE  row(a) \in Records
      BY <1>6, <1>7, <3>1
    <3>2. \A a \in Attendance : attendance[a] \in Records \cup {None}
      BY <1>1 DEF TypeOK
    <3>3. QED
      BY <2>1, <3>1, <3>2
  <2> HIDE DEF row
  <2>3. \A a \in Attendance : attendance'[a] = row(a)
    BY <1>8
  <2>4. QED
    BY <1>6, <1>7, <1>8, <2>1, <2>2, <2>3 DEF Inserts
<1>9. faults' \in [Faults -> Nat]
  BY <1>1, <1>4, SpendTyped DEF Continue, Faults, TypeOK
<1>10. InsertEffect(h, m, BatchOf(h), created)
  BY <1>4, <1>8 DEF InsertEffect, Continue
<1>11. QED
  BY <1>1, <1>2, <1>3, <1>5, <1>9, <1>10

(* What inserting does to the handlers.                                    *)
LEMMA InsertMoves ==
    ASSUME LegacySyncConstants, SoundInv, NEW h \in Handlers, InsertBatch(h)
    PROVE  /\ handler'[h].message = handler[h].message
           /\ handler'[h].pc \in {"insert", "fail"}
           /\ \A g \in Handlers \ {h} : handler'[g] = handler[g]
           /\ handler'[h].pc = "insert" =>
                 /\ Inserts(handler[h].message, NewOf(h))
                 /\ handler'[h].todo = handler[h].todo \ BatchOf(h)
                 /\ handler'[h].counts = Counted(h, BatchOf(h), NewOf(h))
<1>1. TypeOK /\ handler[h].pc = "insert"
  BY InsertCases DEF SoundInv
<1>2. CASE GoTo(h, "fail")
  <2>1. /\ handler'[h].pc = "fail" /\ handler'[h].message = handler[h].message
        /\ \A g \in Handlers \ {h} : handler'[g] = handler[g]
    BY <1>1, <1>2, GoToMoves
  <2>2. QED
    BY <2>1
<1>3. CASE /\ Inserts(handler[h].message, NewOf(h))
           /\ Become(h, [handler[h] EXCEPT !.todo = handler[h].todo \ BatchOf(h),
                                           !.counts = Counted(h, BatchOf(h), NewOf(h))])
  <2>1. PICK state : state = [handler[h] EXCEPT !.todo = handler[h].todo \ BatchOf(h),
                                          !.counts = Counted(h, BatchOf(h), NewOf(h))]
    OBVIOUS
  <2>2. handler'[h] = state /\ \A g \in Handlers \ {h} : handler'[g] = handler[g]
    BY <1>1, <1>3, <2>1, BecomeMoves
  <2>3. handler[h] \in HandlerState
    BY <1>1 DEF TypeOK
  <2>4. QED
    BY <1>1, <1>3, <2>1, <2>2, <2>3 DEF HandlerState
<1>4. QED
  BY <1>2, <1>3, InsertCases DEF InsertEffect

(* Its logs of a record are what a batch adds to the record's rows.        *)
Gains(h, r, n) ==
    /\ Cardinality(OwnedBy(r)) \in Nat /\ Cardinality(OwnedBy(r)') \in Nat /\ n \in Nat
    /\ Cardinality(OwnedBy(r)') = Cardinality(OwnedBy(r)) + n
    /\ n = Cardinality(LogsOf(h, NewOf(h), r))
    /\ record[r].status = "REMOVED" => n = 0

LEMMA InsertGains ==
    ASSUME LegacySyncConstants, SoundInv, NEW h \in Handlers, InsertBatch(h),
           Inserts(handler[h].message, NewOf(h)), NEW r \in Records
    PROVE  \E n : Gains(h, r, n)
<1>0. PICK m \in Messages : m = handler[h].message /\ m = Target(h)
  BY InsertCases
<1>1. PICK created \in SUBSET DOMAIN Payload[m] :
         /\ created = NewOf(h)
         /\ \A i, j \in created : IdAt(m, i) = IdAt(m, j) => i = j
         /\ \A i \in created : attendance[IdAt(m, i)] = None
  <2>1. /\ NewOf(h) \in SUBSET DOMAIN Payload[m]
        /\ \A i, j \in NewOf(h) : IdAt(m, i) = IdAt(m, j) => i = j
        /\ \A i \in NewOf(h) : attendance[IdAt(m, i)] = None
    <3>0. /\ NewOf(h) = {i \in BatchOf(h) : attendance[IdAt(handler[h].message, i)] = None}
          /\ BatchOf(h) \in SUBSET handler[h].todo
          /\ handler[h].todo \in SUBSET DOMAIN Payload[handler[h].message]
      BY InsertCases
    <3>1. /\ \A i \in NewOf(h) : i \in BatchOf(h) /\ attendance[IdAt(m, i)] = None
          /\ BatchOf(h) \in SUBSET handler[h].todo
          /\ handler[h].todo \in SUBSET DOMAIN Payload[m]
      BY <1>0, <3>0
    <3>2. \A i, j \in handler[h].todo : IdAt(m, i) = IdAt(m, j) => i = j
      BY <1>0, InsertCases
    <3>3. QED
      BY <3>1, <3>2
  <2>2. QED
    BY <2>1
<1>2. PICK mine \in SUBSET created : \A i \in created : i \in mine <=> OwnerAt(m, i) = r
  <2>1. WITNESS {i \in created : OwnerAt(m, i) = r} \in SUBSET created
  <2>2. QED
    OBVIOUS
<1>3. /\ \A i \in created : /\ record[OwnerAt(m, i)].status # "REMOVED"
                            /\ attendance'[IdAt(m, i)] = OwnerAt(m, i)
      /\ \A a \in Attendance : (\A i \in created : IdAt(m, i) # a)
                               => attendance'[a] = attendance[a]
  BY <1>0, <1>1 DEF Inserts
<1>4. /\ Cardinality(mine) \in Nat /\ Cardinality(OwnedBy(r)) \in Nat
      /\ Cardinality(OwnedBy(r)') = Cardinality(OwnedBy(r)) + Cardinality(mine)
  <2>1. \A i \in created : attendance[IdAt(m, i)] = None
                            /\ attendance'[IdAt(m, i)] = OwnerAt(m, i)
    BY <1>1, <1>3
  <2>7. PICK rows : rows = OwnedBy(r)'
    OBVIOUS
  <2>2. Adds(m, created, r, mine, rows)
    BY <1>1, <1>2, <1>3, <2>1, <2>7 DEF Adds, OwnedBy
  <2>3. Grew(rows, r, mine)
    BY <2>2, OwnedGrows
  <2>4. QED
    BY <2>3, <2>7 DEF Grew
<1>5. LogsOf(h, NewOf(h), r) = mine
  BY <1>0, <1>1, <1>2 DEF LogsOf, OwnerAt
<1>6. record[r].status = "REMOVED" => Cardinality(mine) = 0
  <2>1. record[r].status = "REMOVED" => mine = {}
    BY <1>2, <1>3
  <2>2. QED
    BY <2>1, FS_EmptySet
<1>7. PICK n : n = Cardinality(mine)
  OBVIOUS
<1>8. Gains(h, r, n)
  BY <1>4, <1>5, <1>6, <1>7 DEF Gains
<1>9. QED
  BY <1>8

(* Counts after a batch: what is added was inserted.                       *)
LEMMA CountedBounds ==
    ASSUME LegacySyncConstants, SoundInv, NEW h \in Handlers, InsertBatch(h),
           Inserts(handler[h].message, NewOf(h)), NEW r \in Records,
           NEW n, n = Counted(h, BatchOf(h), NewOf(h))[r]
    PROVE  /\ n \in 0 .. Cardinality(Attendance)
           /\ record[r].status # "REMOVED" => n <= Cardinality(OwnedBy(r)')
           /\ Cardinality(OwnedBy(r)) \in Nat /\ Cardinality(OwnedBy(r)') \in Nat
           /\ Cardinality(OwnedBy(r)) <= Cardinality(OwnedBy(r)')
<1>1. PICK new : Gains(h, r, new)
  BY InsertGains
<1>2. /\ handler[h].counts[r] \in 0 .. Cardinality(Attendance)
      /\ record[r].status # "REMOVED" => handler[h].counts[r] <= Cardinality(OwnedBy(r))
  BY DEF SoundInv, TypeOK, HandlerState, CountedAreOwned
<1>3. n = handler[h].counts[r] + new \/ n = handler[h].counts[r]
  <2>1. n = handler[h].counts[r] +
              IF NewOf(h) = BatchOf(h) \/ RecordsOf(Target(h)) = {r}
              THEN Cardinality(LogsOf(h, NewOf(h), r)) ELSE 0
    BY DEF Counted
  <2>2. QED
    BY <1>1, <1>2, <2>1 DEF Gains
<1>4. /\ Cardinality(OwnedBy(r)') <= Cardinality(Attendance)
      /\ Cardinality(Attendance) \in Nat
  <2>1. OwnedBy(r)' \in SUBSET Attendance
    BY DEF OwnedBy
  <2>2. QED
    BY <2>1, FS_Subset, FS_CardinalityType DEF LegacySyncConstants
<1>5. CASE record[r].status = "REMOVED"
  BY <1>1, <1>2, <1>3, <1>4, <1>5 DEF Gains
<1>6. CASE record[r].status # "REMOVED"
  <2>1. /\ handler[h].counts[r] <= Cardinality(OwnedBy(r)) /\ handler[h].counts[r] \in Nat
        /\ Cardinality(Attendance) \in Nat
    BY <1>2, <1>4, <1>6
  <2>2. /\ Cardinality(OwnedBy(r)) \in Nat /\ Cardinality(OwnedBy(r)') \in Nat /\ new \in Nat
        /\ Cardinality(OwnedBy(r)') = Cardinality(OwnedBy(r)) + new
    BY <1>1 DEF Gains
  <2>3. n \in Nat /\ n <= Cardinality(OwnedBy(r)')
    BY <1>3, <2>1, <2>2
  <2>4. QED
    BY <1>4, <2>1, <2>2, <2>3
<1>7. QED
  BY <1>5, <1>6

LEMMA InsertSound ==
    ASSUME LegacySyncConstants, SoundInv, NEW h \in Handlers, InsertBatch(h)
    PROVE  SoundInv'
<1>1. /\ handler[h].pc = "insert" /\ handler[h].message \in Messages /\ TypeOK
      /\ handler[h].todo \in SUBSET DOMAIN Payload[handler[h].message]
      /\ UNCHANGED <<record, message>> /\ faults' \in [Faults -> Nat]
      /\ InsertEffect(h, handler[h].message, BatchOf(h), NewOf(h))
  BY InsertCases DEF SoundInv
<1>2. \A r \in Records : /\ Cardinality(OwnedBy(r)) \in Nat /\ Cardinality(OwnedBy(r)') \in Nat
                         /\ Cardinality(OwnedBy(r)) <= Cardinality(OwnedBy(r)')
  <2>1. CASE UNCHANGED attendance
    <3> SUFFICES ASSUME NEW r \in Records
                 PROVE  /\ Cardinality(OwnedBy(r)) \in Nat /\ Cardinality(OwnedBy(r)') \in Nat
                        /\ Cardinality(OwnedBy(r)) <= Cardinality(OwnedBy(r)')
      OBVIOUS
    <3>1. OwnedBy(r)' = OwnedBy(r)
      BY <2>1 DEF OwnedBy
    <3>2. Cardinality(OwnedBy(r)) \in Nat
      BY OwnedFinite
    <3>3. QED
      BY <3>1, <3>2
  <2>2. CASE Inserts(handler[h].message, NewOf(h))
    BY <2>2, CountedBounds
  <2>3. QED
    BY <1>1, <2>1, <2>2 DEF InsertEffect
<1>3. /\ attendance' \in [Attendance -> Records \cup {None}]
      /\ handler'[h] \in HandlerState /\ handler' \in [Handlers -> HandlerState]
      /\ \A g \in Handlers \ {h} : handler'[g] = handler[g]
      /\ handler'[h].message = handler[h].message /\ handler'[h].pc \in {"insert", "fail"}
      /\ handler'[h].todo \subseteq handler[h].todo
      /\ \A r \in Records : record[r].status # "REMOVED" =>
            handler'[h].counts[r] <= Cardinality(OwnedBy(r)')
  <2>1. CASE GoTo(h, "fail")
    <3>0. handler[h] \in HandlerState
      BY <1>1 DEF TypeOK
    <3>1. [handler[h] EXCEPT !.pc = "fail"] \in HandlerState
      BY <3>0 DEF HandlerState
    <3>2. handler' \in [Handlers -> HandlerState] /\ handler'[h] \in HandlerState
      BY <1>1, <2>1, <3>1 DEF GoTo, TypeOK
    <3>3. attendance' \in [Attendance -> Records \cup {None}]
      BY <1>1 DEF InsertEffect, Inserts, TypeOK
    <3>4. \A r \in Records : record[r].status # "REMOVED" =>
             handler[h].counts[r] <= Cardinality(OwnedBy(r)')
      <4>1. ASSUME NEW r \in Records, record[r].status # "REMOVED"
            PROVE  handler[h].counts[r] <= Cardinality(OwnedBy(r)')
        <5>1. /\ handler[h].counts[r] <= Cardinality(OwnedBy(r))
              /\ handler[h].counts[r] \in 0 .. Cardinality(Attendance)
          BY <4>1 DEF SoundInv, CountedAreOwned, TypeOK, HandlerState
        <5>2. Cardinality(Attendance) \in Nat
          BY OwnedFinite
        <5>3. QED
          BY <1>2, <5>1, <5>2
      <4>2. QED
        BY <4>1
    <3>5. QED
      BY <1>1, <2>1, <3>2, <3>3, <3>4, GoToMoves
  <2>2. CASE /\ Inserts(handler[h].message, NewOf(h))
             /\ Become(h, [handler[h] EXCEPT !.todo = handler[h].todo \ BatchOf(h),
                                             !.counts = Counted(h, BatchOf(h), NewOf(h))])
    <3>1. /\ Counted(h, BatchOf(h), NewOf(h)) \in [Records -> 0 .. Cardinality(Attendance)]
          /\ \A r \in Records : record[r].status # "REMOVED" =>
                Counted(h, BatchOf(h), NewOf(h))[r] <= Cardinality(OwnedBy(r)')
      <4>1. \A r \in Records :
               /\ Counted(h, BatchOf(h), NewOf(h))[r] \in 0 .. Cardinality(Attendance)
               /\ record[r].status # "REMOVED" =>
                     Counted(h, BatchOf(h), NewOf(h))[r] <= Cardinality(OwnedBy(r)')
        BY <2>2, CountedBounds
      <4>2. Counted(h, BatchOf(h), NewOf(h))
              = [r \in Records |-> Counted(h, BatchOf(h), NewOf(h))[r]]
        BY DEF Counted
      <4>3. QED
        BY <4>1, <4>2
    <3>2. PICK todo \in SUBSET handler[h].todo : todo = handler[h].todo \ BatchOf(h)
      OBVIOUS
    <3>3. PICK counts \in [Records -> 0 .. Cardinality(Attendance)] :
             counts = Counted(h, BatchOf(h), NewOf(h))
      BY <3>1
    <3>4. handler[h] \in HandlerState
      BY <1>1 DEF TypeOK
    <3>5. PICK state : state = [handler[h] EXCEPT !.todo = todo, !.counts = counts]
      OBVIOUS
    <3>6. /\ state \in HandlerState /\ state.pc = "insert"
          /\ state.message = handler[h].message /\ state.todo = todo /\ state.counts = counts
      BY <1>1, <3>4, <3>5 DEF HandlerState
    <3>7. Become(h, state)
      BY <2>2, <3>2, <3>3, <3>5
    <3>8. handler'[h] = state /\ \A g \in Handlers \ {h} : handler'[g] = handler[g]
      BY <1>1, <3>7, BecomeMoves
    <3>9. handler' \in [Handlers -> HandlerState]
      BY <1>1, <3>6, <3>7 DEF Become, TypeOK
    <3>10. attendance' \in [Attendance -> Records \cup {None}]
      BY <2>2 DEF Inserts
    <3>11. QED
      BY <3>1, <3>3, <3>6, <3>8, <3>9, <3>10
  <2>3. QED
    BY <1>1, <2>1, <2>2 DEF InsertEffect
<1>4. TypeOK'
  BY <1>1, <1>3 DEF TypeOK
<1>5. Busy'
  <2>1. handler[h].message # None
    BY <1>1 DEF LegacySyncConstants
  <2>2. UsedWell(h)'
    BY <1>1, <1>3, <2>1 DEF UsedWell
  <2>3. \A g \in Handlers \ {h} : UsedWell(g)'
    BY <1>3 DEF SoundInv, Busy, UsedWell
  <2>4. QED
    BY <2>2, <2>3 DEF Busy
<1>6. OncePerId'
  <2>1. \A g \in Handlers : /\ handler'[g].message = handler[g].message
                            /\ handler'[g].todo \subseteq handler[g].todo
    BY <1>3
  <2>2. QED
    BY <2>1 DEF SoundInv, OncePerId, IdAt
<1>7. CountedAreOwned'
  <2>1. ASSUME NEW g \in Handlers \ {h}, NEW r \in Records, record[r].status # "REMOVED"
        PROVE  handler'[g].counts[r] <= Cardinality(OwnedBy(r)')
    <3>1. /\ handler[g].counts[r] <= Cardinality(OwnedBy(r))
          /\ handler[g].counts[r] \in 0 .. Cardinality(Attendance)
      BY <2>1 DEF SoundInv, CountedAreOwned, TypeOK, HandlerState
    <3>2. Cardinality(Attendance) \in Nat /\ handler'[g] = handler[g]
      BY <1>3, <2>1, OwnedFinite
    <3>3. QED
      BY <1>2, <3>1, <3>2
  <2>2. QED
    BY <1>1, <1>3, <2>1 DEF CountedAreOwned
<1>8. CountSound'
  <2>1. ASSUME NEW r \in Records
        PROVE  record'[r].inserted <= Cardinality(OwnedBy(r)')
    <3>1. /\ record[r].inserted <= Cardinality(OwnedBy(r)) /\ record' = record
          /\ record[r].inserted \in 0 .. Cardinality(Attendance)
      BY <1>1 DEF SoundInv, CountSound, TypeOK
    <3>2. Cardinality(Attendance) \in Nat
      BY OwnedFinite
    <3>3. QED
      BY <1>2, <3>1, <3>2
  <2>2. QED
    BY <2>1 DEF CountSound
<1>9. QED
  BY <1>4, <1>5, <1>6, <1>7, <1>8 DEF SoundInv

LEMMA SuccessSound ==
    ASSUME LegacySyncConstants, SoundInv, NEW h \in Handlers, MarkSuccess(h)
    PROVE  TypeOK' /\ Quiet
<1>1. /\ handler[h].pc = "insert" /\ handler[h].pc # "idle" /\ TypeOK /\ Busy
      /\ UNCHANGED <<attendance, message>>
  BY DEF MarkSuccess, At, SoundInv
<1>2. PICK m \in Messages : m = handler[h].message /\ m = Target(h)
  BY <1>1, Places
<1>3. CASE GoTo(h, "fail") /\ UNCHANGED <<record, faults>>
  BY <1>1, <1>3, AloneMoves DEF TypeOK, Quiet, QuietRecords
<1>4. ASSUME \A r \in RecordsOf(m) : record[r].status # "REMOVED",
             record' = [r \in Records |-> IF MessageOf[r] = m
                    THEN [status |-> "SUCCESS", inserted |-> handler[h].counts[r]]
                    ELSE record[r]],
             Continue(h, Acknowledging(m))
      PROVE  TypeOK' /\ Quiet
  <2>1. \A r \in Records : handler[h].counts[r] \in 0 .. Cardinality(Attendance)
    BY <1>1 DEF TypeOK, HandlerState
  <2>2. record' \in [Records -> [status : {"PENDING", "PROCESSING", "SUCCESS", "FAILED",
                                           "REMOVED"},
                                 inserted : 0 .. Cardinality(Attendance)]]
    BY <1>1, <1>4, <2>1 DEF TypeOK
  <2>3. QuietRecords
    <3>1. ASSUME NEW r \in Records
          PROVE  /\ \/ record'[r].inserted = record[r].inserted
                    \/ record'[r].inserted <= Cardinality(OwnedBy(r))
                 /\ record'[r].status = "REMOVED" <=> record[r].status = "REMOVED"
      <4>1. CASE MessageOf[r] = m
        <5>1. record[r].status # "REMOVED"
          BY <1>4, <4>1 DEF RecordsOf
        <5>2. handler[h].counts[r] <= Cardinality(OwnedBy(r))
          BY <5>1 DEF SoundInv, CountedAreOwned
        <5>3. record'[r] = [status |-> "SUCCESS", inserted |-> handler[h].counts[r]]
          BY <1>4, <4>1
        <5>4. QED
          BY <5>1, <5>2, <5>3
      <4>2. CASE MessageOf[r] # m
        BY <1>4, <4>2
      <4>3. QED
        BY <4>1, <4>2
    <3>2. QED
      BY <3>1 DEF QuietRecords
  <2>4. faults' \in [Faults -> Nat]
    BY <1>1, <1>4, SpendTyped DEF Continue, Faults, TypeOK
  <2>5. Become(h, Acknowledging(m)) \/ GoTo(h, "fail")
    BY <1>4 DEF Continue
  <2>6. QED
    BY <1>1, <2>2, <2>3, <2>4, <2>5, AloneMoves DEF TypeOK, Quiet
<1>5. QED
  BY <1>2, <1>3, <1>4 DEF MarkSuccess, Acknowledging

LEMMA RemoveSound ==
    ASSUME LegacySyncConstants, SoundInv, NEW r \in Records, RemoveStore(r)
    PROVE  SoundInv'
<1>1. /\ TypeOK /\ UNCHANGED <<message, handler>> /\ faults' \in [Faults -> Nat]
      /\ record'[r] = [status |-> "REMOVED", inserted |-> 0]
      /\ \A q \in Records \ {r} : record'[q] = record[q]
      /\ attendance' = [a \in Attendance |-> IF attendance[a] = r THEN None ELSE attendance[a]]
  BY SpendTyped DEF RemoveStore, SoundInv, TypeOK, Faults
<1>2. r # None /\ Cardinality(Attendance) \in Nat
  BY OwnedFinite DEF LegacySyncConstants
<1>3. \A q \in Records \ {r} : OwnedBy(q)' = OwnedBy(q)
  BY <1>1, <1>2 DEF OwnedBy, LegacySyncConstants
<1>4. OwnedBy(r)' = {}
  BY <1>1, <1>2 DEF OwnedBy
<1>5. Cardinality(OwnedBy(r)') = 0
  BY <1>4, FS_EmptySet
<1>6. TypeOK'
  <2>1. [status |-> "REMOVED", inserted |-> 0]
           \in [status : {"PENDING", "PROCESSING", "SUCCESS", "FAILED", "REMOVED"},
                inserted : 0 .. Cardinality(Attendance)]
    BY <1>2
  <2>2. record' \in [Records -> [status : {"PENDING", "PROCESSING", "SUCCESS", "FAILED",
                                           "REMOVED"},
                                 inserted : 0 .. Cardinality(Attendance)]]
    BY <1>1, <2>1 DEF TypeOK, RemoveStore
  <2>3. QED
    BY <1>1, <2>2 DEF TypeOK
<1>7. Busy' /\ OncePerId'
  BY <1>1 DEF SoundInv, Busy, UsedWell, OncePerId, IdAt
<1>8. CountedAreOwned'
  <2>1. ASSUME NEW h \in Handlers, NEW q \in Records, record'[q].status # "REMOVED"
        PROVE  handler'[h].counts[q] <= Cardinality(OwnedBy(q)')
    <3>1. q # r
      BY <1>1, <2>1
    <3>2. QED
      BY <1>1, <1>3, <2>1, <3>1 DEF SoundInv, CountedAreOwned
  <2>2. QED
    BY <2>1 DEF CountedAreOwned
<1>9. CountSound'
  <2>1. ASSUME NEW q \in Records
        PROVE  record'[q].inserted <= Cardinality(OwnedBy(q)')
    <3>1. CASE q = r
      BY <1>1, <1>5, <3>1
    <3>2. CASE q # r
      BY <1>1, <1>3, <3>2 DEF SoundInv, CountSound
    <3>3. QED
      BY <3>1, <3>2
  <2>2. QED
    BY <2>1 DEF CountSound
<1>10. QED
  BY <1>6, <1>7, <1>8, <1>9 DEF SoundInv

(* Every step is uneventful or one of the four that matter.                *)
LEMMA StepCases ==
    ASSUME [Next]_vars
    PROVE  \/ Uneventful
           \/ \E h \in Handlers : ReadExisting(h) \/ InsertBatch(h) \/ MarkSuccess(h)
           \/ \E r \in Records : RemoveStore(r)
  BY DEF Next, HandlerStep, Uneventful

LEMMA NextSound == LegacySyncConstants /\ SoundInv /\ [Next]_vars => SoundInv'
<1> SUFFICES ASSUME LegacySyncConstants, SoundInv, [Next]_vars
             PROVE  SoundInv'
  OBVIOUS
<1>1. CASE Uneventful
  BY <1>1, UneventfulQuiet, QuietSound
<1>2. ASSUME NEW h \in Handlers, ReadExisting(h) \/ InsertBatch(h) \/ MarkSuccess(h)
      PROVE  SoundInv'
  BY <1>2, ReadSound, InsertSound, SuccessSound, QuietSound
<1>3. ASSUME NEW r \in Records, RemoveStore(r)
      PROVE  SoundInv'
  BY <1>3, RemoveSound
<1>4. QED
  BY <1>1, <1>2, <1>3, StepCases

LEMMA SoundInvariant == Spec => []SoundInv
<1>1. Init => SoundInv
  BY InitSound, LegacySyncConstants
<1>2. SoundInv /\ [Next]_vars => SoundInv'
  BY NextSound, LegacySyncConstants
<1>3. QED
  BY <1>1, <1>2, PTL DEF Spec

(* The variables keep their types: in particular neither a record nor a    *)
(* handler, over all its batches and deliveries, counts more rows than     *)
(* there are attendance ids.                                               *)
THEOREM LegacyTypeCorrect == Spec => []TypeOK
<1>1. SoundInv => TypeOK
  BY DEF SoundInv
<1>2. QED
  BY <1>1, SoundInvariant, PTL

(* insertedRecords of a record never exceeds the rows that the record has  *)
(* in the table, with any number of records in the message, deliveries     *)
(* that overlap, lost replies and deleted stores (sqs.processor.ts,        *)
(* insertBatch and the transaction that marks the records SUCCESS).        *)
THEOREM CountsAreSound == Spec => []CountSound
<1>1. SoundInv => CountSound
  BY DEF SoundInv
<1>2. QED
  BY <1>1, SoundInvariant, PTL

-----------------------------------------------------------------------------
(* SUCCESS means complete.                                                 *)

(* A row changes owner only from nobody to the record of a log that is     *)
(* offered.                                                                *)
LEMMA InsertAdds ==
    ASSUME LegacySyncConstants, SoundInv, NEW h \in Handlers, InsertBatch(h),
           NEW a \in Attendance
    PROVE  \/ attendance'[a] = attendance[a]
           \/ /\ attendance[a] = None /\ attendance'[a] # None
              /\ \E i \in NewOf(h) : /\ IdAt(handler[h].message, i) = a
                                     /\ attendance'[a] = OwnerAt(handler[h].message, i)
<1>1. PICK m \in Messages : m = handler[h].message
  BY InsertCases
<1>2. UNCHANGED attendance \/ Inserts(m, NewOf(h))
  BY <1>1, InsertCases DEF InsertEffect
<1>3. /\ \A i \in NewOf(h) : attendance[IdAt(m, i)] = None
      /\ NewOf(h) \in SUBSET DOMAIN Payload[m]
  <2>1. /\ NewOf(h) = {i \in BatchOf(h) : attendance[IdAt(handler[h].message, i)] = None}
        /\ BatchOf(h) \in SUBSET handler[h].todo
        /\ handler[h].todo \in SUBSET DOMAIN Payload[handler[h].message]
    BY InsertCases
  <2>2. QED
    BY <1>1, <2>1
<1>4. ASSUME NEW i \in NewOf(h)
      PROVE  OwnerAt(m, i) # None
  <2>1. i \in DOMAIN Payload[m]
    BY <1>3
  <2>2. OwnerAt(m, i) \in Records
    BY <2>1, Logs
  <2>3. QED
    BY <2>2 DEF LegacySyncConstants
<1>5. QED
  BY <1>1, <1>2, <1>3, <1>4 DEF Inserts

LEMMA RowsKept ==
    ASSUME LegacySyncConstants, SoundInv, RowsAreAsked, [Next]_vars
    PROVE  RowsAreAsked' /\ \A a \in Attendance : HadRow(a) => HadRow(a)'
<1>1. ASSUME UNCHANGED attendance, QuietRecords
      PROVE  RowsAreAsked' /\ \A a \in Attendance : HadRow(a) => HadRow(a)'
  BY <1>1 DEF RowsAreAsked, IdsOf, HadRow, RemovedWithStore, QuietRecords
<1>2. ASSUME NEW h \in Handlers, InsertBatch(h)
      PROVE  RowsAreAsked' /\ \A a \in Attendance : HadRow(a) => HadRow(a)'
  <2>1. PICK m \in Messages : m = handler[h].message
    BY <1>2, InsertCases
  <2>2. NewOf(h) \in SUBSET DOMAIN Payload[m] /\ UNCHANGED record
    <3>1. /\ NewOf(h) = {i \in BatchOf(h) : attendance[IdAt(handler[h].message, i)] = None}
          /\ BatchOf(h) \in SUBSET handler[h].todo
          /\ handler[h].todo \in SUBSET DOMAIN Payload[handler[h].message]
          /\ UNCHANGED record
      BY <1>2, InsertCases
    <3>2. QED
      BY <2>1, <3>1
  <2>3. ASSUME NEW a \in Attendance
        PROVE  \/ attendance'[a] = attendance[a]
               \/ attendance[a] = None /\ attendance'[a] # None /\ a \in IdsOf(attendance'[a])
    <3>1. ASSUME NEW i \in NewOf(h)
          PROVE  IdAt(m, i) \in IdsOf(OwnerAt(m, i))
      <4>1. i \in DOMAIN Payload[m]
        BY <2>2
      <4>2. QED
        BY <4>1, Logs
    <3>2. \/ attendance'[a] = attendance[a]
          \/ /\ attendance[a] = None /\ attendance'[a] # None
             /\ \E i \in NewOf(h) : IdAt(m, i) = a /\ attendance'[a] = OwnerAt(m, i)
      BY <1>2, <2>1, InsertAdds
    <3>3. QED
      BY <3>1, <3>2
  <2>4. \A a \in Attendance : attendance'[a] # None => a \in IdsOf(attendance'[a])
    BY <2>3 DEF RowsAreAsked
  <2>5. RowsAreAsked'
    BY <2>4 DEF RowsAreAsked, IdsOf
  <2>6. QED
    BY <2>2, <2>3, <2>5 DEF HadRow, RemovedWithStore, IdsOf
<1>3. ASSUME NEW r \in Records, RemoveStore(r)
      PROVE  RowsAreAsked' /\ \A a \in Attendance : HadRow(a) => HadRow(a)'
  <2>1. /\ record'[r].status = "REMOVED"
        /\ \A q \in Records \ {r} : record'[q] = record[q]
        /\ \A a \in Attendance : attendance'[a] = IF attendance[a] = r THEN None ELSE attendance[a]
    BY <1>3 DEF RemoveStore, SoundInv, TypeOK
  <2>2. \A a \in Attendance : attendance[a] = r => a \in IdsOf(r)
    BY DEF RowsAreAsked, LegacySyncConstants
  <2>3. \A a \in Attendance : attendance'[a] # None => a \in IdsOf(attendance'[a])
    BY <2>1 DEF RowsAreAsked
  <2>4. RowsAreAsked'
    BY <2>3 DEF RowsAreAsked, IdsOf
  <2>5. ASSUME NEW a \in Attendance, HadRow(a)
        PROVE  attendance'[a] # None
               \/ \E q \in Records : record'[q].status = "REMOVED" /\ a \in IdsOf(q)
    <3>1. CASE \E q \in Records : record[q].status = "REMOVED" /\ a \in IdsOf(q)
      BY <2>1, <3>1
    <3>2. CASE attendance[a] # None
      BY <2>1, <2>2, <3>2
    <3>3. QED
      BY <2>5, <3>1, <3>2 DEF HadRow, RemovedWithStore
  <2>6. QED
    BY <2>4, <2>5 DEF HadRow, RemovedWithStore, IdsOf
<1>4. ASSUME NEW h \in Handlers, ReadExisting(h)
      PROVE  UNCHANGED attendance /\ QuietRecords
  BY <1>4 DEF ReadExisting, database, QuietRecords
<1>5. Uneventful => UNCHANGED attendance /\ QuietRecords
  BY UneventfulQuiet DEF Quiet
<1>6. ASSUME NEW h \in Handlers, MarkSuccess(h)
      PROVE  UNCHANGED attendance /\ QuietRecords
  BY <1>6, SuccessSound DEF Quiet
<1>7. QED
  BY <1>1, <1>2, <1>3, <1>4, <1>5, <1>6, StepCases

(* Of the logs with one id, the first is offered, if there is no row.      *)
LEMMA FirstIsOffered ==
    ASSUME LegacySyncConstants, NEW m \in Messages, NEW a \in Ids(m), attendance[a] = None
    PROVE  \E i \in ToInsert(m) : IdAt(m, i) = a
<1> DEFINE less == {ss \in Nat \X Nat : ss[1] < ss[2]}
           places == {i \in DOMAIN Payload[m] : IdAt(m, i) = a}
<1>1. DOMAIN Payload[m] \in SUBSET Nat
  BY PlacesFinite
<1>2. PICK k \in DOMAIN Payload[m] : IdAt(m, k) = a
  BY DEF Ids
<1>3. places \in SUBSET Nat /\ places # {}
  BY <1>1, <1>2
<1>4. PICK i \in places : \A j \in places : i <= j
  <2>1. IsWellFoundedOn(less, Nat)
    BY NatLessThanWellFounded DEF OpToRel
  <2>2. \E i \in places : \A j \in places : <<j, i>> \notin less
    <3> HIDE DEF less, places
    <3>1. QED
      BY <1>3, <2>1, WFMin
  <2>3. PICK i \in places : \A j \in places : <<j, i>> \notin less
    BY <2>2
  <2>4. \A j \in places : i \in Nat /\ j \in Nat /\ ~ (j < i)
    BY <1>3, <2>3
  <2>5. QED
    BY <2>4
<1>5. i \in ToInsert(m)
  BY <1>1, <1>4 DEF ToInsert, IdAt
<1>6. QED
  BY <1>4, <1>5

(* No record becomes SUCCESS but by MarkSuccess.                           *)
LEMMA SuccessKept ==
    ASSUME LegacySyncConstants, SoundInv, [Next]_vars,
           NEW r \in Records, record'[r].status = "SUCCESS"
    PROVE  \/ record'[r] = record[r]
           \/ \E h \in Handlers : MarkSuccess(h) /\ MessageOf[r] = Target(h)
<1>1. TypeOK
  BY DEF SoundInv
<1>2. ASSUME NEW m, NEW status \in {"PROCESSING", "FAILED"}, SetStatus(m, status)
      PROVE  record'[r] = record[r]
  BY <1>1, <1>2, StatusTyped
<1>3. Uneventful => record'[r] = record[r]
  BY <1>2 DEF Uneventful, Receive, VisibilityTimeout, Start, LookupDevices, MarkFailed,
              DeleteMessage, ThrowInTry, Abort, vars, database
<1>4. ASSUME NEW h \in Handlers, ReadExisting(h) \/ InsertBatch(h)
      PROVE  record'[r] = record[r]
  BY <1>4 DEF ReadExisting, InsertBatch, database
<1>5. ASSUME NEW h \in Handlers, MarkSuccess(h), MessageOf[r] # Target(h)
      PROVE  record'[r] = record[r]
  BY <1>5 DEF MarkSuccess
<1>6. ASSUME NEW q \in Records, RemoveStore(q)
      PROVE  record'[r] = record[r]
  BY <1>1, <1>6 DEF RemoveStore, TypeOK
<1>7. QED
  BY <1>3, <1>4, <1>5, <1>6, StepCases

(* The ids of a record's store are ids of its message.                     *)
LEMMA IdsTyped ==
    ASSUME LegacySyncConstants, NEW m \in Messages
    PROVE  Ids(m) \subseteq Attendance
<1>1. \A i \in DOMAIN Payload[m] : IdAt(m, i) \in Attendance
  BY Logs
<1>2. QED
  BY <1>1 DEF Ids

LEMMA OwnIds ==
    ASSUME LegacySyncConstants, NEW r \in Records
    PROVE  /\ MessageOf[r] \in Messages /\ IdsOf(r) \subseteq Ids(MessageOf[r])
           /\ Ids(MessageOf[r]) \subseteq Attendance
<1>1. MessageOf[r] \in Messages
  BY DEF LegacySyncConstants
<1>2. \A i \in DOMAIN Payload[MessageOf[r]] : IdAt(MessageOf[r], i) \in Attendance
  BY <1>1, Logs
<1>3. QED
  BY <1>1, <1>2 DEF IdsOf, Ids, IdAt

LEMMA OfferedKept ==
    ASSUME LegacySyncConstants, SoundInv, SoundInv', CompleteInv, [Next]_vars
    PROVE  OfferedHadRow'
<1>1. \A a \in Attendance : HadRow(a) => HadRow(a)'
  BY RowsKept DEF CompleteInv
<1>2. ASSUME NEW h \in Handlers, handler'[h] = handler[h], handler[h].pc = "insert",
             NEW a \in Ids(handler[h].message)
      PROVE  HadRow(a)' \/ \E i \in handler'[h].todo : IdAt(handler'[h].message, i) = a
  <2>1. handler[h].message \in Messages
    BY <1>2, Places DEF SoundInv
  <2>2. a \in Attendance
    BY <2>1, IdsTyped
  <2>3. HadRow(a) \/ \E i \in handler[h].todo : IdAt(handler[h].message, i) = a
    BY <1>2 DEF CompleteInv, OfferedHadRow
  <2>4. QED
    BY <1>1, <1>2, <2>2, <2>3
<1>3. ASSUME NEW h \in Handlers, ReadExisting(h), NEW a \in Ids(handler[h].message)
      PROVE  HadRow(a)' \/ \E i \in handler'[h].todo : IdAt(handler'[h].message, i) = a
  <2>1. /\ handler[h].message \in Messages /\ UNCHANGED attendance
        /\ handler'[h].message = handler[h].message
        /\ handler'[h].todo = ToInsert(handler[h].message)
    BY <1>3, ReadOffers
  <2>2. CASE attendance[a] = None
    <3>1. PICK m \in Messages : m = handler[h].message
      BY <2>1
    <3>2. a \in Ids(m)
      BY <1>3, <3>1
    <3>3. \E i \in ToInsert(m) : IdAt(m, i) = a
      BY <2>2, <3>2, FirstIsOffered
    <3>4. QED
      BY <2>1, <3>1, <3>3
  <2>3. CASE attendance[a] # None
    BY <2>1, <2>3 DEF HadRow
  <2>4. QED
    BY <2>2, <2>3
<1>4. ASSUME NEW h \in Handlers, InsertBatch(h), handler'[h].pc = "insert",
             NEW a \in Ids(handler[h].message)
      PROVE  HadRow(a)' \/ \E i \in handler'[h].todo : IdAt(handler'[h].message, i) = a
  <2>1. PICK m \in Messages : m = handler[h].message /\ handler[h].pc = "insert"
    BY <1>4, InsertCases
  <2>2. /\ BatchOf(h) \in SUBSET handler[h].todo
        /\ NewOf(h) = {i \in BatchOf(h) : attendance[IdAt(handler[h].message, i)] = None}
        /\ handler[h].todo \in SUBSET DOMAIN Payload[m]
    BY <1>4, <2>1, InsertCases
  <2>3. /\ Inserts(m, NewOf(h)) /\ handler'[h].message = m
        /\ handler'[h].todo = handler[h].todo \ BatchOf(h)
    BY <1>4, <2>1, InsertMoves
  <2>4. a \in Attendance
    BY <1>4, <2>1, IdsTyped
  <2>5. CASE HadRow(a)
    BY <1>1, <2>4, <2>5
  <2>6. ASSUME NEW i \in handler[h].todo, IdAt(m, i) = a, ~ HadRow(a)
        PROVE  HadRow(a)' \/ \E j \in handler'[h].todo : IdAt(handler'[h].message, j) = a
    <3>1. CASE i \in BatchOf(h)
      <4>1. attendance[IdAt(handler[h].message, i)] = None
        BY <2>1, <2>6 DEF HadRow
      <4>2. i \in NewOf(h) /\ i \in DOMAIN Payload[m]
        BY <2>2, <2>6, <3>1, <4>1
      <4>3. attendance'[a] = OwnerAt(m, i) /\ OwnerAt(m, i) \in Records
        BY <2>3, <2>6, <4>2, Logs DEF Inserts
      <4>4. QED
        BY <4>3 DEF HadRow, LegacySyncConstants
    <3>2. CASE i \notin BatchOf(h)
      BY <2>3, <2>6, <3>2
    <3>3. QED
      BY <3>1, <3>2
  <2>7. HadRow(a) \/ \E i \in handler[h].todo : IdAt(m, i) = a
    BY <1>4, <2>1 DEF CompleteInv, OfferedHadRow
  <2>8. QED
    BY <2>5, <2>6, <2>7
<1>5. ASSUME NEW h \in Handlers, handler'[h].pc = "insert",
             ~ ReadExisting(h), ~ InsertBatch(h)
      PROVE  handler'[h] = handler[h]
  <2>1. Quiet => handler'[h] = handler[h]
    BY <1>5 DEF Quiet, QuietMove
  <2>2. ASSUME NEW g \in Handlers, ReadExisting(g) \/ InsertBatch(g)
        PROVE  handler'[h] = handler[h]
    <3>1. g # h
      BY <1>5, <2>2
    <3>2. QED
      BY <2>2, <3>1 DEF ReadExisting, InsertBatch, Become, GoTo, Continue, SoundInv, TypeOK
  <2>3. ASSUME NEW r \in Records, RemoveStore(r)
        PROVE  handler'[h] = handler[h]
    BY <2>3 DEF RemoveStore
  <2>4. QED
    BY <2>1, <2>2, <2>3, UneventfulQuiet, SuccessSound, StepCases
<1>6. ASSUME NEW h \in Handlers, ReadExisting(h) \/ InsertBatch(h)
      PROVE  handler'[h].message = handler[h].message /\ handler[h].pc # "idle"
  BY <1>6, ReadOffers, InsertMoves, InsertCases
<1>7. ASSUME NEW h \in Handlers, handler'[h].pc = "insert", NEW a \in Ids(handler'[h].message)
      PROVE  HadRow(a)' \/ \E i \in handler'[h].todo : IdAt(handler'[h].message, i) = a
  <2>1. CASE handler'[h] = handler[h]
    BY <1>2, <1>7, <2>1
  <2>2. CASE ReadExisting(h)
    BY <1>3, <1>6, <1>7, <2>2
  <2>3. CASE InsertBatch(h)
    BY <1>4, <1>6, <1>7, <2>3
  <2>4. QED
    BY <1>5, <1>7, <2>1, <2>2, <2>3
<1>8. QED
  BY <1>7 DEF OfferedHadRow, Ids, IdAt

(* What SuccessComplete says, in terms of HadRow.                          *)
LEMMA CompleteMeansHadRow ==
    SuccessComplete <=> \A r \in Records : record[r].status = "SUCCESS" =>
                            \A a \in IdsOf(r) : HadRow(a)
<1>1. ASSUME NEW r \in Records, record[r].status = "SUCCESS"
      PROVE  \A q \in Records : record[q].status = "REMOVED" => q \in Records \ {r}
  BY <1>1
<1>2. QED
  BY <1>1 DEF SuccessComplete, HadRow, RemovedWithStore

LEMMA CompleteKept ==
    ASSUME LegacySyncConstants, SoundInv, CompleteInv, [Next]_vars
    PROVE  SuccessComplete'
<1>1. \A a \in Attendance : HadRow(a) => HadRow(a)'
  BY RowsKept DEF CompleteInv
<1>2. ASSUME NEW r \in Records, record'[r].status = "SUCCESS", NEW a \in IdsOf(r)
      PROVE  HadRow(a)'
  <2>1. a \in Attendance /\ a \in Ids(MessageOf[r])
    BY <1>2, OwnIds
  <2>2. CASE record'[r] = record[r]
    BY <1>1, <1>2, <2>1, <2>2, CompleteMeansHadRow DEF CompleteInv
  <2>3. ASSUME NEW h \in Handlers, MarkSuccess(h), MessageOf[r] = Target(h)
        PROVE  HadRow(a)
    <3>1. /\ handler[h].pc = "insert" /\ handler[h].todo = {}
          /\ MessageOf[r] = handler[h].message
      BY <2>3 DEF MarkSuccess, At, HasBatch, Target
    <3>2. QED
      BY <2>1, <3>1 DEF CompleteInv, OfferedHadRow
  <2>4. QED
    BY <1>1, <1>2, <2>1, <2>2, <2>3, SuccessKept
<1>3. ASSUME NEW r \in Records, record'[r].status = "SUCCESS", NEW a \in IdsOf(r)
      PROVE  \/ attendance'[a] # None
             \/ \E q \in Records \ {r} : record'[q].status = "REMOVED" /\ a \in IdsOf(q)
  <2>1. \/ attendance'[a] # None
        \/ \E q \in Records : record'[q].status = "REMOVED" /\ a \in IdsOf(q)
    BY <1>2, <1>3 DEF HadRow, RemovedWithStore, IdsOf
  <2>2. QED
    BY <1>3, <2>1
<1>4. QED
  BY <1>3 DEF SuccessComplete, IdsOf

LEMMA CompleteInvariant == Spec => []CompleteInv
<1>1. Init => CompleteInv
  <2> SUFFICES ASSUME Init
               PROVE  CompleteInv
    OBVIOUS
  <2>1. \A h \in Handlers : handler[h].pc = "idle"
    BY IdleTyped, LegacySyncConstants DEF Init
  <2>2. \A r \in Records : record[r].status = "PENDING"
    BY DEF Init
  <2>3. RowsAreAsked /\ OfferedHadRow
    BY <2>1 DEF Init, RowsAreAsked, OfferedHadRow
  <2>4. SuccessComplete
    BY <2>2 DEF SuccessComplete
  <2>5. QED
    BY <2>3, <2>4 DEF CompleteInv
<1>2. SoundInv /\ SoundInv' /\ CompleteInv /\ [Next]_vars => CompleteInv'
  <2> SUFFICES ASSUME SoundInv, SoundInv', CompleteInv, [Next]_vars
               PROVE  CompleteInv'
    OBVIOUS
  <2>1. RowsAreAsked'
    BY RowsKept, LegacySyncConstants DEF CompleteInv
  <2>2. OfferedHadRow' /\ SuccessComplete'
    BY OfferedKept, CompleteKept, LegacySyncConstants
  <2>3. QED
    BY <2>1, <2>2 DEF CompleteInv
<1>3. QED
  BY <1>1, <1>2, SoundInvariant, PTL DEF Spec

(* A record reported SUCCESS has every attendance id of its store in the   *)
(* table, unless the row went with the store of a duplicate: whatever the  *)
(* batches, overlapping deliveries, lost replies and repeated passes of    *)
(* processSyncRecords.                                                     *)
THEOREM SuccessMeansComplete == Spec => []SuccessComplete
<1>1. CompleteInv => SuccessComplete
  BY DEF CompleteInv
<1>2. QED
  BY <1>1, CompleteInvariant, PTL

-----------------------------------------------------------------------------
(* Counts are exact after a single delivery.                               *)

(* A message does not become fresh again, nor visible but by a timeout.    *)
LEMMA FreshKept ==
    ASSUME LegacySyncConstants, SoundInv, [Next]_vars, NEW m \in Messages, Fresh(m)'
    PROVE  Fresh(m) /\ (message'[m].state = "visible" => message[m].state = "visible")
<1>1. message \in [Messages -> [state : {"visible", "inflight", "deleted"},
                                receipt : Handlers \cup {None}, redelivered : BOOLEAN]]
  BY DEF SoundInv, TypeOK
<1>2. ASSUME NEW h \in Handlers, NEW n \in Messages, Receive(h, n)
      PROVE  Fresh(m) /\ (message'[m].state = "visible" => message[m].state = "visible")
  BY <1>1, <1>2 DEF Receive, Fresh
<1>3. ASSUME NEW n \in Messages, VisibilityTimeout(n)
      PROVE  Fresh(m) /\ (message'[m].state = "visible" => message[m].state = "visible")
  BY <1>1, <1>3 DEF VisibilityTimeout, Fresh
<1>4. ASSUME NEW h \in Handlers, DeleteMessage(h)
      PROVE  Fresh(m) /\ (message'[m].state = "visible" => message[m].state = "visible")
  <2>1. \/ UNCHANGED message
        \/ message' = [message EXCEPT ![Target(h)].state = "deleted", ![Target(h)].receipt = None]
    BY <1>4 DEF DeleteMessage
  <2>2. CASE Target(h) = m
    <3>1. \/ message'[m] = message[m]
          \/ message'[m] = [message[m] EXCEPT !.state = "deleted", !.receipt = None]
      BY <1>1, <2>1, <2>2
    <3>2. QED
      BY <1>1, <3>1 DEF Fresh
  <2>3. CASE Target(h) # m
    BY <1>1, <2>1, <2>3 DEF Fresh
  <2>4. QED
    BY <2>2, <2>3
<1>5. ASSUME UNCHANGED message
      PROVE  Fresh(m) /\ (message'[m].state = "visible" => message[m].state = "visible")
  BY <1>5 DEF Fresh
<1>6. ASSUME NEW h \in Handlers,
             \/ Start(h) \/ LookupDevices(h) \/ ReadExisting(h) \/ InsertBatch(h)
             \/ MarkSuccess(h) \/ MarkFailed(h) \/ ThrowInTry(h) \/ Abort(h)
      PROVE  UNCHANGED message
  BY <1>6 DEF Start, LookupDevices, ReadExisting, InsertBatch, MarkSuccess, MarkFailed,
              ThrowInTry, Abort
<1>7. ASSUME NEW r \in Records, RemoveStore(r)
      PROVE  UNCHANGED message
  BY <1>7 DEF RemoveStore
<1>8. QED
  BY <1>2, <1>3, <1>4, <1>5, <1>6, <1>7 DEF Next, HandlerStep, vars

(* Where a handler at work comes from.                                     *)
Received(h) ==
    /\ handler'[h].message \in Messages /\ Receive(h, handler'[h].message)
    /\ handler'[h].pc = "start" /\ handler'[h].todo = {}
    /\ handler'[h].counts = [r \in Records |-> 0]
WentOn(h) ==
    /\ handler[h].pc \in {"start", "devices"} /\ handler'[h].pc \in {"devices", "existing"}
    /\ handler'[h].message = handler[h].message /\ handler'[h].counts = handler[h].counts
    /\ handler[h].todo = {} /\ handler'[h].todo = {}

LEMMA AtWork ==
    ASSUME LegacySyncConstants, SoundInv, [Next]_vars,
           NEW h \in Handlers, handler'[h].pc \in TrySteps
    PROVE  \/ handler'[h] = handler[h] \/ Received(h) \/ WentOn(h)
           \/ ReadExisting(h) \/ InsertBatch(h)
<1>1. TypeOK /\ Busy
  BY DEF SoundInv
<1>2. handler[h].pc \in {"start", "devices"} => handler[h].todo = {}
  BY <1>1 DEF Busy, UsedWell
<1>3. ASSUME NEW g \in Handlers, g # h, NEW state,
             Become(g, state) \/ \E step : GoTo(g, step) \/ Continue(g, state)
      PROVE  handler'[h] = handler[h]
  BY <1>1, <1>3 DEF Become, GoTo, Continue, TypeOK
<1>4. ASSUME NEW g \in Handlers, NEW m \in Messages, Receive(g, m)
      PROVE  handler'[h] = handler[h] \/ Received(h)
  <2>1. Become(g, Started(m))
    BY <1>4 DEF Receive, Become, Started
  <2>2. CASE g = h
    <3>1. PICK state : state = Started(m)
      OBVIOUS
    <3>2. handler'[h] = state
      BY <1>1, <2>1, <2>2, <3>1, BecomeMoves
    <3>3. state.message = m /\ state.todo = {} /\ state.counts = [r \in Records |-> 0]
      BY <3>1, CalledTyped
    <3>4. state.pc = "start"
      BY <3>1, IdleTyped DEF Started, HandlerState
    <3>5. QED
      BY <1>4, <2>2, <3>2, <3>3, <3>4 DEF Received
  <2>3. CASE g # h
    BY <1>3, <2>1, <2>3
  <2>4. QED
    BY <2>2, <2>3
<1>5. ASSUME NEW g \in Handlers, Start(g)
      PROVE  handler'[h] = handler[h] \/ WentOn(h)
  <2>1. /\ handler[g].pc = "start"
        /\ Become(g, [handler[g] EXCEPT !.pc = "devices"]) \/ GoTo(g, "fail")
    BY <1>5 DEF Start, At, Continue
  <2>2. Become(g, [handler[g] EXCEPT !.pc = "devices"]) => GoTo(g, "devices")
    BY DEF Become, GoTo
  <2>3. CASE g = h
    BY <1>1, <1>2, <2>1, <2>2, <2>3, GoToMoves DEF WentOn, TrySteps
  <2>4. CASE g # h
    BY <1>3, <2>1, <2>4
  <2>5. QED
    BY <2>3, <2>4
<1>6. ASSUME NEW g \in Handlers, LookupDevices(g)
      PROVE  handler'[h] = handler[h] \/ WentOn(h)
  <2>1. handler[g].pc = "devices" /\ (GoTo(g, "fail") \/ GoTo(g, "existing"))
    BY <1>6 DEF LookupDevices, At
  <2>2. CASE g = h
    BY <1>1, <1>2, <2>1, <2>2, GoToMoves DEF WentOn, TrySteps
  <2>3. CASE g # h
    BY <1>1, <2>1, <2>3, GoToMoves
  <2>4. QED
    BY <2>2, <2>3
<1>7. ASSUME NEW g \in Handlers,
             \/ MarkFailed(g) \/ DeleteMessage(g) \/ Abort(g) \/ ThrowInTry(g) \/ MarkSuccess(g)
      PROVE  handler'[h] = handler[h]
  <2>1. \/ Become(g, Idle) \/ GoTo(g, "fail")
        \/ Become(g, Acknowledging(Target(g)))
    BY <1>7 DEF MarkFailed, DeleteMessage, Abort, ThrowInTry, MarkSuccess, Rethrown,
                Continue, Acknowledging
  <2>2. CASE g = h
    <3>1. Idle.pc = "idle" /\ Acknowledging(Target(g)).pc = "delete"
      BY DEF Idle, Acknowledging
    <3>2. handler'[h].pc \in {"idle", "fail", "delete"}
      BY <1>1, <2>1, <2>2, <3>1, BecomeMoves, GoToMoves
    <3>3. QED
      BY <3>2 DEF TrySteps
  <2>3. CASE g # h
    BY <1>1, <1>3, <2>1, <2>3, GoToMoves
  <2>4. QED
    BY <2>2, <2>3
<1>8. ASSUME NEW g \in Handlers, ReadExisting(g) \/ InsertBatch(g), g # h
      PROVE  handler'[h] = handler[h]
  BY <1>1, <1>8 DEF ReadExisting, InsertBatch, Become, GoTo, Continue, TypeOK
<1>9. (\E m \in Messages : VisibilityTimeout(m)) \/ (\E r \in Records : RemoveStore(r))
         \/ UNCHANGED vars => handler'[h] = handler[h]
  BY DEF VisibilityTimeout, RemoveStore, vars
<1>10. QED
  BY <1>4, <1>5, <1>6, <1>7, <1>8, <1>9 DEF Next, HandlerStep

(* A handler of m was given m by Receive, or had it before.                *)
LEMMA Had ==
    ASSUME LegacySyncConstants, SoundInv, [Next]_vars,
           NEW h \in Handlers, NEW m \in Messages, handler'[h].message = m
    PROVE  \/ handler[h].message = m
           \/ /\ message[m].state = "visible" /\ message'[m].state = "inflight"
              /\ message'[m].receipt = h
              /\ \A g \in Handlers \ {h} : handler'[g] = handler[g]
<1>1. TypeOK /\ m # None
  BY DEF SoundInv, LegacySyncConstants
<1>2. ASSUME NEW g \in Handlers, NEW n \in Messages, Receive(g, n)
      PROVE  \/ handler[h].message = m
             \/ /\ message[m].state = "visible" /\ message'[m].state = "inflight"
                /\ message'[m].receipt = h
                /\ \A k \in Handlers \ {h} : handler'[k] = handler[k]
  <2>1. Become(g, Started(n)) /\ message[n].state = "visible"
        /\ message' = [message EXCEPT ![n].state = "inflight", ![n].receipt = g]
    BY <1>2 DEF Receive, Become, Started
  <2>2. handler'[g].message = n /\ \A k \in Handlers \ {g} : handler'[k] = handler[k]
    <3>1. PICK state : state = Started(n)
      OBVIOUS
    <3>2. handler'[g] = state /\ \A k \in Handlers \ {g} : handler'[k] = handler[k]
      BY <1>1, <2>1, <3>1, BecomeMoves
    <3>3. state.message = n
      BY <3>1, CalledTyped
    <3>4. QED
      BY <3>2, <3>3
  <2>3. /\ message'[n].state = "inflight" /\ message'[n].receipt = g
    BY <1>1, <2>1 DEF TypeOK
  <2>4. QED
    BY <2>1, <2>2, <2>3
<1>3. ASSUME NEW g \in Handlers, NEW state,
             \/ Become(g, state) /\ state.message \in {None, handler[g].message}
             \/ \E step : GoTo(g, step)
      PROVE  handler[h].message = m
  <2>1. CASE g = h
    BY <1>1, <1>3, <2>1, BecomeMoves, GoToMoves
  <2>2. CASE g # h
    BY <1>1, <1>3, <2>2, BecomeMoves, GoToMoves
  <2>3. QED
    BY <2>1, <2>2
<1>4. ASSUME NEW g \in Handlers, Start(g)
      PROVE  handler[h].message = m
  <2>1. Become(g, [handler[g] EXCEPT !.pc = "devices"]) \/ GoTo(g, "fail")
    BY <1>4 DEF Start, Continue
  <2>2. Become(g, [handler[g] EXCEPT !.pc = "devices"]) => GoTo(g, "devices")
    BY DEF Become, GoTo
  <2>3. QED
    BY <1>3, <2>1, <2>2
<1>5. ASSUME NEW g \in Handlers, LookupDevices(g) \/ ThrowInTry(g)
      PROVE  handler[h].message = m
  <2>1. \E step : GoTo(g, step)
    BY <1>5 DEF LookupDevices, ThrowInTry
  <2>2. QED
    BY <1>3, <2>1
<1>6. ASSUME NEW g \in Handlers, MarkFailed(g) \/ DeleteMessage(g) \/ Abort(g)
      PROVE  handler[h].message = m
  <2>1. PICK state : state = Idle
    OBVIOUS
  <2>2. Become(g, state) /\ state.message = None
    BY <1>6, <2>1, IdleTyped DEF MarkFailed, DeleteMessage, Abort, Rethrown
  <2>3. QED
    BY <1>3, <2>2
<1>7. ASSUME NEW g \in Handlers, MarkSuccess(g)
      PROVE  handler[h].message = m
  <2>1. PICK n \in Messages : n = Target(g) /\ n = handler[g].message
    <3>1. handler[g].pc # "idle"
      BY <1>7 DEF MarkSuccess, At
    <3>2. QED
      BY <1>1, <3>1, Places DEF SoundInv
  <2>2. Become(g, Acknowledging(n)) \/ GoTo(g, "fail")
    BY <1>7, <2>1 DEF MarkSuccess, Continue, Acknowledging
  <2>3. PICK state : state = Acknowledging(n)
    OBVIOUS
  <2>4. state.message = n
    BY <2>3, CalledTyped
  <2>5. QED
    BY <1>3, <2>1, <2>2, <2>3, <2>4
<1>8. ASSUME NEW g \in Handlers, ReadExisting(g) \/ InsertBatch(g)
      PROVE  handler[h].message = m
  <2>1. PICK state : /\ state.message = handler[g].message
                     /\ Become(g, state) \/ \E step : GoTo(g, step)
    <3>1. handler[g] \in HandlerState
      BY <1>1 DEF TypeOK
    <3>2. ASSUME NEW todo, NEW counts,
                 Become(g, [handler[g] EXCEPT !.todo = todo, !.counts = counts])
          PROVE  \E state : state.message = handler[g].message /\ Become(g, state)
      <4>1. PICK state : state = [handler[g] EXCEPT !.todo = todo, !.counts = counts]
        OBVIOUS
      <4>2. state.message = handler[g].message
        BY <3>1, <4>1 DEF HandlerState
      <4>3. QED
        BY <3>2, <4>1, <4>2
    <3>3. ASSUME NEW todo, Become(g, [handler[g] EXCEPT !.pc = "insert", !.todo = todo])
          PROVE  \E state : state.message = handler[g].message /\ Become(g, state)
      <4>1. PICK state : state = [handler[g] EXCEPT !.pc = "insert", !.todo = todo]
        OBVIOUS
      <4>2. state.message = handler[g].message
        BY <3>1, <4>1 DEF HandlerState
      <4>3. QED
        BY <3>3, <4>1, <4>2
    <3>4. QED
      BY <1>8, <3>2, <3>3 DEF ReadExisting, InsertBatch, Continue
  <2>2. QED
    BY <1>3, <2>1
<1>9. (\E n \in Messages : VisibilityTimeout(n)) \/ (\E r \in Records : RemoveStore(r))
         \/ UNCHANGED vars => handler'[h] = handler[h]
  BY DEF VisibilityTimeout, RemoveStore, vars
<1>10. QED
  BY <1>2, <1>4, <1>5, <1>6, <1>7, <1>8, <1>9 DEF Next, HandlerStep

LEMMA SingleKept ==
    ASSUME LegacySyncConstants, SoundInv, SingleHandler, [Next]_vars
    PROVE  SingleHandler'
<1>1. TypeOK
  BY DEF SoundInv
<1>2. ASSUME NEW m \in Messages, Fresh(m)', NEW h \in Handlers, handler'[h].message = m,
             handler[h].message = m
      PROVE  message'[m] = message[m]
  <2>1. message[m].state = "inflight" /\ \A g \in Handlers : handler[g].message = m => g = h
    <3>1. Fresh(m)
      BY <1>2, FreshKept
    <3>2. \A g \in Handlers : handler[g].message = m =>
             message[m].state = "inflight" /\ message[m].receipt = g
      BY <3>1 DEF SingleHandler
    <3>3. QED
      BY <1>2, <3>2
  <2>2. ASSUME NEW g \in Handlers, NEW n \in Messages, Receive(g, n)
        PROVE  message'[m] = message[m]
    BY <1>1, <2>1, <2>2 DEF Receive, TypeOK
  <2>3. ASSUME NEW n \in Messages, VisibilityTimeout(n)
        PROVE  message'[m] = message[m]
    BY <1>1, <1>2, <2>3 DEF VisibilityTimeout, TypeOK, Fresh
  <2>4. ASSUME NEW g \in Handlers, DeleteMessage(g)
        PROVE  message'[m] = message[m]
    <3>1. handler'[g] = Idle /\ Idle.message = None /\ m # None
      BY <1>1, <2>4, BecomeMoves, IdleTyped DEF DeleteMessage, LegacySyncConstants
    <3>2. Target(g) # m
      BY <1>2, <2>1, <3>1 DEF Target
    <3>3. QED
      BY <1>1, <2>4, <3>2 DEF DeleteMessage, TypeOK
  <2>5. ASSUME NEW g \in Handlers,
               \/ Start(g) \/ LookupDevices(g) \/ ReadExisting(g) \/ InsertBatch(g)
               \/ MarkSuccess(g) \/ MarkFailed(g) \/ ThrowInTry(g) \/ Abort(g)
        PROVE  UNCHANGED message
    BY <2>5 DEF Start, LookupDevices, ReadExisting, InsertBatch, MarkSuccess, MarkFailed,
                ThrowInTry, Abort
  <2>6. (\E r \in Records : RemoveStore(r)) \/ UNCHANGED vars => UNCHANGED message
    BY DEF RemoveStore, vars
  <2>7. QED
    BY <2>2, <2>3, <2>4, <2>5, <2>6 DEF Next, HandlerStep
<1>3. ASSUME NEW m \in Messages, Fresh(m)', NEW h \in Handlers, handler'[h].message = m
      PROVE  message'[m].state = "inflight" /\ message'[m].receipt = h
  <2>1. CASE handler[h].message = m
    <3>1. Fresh(m)
      BY <1>3, FreshKept
    <3>2. message[m].state = "inflight" /\ message[m].receipt = h
      BY <2>1, <3>1 DEF SingleHandler
    <3>3. QED
      BY <1>2, <1>3, <2>1, <3>2
  <2>2. CASE handler[h].message # m
    BY <1>3, <2>2, Had
  <2>3. QED
    BY <2>1, <2>2
<1>4. QED
  BY <1>3 DEF SingleHandler, Fresh

(* Only a handler of m gives the records of m new rows.                    *)
Undisturbed(m) ==
    /\ \A r \in RecordsOf(m) : /\ OwnedBy(r)' \subseteq OwnedBy(r)
                               /\ record'[r].status = "REMOVED" \/ OwnedBy(r)' = OwnedBy(r)
    /\ \A a \in Attendance : attendance'[a] \in RecordsOf(m) => attendance'[a] = attendance[a]

LEMMA OthersRows ==
    ASSUME LegacySyncConstants, SoundInv, [Next]_vars, NEW m \in Messages,
           \A h \in Handlers : InsertBatch(h) => handler[h].message # m
    PROVE  Undisturbed(m)
<1>1. ASSUME UNCHANGED attendance
      PROVE  Undisturbed(m)
  BY <1>1 DEF Undisturbed, OwnedBy
<1>2. ASSUME NEW h \in Handlers, InsertBatch(h)
      PROVE  Undisturbed(m)
  <2>1. PICK n \in Messages : n = handler[h].message /\ n # m
    <3>1. handler[h].message \in Messages
      BY <1>2, InsertCases
    <3>2. handler[h].message # m
      BY <1>2
    <3>3. QED
      BY <3>1, <3>2
  <2>2. NewOf(h) \subseteq DOMAIN Payload[n]
    <3>1. /\ NewOf(h) = {i \in BatchOf(h) : attendance[IdAt(handler[h].message, i)] = None}
          /\ BatchOf(h) \in SUBSET handler[h].todo
          /\ handler[h].todo \in SUBSET DOMAIN Payload[handler[h].message]
      BY <1>2, InsertCases
    <3>2. QED
      BY <2>1, <3>1
  <2>3. ASSUME NEW a \in Attendance
        PROVE  \/ attendance'[a] = attendance[a]
               \/ /\ attendance[a] = None
                  /\ \E i \in DOMAIN Payload[n] : attendance'[a] = OwnerAt(n, i)
    <3>1. \/ attendance'[a] = attendance[a]
          \/ /\ attendance[a] = None
             /\ \E i \in NewOf(h) : attendance'[a] = OwnerAt(handler[h].message, i)
      BY <1>2, InsertAdds
    <3>2. QED
      BY <2>1, <2>2, <3>1
  <2>4. \A i \in DOMAIN Payload[n] : OwnerAt(n, i) \notin RecordsOf(m)
    <3>1. \A i \in DOMAIN Payload[n] : MessageOf[OwnerAt(n, i)] = n
      BY Logs
    <3>2. QED
      BY <2>1, <3>1 DEF RecordsOf
  <2>5. \A a \in Attendance : \/ attendance'[a] = attendance[a]
                              \/ attendance[a] = None /\ attendance'[a] \notin RecordsOf(m)
    BY <2>3, <2>4
  <2>6. None \notin RecordsOf(m)
    BY DEF RecordsOf, LegacySyncConstants
  <2>7. \A r \in RecordsOf(m) : \A a \in Attendance : attendance'[a] = r <=> attendance[a] = r
    BY <2>5, <2>6
  <2>8. QED
    BY <2>5, <2>7 DEF Undisturbed, OwnedBy
<1>3. ASSUME NEW q \in Records, RemoveStore(q)
      PROVE  Undisturbed(m)
  <2>1. /\ record'[q].status = "REMOVED"
        /\ \A a \in Attendance : attendance'[a] = IF attendance[a] = q THEN None ELSE attendance[a]
    BY <1>3 DEF RemoveStore, SoundInv, TypeOK
  <2>2. None \notin RecordsOf(m)
    BY DEF RecordsOf, LegacySyncConstants
  <2>3. ASSUME NEW r \in RecordsOf(m)
        PROVE  /\ \A a \in Attendance : attendance'[a] = r => attendance[a] = r
               /\ r # q => \A a \in Attendance : attendance'[a] = r <=> attendance[a] = r
    BY <2>1, <2>2
  <2>4. \A a \in Attendance : attendance'[a] \in RecordsOf(m) => attendance'[a] = attendance[a]
    BY <2>1, <2>2
  <2>5. QED
    BY <2>1, <2>3, <2>4 DEF Undisturbed, OwnedBy
<1>4. Uneventful => UNCHANGED attendance
  BY UneventfulQuiet DEF Quiet
<1>5. (\E h \in Handlers : ReadExisting(h) \/ MarkSuccess(h)) => UNCHANGED attendance
  BY DEF ReadExisting, MarkSuccess, database
<1>6. QED
  BY <1>1, <1>2, <1>3, <1>4, <1>5, StepCases

(* What succeeding does to the handlers.                                   *)
LEMMA SuccessMoves ==
    ASSUME LegacySyncConstants, SoundInv, NEW h \in Handlers, MarkSuccess(h)
    PROVE  /\ handler[h].pc = "insert" /\ handler[h].todo = {}
           /\ handler[h].message \in Messages /\ Target(h) = handler[h].message
           /\ handler'[h].pc \in {"delete", "fail"}
           /\ \A g \in Handlers \ {h} : handler'[g] = handler[g]
           /\ UNCHANGED <<attendance, message>>
<1>1. TypeOK /\ handler[h].pc = "insert" /\ handler[h].todo = {} /\ UNCHANGED <<attendance, message>>
  BY DEF SoundInv, MarkSuccess, At, HasBatch
<1>2. handler[h].message \in Messages /\ Target(h) = handler[h].message
  BY <1>1, Places DEF SoundInv
<1>3. Become(h, Acknowledging(Target(h))) \/ GoTo(h, "fail")
  BY DEF MarkSuccess, Continue, Acknowledging
<1>4. Acknowledging(Target(h)).pc = "delete"
  BY DEF Acknowledging, Idle
<1>5. CASE GoTo(h, "fail")
  <2>1. handler'[h].pc = "fail" /\ \A g \in Handlers \ {h} : handler'[g] = handler[g]
    BY <1>1, <1>5, GoToMoves
  <2>2. QED
    BY <1>1, <1>2, <2>1
<1>6. CASE Become(h, Acknowledging(Target(h)))
  <2>1. PICK state : state = Acknowledging(Target(h)) /\ state.pc = "delete"
    BY <1>4
  <2>2. handler'[h] = state /\ \A g \in Handlers \ {h} : handler'[g] = handler[g]
    BY <1>1, <1>6, <2>1, BecomeMoves
  <2>3. QED
    BY <1>1, <1>2, <2>1, <2>2
<1>7. QED
  BY <1>3, <1>5, <1>6

(* A fresh message has one handler.                                        *)
LEMMA Alone ==
    ASSUME SingleHandler, NEW m \in Messages, Fresh(m), NEW h \in Handlers, handler[h].message = m
    PROVE  /\ message[m].state = "inflight"
           /\ \A g \in Handlers : handler[g].message = m => g = h
<1>1. \A g \in Handlers : handler[g].message = m =>
         message[m].state = "inflight" /\ message[m].receipt = g
  BY DEF SingleHandler
<1>2. QED
  BY <1>1

LEMMA ZeroKept ==
    ASSUME LegacySyncConstants, SoundInv, CountsFromZero, [Next]_vars
    PROVE  CountsFromZero'
<1>1. ASSUME NEW h \in Handlers, handler'[h].pc \in {"start", "devices", "existing"}
      PROVE  handler'[h].counts = [r \in Records |-> 0]
  <2>1. handler'[h].pc \in TrySteps /\ handler'[h].pc \notin {"insert", "fail"}
    BY <1>1 DEF TrySteps
  <2>2. handler'[h] = handler[h] \/ Received(h) \/ WentOn(h)
    BY <2>1, AtWork, ReadOffers, InsertMoves
  <2>3. QED
    BY <1>1, <2>2 DEF CountsFromZero, Received, WentOn
<1>2. QED
  BY <1>1 DEF CountsFromZero

LEMMA WaitingKept ==
    ASSUME LegacySyncConstants, SoundInv, [Next]_vars, NEW m \in Messages, Fresh(m)'
    PROVE  /\ Waiting(m, {"start", "devices", "existing"})'
                 => Waiting(m, {"start", "devices", "existing"})
           /\ Waiting(m, TrySteps)' => Waiting(m, TrySteps)
<1>1. message'[m].state = "visible" => message[m].state = "visible"
  BY FreshKept
<1>2. ASSUME NEW h \in Handlers, handler'[h].message = m, handler'[h].pc \in TrySteps
      PROVE  \/ message[m].state = "visible"
             \/ /\ handler[h].message = m /\ handler[h].pc \in TrySteps
                /\ handler'[h].pc \in {"start", "devices", "existing"}
                      => handler[h].pc \in {"start", "devices", "existing"}
  <2>1. CASE Received(h)
    BY <1>2, <2>1 DEF Received, Receive
  <2>2. CASE WentOn(h)
    BY <1>2, <2>2 DEF WentOn, TrySteps
  <2>3. CASE ReadExisting(h)
    BY <1>2, <2>3, ReadOffers DEF TrySteps
  <2>4. CASE InsertBatch(h)
    <3>1. handler[h].pc = "insert" /\ handler[h].message = m /\ handler'[h].pc \in {"insert", "fail"}
      BY <1>2, <2>4, InsertCases, InsertMoves
    <3>2. QED
      BY <3>1 DEF TrySteps
  <2>5. QED
    BY <1>2, <2>1, <2>2, <2>3, <2>4, AtWork
<1>3. \A pc \in {"start", "devices", "existing"} : pc \in TrySteps
  BY DEF TrySteps
<1>4. QED
  BY <1>1, <1>2, <1>3 DEF Waiting, TrySteps

LEMMA NothingKept ==
    ASSUME LegacySyncConstants, SoundInv, SingleHandler, NothingBefore, [Next]_vars
    PROVE  NothingBefore'
<1>1. ASSUME NEW m \in Messages, Fresh(m)', Waiting(m, {"start", "devices", "existing"})'
      PROVE  \A r \in RecordsOf(m) : OwnedBy(r)' = {}
  <2>1. Fresh(m) /\ Waiting(m, {"start", "devices", "existing"})
    BY <1>1, FreshKept, WaitingKept
  <2>2. \A r \in RecordsOf(m) : OwnedBy(r) = {}
    BY <2>1 DEF NothingBefore
  <2>3. ASSUME NEW h \in Handlers, InsertBatch(h), handler[h].message = m
        PROVE  FALSE
    <3>1. message[m].state = "inflight" /\ \A g \in Handlers : handler[g].message = m => g = h
      BY <2>1, <2>3, Alone
    <3>2. handler[h].pc = "insert"
      BY <2>3, InsertCases
    <3>3. QED
      BY <2>1, <3>1, <3>2 DEF Waiting
  <2>4. Undisturbed(m)
    BY <2>3, OthersRows
  <2>5. QED
    BY <2>2, <2>4 DEF Undisturbed
<1>2. QED
  BY <1>1 DEF NothingBefore, RecordsOf

LEMMA NotYetKept ==
    ASSUME LegacySyncConstants, SoundInv, SingleHandler, NotYetSuccess, [Next]_vars
    PROVE  NotYetSuccess'
<1>1. ASSUME NEW m \in Messages, Fresh(m)', Waiting(m, TrySteps)',
             NEW r \in RecordsOf(m), record'[r].status = "SUCCESS"
      PROVE  FALSE
  <2>1. Fresh(m) /\ Waiting(m, TrySteps)
    BY <1>1, FreshKept, WaitingKept
  <2>2. record[r].status # "SUCCESS"
    BY <2>1 DEF NotYetSuccess
  <2>3. r \in Records /\ MessageOf[r] = m
    BY DEF RecordsOf
  <2>4. PICK h \in Handlers : MarkSuccess(h) /\ m = Target(h)
    BY <1>1, <2>2, <2>3, SuccessKept
  <2>5. /\ handler[h].message = m /\ handler'[h].pc \in {"delete", "fail"}
        /\ UNCHANGED message /\ \A g \in Handlers \ {h} : handler'[g] = handler[g]
    BY <2>4, SuccessMoves
  <2>6. message[m].state = "inflight" /\ \A g \in Handlers : handler[g].message = m => g = h
    BY <2>1, <2>5, Alone
  <2>7. \A g \in Handlers : handler'[g].message = m => handler'[g].pc \notin TrySteps
    BY <2>5, <2>6 DEF TrySteps
  <2>8. QED
    BY <1>1, <2>5, <2>6, <2>7 DEF Waiting, TrySteps
<1>2. QED
  BY <1>1 DEF NotYetSuccess, RecordsOf

LEMMA OfferedNewKept ==
    ASSUME LegacySyncConstants, SoundInv, SingleHandler, OfferedAreNew, [Next]_vars
    PROVE  OfferedAreNew'
<1>1. ASSUME NEW h \in Handlers, InsertBatch(h), handler'[h].pc = "insert",
             Fresh(handler[h].message), NEW i \in handler'[h].todo
      PROVE  attendance'[IdAt(handler[h].message, i)] \notin RecordsOf(handler[h].message)
  <2>1. PICK m \in Messages : m = handler[h].message /\ handler[h].pc = "insert"
    BY <1>1, InsertCases
  <2>2. /\ handler'[h].todo = handler[h].todo \ BatchOf(h)
        /\ NewOf(h) = {j \in BatchOf(h) : attendance[IdAt(handler[h].message, j)] = None}
        /\ BatchOf(h) \in SUBSET handler[h].todo
        /\ handler[h].todo \in SUBSET DOMAIN Payload[handler[h].message]
    BY <1>1, InsertMoves, InsertCases
  <2>3. i \in handler[h].todo /\ i \notin NewOf(h) /\ NewOf(h) \subseteq handler[h].todo
    BY <1>1, <2>2
  <2>4. \A j \in NewOf(h) : IdAt(m, j) # IdAt(m, i)
    BY <1>1, <2>1, <2>3, InsertCases
  <2>5. IdAt(m, i) \in Attendance
    BY <2>1, <2>2, <2>3, Logs
  <2>6. attendance'[IdAt(m, i)] = attendance[IdAt(m, i)]
    <3>1. PICK a \in Attendance : a = IdAt(m, i)
      BY <2>5
    <3>2. \/ attendance'[a] = attendance[a]
          \/ \E j \in NewOf(h) : /\ IdAt(handler[h].message, j) = a
                                 /\ attendance'[a] = OwnerAt(handler[h].message, j)
      BY <1>1, InsertAdds
    <3>3. QED
      BY <2>1, <2>4, <3>1, <3>2
  <2>7. attendance[IdAt(m, i)] \notin RecordsOf(m)
    BY <1>1, <2>1, <2>3 DEF OfferedAreNew
  <2>8. QED
    BY <2>1, <2>6, <2>7
<1>2. ASSUME NEW h \in Handlers, handler[h].pc = "insert", handler'[h] = handler[h],
             Fresh(handler[h].message), NEW i \in handler[h].todo
      PROVE  attendance'[IdAt(handler[h].message, i)] \notin RecordsOf(handler[h].message)
  <2>1. PICK m \in Messages : m = handler[h].message
    BY <1>2, Places DEF SoundInv
  <2>2. CASE InsertBatch(h)
    BY <1>1, <1>2, <2>2
  <2>3. CASE ~ InsertBatch(h)
    <3>1. \A g \in Handlers : InsertBatch(g) => handler[g].message # m
      BY <1>2, <2>1, <2>3, Alone
    <3>2. Undisturbed(m)
      BY <3>1, OthersRows
    <3>3. i \in DOMAIN Payload[m]
      BY <1>2, <2>1, Places DEF SoundInv
    <3>4. IdAt(m, i) \in Attendance
      BY <3>3, Logs
    <3>5. attendance[IdAt(m, i)] \notin RecordsOf(m)
      BY <1>2, <2>1 DEF OfferedAreNew
    <3>6. QED
      BY <2>1, <3>2, <3>4, <3>5 DEF Undisturbed
  <2>4. QED
    BY <2>2, <2>3
<1>3. ASSUME NEW h \in Handlers, ReadExisting(h), NEW i \in handler'[h].todo
      PROVE  attendance'[IdAt(handler[h].message, i)] \notin RecordsOf(handler[h].message)
  <2>1. /\ UNCHANGED attendance /\ handler'[h].todo = ToInsert(handler[h].message)
    BY <1>3, ReadOffers
  <2>2. attendance[IdAt(handler[h].message, i)] = None
    BY <1>3, <2>1 DEF ToInsert, IdAt
  <2>3. QED
    BY <2>1, <2>2 DEF RecordsOf, LegacySyncConstants
<1>4. ASSUME NEW h \in Handlers, handler'[h].pc = "insert",
             ~ message'[handler'[h].message].redelivered, NEW i \in handler'[h].todo
      PROVE  attendance'[IdAt(handler'[h].message, i)] \notin RecordsOf(handler'[h].message)
  <2>1. \/ handler'[h] = handler[h] /\ handler[h].pc = "insert"
        \/ ReadExisting(h) \/ InsertBatch(h)
    BY <1>4, AtWork DEF TrySteps, Received, WentOn
  <2>2. handler'[h].message = handler[h].message /\ handler[h].pc # "idle"
    BY <2>1, ReadOffers, InsertMoves, InsertCases
  <2>3. PICK m \in Messages : m = handler[h].message
    BY <2>2, Places DEF SoundInv
  <2>4. Fresh(m)'
    BY <1>4, <2>2, <2>3 DEF Fresh
  <2>5. Fresh(m)
    BY <2>4, FreshKept
  <2>6. QED
    BY <1>1, <1>2, <1>3, <1>4, <2>1, <2>2, <2>3, <2>5
<1>5. QED
  BY <1>4 DEF OfferedAreNew, Fresh, IdAt, RecordsOf

(* A row that is skipped stays so, and a batch with a row that is skipped  *)
(* makes it known.                                                         *)
LEMMA SkippedKept ==
    ASSUME LegacySyncConstants, NEW m \in Messages, Undisturbed(m), NEW todo, Skipped(m, todo)
    PROVE  \E a \in Ids(m) : attendance'[a] \notin RecordsOf(m) /\ \A i \in todo : IdAt(m, i) # a
<1>1. PICK a \in Ids(m) : attendance[a] \notin RecordsOf(m) /\ \A i \in todo : IdAt(m, i) # a
  BY DEF Skipped
<1>2. a \in Attendance
  BY IdsTyped
<1>3. attendance'[a] \notin RecordsOf(m)
  BY <1>1, <1>2 DEF Undisturbed
<1>4. QED
  BY <1>1, <1>3

LEMMA CountingInsert ==
    ASSUME LegacySyncConstants, SoundInv, OfferedAreNew, CountingExactly,
           NEW h \in Handlers, InsertBatch(h), handler'[h].pc = "insert",
           Fresh(handler[h].message), NEW r \in RecordsOf(handler[h].message),
           record[r].status # "REMOVED"
    PROVE  \/ handler'[h].counts[r] = Cardinality(OwnedBy(r)')
           \/ /\ ~ Single(r)
              /\ \E a \in Ids(handler[h].message) :
                    /\ attendance'[a] \notin RecordsOf(handler[h].message)
                    /\ \A i \in handler'[h].todo : IdAt(handler[h].message, i) # a
<1>1. PICK m \in Messages : m = handler[h].message /\ m = Target(h) /\ handler[h].pc = "insert"
  BY InsertCases
<1>2. /\ handler'[h].todo = handler[h].todo \ BatchOf(h)
      /\ handler'[h].counts = Counted(h, BatchOf(h), NewOf(h)) /\ Inserts(handler[h].message, NewOf(h))
  BY InsertMoves
<1>3. /\ BatchOf(h) \subseteq handler[h].todo /\ handler[h].todo \subseteq DOMAIN Payload[m]
      /\ \A i \in BatchOf(h) : i \in NewOf(h) <=> attendance[IdAt(m, i)] = None
      /\ NewOf(h) \subseteq BatchOf(h)
  <2>1. /\ NewOf(h) = {j \in BatchOf(h) : attendance[IdAt(handler[h].message, j)] = None}
        /\ BatchOf(h) \in SUBSET handler[h].todo
        /\ handler[h].todo \in SUBSET DOMAIN Payload[handler[h].message]
    BY InsertCases
  <2>2. QED
    BY <1>1, <2>1
<1>4. \A i, j \in handler[h].todo : IdAt(m, i) = IdAt(m, j) => i = j
  BY <1>1, InsertCases
<1>5. \A i \in handler[h].todo : attendance[IdAt(m, i)] \notin RecordsOf(m)
  BY <1>1 DEF OfferedAreNew
<1>6. r \in Records /\ MessageOf[r] = m /\ (Single(r) <=> RecordsOf(Target(h)) = {r})
  BY <1>1 DEF RecordsOf, Single
<1>7. ASSUME NEW a \in Attendance, \A i \in NewOf(h) : IdAt(m, i) # a
      PROVE  attendance'[a] = attendance[a]
  <2>1. \/ attendance'[a] = attendance[a]
        \/ \E j \in NewOf(h) : /\ IdAt(handler[h].message, j) = a
                               /\ attendance'[a] = OwnerAt(handler[h].message, j)
    BY InsertAdds
  <2>2. QED
    BY <1>1, <1>7, <2>1
<1>8. CASE Skipped(m, handler[h].todo) /\ ~ Single(r)
  <2>1. PICK a \in Ids(m) : attendance[a] \notin RecordsOf(m)
                            /\ \A i \in handler[h].todo : IdAt(m, i) # a
    BY <1>8 DEF Skipped
  <2>2. attendance'[a] = attendance[a]
    BY <1>3, <1>7, <2>1, IdsTyped
  <2>3. QED
    BY <1>1, <1>2, <1>8, <2>1, <2>2
<1>9. CASE handler[h].counts[r] = Cardinality(OwnedBy(r))
  <2>1. PICK n : Gains(h, r, n)
    BY <1>2, <1>6, InsertGains
  <2>2. handler'[h].counts[r] = handler[h].counts[r] +
              IF NewOf(h) = BatchOf(h) \/ RecordsOf(Target(h)) = {r}
              THEN Cardinality(LogsOf(h, NewOf(h), r)) ELSE 0
    BY <1>2, <1>6 DEF Counted
  <2>3. CASE NewOf(h) = BatchOf(h) \/ Single(r)
    BY <1>6, <1>9, <2>1, <2>2, <2>3 DEF Gains
  <2>4. CASE NewOf(h) # BatchOf(h) /\ ~ Single(r)
    <3>1. PICK i \in BatchOf(h) : attendance[IdAt(m, i)] # None
      BY <1>3, <2>4
    <3>2. i \in handler[h].todo /\ i \in DOMAIN Payload[m]
      BY <1>3, <3>1
    <3>3. IdAt(m, i) \in Ids(m) /\ IdAt(m, i) \in Attendance
      BY <3>2, Logs
    <3>4. \A j \in NewOf(h) : IdAt(m, j) # IdAt(m, i)
      BY <1>3, <3>1
    <3>5. attendance'[IdAt(m, i)] \notin RecordsOf(m)
      BY <1>5, <1>7, <3>2, <3>3, <3>4
    <3>6. \A j \in handler'[h].todo : IdAt(m, j) # IdAt(m, i)
      BY <1>2, <1>4, <3>1, <3>2
    <3>7. QED
      BY <1>1, <2>4, <3>3, <3>5, <3>6
  <2>5. QED
    BY <2>3, <2>4
<1>10. \/ handler[h].counts[r] = Cardinality(OwnedBy(r))
       \/ ~ Single(r) /\ Skipped(m, handler[h].todo)
  BY <1>1 DEF CountingExactly, TrySteps
<1>11. QED
  BY <1>8, <1>9, <1>10

LEMMA RemovedStays ==
    ASSUME LegacySyncConstants, SoundInv, [Next]_vars,
           NEW r \in Records, record[r].status = "REMOVED"
    PROVE  record'[r].status = "REMOVED"
<1>1. ASSUME QuietRecords
      PROVE  record'[r].status = "REMOVED"
  BY <1>1 DEF QuietRecords
<1>2. (\E h \in Handlers : ReadExisting(h) \/ InsertBatch(h)) => UNCHANGED record
  BY DEF ReadExisting, InsertBatch, database
<1>3. Uneventful \/ (\E h \in Handlers : MarkSuccess(h)) => QuietRecords
  BY UneventfulQuiet, SuccessSound DEF Quiet
<1>4. ASSUME NEW q \in Records, RemoveStore(q)
      PROVE  record'[r].status = "REMOVED"
  BY <1>4 DEF RemoveStore, SoundInv, TypeOK
<1>5. QED
  BY <1>1, <1>2, <1>3, <1>4, StepCases

LEMMA CountingKept ==
    ASSUME LegacySyncConstants, SoundInv, ExactInv, [Next]_vars
    PROVE  CountingExactly'
<1> DEFINE Goal(h, m, r) ==
             \/ record'[r].status = "REMOVED"
             \/ handler'[h].counts[r] = Cardinality(OwnedBy(r)')
             \/ /\ ~ Single(r)
                /\ \E a \in Ids(m) : /\ attendance'[a] \notin RecordsOf(m)
                                     /\ \A i \in handler'[h].todo : IdAt(m, i) # a
<1>1. ASSUME NEW h \in Handlers, handler'[h].pc = "insert", InsertBatch(h),
             Fresh(handler[h].message), NEW r \in RecordsOf(handler[h].message)
      PROVE  Goal(h, handler[h].message, r)
  <2>1. r \in Records
    BY DEF RecordsOf
  <2>2. CASE record[r].status = "REMOVED"
    BY <2>1, <2>2, RemovedStays
  <2>3. CASE record[r].status # "REMOVED"
    BY <1>1, <2>3, CountingInsert DEF ExactInv
  <2>4. QED
    BY <2>2, <2>3
<1>2. ASSUME NEW h \in Handlers, NEW m \in Messages, Fresh(m), handler[h].message = m,
             handler[h].pc \in TrySteps, handler'[h] = handler[h], ~ InsertBatch(h),
             NEW r \in RecordsOf(m)
      PROVE  Goal(h, m, r)
  <2>1. \A g \in Handlers : InsertBatch(g) => handler[g].message # m
    BY <1>2, Alone DEF ExactInv
  <2>2. Undisturbed(m)
    BY <2>1, OthersRows
  <2>3. r \in Records
    BY DEF RecordsOf
  <2>4. \/ record[r].status = "REMOVED"
        \/ handler[h].counts[r] = Cardinality(OwnedBy(r))
        \/ ~ Single(r) /\ Skipped(m, handler[h].todo)
    BY <1>2 DEF ExactInv, CountingExactly
  <2>5. CASE record[r].status = "REMOVED"
    BY <2>3, <2>5, RemovedStays
  <2>6. CASE handler[h].counts[r] = Cardinality(OwnedBy(r))
    <3>1. record'[r].status = "REMOVED" \/ OwnedBy(r)' = OwnedBy(r)
      BY <2>2 DEF Undisturbed
    <3>2. QED
      BY <1>2, <2>6, <3>1
  <2>7. CASE ~ Single(r) /\ Skipped(m, handler[h].todo)
    <3>1. PICK todo : todo = handler[h].todo
      OBVIOUS
    <3>2. \E a \in Ids(m) : attendance'[a] \notin RecordsOf(m) /\ \A i \in todo : IdAt(m, i) # a
      BY <2>2, <2>7, <3>1, SkippedKept
    <3>3. QED
      BY <1>2, <2>7, <3>1, <3>2
  <2>8. QED
    BY <2>4, <2>5, <2>6, <2>7
<1>3. ASSUME NEW h \in Handlers, NEW m \in Messages, Fresh(m), NEW r \in RecordsOf(m),
             Waiting(m, {"start", "devices", "existing"}),
             handler'[h].counts = [q \in Records |-> 0]
      PROVE  Goal(h, m, r)
  <2>1. ASSUME NEW g \in Handlers, InsertBatch(g), handler[g].message = m
        PROVE  FALSE
    <3>1. /\ message[m].state = "inflight" /\ handler[g].pc = "insert"
          /\ \A k \in Handlers : handler[k].message = m => k = g
      BY <1>3, <2>1, Alone, InsertCases DEF ExactInv
    <3>2. QED
      BY <1>3, <3>1 DEF Waiting
  <2>2. Undisturbed(m)
    BY <2>1, OthersRows
  <2>3. OwnedBy(r) = {}
    BY <1>3 DEF ExactInv, NothingBefore
  <2>4. OwnedBy(r)' = {}
    BY <2>2, <2>3 DEF Undisturbed
  <2>5. r \in Records /\ Cardinality(OwnedBy(r)') = 0
    BY <2>4, FS_EmptySet DEF RecordsOf
  <2>6. QED
    BY <1>3, <2>5
<1>4. ASSUME NEW h \in Handlers, handler'[h].pc \in TrySteps,
             NEW m \in Messages, m = handler'[h].message, Fresh(m)', NEW r \in RecordsOf(m)
      PROVE  Goal(h, m, r)
  <2> HIDE DEF Goal
  <2>1. Fresh(m)
    BY <1>4, FreshKept
  <2>2. CASE Received(h)
    <3>1. message[m].state = "visible" /\ handler'[h].counts = [q \in Records |-> 0]
      BY <1>4, <2>2 DEF Received, Receive
    <3>2. QED
      BY <1>3, <2>1, <3>1 DEF Waiting
  <2>3. CASE WentOn(h) \/ ReadExisting(h)
    <3>1. /\ handler[h].message = m /\ handler[h].pc \in {"start", "devices", "existing"}
          /\ handler'[h].counts = handler[h].counts
      BY <1>4, <2>3, ReadOffers DEF WentOn
    <3>2. handler'[h].counts = [q \in Records |-> 0]
      BY <3>1 DEF ExactInv, CountsFromZero
    <3>3. Waiting(m, {"start", "devices", "existing"})
      BY <3>1 DEF Waiting
    <3>4. QED
      BY <1>3, <2>1, <3>2, <3>3
  <2>4. CASE InsertBatch(h)
    <3>1. handler[h].message = m /\ handler'[h].pc \in {"insert", "fail"}
      BY <1>4, <2>4, InsertMoves
    <3>2. handler'[h].pc = "insert"
      BY <1>4, <3>1 DEF TrySteps
    <3>3. QED
      BY <1>1, <2>1, <2>4, <3>1, <3>2
  <2>5. CASE handler'[h] = handler[h] /\ ~ InsertBatch(h)
    BY <1>2, <1>4, <2>1, <2>5
  <2>6. QED
    BY <1>4, <2>2, <2>3, <2>4, <2>5, AtWork
<1>5. ASSUME NEW h \in Handlers, handler'[h].pc \in TrySteps,
             ~ message'[handler'[h].message].redelivered,
             NEW r \in RecordsOf(handler'[h].message)
      PROVE  Goal(h, handler'[h].message, r)
  <2> HIDE DEF Goal
  <2>1. r \in Records /\ MessageOf[r] = handler'[h].message
    BY DEF RecordsOf
  <2>2. PICK m \in Messages : m = handler'[h].message
    BY <2>1 DEF LegacySyncConstants
  <2>3. Fresh(m)'
    BY <1>5, <2>2 DEF Fresh
  <2>4. QED
    BY <1>4, <1>5, <2>2, <2>3
<1>6. QED
  BY <1>5 DEF CountingExactly, Fresh, Skipped, RecordsOf, Ids, IdAt, Single

LEMMA CountedKept ==
    ASSUME LegacySyncConstants, SoundInv, ExactInv, [Next]_vars
    PROVE  CountedExactly'
<1> DEFINE Goal(r) ==
             \/ record'[r].inserted = Cardinality(OwnedBy(r)')
             \/ /\ ~ Single(r)
                /\ \E a \in Ids(MessageOf[r]) :
                      attendance'[a] \notin RecordsOf(MessageOf[r])
<1>1. ASSUME NEW r \in Records, record'[r].status = "SUCCESS",
             NEW m \in Messages, m = MessageOf[r], Fresh(m)', record'[r] = record[r]
      PROVE  Goal(r)
  <2>1. Fresh(m) /\ r \in RecordsOf(m)
    BY <1>1, FreshKept DEF RecordsOf
  <2>2. ASSUME NEW g \in Handlers, InsertBatch(g), handler[g].message = m
        PROVE  FALSE
    <3>1. handler[g].pc = "insert"
      BY <2>2, InsertCases
    <3>2. Waiting(m, TrySteps)
      BY <2>2, <3>1 DEF Waiting, TrySteps
    <3>3. QED
      BY <1>1, <2>1, <3>2 DEF ExactInv, NotYetSuccess
  <2>3. Undisturbed(m)
    BY <2>2, OthersRows
  <2>4. OwnedBy(r)' = OwnedBy(r)
    BY <1>1, <2>1, <2>3 DEF Undisturbed
  <2>5. \/ record[r].inserted = Cardinality(OwnedBy(r))
        \/ ~ Single(r) /\ Skipped(m, {})
    BY <1>1, <2>1 DEF ExactInv, CountedExactly
  <2>6. Skipped(m, {}) => \E a \in Ids(m) : attendance'[a] \notin RecordsOf(m)
    BY <2>3, SkippedKept
  <2>7. QED
    BY <1>1, <2>4, <2>5, <2>6
<1>2. ASSUME NEW r \in Records, record'[r].status = "SUCCESS",
             NEW m \in Messages, m = MessageOf[r], Fresh(m)',
             NEW h \in Handlers, MarkSuccess(h), m = Target(h)
      PROVE  Goal(r)
  <2>1. Fresh(m) /\ r \in RecordsOf(m)
    BY <1>2, FreshKept DEF RecordsOf
  <2>2. /\ handler[h].pc = "insert" /\ handler[h].todo = {} /\ handler[h].message = m
        /\ UNCHANGED attendance
    BY <1>2, SuccessMoves
  <2>3. \/ record[r].status = "REMOVED"
        \/ handler[h].counts[r] = Cardinality(OwnedBy(r))
        \/ ~ Single(r) /\ Skipped(m, {})
    BY <2>1, <2>2 DEF ExactInv, CountingExactly, TrySteps
  <2>4. \/ record'[r] = record[r]
        \/ /\ record[r].status # "REMOVED"
           /\ record'[r] = [status |-> "SUCCESS", inserted |-> handler[h].counts[r]]
    BY <1>2, <2>1 DEF MarkSuccess
  <2>5. OwnedBy(r)' = OwnedBy(r)
    BY <2>2 DEF OwnedBy
  <2>6. CASE record'[r] = record[r]
    BY <1>1, <1>2, <2>6
  <2>7. CASE record'[r] # record[r]
    BY <1>2, <2>2, <2>3, <2>4, <2>5, <2>7 DEF Skipped
  <2>8. QED
    BY <2>6, <2>7
<1>3. ASSUME NEW r \in Records, record'[r].status = "SUCCESS", Fresh(MessageOf[r])'
      PROVE  Goal(r)
  <2> HIDE DEF Goal
  <2>1. PICK m \in Messages : m = MessageOf[r]
    BY DEF LegacySyncConstants
  <2>2. Fresh(m)'
    BY <1>3, <2>1
  <2>3. QED
    BY <1>1, <1>2, <1>3, <2>1, <2>2, SuccessKept
<1>4. QED
  BY <1>3 DEF CountedExactly, Fresh, Skipped, RecordsOf, Ids, IdAt, Single

LEMMA ExactInvariant == Spec => []ExactInv
<1>1. Init => ExactInv
  <2> SUFFICES ASSUME Init
               PROVE  ExactInv
    OBVIOUS
  <2>1. \A h \in Handlers : handler[h].pc = "idle" /\ handler[h].message = None
    BY IdleTyped, LegacySyncConstants DEF Init
  <2>2. \A r \in Records : OwnedBy(r) = {} /\ record[r].status = "PENDING"
    BY LegacySyncConstants DEF Init, OwnedBy
  <2>3. None \notin Messages
    BY LegacySyncConstants
  <2>4. SingleHandler /\ CountsFromZero /\ OfferedAreNew
    BY <2>1, <2>3 DEF SingleHandler, CountsFromZero, OfferedAreNew
  <2>5. NothingBefore /\ NotYetSuccess /\ CountedExactly
    BY <2>2 DEF NothingBefore, NotYetSuccess, CountedExactly, RecordsOf
  <2>6. CountingExactly
    BY <2>1 DEF CountingExactly, TrySteps
  <2>7. QED
    BY <2>4, <2>5, <2>6 DEF ExactInv
<1>2. SoundInv /\ ExactInv /\ [Next]_vars => ExactInv'
  <2> SUFFICES ASSUME SoundInv, ExactInv, [Next]_vars
               PROVE  ExactInv'
    OBVIOUS
  <2>1. SingleHandler' /\ NothingBefore' /\ CountsFromZero'
    BY SingleKept, NothingKept, ZeroKept, LegacySyncConstants DEF ExactInv
  <2>2. NotYetSuccess' /\ OfferedAreNew'
    BY NotYetKept, OfferedNewKept, LegacySyncConstants DEF ExactInv
  <2>3. CountingExactly' /\ CountedExactly'
    BY CountingKept, CountedKept, LegacySyncConstants
  <2>4. QED
    BY <2>1, <2>2, <2>3 DEF ExactInv
<1>3. QED
  BY <1>1, <1>2, SoundInvariant, PTL DEF Spec

(* After a single delivery insertedRecords is exact for a message with one *)
(* record, and for a message with several if none of its rows belonged to  *)
(* another message: the comment in insertBatch, for all overlaps with the  *)
(* handlers of other messages, all failures and all deleted stores.        *)
THEOREM CountsAreExact == Spec => []CountExact
<1>1. CountedExactly => CountExact
  <2> SUFFICES ASSUME CountedExactly, NEW r \in Records, record[r].status = "SUCCESS",
                      Fresh(MessageOf[r]),
                      \/ Single(r)
                      \/ \A q \in RecordsOf(MessageOf[r]) : \A a \in IdsOf(q) :
                            attendance[a] \in RecordsOf(MessageOf[r])
               PROVE  record[r].inserted = Cardinality(OwnedBy(r))
    BY DEF CountExact, Fresh, Single
  <2>1. PICK m \in Messages : m = MessageOf[r]
    BY LegacySyncConstants
  <2>2. ASSUME NEW a \in Ids(m)
        PROVE  \E q \in RecordsOf(m) : a \in IdsOf(q)
    <3>1. PICK i \in DOMAIN Payload[m] : IdAt(m, i) = a
      BY <2>2 DEF Ids
    <3>2. OwnerAt(m, i) \in RecordsOf(m) /\ a \in IdsOf(OwnerAt(m, i))
      BY <3>1, Logs, LegacySyncConstants
    <3>3. QED
      BY <3>2
  <2>3. ~ Single(r) => ~ Skipped(m, {})
    BY <2>1, <2>2 DEF Skipped
  <2>4. QED
    BY <2>1, <2>3 DEF CountedExactly
<1>2. ExactInv => CountExact
  BY <1>1 DEF ExactInv
<1>3. QED
  BY <1>2, ExactInvariant, PTL

=============================================================================
