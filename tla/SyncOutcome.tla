----------------------------- MODULE SyncOutcome -----------------------------
(***************************************************************************)
(* What the chunked store sync promises, without queues, workers or        *)
(* transactions: every chunk of a sync record is resolved at most once,    *)
(* and the record is given at most one outcome, justified by its chunks at *)
(* the moment it is given.  StoreSync.tla implements this specification.   *)
(***************************************************************************)

CONSTANTS
    Records,     \* StoreSyncRecord rows
    Chunks,      \* StoreSyncRecordChunk rows
    RecordOf     \* the record every chunk belongs to

VARIABLES
    outcome,     \* outcome[r]: what the status report says of record r
    result       \* result[c]: what became of chunk c

outcomeVars == <<outcome, result>>

ChunksOf(r) == {c \in Chunks : RecordOf[c] = r}

OutcomeTypeOK ==
    /\ outcome \in [Records -> {"open", "success", "failed", "removed"}]
    /\ result \in [Chunks -> {"open", "done", "failed", "removed"}]

Init ==
    /\ outcome = [r \in Records |-> "open"]
    /\ result = [c \in Chunks |-> "open"]

(* A worker finishes chunk c, or gives it up.                              *)
Resolve(c) ==
    /\ result[c] = "open"
    /\ \E end \in {"done", "failed"} : result' = [result EXCEPT ![c] = end]
    /\ UNCHANGED outcome

(* A record succeeds when nothing of it is left to do and nothing failed.  *)
Succeed(r) ==
    /\ outcome[r] = "open"
    /\ \A c \in ChunksOf(r) : result[c] = "done"
    /\ outcome' = [outcome EXCEPT ![r] = "success"]
    /\ UNCHANGED result

(* A record fails as soon as one of its chunks has; the others may go on.  *)
Fail(r) ==
    /\ outcome[r] = "open"
    /\ \E c \in ChunksOf(r) : result[c] = "failed"
    /\ outcome' = [outcome EXCEPT ![r] = "failed"]
    /\ UNCHANGED result

(* Deleting a store deletes its records and their chunks, at any time.     *)
Remove(gone) ==
    /\ outcome' = [r \in Records |-> IF r \in gone THEN "removed" ELSE outcome[r]]
    /\ result' = [c \in Chunks |->
                    IF RecordOf[c] \in gone THEN "removed" ELSE result[c]]

Next ==
    \/ \E c \in Chunks : Resolve(c)
    \/ \E r \in Records : Succeed(r) \/ Fail(r)
    \/ \E gone \in SUBSET Records : Remove(gone)

Spec == Init /\ [][Next]_outcomeVars
=============================================================================
