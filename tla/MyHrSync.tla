------------------------------- MODULE MyHrSync -------------------------------
(***************************************************************************)
(* The delivery of attendance rows to the external MyHR service.  A        *)
(* SYNC_MY_HR_ATTENDANCE trigger makes a scheduling call open a job, cut   *)
(* the rows that have no MyHrAttendanceSync row yet into chunks and send   *)
(* one SYNC_MY_HR_CHUNK message per chunk; processing calls claim a chunk, *)
(* upload its payload, and conclude, retry or give up the chunk, its rows  *)
(* and finally the job.                                                    *)
(*                                                                         *)
(* One action is one statement, one transaction whose statements cannot be *)
(* told apart by others, or one external call.  Rows, chunks and jobs are  *)
(* numbers: rows in createdAt order, chunks and jobs in creation order.    *)
(***************************************************************************)
EXTENDS Naturals, FiniteSets

CONSTANTS
    Rows,          \* attendance rows that may be stored
    Jobs,          \* MyHrSyncJob rows that may be created
    Chunks,        \* MyHrSyncChunk rows that may be created
    Schedulers,    \* concurrent scheduleAttendanceSync calls
    Workers,       \* concurrent processChunk calls
    ChunkSize,     \* MYHR_SYNC_CHUNK_SIZE
    MaxAttempts,   \* MYHR_MAX_CHUNK_ATTEMPTS
    None,          \* no value
    MaxTriggers,   \* bound: deliveries of trigger messages
    MaxAborts,     \* bound: calls cut short by a crash or an uncaught error
    MaxErrors,     \* bound: failed calls that a catch block handles
    MaxRedeliveries,  \* bound: messages redelivered while still being handled
    MaxOverruns    \* bound: claims that grow stale while still being worked on

ASSUME MyHrSyncConstants ==
    /\ Rows \subseteq Nat /\ Jobs \subseteq Nat /\ Chunks \subseteq Nat
    /\ ChunkSize \in Nat \ {0} /\ MaxAttempts \in Nat \ {0}
    /\ None \notin Nat /\ None \notin Schedulers \cup Workers
    /\ {MaxTriggers, MaxAborts, MaxErrors, MaxRedeliveries, MaxOverruns} \subseteq Nat

VARIABLES
    stored,        \* the attendance rows in the database
    delivery,      \* delivery[a]: the MyHrAttendanceSync row of a
    job,           \* job[j]: the status of a MyHrSyncJob row
    chunk,         \* chunk[c]: the MyHrSyncChunk row
    message,       \* message[c]: the SYNC_MY_HR_CHUNK message of c
    sent,          \* sent[a]: how often MyHR has accepted row a
    scheduler,     \* scheduler[p]: the local state of a scheduling call
    worker,        \* worker[w]: the local state of a processing call
    faults         \* faults[k]: how often each bounded event has happened

vars == <<stored, delivery, job, chunk, message, sent, scheduler, worker, faults>>

Faults == {"triggers", "aborts", "errors", "redeliveries", "overruns"}
Terminal == {"SUCCESS", "FAILED"}
Active == {"PENDING", "PROCESSING"}

DeliveryRow == [status : {"NONE", "PENDING", "PROCESSING", "SYNCED", "FAILED"},
                chunk : Chunks \cup {None}]
ChunkRow == [status : {"NONE"} \cup Active \cup Terminal, job : Jobs \cup {None},
             payload : SUBSET Rows, attempts : Nat, stale : BOOLEAN]
MessageState == [state : {"unsent", "visible", "inflight", "deleted"},
                 receipt : Workers \cup {None}]

PlanSteps == {"idle", "check", "page", "open", "adopt", "chunk", "more", "send", "failjob"}
Steps == {"idle", "read", "reclaim", "claim", "reread", "take", "upload", "conclude",
          "fail", "release", "finalize", "tally", "settle", "delete"}

SchedulerState ==
    [pc : PlanSteps,
     cutoff : SUBSET Rows, page : SUBSET Rows, existing : SUBSET Rows,
     job : Jobs \cup {None}]
WorkerState ==
    [pc : Steps,
     chunk : Chunks \cup {None}, attempts : Nat, inTry : BOOLEAN, ack : BOOLEAN,
     verdict : {"none"} \cup Terminal]

SchedulerIdle == [pc |-> "idle", cutoff |-> {}, page |-> {}, existing |-> {}, job |-> None]
WorkerIdle == [pc |-> "idle", chunk |-> None, attempts |-> 0, inTry |-> FALSE,
               ack |-> FALSE, verdict |-> "none"]

(* Every variable keeps its type.  In particular a delivery row only takes *)
(* the statuses of its own table, never one that only a chunk can have.    *)
TypeOK ==
    /\ stored \subseteq Rows
    /\ delivery \in [Rows -> DeliveryRow]
    /\ job \in [Jobs -> {"NONE", "PROCESSING"} \cup Terminal]
    /\ chunk \in [Chunks -> ChunkRow]
    /\ message \in [Chunks -> MessageState]
    /\ sent \in [Rows -> Nat]
    /\ scheduler \in [Schedulers -> SchedulerState]
    /\ worker \in [Workers -> WorkerState]
    /\ faults \in [Faults -> Nat]

Init ==
    /\ stored = {}
    /\ delivery = [a \in Rows |-> [status |-> "NONE", chunk |-> None]]
    /\ job = [j \in Jobs |-> "NONE"]
    /\ chunk = [c \in Chunks |-> [status |-> "NONE", job |-> None, payload |-> {},
                                  attempts |-> 0, stale |-> FALSE]]
    /\ message = [c \in Chunks |-> [state |-> "unsent", receipt |-> None]]
    /\ sent = [a \in Rows |-> 0]
    /\ scheduler = [p \in Schedulers |-> SchedulerIdle]
    /\ worker = [w \in Workers |-> WorkerIdle]
    /\ faults = [k \in Faults |-> 0]

Spend(kind, bound) ==
    /\ faults[kind] < bound
    /\ faults' = [faults EXCEPT ![kind] = @ + 1]

(* The store sync commits an attendance row, in createdAt order.           *)
StoreRow(a) ==
    /\ a \notin stored
    /\ \A b \in Rows : b < a => b \in stored
    /\ stored' = stored \cup {a}
    /\ UNCHANGED <<delivery, job, chunk, message, sent, scheduler, worker, faults>>

-----------------------------------------------------------------------------
(* Scheduling: scheduleAttendanceSync and createSyncJob.                   *)

PlanAt(p, step) == scheduler[p].pc = step
PlanTo(p, step) == scheduler' = [scheduler EXCEPT ![p].pc = step]
Plan(p, state) == scheduler' = [scheduler EXCEPT ![p] = state]

(* Rows that no MyHrAttendanceSync row exists for, and the next page.      *)
(* Mutant: delivered rows are eligible again.                              *)
NotUnderWay(cutoff) == {a \in cutoff : delivery[a].status \notin Active}
Unsynced(cutoff) == {a \in cutoff : delivery[a].status = "NONE"}
Page(rows) == {a \in rows : Cardinality({b \in rows : b < a}) < ChunkSize}
ChunksOf(j) == {c \in Chunks : chunk[c].job = j}

(* A trigger, from the cron job, from GET /myhr/sync, or delivered again,  *)
(* reaches a poller; its timestamp fixes which rows it may take.           *)
Trigger(p) ==
    /\ PlanAt(p, "idle")
    /\ stored # {}
    /\ Spend("triggers", MaxTriggers)
    /\ Plan(p, [SchedulerIdle EXCEPT !.pc = "check", !.cutoff = stored])
    /\ UNCHANGED <<stored, delivery, job, chunk, message, sent, worker>>

SomeActiveJob == \E j \in Jobs : job[j] = "PROCESSING"

(* A trigger that meets an active job is skipped and acknowledged.         *)
CheckActive(p) ==
    /\ PlanAt(p, "check")
    /\ IF SomeActiveJob THEN Plan(p, SchedulerIdle) ELSE PlanTo(p, "page")
    /\ UNCHANGED <<stored, delivery, job, chunk, message, sent, worker, faults>>

ReadPage(p) ==
    LET rows == Unsynced(scheduler[p].cutoff) IN
    /\ PlanAt(p, "page")
    /\ Plan(p, IF rows = {} THEN SchedulerIdle
               ELSE [scheduler[p] EXCEPT !.pc = "open", !.page = Page(rows)])
    /\ UNCHANGED <<stored, delivery, job, chunk, message, sent, worker, faults>>

(* The transaction that has seen no active job commits a new one.          *)
OpenJob(p) ==
    /\ PlanAt(p, "open")
    /\ \E j \in Jobs :
          /\ job[j] = "NONE" /\ \A i \in Jobs : i < j => job[i] # "NONE"
          /\ job' = [job EXCEPT ![j] = "PROCESSING"]
          /\ Plan(p, [scheduler[p] EXCEPT !.pc = "adopt", !.job = j])
    /\ UNCHANGED <<stored, delivery, chunk, message, sent, worker, faults>>

(* createChunk's updateMany only sees the rows that exist when it runs; it *)
(* takes effect when the transaction commits.                              *)
AdoptRows(p) ==
    /\ PlanAt(p, "adopt")
    /\ Plan(p, [scheduler[p] EXCEPT !.pc = "chunk",
            !.existing = {a \in scheduler[p].page : delivery[a].status # "NONE"}])
    /\ UNCHANGED <<stored, delivery, job, chunk, message, sent, worker, faults>>

(* createChunk commits: the chunk, the rows it took over, and those that   *)
(* nobody inserted in the meantime.                                        *)
CreateChunk(p) ==
    LET rows == scheduler[p].page
        mine == scheduler[p].existing \cup Unsynced(rows)
    IN
    /\ PlanAt(p, "chunk")
    /\ \E c \in Chunks :
          /\ chunk[c].status = "NONE" /\ \A d \in Chunks : d < c => chunk[d].status # "NONE"
          /\ chunk' = [chunk EXCEPT ![c] = [status |-> "PENDING", job |-> scheduler[p].job,
                           payload |-> rows, attempts |-> 0, stale |-> FALSE]]
          /\ delivery' = [a \in Rows |-> IF a \in mine
                            THEN [status |-> "PENDING", chunk |-> c] ELSE delivery[a]]
    /\ Plan(p, [scheduler[p] EXCEPT !.pc = "more", !.page = {}, !.existing = {}])
    /\ UNCHANGED <<stored, job, message, sent, worker, faults>>

(* The loop goes on until no row is left, then the messages are sent.      *)
NextPage(p) ==
    LET rows == Unsynced(scheduler[p].cutoff) IN
    /\ PlanAt(p, "more")
    /\ Plan(p, IF rows = {} THEN [scheduler[p] EXCEPT !.pc = "send", !.cutoff = {}]
               ELSE [scheduler[p] EXCEPT !.pc = "adopt", !.page = Page(rows)])
    /\ UNCHANGED <<stored, delivery, job, chunk, message, sent, worker, faults>>

Unsent(p) == {c \in ChunksOf(scheduler[p].job) : message[c].state = "unsent"}

(* sendChunkWithRetry, one chunk after the other.                          *)
SendChunk(p) ==
    /\ PlanAt(p, "send")
    /\ \E c \in Unsent(p) :
          /\ \A d \in Unsent(p) : c <= d
          /\ message' = [message EXCEPT ![c].state = "visible"]
    /\ UNCHANGED <<stored, delivery, job, chunk, sent, scheduler, worker, faults>>

SendsDone(p) ==
    /\ PlanAt(p, "send")
    /\ Unsent(p) = {}
    /\ Plan(p, SchedulerIdle)
    /\ UNCHANGED <<stored, delivery, job, chunk, message, sent, worker, faults>>

(* Creating the chunks fails, or sending one fails three times, perhaps    *)
(* although SQS has accepted it.                                           *)
SchedulingFails(p) ==
    /\ scheduler[p].pc \in {"adopt", "chunk", "more", "send"}
    /\ Spend("errors", MaxErrors)
    /\ PlanTo(p, "failjob")
    /\ \/ UNCHANGED message
       \/ \E c \in Unsent(p) :
             /\ PlanAt(p, "send")
             /\ \A d \in Unsent(p) : c <= d
             /\ message' = [message EXCEPT ![c].state = "visible"]
    /\ UNCHANGED <<stored, delivery, job, chunk, sent, worker>>

(* markJobAsFailed: the job, and whatever of it is still active.           *)
FailActiveChunks(j) == [c \in Chunks |->
    IF chunk[c].job = j /\ chunk[c].status \in Active
    THEN [chunk[c] EXCEPT !.status = "FAILED", !.stale = FALSE] ELSE chunk[c]]

MarkJobAsFailed(p) ==
    LET j == scheduler[p].job IN
    /\ PlanAt(p, "failjob")
    /\ chunk' = FailActiveChunks(j)
    /\ delivery' = [a \in Rows |->
            IF delivery[a].chunk \in ChunksOf(j) /\ delivery[a].status \in Active
            THEN [delivery[a] EXCEPT !.status = "FAILED"] ELSE delivery[a]]
    /\ job' = [job EXCEPT ![j] = "FAILED"]
    /\ Plan(p, SchedulerIdle)
    /\ UNCHANGED <<stored, message, sent, worker, faults>>

(* The process dies, or a call outside the catch blocks throws.            *)
AbortScheduler(p) ==
    /\ ~PlanAt(p, "idle")
    /\ Spend("aborts", MaxAborts)
    /\ Plan(p, SchedulerIdle)
    /\ UNCHANGED <<stored, delivery, job, chunk, message, sent, worker>>

-----------------------------------------------------------------------------
(* SQS and the clock.                                                      *)

Receive(w, c) ==
    /\ worker[w].pc = "idle"
    /\ message[c].state = "visible"
    /\ message' = [message EXCEPT ![c] = [state |-> "inflight", receipt |-> w]]
    /\ worker' = [worker EXCEPT ![w] = [WorkerIdle EXCEPT !.pc = "read", !.chunk = c]]
    /\ UNCHANGED <<stored, delivery, job, chunk, sent, scheduler, faults>>

BeingHandled(c) == \E w \in Workers : message[c].receipt = w /\ worker[w].chunk = c

(* An undeleted message becomes visible again when its call is gone, or    *)
(* early when the call takes longer than the visibility timeout.           *)
VisibilityTimeout(c) ==
    /\ message[c].state = "inflight"
    /\ IF BeingHandled(c) THEN Spend("redeliveries", MaxRedeliveries) ELSE UNCHANGED faults
    /\ message' = [message EXCEPT ![c] = [state |-> "visible", receipt |-> None]]
    /\ UNCHANGED <<stored, delivery, job, chunk, sent, scheduler, worker>>

(* The call has claimed the chunk and has not concluded it.                *)
OwnerSteps == {"take", "upload", "conclude", "fail"}
Owns(w, c) == worker[w].pc \in OwnerSteps /\ worker[w].chunk = c

(* startedAt falls behind the processing timeout, which happens to a call  *)
(* that is still at work only when it is slower than configured.           *)
ProcessingTimeout(c) ==
    /\ chunk[c].status = "PROCESSING" /\ ~chunk[c].stale
    /\ IF \E w \in Workers : Owns(w, c)
       THEN Spend("overruns", MaxOverruns) ELSE UNCHANGED faults
    /\ chunk' = [chunk EXCEPT ![c].stale = TRUE]
    /\ UNCHANGED <<stored, delivery, job, message, sent, scheduler, worker>>

-----------------------------------------------------------------------------
(* Processing: processChunk.                                               *)

At(w, step) == worker[w].pc = step
Target(w) == worker[w].chunk
JobOf(w) == chunk[Target(w)].job
Become(w, state) == worker' = [worker EXCEPT ![w] = state]
GoTo(w, step) == worker' = [worker EXCEPT ![w].pc = step]

(* An exception that leaves processChunk keeps the message.                *)
Rejected == WorkerIdle
Finalizing(c, ack) == [WorkerIdle EXCEPT !.pc = "finalize", !.chunk = c, !.ack = ack]
Acknowledging(c) == [WorkerIdle EXCEPT !.pc = "delete", !.chunk = c]

(* A message about a concluded chunk still finalizes the job.              *)
(* Mutant: it is acknowledged at once.                                     *)
AcknowledgeConcluded(c) == Acknowledging(c)
AlreadyConcluded(c) == Finalizing(c, TRUE)

(* attemptCount is remembered from this read until the catch block.        *)
ReadChunk(w) ==
    LET c == Target(w) IN
    /\ At(w, "read")
    /\ Become(w, IF chunk[c].status \in Terminal THEN AlreadyConcluded(c)
                 ELSE [worker[w] EXCEPT !.attempts = chunk[c].attempts,
                        !.pc = IF chunk[c].status = "PROCESSING" THEN "reclaim" ELSE "claim"])
    /\ UNCHANGED <<stored, delivery, job, chunk, message, sent, scheduler, faults>>

(* A chunk whose call seems dead is taken back.                            *)
(* Mutants: the age of the claim is ignored; it is never taken back.       *)
AnyClaim(c) == chunk[c].status = "PROCESSING"
NoClaim(c) == FALSE
StaleClaim(c) == chunk[c].status = "PROCESSING" /\ chunk[c].stale

Reclaim(w) ==
    LET c == Target(w) IN
    /\ At(w, "reclaim")
    /\ IF StaleClaim(c)
       THEN /\ chunk' = [chunk EXCEPT ![c].status = "PENDING", ![c].stale = FALSE]
            /\ GoTo(w, "claim")
       ELSE Become(w, Rejected) /\ UNCHANGED chunk
    /\ UNCHANGED <<stored, delivery, job, message, sent, scheduler, faults>>

(* Mutant: a chunk is claimed without looking at its status.               *)
AnyClaimable(c) == TRUE
Claimable(c) == chunk[c].status = "PENDING"

Claim(w) ==
    LET c == Target(w) IN
    /\ At(w, "claim")
    /\ IF Claimable(c)
       THEN /\ chunk' = [chunk EXCEPT ![c].status = "PROCESSING", ![c].stale = FALSE,
                                      ![c].attempts = @ + 1]
            /\ GoTo(w, "take")
       ELSE GoTo(w, "reread") /\ UNCHANGED chunk
    /\ UNCHANGED <<stored, delivery, job, message, sent, scheduler, faults>>

Reread(w) ==
    LET c == Target(w) IN
    /\ At(w, "reread")
    /\ Become(w, IF chunk[c].status \in Terminal THEN AlreadyConcluded(c) ELSE Rejected)
    /\ UNCHANGED <<stored, delivery, job, chunk, message, sent, scheduler, faults>>

(* updateMany of the rows of chunk c that are in one status.               *)
(* Mutant: the rows of other chunks move too.                              *)
MoveAnyRows(c, from, to) ==
    delivery' = [a \in Rows |-> IF delivery[a].status = from
                                THEN [delivery[a] EXCEPT !.status = to] ELSE delivery[a]]
MoveRows(c, from, to) ==
    delivery' = [a \in Rows |-> IF delivery[a] = [status |-> from, chunk |-> c]
                                THEN [delivery[a] EXCEPT !.status = to] ELSE delivery[a]]

TakeRows(w) ==
    /\ At(w, "take")
    /\ MoveRows(Target(w), "PENDING", "PROCESSING")
    /\ Become(w, [worker[w] EXCEPT !.pc = "upload", !.inTry = TRUE])
    /\ UNCHANGED <<stored, job, chunk, message, sent, scheduler, faults>>

(* uploadBiometrics: MyHR accepts the payload and the batch is saved, or   *)
(* the payload is refused, or it is accepted but the answer, the batch id  *)
(* or the saving of the batch fails.                                       *)
Upload(w) ==
    LET accepted == sent' = [a \in Rows |->
            IF a \in chunk[Target(w)].payload THEN sent[a] + 1 ELSE sent[a]]
    IN
    /\ At(w, "upload")
    /\ \/ accepted /\ GoTo(w, "conclude") /\ UNCHANGED faults
       \/ /\ accepted \/ UNCHANGED sent
          /\ Spend("errors", MaxErrors)
          /\ GoTo(w, "fail")
    /\ UNCHANGED <<stored, delivery, job, chunk, message, scheduler>>

(* One transaction: the chunk by id whatever its status, then the rows     *)
(* still PROCESSING under it.  Its reply may be lost.                      *)
Conclude(w) ==
    LET c == Target(w) IN
    /\ At(w, "conclude")
    /\ chunk' = [chunk EXCEPT ![c].status = "SUCCESS", ![c].stale = FALSE]
    /\ MoveRows(c, "PROCESSING", "SYNCED")
    /\ \/ /\ Become(w, [worker[w] EXCEPT !.pc = "finalize", !.ack = TRUE])
          /\ UNCHANGED faults
       \/ GoTo(w, "fail") /\ Spend("errors", MaxErrors)
    /\ UNCHANGED <<stored, job, message, sent, scheduler>>

(* A call inside the try block fails without effect.                       *)
ThrowInTry(w) ==
    /\ worker[w].inTry
    /\ worker[w].pc \in {"conclude", "finalize", "tally", "settle"}
    /\ Spend("errors", MaxErrors)
    /\ Become(w, [worker[w] EXCEPT !.pc = "fail", !.ack = FALSE, !.verdict = "none"])
    /\ UNCHANGED <<stored, delivery, job, chunk, message, sent, scheduler>>

(* The catch block.  Whether this was the last attempt is computed from    *)
(* the attemptCount read at the beginning.                                 *)
(* Mutant: the count is compared without the attempt just made.            *)
OneMoreAttempt(w) == worker[w].attempts >= MaxAttempts
IsFinalAttempt(w) == worker[w].attempts + 1 >= MaxAttempts

FailChunk(w) ==
    LET c == Target(w) IN
    /\ At(w, "fail")
    /\ chunk' = IF chunk[c].status = "PROCESSING"
                THEN [chunk EXCEPT ![c].stale = FALSE,
                         ![c].status = IF IsFinalAttempt(w) THEN "FAILED" ELSE "PENDING"]
                ELSE chunk
    /\ Become(w, [worker[w] EXCEPT !.pc = "release", !.inTry = FALSE])
    /\ UNCHANGED <<stored, delivery, job, message, sent, scheduler, faults>>

ReleaseRows(w) ==
    LET c == Target(w) IN
    /\ At(w, "release")
    /\ MoveRows(c, "PROCESSING", IF IsFinalAttempt(w) THEN "FAILED" ELSE "PENDING")
    /\ Become(w, IF IsFinalAttempt(w) THEN Finalizing(c, FALSE) ELSE Rejected)
    /\ UNCHANGED <<stored, job, chunk, message, sent, scheduler, faults>>

-----------------------------------------------------------------------------
(* finalizeJob: it reads the job, then its chunks, and writes a verdict    *)
(* that is not checked again.                                              *)

FinalizeDone(w) == IF worker[w].ack THEN Acknowledging(Target(w)) ELSE Rejected

FinalizeRead(w) ==
    /\ At(w, "finalize")
    /\ IF job[JobOf(w)] = "FAILED" THEN Become(w, FinalizeDone(w)) ELSE GoTo(w, "tally")
    /\ UNCHANGED <<stored, delivery, job, chunk, message, sent, scheduler, faults>>

(* Mutant: a job is complete as soon as none of its chunks is PROCESSING.  *)
NoneProcessing(j) == \A c \in ChunksOf(j) : chunk[c].status # "PROCESSING"
NoneIncomplete(j) == \A c \in ChunksOf(j) : chunk[c].status \notin Active
SomeFailed(j) == \E c \in ChunksOf(j) : chunk[c].status = "FAILED"

FinalizeTally(w) ==
    LET j == JobOf(w)
        verdict(v) == [worker[w] EXCEPT !.pc = "settle", !.verdict = v]
    IN
    /\ At(w, "tally")
    /\ Become(w, IF SomeFailed(j) THEN verdict("FAILED")
                 ELSE IF NoneIncomplete(j) THEN verdict("SUCCESS") ELSE FinalizeDone(w))
    /\ UNCHANGED <<stored, delivery, job, chunk, message, sent, scheduler, faults>>

FinalizeSettle(w) ==
    /\ At(w, "settle")
    /\ job' = [job EXCEPT ![JobOf(w)] = worker[w].verdict]
    /\ Become(w, FinalizeDone(w))
    /\ UNCHANGED <<stored, delivery, chunk, message, sent, scheduler, faults>>

DeleteMessage(w) ==
    LET c == Target(w) IN
    /\ At(w, "delete")
    /\ \/ message' = [message EXCEPT ![c] = [state |-> "deleted", receipt |-> None]]
       \/ message[c].receipt # w /\ UNCHANGED message
    /\ Become(w, WorkerIdle)
    /\ UNCHANGED <<stored, delivery, job, chunk, sent, scheduler, faults>>

(* The process dies, or a call outside the try block throws.               *)
AbortWorker(w) ==
    /\ ~At(w, "idle")
    /\ Spend("aborts", MaxAborts)
    /\ Become(w, WorkerIdle)
    /\ UNCHANGED <<stored, delivery, job, chunk, message, sent, scheduler>>

-----------------------------------------------------------------------------

SchedulerStep(p) ==
    \/ CheckActive(p) \/ ReadPage(p) \/ OpenJob(p) \/ AdoptRows(p) \/ CreateChunk(p)
    \/ NextPage(p) \/ SendChunk(p) \/ SendsDone(p) \/ MarkJobAsFailed(p)

WorkerStep(w) ==
    \/ ReadChunk(w) \/ Reclaim(w) \/ Claim(w) \/ Reread(w) \/ TakeRows(w) \/ Upload(w)
    \/ Conclude(w) \/ FailChunk(w) \/ ReleaseRows(w) \/ FinalizeRead(w)
    \/ FinalizeTally(w) \/ FinalizeSettle(w) \/ DeleteMessage(w)

Next ==
    \/ \E a \in Rows : StoreRow(a)
    \/ \E p \in Schedulers : \/ Trigger(p) \/ SchedulerStep(p)
                             \/ SchedulingFails(p) \/ AbortScheduler(p)
    \/ \E c \in Chunks : VisibilityTimeout(c) \/ ProcessingTimeout(c)
    \/ \E w \in Workers, c \in Chunks : Receive(w, c)
    \/ \E w \in Workers : WorkerStep(w) \/ ThrowInTry(w) \/ AbortWorker(w)

(* Calls return, messages that stay visible are received, and the two      *)
(* timeouts expire for work that nobody is doing any more.                 *)
Fairness ==
    /\ \A p \in Schedulers : WF_vars(SchedulerStep(p))
    /\ \A w \in Workers : WF_vars(WorkerStep(w))
    /\ \A c \in Chunks : SF_vars(\E w \in Workers : Receive(w, c))
    /\ \A c \in Chunks : WF_vars(VisibilityTimeout(c) /\ ~BeingHandled(c))
    /\ \A c \in Chunks : WF_vars(ProcessingTimeout(c) /\ ~\E w \in Workers : Owns(w, c))

Spec == Init /\ [][Next]_vars /\ Fairness

-----------------------------------------------------------------------------
(* Safety.                                                                 *)

(* A row recorded as SYNCED has been accepted by MyHR, in the payload of   *)
(* the chunk it points to, and that chunk is SUCCESS: no late update moves *)
(* a row that another chunk has taken over.                                *)
SyncedWasAccepted ==
    \A a \in Rows : delivery[a].status = "SYNCED" =>
        /\ sent[a] > 0
        /\ \E c \in Chunks : /\ delivery[a].chunk = c /\ a \in chunk[c].payload
                             /\ chunk[c].status = "SUCCESS"

(* A job reported SUCCESS has only SUCCESS chunks, and MyHR has accepted   *)
(* every row they carry, although finalizeJob decides on an earlier read.  *)
JobSuccessSound ==
    \A j \in Jobs : job[j] = "SUCCESS" => \A c \in ChunksOf(j) :
        chunk[c].status = "SUCCESS" /\ \A a \in chunk[c].payload : sent[a] > 0

(* A chunk is tried at most MYHR_MAX_CHUNK_ATTEMPTS times, and once more   *)
(* for every crash and every early redelivery or overrun, although the     *)
(* limit is checked against a count that may be old.                       *)
AttemptsBounded ==
    \A c \in Chunks :
        chunk[c].attempts <= MaxAttempts + faults["aborts"]
                                + faults["redeliveries"] + faults["overruns"]

(* MyHR accepts a row once for every chunk that carries it, and again only *)
(* after a crash, an error, or a call slower than the processing timeout;  *)
(* a message that is merely delivered again does not repeat an upload.     *)
AcceptedOnce ==
    \A a \in Rows :
        sent[a] <= Cardinality({c \in Chunks : a \in chunk[c].payload})
                   + faults["aborts"] + faults["errors"] + faults["overruns"]

(* MyHrAttendanceSync is the authoritative delivery state: once a chunk is *)
(* SUCCESS and settled, its rows say that they were delivered.             *)
DeliveryAuthoritative ==
    \A c \in Chunks :
        (chunk[c].status = "SUCCESS" /\ message[c].state = "deleted") =>
            \A a \in chunk[c].payload : delivery[a].status = "SYNCED"

-----------------------------------------------------------------------------
(* Steps.                                                                  *)

(* A row that was delivered successfully is not selected by a later job:   *)
(* its delivery state stays as it is.                                      *)
SyncedStays == [][
    \A a \in Rows : delivery[a].status = "SYNCED" => delivery'[a] = delivery[a] ]_vars

(* A SUCCESS chunk stays SUCCESS, whoever else still works on it or marks  *)
(* its job as failed.                                                      *)
SuccessStays == [][
    \A c \in Chunks : chunk[c].status = "SUCCESS" => chunk'[c].status = "SUCCESS" ]_vars

-----------------------------------------------------------------------------
(* Liveness.                                                               *)

(* A chunk whose message was sent is eventually concluded, also when the   *)
(* processes working on it crash: a stale claim is taken back.             *)
ChunkConcludes ==
    \A c \in Chunks :
        message[c].state = "visible" ~> chunk[c].status \in Terminal

(* A job eventually gets a verdict, unless a process that was scheduling   *)
(* it may have died before every chunk was sent.                           *)
JobConcludes ==
    \A j \in Jobs : job[j] = "PROCESSING" ~>
        \/ job[j] \in Terminal
        \/ faults["aborts"] > 0 /\ \E c \in ChunksOf(j) : message[c].state = "unsent"
        \/ faults["aborts"] > 0 /\ ChunksOf(j) = {}
=============================================================================
