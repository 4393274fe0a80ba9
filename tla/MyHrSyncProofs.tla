--------------------------- MODULE MyHrSyncProofs ----------------------------
(***************************************************************************)
(* Theorems about MyHrSync, for every set of rows, jobs and chunks, any    *)
(* number of scheduling and processing calls at once, every chunk size and *)
(* attempt limit and every bound on the faults.                            *)
(***************************************************************************)
EXTENDS MyHrSync, FiniteSetTheorems, TLAPS

-----------------------------------------------------------------------------
(* Types.                                                                  *)

(* TypeOK is not inductive by itself: a busy call has a chunk, and one     *)
(* that is about to settle a job has a verdict.                            *)
WellFormed ==
    {state \in WorkerState : /\ state.pc # "idle" => state.chunk \in Chunks
                             /\ state.pc = "settle" => state.verdict \in Terminal}

TypeInv == TypeOK /\ worker \in [Workers -> WellFormed]

(* The states a processing call is set to as a whole are well formed.      *)
LEMMA WorkerStates ==
    /\ WorkerIdle \in WellFormed
    /\ \A c \in Chunks :
          /\ [WorkerIdle EXCEPT !.pc = "read", !.chunk = c] \in WellFormed
          /\ Acknowledging(c) \in WellFormed
          /\ AlreadyConcluded(c) \in WellFormed
          /\ \A ack \in BOOLEAN : Finalizing(c, ack) \in WellFormed
  BY DEF WellFormed, WorkerState, WorkerIdle, Acknowledging, AlreadyConcluded,
         Finalizing, Steps

(* The states a scheduling call is set to as a whole are typed.            *)
LEMMA SchedulerStates ==
    /\ SchedulerIdle \in SchedulerState
    /\ \A cutoff \in SUBSET Rows :
          [SchedulerIdle EXCEPT !.pc = "check", !.cutoff = cutoff] \in SchedulerState
  BY DEF SchedulerState, SchedulerIdle, PlanSteps

(* A call stays typed when it only moves to another step, or also replaces *)
(* one of the sets it remembers.                                           *)
LEMMA PlanTyped ==
    ASSUME NEW state \in SchedulerState, NEW step \in PlanSteps, NEW rows \in SUBSET Rows
    PROVE  /\ [state EXCEPT !.pc = step] \in SchedulerState
           /\ [state EXCEPT !.pc = step, !.page = rows] \in SchedulerState
           /\ [state EXCEPT !.pc = step, !.existing = rows] \in SchedulerState
           /\ [state EXCEPT !.pc = step, !.cutoff = {}] \in SchedulerState
           /\ [state EXCEPT !.pc = step, !.page = {}, !.existing = {}] \in SchedulerState
           /\ \A j \in Jobs : [state EXCEPT !.pc = step, !.job = j] \in SchedulerState
  BY DEF SchedulerState

(* A busy processing call stays well formed when it moves to a step other  *)
(* than "settle", with or without the notes it takes on the way.           *)
LEMMA MoveTyped ==
    ASSUME NEW state \in WellFormed, state.pc # "idle", NEW step \in Steps \ {"settle"}
    PROVE  /\ [state EXCEPT !.pc = step] \in WellFormed
           /\ \A n \in Nat : [state EXCEPT !.attempts = n, !.pc = step] \in WellFormed
           /\ \A b \in BOOLEAN : [state EXCEPT !.pc = step, !.inTry = b] \in WellFormed
           /\ \A b \in BOOLEAN : [state EXCEPT !.pc = step, !.ack = b] \in WellFormed
           /\ [state EXCEPT !.pc = step, !.ack = FALSE, !.verdict = "none"] \in WellFormed
           /\ \A v \in Terminal :
                 [state EXCEPT !.pc = "settle", !.verdict = v] \in WellFormed
<1>1. state \in WorkerState /\ state.chunk \in Chunks
  BY DEF WellFormed
<1>2. QED
  BY <1>1 DEF WellFormed, WorkerState, Steps, Terminal

(* Become, GoTo, Plan and PlanTo keep the calls typed.                     *)
LEMMA BecomeTyped ==
    ASSUME TypeInv, NEW w \in Workers, NEW state \in WellFormed, Become(w, state)
    PROVE  worker' \in [Workers -> WellFormed]
  BY DEF TypeInv, Become

LEMMA GoToTyped ==
    ASSUME TypeInv, NEW w \in Workers, worker[w].pc # "idle",
           NEW step \in Steps \ {"settle"}, GoTo(w, step)
    PROVE  worker' \in [Workers -> WellFormed]
<1>1. Become(w, [worker[w] EXCEPT !.pc = step])
  BY DEF GoTo, Become
<1>2. worker[w] \in WellFormed
  BY DEF TypeInv
<1>3. QED
  BY <1>1, <1>2, MoveTyped, BecomeTyped

LEMMA PlansTyped ==
    ASSUME TypeInv, NEW p \in Schedulers, NEW state \in SchedulerState, Plan(p, state)
    PROVE  scheduler' \in [Schedulers -> SchedulerState]
  BY DEF TypeInv, TypeOK, Plan

LEMMA PlanToTyped ==
    ASSUME TypeInv, NEW p \in Schedulers, NEW step \in PlanSteps, PlanTo(p, step)
    PROVE  scheduler' \in [Schedulers -> SchedulerState]
<1>1. Plan(p, [scheduler[p] EXCEPT !.pc = step])
  BY DEF Plan, PlanTo
<1>2. scheduler[p] \in SchedulerState
  BY DEF TypeInv, TypeOK
<1>3. QED
  BY <1>1, <1>2, PlanTyped, PlansTyped

(* Counting a fault keeps the type of the counters.                        *)
LEMMA SpendTyped ==
    ASSUME TypeOK, NEW kind \in Faults, NEW bound, Spend(kind, bound)
    PROVE  faults' \in [Faults -> Nat]
  BY DEF TypeOK, Spend, Faults

(* Moving the rows of a chunk keeps their type.                            *)
LEMMA RowsTyped ==
    ASSUME TypeOK, NEW c \in Chunks, NEW from,
           NEW to \in {"PENDING", "PROCESSING", "SYNCED", "FAILED"}, MoveRows(c, from, to)
    PROVE  delivery' \in [Rows -> DeliveryRow]
<1>1. ASSUME NEW a \in Rows
      PROVE  [delivery[a] EXCEPT !.status = to] \in DeliveryRow
  <2>1. delivery[a] \in DeliveryRow
    BY DEF TypeOK
  <2>2. QED
    BY <2>1 DEF DeliveryRow
<1>2. QED
  BY <1>1 DEF TypeOK, MoveRows

(* Chunks keep their type when their columns are written.                  *)
LEMMA ChunksTyped ==
    ASSUME NEW row \in ChunkRow, NEW status \in {"NONE"} \cup Active \cup Terminal,
           NEW n \in Nat
    PROVE  /\ [row EXCEPT !.stale = TRUE] \in ChunkRow
           /\ [row EXCEPT !.status = status, !.stale = FALSE] \in ChunkRow
           /\ [row EXCEPT !.stale = FALSE, !.status = status] \in ChunkRow
           /\ [row EXCEPT !.status = status, !.stale = FALSE, !.attempts = n] \in ChunkRow
  BY DEF ChunkRow

LEMMA InitTyped == MyHrSyncConstants /\ Init => TypeInv
<1> SUFFICES ASSUME MyHrSyncConstants, Init
             PROVE  TypeInv
  OBVIOUS
<1>1. worker \in [Workers -> WellFormed]
  BY WorkerStates DEF Init
<1>2. scheduler \in [Schedulers -> SchedulerState]
  BY SchedulerStates DEF Init
<1>3. TypeOK
  BY <1>1, <1>2 DEF Init, TypeOK, DeliveryRow, ChunkRow, MessageState, WellFormed, Faults
<1>4. QED
  BY <1>1, <1>3 DEF TypeInv

(* Writing one chunk row keeps the chunks typed.                           *)
LEMMA WriteTyped ==
    ASSUME TypeOK, NEW c \in Chunks, NEW row \in ChunkRow, chunk' = [chunk EXCEPT ![c] = row]
    PROVE  chunk' \in [Chunks -> ChunkRow]
  BY DEF TypeOK

(* Scheduling steps keep every type.                                       *)
LEMMA SchedulingTyped ==
    ASSUME MyHrSyncConstants, TypeInv, NEW p \in Schedulers,
           \/ Trigger(p) \/ SchedulerStep(p) \/ SchedulingFails(p) \/ AbortScheduler(p)
    PROVE  TypeInv'
<1> DEFINE StatesTyped == scheduler' \in [Schedulers -> SchedulerState]
<1>p. scheduler[p] \in SchedulerState
  BY DEF TypeInv, TypeOK
<1>s. PlanSteps = {"idle", "check", "page", "open", "adopt", "chunk", "more", "send", "failjob"}
  BY DEF PlanSteps
<1>u. \A rows : Page(rows) \subseteq rows
  BY DEF Page
<1>t. /\ \A rows : Unsynced(rows) \subseteq rows
      /\ Unsynced(scheduler[p].cutoff) \subseteq Rows
      /\ Page(Unsynced(scheduler[p].cutoff)) \subseteq Rows
      /\ scheduler[p].page \subseteq Rows /\ scheduler[p].existing \subseteq Rows
  BY <1>p, <1>u DEF Unsynced, SchedulerState
<1>k. {"triggers", "aborts", "errors"} \subseteq Faults
  BY DEF Faults
<1> HIDE DEF StatesTyped
<1>1. CASE Trigger(p)
  <2>1. PICK t \in SUBSET Rows : Plan(p, [SchedulerIdle EXCEPT !.pc = "check", !.cutoff = t])
    BY <1>1 DEF Trigger, TypeInv, TypeOK
  <2>2. StatesTyped
    BY <2>1, SchedulerStates, PlansTyped DEF StatesTyped
  <2>3. faults' \in [Faults -> Nat]
    BY <1>1, <1>k, SpendTyped DEF Trigger, TypeInv
  <2>4. QED
    BY <1>1, <2>2, <2>3 DEF Trigger, TypeInv, TypeOK, StatesTyped
<1>2. CASE CheckActive(p)
  <2>1. StatesTyped
    BY <1>2, <1>s, SchedulerStates, PlansTyped, PlanToTyped DEF CheckActive, StatesTyped
  <2>2. QED
    BY <1>2, <2>1 DEF CheckActive, TypeInv, TypeOK, StatesTyped
<1>3. CASE ReadPage(p)
  <2>1. [scheduler[p] EXCEPT !.pc = "open", !.page = Page(Unsynced(scheduler[p].cutoff))]
           \in SchedulerState
    BY <1>p, <1>s, <1>t, PlanTyped
  <2>2. StatesTyped
    BY <1>3, <2>1, SchedulerStates, PlansTyped DEF ReadPage, StatesTyped
  <2>3. QED
    BY <1>3, <2>2 DEF ReadPage, TypeInv, TypeOK, StatesTyped
<1>4. CASE OpenJob(p)
  <2>1. PICK j \in Jobs : /\ job' = [job EXCEPT ![j] = "PROCESSING"]
                          /\ Plan(p, [scheduler[p] EXCEPT !.pc = "adopt", !.job = j])
    BY <1>4 DEF OpenJob
  <2>2. [scheduler[p] EXCEPT !.pc = "adopt", !.job = j] \in SchedulerState
    BY <1>p, <1>s, PlanTyped
  <2>3. StatesTyped
    BY <2>1, <2>2, PlansTyped DEF StatesTyped
  <2>4. QED
    BY <1>4, <2>1, <2>3 DEF OpenJob, TypeInv, TypeOK, StatesTyped
<1>5. CASE AdoptRows(p)
  <2>1. PICK rows \in SUBSET Rows :
           Plan(p, [scheduler[p] EXCEPT !.pc = "chunk", !.existing = rows])
    BY <1>5, <1>t DEF AdoptRows
  <2>2. [scheduler[p] EXCEPT !.pc = "chunk", !.existing = rows] \in SchedulerState
    BY <1>p, <1>s, PlanTyped
  <2>3. StatesTyped
    BY <2>1, <2>2, PlansTyped DEF StatesTyped
  <2>4. QED
    BY <1>5, <2>3 DEF AdoptRows, TypeInv, TypeOK, StatesTyped
<1>6. CASE CreateChunk(p)
  <2>1. [scheduler[p] EXCEPT !.pc = "more", !.page = {}, !.existing = {}] \in SchedulerState
    BY <1>p, <1>s, PlanTyped
  <2>2. StatesTyped
    BY <1>6, <2>1, PlansTyped DEF CreateChunk, StatesTyped
  <2>3. PICK c \in Chunks :
           /\ chunk' = [chunk EXCEPT ![c] = [status |-> "PENDING", job |-> scheduler[p].job,
                            payload |-> scheduler[p].page, attempts |-> 0, stale |-> FALSE]]
           /\ delivery' = [a \in Rows |->
                 IF a \in scheduler[p].existing \cup Unsynced(scheduler[p].page)
                 THEN [status |-> "PENDING", chunk |-> c] ELSE delivery[a]]
    BY <1>6 DEF CreateChunk
  <2>4. [status |-> "PENDING", job |-> scheduler[p].job, payload |-> scheduler[p].page,
         attempts |-> 0, stale |-> FALSE] \in ChunkRow
    BY <1>p DEF ChunkRow, SchedulerState, Active
  <2>5. chunk' \in [Chunks -> ChunkRow]
    BY <2>3, <2>4, WriteTyped DEF TypeInv
  <2>6. [status |-> "PENDING", chunk |-> c] \in DeliveryRow
    BY DEF DeliveryRow
  <2>7. delivery' \in [Rows -> DeliveryRow]
    BY <2>3, <2>6 DEF TypeInv, TypeOK
  <2>8. QED
    BY <1>6, <2>2, <2>5, <2>7 DEF CreateChunk, TypeInv, TypeOK, StatesTyped
<1>7. CASE NextPage(p)
  <2>1. /\ [scheduler[p] EXCEPT !.pc = "adopt", !.page = Page(Unsynced(scheduler[p].cutoff))]
             \in SchedulerState
        /\ [scheduler[p] EXCEPT !.pc = "send", !.cutoff = {}] \in SchedulerState
    BY <1>p, <1>s, <1>t, PlanTyped
  <2>2. StatesTyped
    BY <1>7, <2>1, PlansTyped DEF NextPage, StatesTyped
  <2>3. QED
    BY <1>7, <2>2 DEF NextPage, TypeInv, TypeOK, StatesTyped
<1>m. ASSUME NEW c \in Chunks, message' = [message EXCEPT ![c].state = "visible"]
      PROVE  message' \in [Chunks -> MessageState]
  <2>1. message[c] \in MessageState
    BY DEF TypeInv, TypeOK
  <2>2. [message[c] EXCEPT !.state = "visible"] \in MessageState
    BY <2>1 DEF MessageState
  <2>3. QED
    BY <1>m, <2>2 DEF TypeInv, TypeOK
<1>8. CASE SendChunk(p)
  BY <1>8, <1>m DEF SendChunk, Unsent, ChunksOf, TypeInv, TypeOK
<1>9. CASE SendsDone(p)
  BY <1>9, SchedulerStates, PlansTyped DEF SendsDone, TypeInv, TypeOK
<1>10. CASE SchedulingFails(p)
  <2>1. StatesTyped
    BY <1>10, <1>s, PlanToTyped DEF SchedulingFails, StatesTyped
  <2>2. faults' \in [Faults -> Nat]
    BY <1>10, <1>k, SpendTyped DEF SchedulingFails, TypeInv
  <2>3. message' \in [Chunks -> MessageState]
    BY <1>10, <1>m DEF SchedulingFails, Unsent, ChunksOf, TypeInv, TypeOK
  <2>4. QED
    BY <1>10, <2>1, <2>2, <2>3 DEF SchedulingFails, TypeInv, TypeOK, StatesTyped
<1>11. CASE MarkJobAsFailed(p)
  <2>1. StatesTyped
    BY <1>11, SchedulerStates, PlansTyped DEF MarkJobAsFailed, StatesTyped
  <2>2. chunk' \in [Chunks -> ChunkRow]
    <3>1. ASSUME NEW c \in Chunks
          PROVE  [chunk[c] EXCEPT !.status = "FAILED", !.stale = FALSE] \in ChunkRow
      BY ChunksTyped DEF TypeInv, TypeOK, Terminal
    <3>2. QED
      BY <1>11, <3>1 DEF MarkJobAsFailed, FailActiveChunks, TypeInv, TypeOK
  <2>3. delivery' \in [Rows -> DeliveryRow]
    <3>1. ASSUME NEW a \in Rows
          PROVE  [delivery[a] EXCEPT !.status = "FAILED"] \in DeliveryRow
      BY DEF TypeInv, TypeOK, DeliveryRow
    <3>2. QED
      BY <1>11, <3>1 DEF MarkJobAsFailed, TypeInv, TypeOK
  <2>4. job' \in [Jobs -> {"NONE", "PROCESSING"} \cup Terminal]
    BY <1>11 DEF MarkJobAsFailed, TypeInv, TypeOK, Terminal
  <2>5. QED
    BY <1>11, <2>1, <2>2, <2>3, <2>4 DEF MarkJobAsFailed, TypeInv, TypeOK, StatesTyped
<1>12. CASE AbortScheduler(p)
  <2>1. StatesTyped
    BY <1>12, SchedulerStates, PlansTyped DEF AbortScheduler, StatesTyped
  <2>2. faults' \in [Faults -> Nat]
    BY <1>12, <1>k, SpendTyped DEF AbortScheduler, TypeInv
  <2>3. QED
    BY <1>12, <2>1, <2>2 DEF AbortScheduler, TypeInv, TypeOK, StatesTyped
<1>13. QED
  BY <1>1, <1>2, <1>3, <1>4, <1>5, <1>6, <1>7, <1>8, <1>9, <1>10, <1>11, <1>12
     DEF SchedulerStep

(* So do the queue and the clock.                                          *)
LEMMA QueueTyped ==
    ASSUME MyHrSyncConstants, TypeInv, NEW c \in Chunks,
           \/ VisibilityTimeout(c) \/ ProcessingTimeout(c)
           \/ \E w \in Workers : Receive(w, c)
    PROVE  TypeInv'
<1>k. {"redeliveries", "overruns"} \subseteq Faults
  BY DEF Faults
<1>1. CASE VisibilityTimeout(c)
  <2>1. faults' \in [Faults -> Nat]
    BY <1>1, <1>k, SpendTyped DEF VisibilityTimeout, TypeInv, TypeOK
  <2>2. message' \in [Chunks -> MessageState]
    BY <1>1 DEF VisibilityTimeout, TypeInv, TypeOK, MessageState
  <2>3. QED
    BY <1>1, <2>1, <2>2 DEF VisibilityTimeout, TypeInv, TypeOK
<1>2. CASE ProcessingTimeout(c)
  <2>1. faults' \in [Faults -> Nat]
    BY <1>2, <1>k, SpendTyped DEF ProcessingTimeout, TypeInv, TypeOK
  <2>2. [chunk[c] EXCEPT !.stale = TRUE] \in ChunkRow
    <3>1. chunk[c] \in ChunkRow
      BY DEF TypeInv, TypeOK
    <3>2. QED
      BY <3>1 DEF ChunkRow
  <2>3. chunk' \in [Chunks -> ChunkRow]
    BY <1>2, <2>2 DEF ProcessingTimeout, TypeInv, TypeOK
  <2>4. QED
    BY <1>2, <2>1, <2>3 DEF ProcessingTimeout, TypeInv, TypeOK
<1>3. ASSUME NEW w \in Workers, Receive(w, c)
      PROVE  TypeInv'
  <2>1. worker' \in [Workers -> WellFormed]
    BY <1>3, WorkerStates DEF Receive, TypeInv
  <2>2. message' \in [Chunks -> MessageState]
    BY <1>3 DEF Receive, TypeInv, TypeOK, MessageState
  <2>3. QED
    BY <1>3, <2>1, <2>2 DEF Receive, TypeInv, TypeOK, WellFormed
<1>4. QED
  BY <1>1, <1>2, <1>3

(* And the processing steps.                                               *)
LEMMA ProcessingTyped ==
    ASSUME MyHrSyncConstants, TypeInv, NEW w \in Workers,
           WorkerStep(w) \/ ThrowInTry(w) \/ AbortWorker(w)
    PROVE  TypeInv'
<1> DEFINE StatesTyped == worker' \in [Workers -> WellFormed]
<1>f. WellFormed \subseteq WorkerState
  BY DEF WellFormed
<1>s. Steps = {"idle", "read", "reclaim", "claim", "reread", "take", "upload", "conclude",
               "fail", "release", "finalize", "tally", "settle", "delete"}
  BY DEF Steps
<1>w. worker[w] \in WellFormed
  BY DEF TypeInv
<1>b. worker[w].pc # "idle"
  BY <1>w DEF WorkerStep, ThrowInTry, AbortWorker, At, ReadChunk, Reclaim, Claim, Reread,
     TakeRows, Upload, Conclude, FailChunk, ReleaseRows, FinalizeRead, FinalizeTally,
     FinalizeSettle, DeleteMessage
<1>c. Target(w) \in Chunks /\ chunk[Target(w)] \in ChunkRow
  BY <1>w, <1>b DEF Target, WellFormed, TypeInv, TypeOK
<1>d. WorkerIdle \in WellFormed /\ Rejected \in WellFormed
      /\ AlreadyConcluded(Target(w)) \in WellFormed /\ FinalizeDone(w) \in WellFormed
      /\ Finalizing(Target(w), FALSE) \in WellFormed
  BY <1>c, WorkerStates DEF Rejected, FinalizeDone
<1>k. {"errors", "aborts"} \subseteq Faults
  BY DEF Faults
<1> HIDE DEF StatesTyped
<1>1. CASE ReadChunk(w)
  <2>1. chunk[Target(w)].attempts \in Nat
    BY <1>c DEF ChunkRow
  <2>2. \A step \in Steps \ {"settle"} :
           [worker[w] EXCEPT !.attempts = chunk[Target(w)].attempts, !.pc = step] \in WellFormed
    BY <1>w, <1>b, <2>1, MoveTyped
  <2>3. StatesTyped
    BY <1>1, <1>d, <1>s, <2>2, BecomeTyped DEF ReadChunk, StatesTyped
  <2>4. QED
    BY <1>1, <1>f, <2>3 DEF ReadChunk, TypeInv, TypeOK, StatesTyped
<1>2. CASE Reclaim(w)
  <2>1. StatesTyped
    BY <1>2, <1>b, <1>d, <1>s, BecomeTyped, GoToTyped DEF Reclaim, StatesTyped
  <2>2. [chunk[Target(w)] EXCEPT !.status = "PENDING", !.stale = FALSE] \in ChunkRow
    BY <1>c DEF ChunkRow, Active
  <2>3. chunk' \in [Chunks -> ChunkRow]
    BY <1>2, <1>c, <2>2 DEF Reclaim, TypeInv, TypeOK
  <2>4. QED
    BY <1>2, <1>f, <2>1, <2>3 DEF Reclaim, TypeInv, TypeOK, StatesTyped
<1>3. CASE Claim(w)
  <2>1. StatesTyped
    BY <1>3, <1>b, <1>d, <1>s, BecomeTyped, GoToTyped DEF Claim, StatesTyped
  <2>2. PICK n \in Nat : n = chunk[Target(w)].attempts + 1
    BY <1>c DEF ChunkRow
  <2>3. [chunk[Target(w)] EXCEPT !.status = "PROCESSING", !.stale = FALSE, !.attempts = n]
           \in ChunkRow
    BY <1>c, ChunksTyped DEF Active
  <2>4. \/ UNCHANGED chunk
        \/ chunk' = [chunk EXCEPT ![Target(w)] = [chunk[Target(w)] EXCEPT
                        !.status = "PROCESSING", !.stale = FALSE, !.attempts = n]]
    BY <1>3, <1>c, <2>2 DEF Claim, TypeInv, TypeOK
  <2>5. chunk' \in [Chunks -> ChunkRow]
    BY <1>c, <2>3, <2>4, WriteTyped DEF TypeInv, TypeOK
  <2>6. QED
    BY <1>3, <1>f, <2>1, <2>5 DEF Claim, TypeInv, TypeOK, StatesTyped
<1>4. CASE Reread(w)
  <2>1. StatesTyped
    BY <1>4, <1>d, BecomeTyped DEF Reread, StatesTyped
  <2>2. QED
    BY <1>4, <1>f, <2>1 DEF Reread, TypeInv, TypeOK, StatesTyped
<1>5. CASE TakeRows(w)
  <2>1. [worker[w] EXCEPT !.pc = "upload", !.inTry = TRUE] \in WellFormed
    BY <1>w, <1>b, <1>s, MoveTyped
  <2>2. StatesTyped
    BY <1>5, <2>1, BecomeTyped DEF TakeRows, StatesTyped
  <2>3. delivery' \in [Rows -> DeliveryRow]
    BY <1>5, <1>c, RowsTyped DEF TakeRows, TypeInv
  <2>4. QED
    BY <1>5, <1>f, <2>2, <2>3 DEF TakeRows, TypeInv, TypeOK, StatesTyped
<1>6. CASE Upload(w)
  <2>1. StatesTyped
    BY <1>6, <1>b, <1>s, GoToTyped DEF Upload, StatesTyped
  <2>2. sent' \in [Rows -> Nat]
    <3>1. \A a \in Rows : sent[a] + 1 \in Nat
      BY DEF TypeInv, TypeOK
    <3>2. sent \in [Rows -> Nat]
      BY DEF TypeInv, TypeOK
    <3>3. \/ UNCHANGED sent
          \/ sent' = [a \in Rows |->
                        IF a \in chunk[Target(w)].payload THEN sent[a] + 1 ELSE sent[a]]
      BY <1>6 DEF Upload
    <3>4. QED
      BY <3>1, <3>2, <3>3
  <2>3. faults' \in [Faults -> Nat]
    BY <1>6, <1>k, SpendTyped DEF Upload, TypeInv, TypeOK
  <2>4. QED
    BY <1>6, <1>f, <2>1, <2>2, <2>3 DEF Upload, TypeInv, TypeOK, StatesTyped
<1>7. CASE Conclude(w)
  <2>1. [worker[w] EXCEPT !.pc = "finalize", !.ack = TRUE] \in WellFormed
    BY <1>w, <1>b, <1>s, MoveTyped
  <2>2. StatesTyped
    BY <1>7, <1>b, <1>s, <2>1, BecomeTyped, GoToTyped DEF Conclude, StatesTyped
  <2>3. faults' \in [Faults -> Nat]
    BY <1>7, <1>k, SpendTyped DEF Conclude, TypeInv, TypeOK
  <2>4. [chunk[Target(w)] EXCEPT !.status = "SUCCESS", !.stale = FALSE] \in ChunkRow
    BY <1>c DEF ChunkRow, Terminal
  <2>5. chunk' \in [Chunks -> ChunkRow]
    BY <1>7, <1>c, <2>4 DEF Conclude, TypeInv, TypeOK
  <2>6. delivery' \in [Rows -> DeliveryRow]
    BY <1>7, <1>c, RowsTyped DEF Conclude, TypeInv
  <2>7. QED
    BY <1>7, <1>f, <2>2, <2>3, <2>5, <2>6 DEF Conclude, TypeInv, TypeOK, StatesTyped
<1>8. CASE FailChunk(w)
  <2>1. [worker[w] EXCEPT !.pc = "release", !.inTry = FALSE] \in WellFormed
    BY <1>w, <1>b, <1>s, MoveTyped
  <2>2. StatesTyped
    BY <1>8, <2>1, BecomeTyped DEF FailChunk, StatesTyped
  <2>3. PICK s \in {"FAILED", "PENDING"} :
           chunk' = chunk \/ chunk' = [chunk EXCEPT ![Target(w)] =
                                         [chunk[Target(w)] EXCEPT !.stale = FALSE, !.status = s]]
    BY <1>8, <1>c DEF FailChunk, TypeInv, TypeOK
  <2>4. [chunk[Target(w)] EXCEPT !.stale = FALSE, !.status = s] \in ChunkRow
    BY <1>c DEF ChunkRow, Active, Terminal
  <2>5. chunk' \in [Chunks -> ChunkRow]
    BY <1>c, <2>3, <2>4, WriteTyped DEF TypeInv, TypeOK
  <2>6. QED
    BY <1>8, <1>f, <2>2, <2>5 DEF FailChunk, TypeInv, TypeOK, StatesTyped
<1>9. CASE ReleaseRows(w)
  <2>1. StatesTyped
    BY <1>9, <1>d, BecomeTyped DEF ReleaseRows, StatesTyped
  <2>2. delivery' \in [Rows -> DeliveryRow]
    BY <1>9, <1>c, RowsTyped DEF ReleaseRows, TypeInv
  <2>3. QED
    BY <1>9, <1>f, <2>1, <2>2 DEF ReleaseRows, TypeInv, TypeOK, StatesTyped
<1>10. CASE FinalizeRead(w)
  <2>1. StatesTyped
    BY <1>10, <1>b, <1>d, <1>s, BecomeTyped, GoToTyped DEF FinalizeRead, StatesTyped
  <2>2. QED
    BY <1>10, <1>f, <2>1 DEF FinalizeRead, TypeInv, TypeOK, StatesTyped
<1>11. CASE FinalizeTally(w)
  <2>1. \A v \in Terminal : [worker[w] EXCEPT !.pc = "settle", !.verdict = v] \in WellFormed
    <3>1. "tally" \in Steps \ {"settle"}
      BY <1>s
    <3>2. QED
      BY <1>w, <1>b, <3>1, MoveTyped
  <2>2. {"SUCCESS", "FAILED"} \subseteq Terminal
    BY DEF Terminal
  <2>3. \/ Become(w, [worker[w] EXCEPT !.pc = "settle", !.verdict = "FAILED"])
        \/ Become(w, [worker[w] EXCEPT !.pc = "settle", !.verdict = "SUCCESS"])
        \/ Become(w, FinalizeDone(w))
    BY <1>11 DEF FinalizeTally
  <2>4. StatesTyped
    BY <1>d, <2>1, <2>2, <2>3, BecomeTyped DEF StatesTyped
  <2>5. QED
    BY <1>11, <1>f, <2>4 DEF FinalizeTally, TypeInv, TypeOK, StatesTyped
<1>12. CASE FinalizeSettle(w)
  <2>1. StatesTyped
    BY <1>12, <1>d, BecomeTyped DEF FinalizeSettle, StatesTyped
  <2>2. worker[w].verdict \in Terminal
    BY <1>12, <1>w DEF FinalizeSettle, At, WellFormed
  <2>3. job' \in [Jobs -> {"NONE", "PROCESSING"} \cup Terminal]
    BY <1>12, <2>2 DEF FinalizeSettle, TypeInv, TypeOK
  <2>4. QED
    BY <1>12, <1>f, <2>1, <2>3 DEF FinalizeSettle, TypeInv, TypeOK, StatesTyped
<1>13. CASE DeleteMessage(w)
  <2>1. StatesTyped
    BY <1>13, <1>d, BecomeTyped DEF DeleteMessage, StatesTyped
  <2>2. message' \in [Chunks -> MessageState]
    BY <1>13, <1>c DEF DeleteMessage, TypeInv, TypeOK, MessageState
  <2>3. QED
    BY <1>13, <1>f, <2>1, <2>2 DEF DeleteMessage, TypeInv, TypeOK, StatesTyped
<1>14. CASE ThrowInTry(w)
  <2>1. [worker[w] EXCEPT !.pc = "fail", !.ack = FALSE, !.verdict = "none"] \in WellFormed
    BY <1>w, <1>b, <1>s, MoveTyped
  <2>2. StatesTyped
    BY <1>14, <2>1, BecomeTyped DEF ThrowInTry, StatesTyped
  <2>3. faults' \in [Faults -> Nat]
    BY <1>14, <1>k, SpendTyped DEF ThrowInTry, TypeInv
  <2>4. QED
    BY <1>14, <1>f, <2>2, <2>3 DEF ThrowInTry, TypeInv, TypeOK, StatesTyped
<1>15. CASE AbortWorker(w)
  <2>1. StatesTyped
    BY <1>15, <1>d, BecomeTyped DEF AbortWorker, StatesTyped
  <2>2. faults' \in [Faults -> Nat]
    BY <1>15, <1>k, SpendTyped DEF AbortWorker, TypeInv
  <2>3. QED
    BY <1>15, <1>f, <2>1, <2>2 DEF AbortWorker, TypeInv, TypeOK, StatesTyped
<1>16. QED
  BY <1>1, <1>2, <1>3, <1>4, <1>5, <1>6, <1>7, <1>8, <1>9, <1>10, <1>11, <1>12, <1>13,
     <1>14, <1>15 DEF WorkerStep

(* Every step keeps every type.                                            *)
LEMMA StepTyped == MyHrSyncConstants /\ TypeInv /\ [Next]_vars => TypeInv'
<1> SUFFICES ASSUME MyHrSyncConstants, TypeInv, [Next]_vars
             PROVE  TypeInv'
  OBVIOUS
<1>1. ASSUME NEW a \in Rows, StoreRow(a)
      PROVE  TypeInv'
  BY <1>1 DEF StoreRow, TypeInv, TypeOK
<1>2. CASE UNCHANGED vars
  BY <1>2 DEF vars, TypeInv, TypeOK
<1>3. ASSUME NEW p \in Schedulers,
             \/ Trigger(p) \/ SchedulerStep(p) \/ SchedulingFails(p) \/ AbortScheduler(p)
      PROVE  TypeInv'
  BY <1>3, SchedulingTyped
<1>4. ASSUME NEW c \in Chunks,
             \/ VisibilityTimeout(c) \/ ProcessingTimeout(c)
             \/ \E w \in Workers : Receive(w, c)
      PROVE  TypeInv'
  BY <1>4, QueueTyped
<1>5. ASSUME NEW w \in Workers, WorkerStep(w) \/ ThrowInTry(w) \/ AbortWorker(w)
      PROVE  TypeInv'
  BY <1>5, ProcessingTyped
<1>6. QED
  BY <1>1, <1>2, <1>3, <1>4, <1>5 DEF Next

(* TypeOK, for any number of calls at once: every variable of the delivery *)
(* to MyHR keeps its type, and a delivery row only ever takes a status of  *)
(* its own table (schema.prisma, MyHrAttendanceSync).                      *)
THEOREM MyHrTypes == Spec => []TypeOK
<1>1. Init => TypeInv
  BY MyHrSyncConstants, InitTyped
<1>2. TypeInv /\ [Next]_vars => TypeInv'
  BY MyHrSyncConstants, StepTyped
<1>3. TypeInv => TypeOK
  BY DEF TypeInv
<1>4. QED
  BY <1>1, <1>2, <1>3, PTL DEF Spec

-----------------------------------------------------------------------------
(* What is recorded as delivered.                                          *)

(* A call that has opened a job and may still touch it, and one that is    *)
(* still cutting it into chunks.                                           *)
Scheduling == {"adopt", "chunk", "more", "send", "failjob"}
Cutting == {"adopt", "chunk", "more"}

(* A job belongs to the call that opened it, and no chunk of it is sent    *)
(* before the last one is created.                                         *)
JobOwned(p) ==
    /\ scheduler[p].pc \in Scheduling =>
          scheduler[p].job \in Jobs /\ job[scheduler[p].job] # "NONE"
    /\ scheduler[p].pc = "chunk" => scheduler[p].existing \subseteq scheduler[p].page
    /\ scheduler[p].pc \in Cutting =>
          \A c \in ChunksOf(scheduler[p].job) : message[c].state = "unsent"

JobsApart ==
    \A p, q \in Schedulers :
        (p # q /\ scheduler[p].pc \in Scheduling /\ scheduler[q].pc \in Scheduling) =>
            scheduler[p].job # scheduler[q].job

(* A chunk exists exactly if it has a job, before its message does, and is *)
(* SUCCESS only when MyHR has accepted its payload.                        *)
ChunkSound(c) ==
    /\ chunk[c].status # "NONE" <=> chunk[c].job \in Jobs
    /\ chunk[c].job \in Jobs => job[chunk[c].job] # "NONE"
    /\ message[c].state # "unsent" => chunk[c].status # "NONE"
    /\ chunk[c].status = "SUCCESS" => \A a \in chunk[c].payload : sent[a] > 0

(* A delivery row belongs to a chunk that carries it.                      *)
RowSound(a) ==
    /\ \A c \in Chunks : delivery[a].chunk = c =>
           chunk[c].status # "NONE" /\ a \in chunk[c].payload
    /\ delivery[a].status = "SYNCED" =>
           \E c \in Chunks : delivery[a].chunk = c /\ chunk[c].status = "SUCCESS"

(* What a processing call knows of its chunk when it writes.               *)
WorkerSound(w) ==
    /\ worker[w].pc # "idle" => message[Target(w)].state # "unsent"
    /\ worker[w].pc = "conclude" => \A a \in chunk[Target(w)].payload : sent[a] > 0
    /\ (worker[w].pc = "settle" /\ worker[w].verdict = "SUCCESS") =>
           \A c \in ChunksOf(JobOf(w)) : chunk[c].status = "SUCCESS"

(* A job that is SUCCESS has had a message sent, so nobody cuts it any     *)
(* more.                                                                   *)
JobSound(j) ==
    job[j] = "SUCCESS" =>
        /\ \A c \in ChunksOf(j) : chunk[c].status = "SUCCESS"
        /\ \E c \in ChunksOf(j) : message[c].state # "unsent"

DeliveryInv ==
    /\ \A p \in Schedulers : JobOwned(p)
    /\ JobsApart
    /\ \A c \in Chunks : ChunkSound(c)
    /\ \A a \in Rows : RowSound(a)
    /\ \A w \in Workers : WorkerSound(w)
    /\ \A j \in Jobs : JobSound(j)

(* What most steps leave as it is: which chunks exist, of which job and    *)
(* with which payload; what was sent, to the queue and to MyHR; the jobs.  *)
ChunksKept ==
    \A c \in Chunks :
        /\ chunk'[c].job = chunk[c].job /\ chunk'[c].payload = chunk[c].payload
        /\ chunk'[c].status # "NONE" <=> chunk[c].status # "NONE"
        /\ chunk[c].status = "SUCCESS" => chunk'[c].status = "SUCCESS"
NoNewSuccess == \A c \in Chunks : chunk'[c].status = "SUCCESS" => chunk[c].status = "SUCCESS"
MessagesKept ==
    \A c \in Chunks : message'[c].state = "unsent" <=> message[c].state = "unsent"
MessagesStay ==
    \A c \in Chunks : message[c].state # "unsent" => message'[c].state # "unsent"
SentKept == \A a \in Rows : sent[a] > 0 => sent'[a] > 0
RowsKept ==
    \A a \in Rows : /\ delivery'[a].chunk = delivery[a].chunk
                    /\ delivery'[a].status = "SYNCED" => delivery[a].status = "SYNCED"
JobsKept == \A j \in Jobs : job[j] # "NONE" => job'[j] # "NONE"
NoNewVerdict == \A j \in Jobs : job'[j] = "SUCCESS" => job[j] = "SUCCESS"

(* A call that goes on with the job, or the chunk, it has, and learns      *)
(* nothing new that an invariant speaks of.                                *)
SchedulerKept(p) ==
    scheduler'[p].pc \in Scheduling =>
        /\ scheduler[p].pc \in Scheduling
        /\ scheduler'[p].job = scheduler[p].job
        /\ scheduler'[p].pc \in Cutting => scheduler[p].pc \in Cutting
        /\ scheduler'[p].pc = "chunk" => scheduler'[p].existing \subseteq scheduler'[p].page
WorkerKept(w) ==
    worker'[w].pc # "idle" =>
        /\ worker[w].pc # "idle" /\ worker'[w].chunk = worker[w].chunk
        /\ worker'[w].pc = "conclude" => worker[w].pc = "conclude"
        /\ worker'[w].pc = "settle" /\ worker'[w].verdict = "SUCCESS" =>
              worker[w].pc = "settle" /\ worker[w].verdict = "SUCCESS"

(* Each part of the invariant survives what does not concern it.           *)
LEMMA JobOwnedKept ==
    ASSUME TypeInv, DeliveryInv, ChunksKept, MessagesKept, JobsKept,
           NEW p \in Schedulers, SchedulerKept(p) \/ scheduler'[p] = scheduler[p]
    PROVE  JobOwned(p)'
<1>1. JobOwned(p) /\ Cutting \subseteq Scheduling /\ "chunk" \in Cutting
  BY DEF DeliveryInv, Cutting, Scheduling
<1>2. ChunksOf(scheduler[p].job)' = {c \in Chunks : chunk'[c].job = scheduler'[p].job}
  BY DEF ChunksOf
<1>3. QED
  BY <1>1, <1>2 DEF JobOwned, SchedulerKept, ChunksKept, MessagesKept, JobsKept, ChunksOf

LEMMA JobsApartKept ==
    ASSUME DeliveryInv, \A p \in Schedulers : SchedulerKept(p) \/ scheduler'[p] = scheduler[p]
    PROVE  JobsApart'
  BY DEF DeliveryInv, JobsApart, SchedulerKept

LEMMA ChunkSoundKept ==
    ASSUME TypeInv, DeliveryInv, ChunksKept, MessagesKept, SentKept, JobsKept,
           NEW c \in Chunks, chunk'[c].status = "SUCCESS" => chunk[c].status = "SUCCESS"
    PROVE  ChunkSound(c)'
<1>1. ChunkSound(c) /\ chunk[c].payload \subseteq Rows
  BY DEF DeliveryInv, TypeInv, TypeOK, ChunkRow
<1>2. QED
  BY <1>1 DEF ChunkSound, ChunksKept, MessagesKept, SentKept, JobsKept

LEMMA RowSoundKept ==
    ASSUME DeliveryInv, ChunksKept, NEW a \in Rows,
           delivery'[a].chunk = delivery[a].chunk,
           delivery'[a].status = "SYNCED" => delivery[a].status = "SYNCED"
    PROVE  RowSound(a)'
  BY DEF DeliveryInv, RowSound, ChunksKept

LEMMA WorkerSoundKept ==
    ASSUME TypeInv, DeliveryInv, ChunksKept, MessagesStay, SentKept,
           NEW w \in Workers, WorkerKept(w) \/ worker'[w] = worker[w]
    PROVE  WorkerSound(w)'
<1> SUFFICES ASSUME worker'[w].pc # "idle"
             PROVE  WorkerSound(w)'
  <2>1. CASE worker'[w].pc = "idle"
    BY <2>1 DEF WorkerSound
  <2>2. QED
    BY <2>1
<1>1. /\ worker[w].pc # "idle" /\ worker'[w].chunk = worker[w].chunk
      /\ worker'[w].pc = "conclude" => worker[w].pc = "conclude"
      /\ worker'[w].pc = "settle" /\ worker'[w].verdict = "SUCCESS" =>
            worker[w].pc = "settle" /\ worker[w].verdict = "SUCCESS"
  BY DEF WorkerKept
<1>2. WorkerSound(w) /\ worker[w].chunk \in Chunks /\ chunk[worker[w].chunk].payload \subseteq Rows
  BY <1>1 DEF DeliveryInv, TypeInv, TypeOK, WellFormed, ChunkRow
<1>3. QED
  BY <1>1, <1>2 DEF WorkerSound, ChunksKept, MessagesStay, SentKept, Target, JobOf, ChunksOf

LEMMA JobSoundKept ==
    ASSUME DeliveryInv, ChunksKept, MessagesStay, NEW j \in Jobs,
           job'[j] = "SUCCESS" => job[j] = "SUCCESS"
    PROVE  JobSound(j)'
  BY DEF DeliveryInv, JobSound, ChunksKept, MessagesStay, ChunksOf

(* A step that concerns none of it keeps the invariant.                    *)
LEMMA QuietKept ==
    ASSUME TypeInv, DeliveryInv, ChunksKept, NoNewSuccess, MessagesKept, SentKept, RowsKept,
           JobsKept, NoNewVerdict,
           \A p \in Schedulers : SchedulerKept(p) \/ scheduler'[p] = scheduler[p],
           \A w \in Workers : WorkerKept(w) \/ worker'[w] = worker[w]
    PROVE  DeliveryInv'
<1>1. \A p \in Schedulers : JobOwned(p)'
  BY JobOwnedKept
<1>2. JobsApart'
  BY JobsApartKept
<1>3. \A c \in Chunks : ChunkSound(c)'
  BY ChunkSoundKept DEF NoNewSuccess
<1>4. \A a \in Rows : RowSound(a)'
  BY RowSoundKept DEF RowsKept
<1>m. MessagesStay
  BY DEF MessagesKept, MessagesStay
<1>5. \A w \in Workers : WorkerSound(w)'
  BY <1>m, WorkerSoundKept
<1>6. \A j \in Jobs : JobSound(j)'
  BY <1>m, JobSoundKept DEF NoNewVerdict
<1>7. QED
  BY <1>1, <1>2, <1>3, <1>4, <1>5, <1>6 DEF DeliveryInv

LEMMA DeliveryInit == MyHrSyncConstants /\ Init => DeliveryInv
<1> SUFFICES ASSUME MyHrSyncConstants, Init
             PROVE  DeliveryInv
  OBVIOUS
<1>1. None \notin Jobs /\ None \notin Chunks
  BY DEF MyHrSyncConstants
<1>2. QED
  BY <1>1 DEF Init, DeliveryInv, JobOwned, JobsApart, ChunkSound, RowSound, WorkerSound,
     JobSound, SchedulerIdle, WorkerIdle, Scheduling, Cutting

(* An update of one existing chunk keeps what chunks are known for.        *)
LEMMA ChunkWritten ==
    ASSUME TypeInv, NEW c \in Chunks, NEW s, NEW n, NEW new,
           \/ new = [chunk[c] EXCEPT !.status = s, !.stale = FALSE]
           \/ new = [chunk[c] EXCEPT !.stale = FALSE, !.status = s]
           \/ new = [chunk[c] EXCEPT !.status = s, !.stale = FALSE, !.attempts = n],
           chunk' = [chunk EXCEPT ![c] = new],
           chunk[c].status # "NONE", s # "NONE",
           chunk[c].status = "SUCCESS" => s = "SUCCESS"
    PROVE  /\ ChunksKept
           /\ \A d \in Chunks : d # c => chunk'[d] = chunk[d]
           /\ chunk'[c].status = s
           /\ s # "SUCCESS" => NoNewSuccess
<1>1. chunk \in [Chunks -> ChunkRow]
  BY DEF TypeInv, TypeOK
<1>2. chunk'[c] = new /\ \A d \in Chunks : d # c => chunk'[d] = chunk[d]
  BY <1>1
<1>3. chunk[c] \in ChunkRow
  BY <1>1
<1>4. new.status = s /\ new.job = chunk[c].job /\ new.payload = chunk[c].payload
  BY <1>3 DEF ChunkRow
<1>5. QED
  BY <1>2, <1>4 DEF ChunksKept, NoNewSuccess

(* Scheduling steps that open no job, create no chunk and send nothing.    *)
LEMMA SchedulingQuiet ==
    ASSUME TypeInv, DeliveryInv, NEW p \in Schedulers, UNCHANGED message,
           \/ Trigger(p) \/ CheckActive(p) \/ ReadPage(p) \/ AdoptRows(p) \/ NextPage(p)
           \/ SendsDone(p) \/ SchedulingFails(p) \/ MarkJobAsFailed(p) \/ AbortScheduler(p)
    PROVE  DeliveryInv'
<1>p. scheduler[p] \in SchedulerState /\ scheduler \in [Schedulers -> SchedulerState]
  BY DEF TypeInv, TypeOK
<1>s. SchedulerIdle.pc = "idle"
  BY DEF SchedulerIdle
<1>1. ChunksKept /\ NoNewSuccess
  <2>1. CASE UNCHANGED chunk
    BY <2>1 DEF ChunksKept, NoNewSuccess
  <2>2. CASE MarkJobAsFailed(p)
    <3>1. \A c \in Chunks : chunk[c] \in ChunkRow
      BY DEF TypeInv, TypeOK
    <3>2. chunk' = FailActiveChunks(scheduler[p].job)
      BY <2>2 DEF MarkJobAsFailed
    <3>3. ASSUME NEW c \in Chunks, chunk'[c] # chunk[c]
          PROVE  /\ chunk[c].status \in Active /\ chunk'[c].status = "FAILED"
                 /\ chunk'[c].job = chunk[c].job /\ chunk'[c].payload = chunk[c].payload
      <4>1. chunk'[c] = IF chunk[c].job = scheduler[p].job /\ chunk[c].status \in Active
                        THEN [chunk[c] EXCEPT !.status = "FAILED", !.stale = FALSE]
                        ELSE chunk[c]
        BY <3>2 DEF FailActiveChunks
      <4>2. /\ chunk[c].status \in Active
            /\ chunk'[c] = [chunk[c] EXCEPT !.status = "FAILED", !.stale = FALSE]
        BY <3>3, <4>1
      <4>3. QED
        BY <3>1, <4>2 DEF ChunkRow
    <3>4. QED
      BY <3>3 DEF ChunksKept, NoNewSuccess, Active
  <2>3. QED
    BY <2>1, <2>2 DEF Trigger, CheckActive, ReadPage, AdoptRows, NextPage, SendsDone,
       SchedulingFails, AbortScheduler
<1>2. MessagesKept
  BY DEF MessagesKept
<1>3. SentKept
  BY DEF SentKept, Trigger, CheckActive, ReadPage, AdoptRows, NextPage, SendsDone,
     SchedulingFails, MarkJobAsFailed, AbortScheduler
<1>4. RowsKept
  <2>1. CASE UNCHANGED delivery
    BY <2>1 DEF RowsKept
  <2>2. CASE MarkJobAsFailed(p)
    <3>1. \A a \in Rows : delivery[a] \in DeliveryRow
      BY DEF TypeInv, TypeOK
    <3>2. \A a \in Rows : delivery'[a] = delivery[a]
                         \/ delivery'[a] = [delivery[a] EXCEPT !.status = "FAILED"]
      BY <2>2 DEF MarkJobAsFailed
    <3>3. QED
      BY <3>1, <3>2 DEF RowsKept, DeliveryRow
  <2>3. QED
    BY <2>1, <2>2 DEF Trigger, CheckActive, ReadPage, AdoptRows, NextPage, SendsDone,
       SchedulingFails, AbortScheduler
<1>5. JobsKept /\ NoNewVerdict
  <2>1. CASE UNCHANGED job
    BY <2>1 DEF JobsKept, NoNewVerdict
  <2>2. CASE MarkJobAsFailed(p)
    BY <2>2 DEF MarkJobAsFailed, JobsKept, NoNewVerdict, TypeInv, TypeOK
  <2>3. QED
    BY <2>1, <2>2 DEF Trigger, CheckActive, ReadPage, AdoptRows, NextPage, SendsDone,
       SchedulingFails, AbortScheduler
<1>6. \A q \in Schedulers : SchedulerKept(q) \/ scheduler'[q] = scheduler[q]
  <2>1. ASSUME NEW q \in Schedulers, q # p
        PROVE  scheduler'[q] = scheduler[q]
    BY <2>1, <1>p DEF Plan, PlanTo, Trigger, CheckActive, ReadPage, AdoptRows, NextPage,
       SendsDone, SchedulingFails, MarkJobAsFailed, AbortScheduler
  <2>2. CASE Trigger(p) \/ SendsDone(p) \/ MarkJobAsFailed(p) \/ AbortScheduler(p)
    <3>1. scheduler'[p].pc \in {"idle", "check"}
      BY <2>2, <1>p, <1>s DEF Plan, Trigger, SendsDone, MarkJobAsFailed, AbortScheduler,
         SchedulerIdle
    <3>2. SchedulerKept(p)
      BY <3>1 DEF SchedulerKept, Scheduling
    <3>3. QED
      BY <2>1, <3>2
  <2>3. CASE CheckActive(p) \/ ReadPage(p)
    <3>1. scheduler'[p].pc \in {"idle", "page", "open"}
      BY <2>3, <1>p, <1>s DEF Plan, PlanTo, CheckActive, ReadPage, SchedulerState
    <3>2. SchedulerKept(p)
      BY <3>1 DEF SchedulerKept, Scheduling
    <3>3. QED
      BY <2>1, <3>2
  <2>4. CASE AdoptRows(p)
    <3>1. /\ scheduler[p].pc = "adopt"
          /\ scheduler'[p].job = scheduler[p].job
          /\ scheduler'[p].existing \subseteq scheduler'[p].page
      BY <2>4, <1>p DEF Plan, PlanAt, AdoptRows, SchedulerState
    <3>2. SchedulerKept(p)
      BY <3>1 DEF SchedulerKept, Scheduling, Cutting
    <3>3. QED
      BY <2>1, <3>2
  <2>5. CASE NextPage(p)
    <3>1. /\ scheduler[p].pc = "more"
          /\ scheduler'[p].job = scheduler[p].job
          /\ scheduler'[p].pc \in {"send", "adopt"}
      BY <2>5, <1>p DEF Plan, PlanAt, NextPage, SchedulerState
    <3>2. SchedulerKept(p)
      BY <3>1 DEF SchedulerKept, Scheduling, Cutting
    <3>3. QED
      BY <2>1, <3>2
  <2>6. CASE SchedulingFails(p)
    <3>1. /\ scheduler[p].pc \in {"adopt", "chunk", "more", "send"}
          /\ scheduler'[p].job = scheduler[p].job
          /\ scheduler'[p].pc = "failjob"
      BY <2>6, <1>p DEF PlanTo, SchedulingFails, SchedulerState
    <3>2. SchedulerKept(p)
      BY <3>1 DEF SchedulerKept, Scheduling, Cutting
    <3>3. QED
      BY <2>1, <3>2
  <2>7. QED
    BY <2>2, <2>3, <2>4, <2>5, <2>6
<1>7. \A w \in Workers : worker'[w] = worker[w]
  BY DEF Trigger, CheckActive, ReadPage, AdoptRows, NextPage, SendsDone,
     SchedulingFails, MarkJobAsFailed, AbortScheduler
<1>8. QED
  BY <1>1, <1>2, <1>3, <1>4, <1>5, <1>6, <1>7, QuietKept

(* Steps of the queue and the clock, other than a delivery.                *)
LEMMA QueueQuiet ==
    ASSUME TypeInv, DeliveryInv, NEW c \in Chunks,
           VisibilityTimeout(c) \/ ProcessingTimeout(c)
    PROVE  DeliveryInv'
<1>1. ChunksKept /\ NoNewSuccess
  <2>1. CASE UNCHANGED chunk
    BY <2>1 DEF ChunksKept, NoNewSuccess
  <2>2. CASE ProcessingTimeout(c)
    <3>1. chunk \in [Chunks -> ChunkRow] /\ chunk[c] \in ChunkRow
      BY DEF TypeInv, TypeOK
    <3>2. /\ chunk'[c] = [chunk[c] EXCEPT !.stale = TRUE]
          /\ \A d \in Chunks : d # c => chunk'[d] = chunk[d]
      BY <2>2, <3>1 DEF ProcessingTimeout
    <3>3. /\ chunk'[c].status = chunk[c].status /\ chunk'[c].job = chunk[c].job
          /\ chunk'[c].payload = chunk[c].payload
      BY <3>1, <3>2 DEF ChunkRow
    <3>4. QED
      BY <3>2, <3>3 DEF ChunksKept, NoNewSuccess
  <2>3. QED
    BY <2>1, <2>2 DEF VisibilityTimeout
<1>2. MessagesKept
  <2>1. message \in [Chunks -> MessageState]
    BY DEF TypeInv, TypeOK
  <2>2. QED
    BY <2>1 DEF VisibilityTimeout, ProcessingTimeout, MessagesKept
<1>3. SentKept /\ RowsKept /\ JobsKept /\ NoNewVerdict
  BY DEF VisibilityTimeout, ProcessingTimeout, SentKept, RowsKept, JobsKept, NoNewVerdict
<1>4. UNCHANGED <<scheduler, worker>>
  BY DEF VisibilityTimeout, ProcessingTimeout
<1>5. QED
  BY <1>1, <1>2, <1>3, <1>4, QuietKept

(* A row moved by a processing call keeps its chunk.                       *)
LEMMA RowsMoved ==
    ASSUME TypeInv, NEW c, NEW from, NEW to, MoveRows(c, from, to)
    PROVE  /\ \A a \in Rows : delivery'[a].chunk = delivery[a].chunk
           /\ \A a \in Rows : delivery'[a] # delivery[a] =>
                 delivery[a].chunk = c /\ delivery'[a].status = to
<1>1. \A a \in Rows : delivery[a] \in DeliveryRow
  BY DEF TypeInv, TypeOK
<1>2. \A a \in Rows : delivery'[a] = delivery[a]
                     \/ /\ delivery[a].chunk = c
                        /\ delivery'[a] = [delivery[a] EXCEPT !.status = to]
  BY <1>1 DEF MoveRows, DeliveryRow
<1>3. QED
  BY <1>1, <1>2 DEF DeliveryRow

(* Processing steps that neither learn that a payload was accepted nor     *)
(* conclude a chunk or a job.                                              *)
LEMMA ProcessingQuiet ==
    ASSUME TypeInv, DeliveryInv, NEW w \in Workers,
           \/ ReadChunk(w) \/ Reclaim(w) \/ Claim(w) \/ Reread(w) \/ TakeRows(w)
           \/ FailChunk(w) \/ ReleaseRows(w) \/ FinalizeRead(w) \/ DeleteMessage(w)
           \/ ThrowInTry(w) \/ AbortWorker(w)
    PROVE  DeliveryInv'
<1>w. worker[w] \in WellFormed /\ worker \in [Workers -> WellFormed]
  BY DEF TypeInv
<1>b. worker[w].pc # "idle"
  BY <1>w DEF ThrowInTry, AbortWorker, At, ReadChunk, Reclaim, Claim, Reread, TakeRows,
     FailChunk, ReleaseRows, FinalizeRead, DeleteMessage
<1>c. /\ Target(w) \in Chunks /\ chunk[Target(w)] \in ChunkRow
      /\ chunk[Target(w)].status # "NONE" /\ message[Target(w)].state # "unsent"
  BY <1>w, <1>b DEF Target, WellFormed, TypeInv, TypeOK, DeliveryInv, WorkerSound, ChunkSound
<1>1. ChunksKept /\ NoNewSuccess
  <2>1. CASE UNCHANGED chunk
    BY <2>1 DEF ChunksKept, NoNewSuccess
  <2>2. CASE Reclaim(w) /\ StaleClaim(Target(w))
    <3>1. /\ chunk' = [chunk EXCEPT ![Target(w)] =
                         [chunk[Target(w)] EXCEPT !.status = "PENDING", !.stale = FALSE]]
          /\ chunk[Target(w)].status = "PROCESSING"
      BY <2>2, <1>c DEF Reclaim, StaleClaim, TypeInv, TypeOK
    <3>2. QED
      BY <3>1, <1>c, ChunkWritten
  <2>3. CASE Claim(w) /\ Claimable(Target(w))
    <3>1. PICK n : chunk' = [chunk EXCEPT ![Target(w)] = [chunk[Target(w)] EXCEPT
                               !.status = "PROCESSING", !.stale = FALSE, !.attempts = n]]
      BY <2>3, <1>c DEF Claim, TypeInv, TypeOK
    <3>2. chunk[Target(w)].status = "PENDING"
      BY <2>3 DEF Claimable
    <3>3. QED
      BY <3>1, <3>2, <1>c, ChunkWritten
  <2>4. CASE FailChunk(w) /\ chunk[Target(w)].status = "PROCESSING"
    <3>1. PICK s \in {"FAILED", "PENDING"} : chunk' = [chunk EXCEPT ![Target(w)] =
                               [chunk[Target(w)] EXCEPT !.stale = FALSE, !.status = s]]
      BY <2>4, <1>c DEF FailChunk, TypeInv, TypeOK
    <3>2. QED
      BY <2>4, <3>1, <1>c, ChunkWritten
  <2>5. QED
    BY <2>1, <2>2, <2>3, <2>4 DEF ReadChunk, Reclaim, Claim, Reread, TakeRows, FailChunk,
       ReleaseRows, FinalizeRead, DeleteMessage, ThrowInTry, AbortWorker
<1>2. MessagesKept
  <2>1. message \in [Chunks -> MessageState]
    BY DEF TypeInv, TypeOK
  <2>2. CASE UNCHANGED message
    BY <2>2 DEF MessagesKept
  <2>3. CASE DeleteMessage(w)
    BY <1>c, <2>1, <2>3 DEF MessagesKept, DeleteMessage
  <2>4. QED
    BY <2>2, <2>3 DEF ReadChunk, Reclaim, Claim, Reread, TakeRows, FailChunk, ReleaseRows,
       FinalizeRead, ThrowInTry, AbortWorker
<1>3. SentKept /\ JobsKept /\ NoNewVerdict /\ UNCHANGED scheduler
  BY DEF SentKept, JobsKept, NoNewVerdict, ReadChunk, Reclaim, Claim, Reread, TakeRows,
     FailChunk, ReleaseRows, FinalizeRead, DeleteMessage, ThrowInTry, AbortWorker
<1>4. RowsKept
  <2>1. CASE UNCHANGED delivery
    BY <2>1 DEF RowsKept
  <2>2. CASE TakeRows(w)
    BY <2>2, RowsMoved DEF TakeRows, RowsKept
  <2>3. CASE ReleaseRows(w)
    <3>1. PICK to \in {"FAILED", "PENDING"} : MoveRows(Target(w), "PROCESSING", to)
      BY <2>3 DEF ReleaseRows
    <3>2. QED
      BY <3>1, RowsMoved DEF RowsKept
  <2>4. QED
    BY <2>1, <2>2, <2>3 DEF ReadChunk, Reclaim, Claim, Reread, FailChunk, FinalizeRead,
       DeleteMessage, ThrowInTry, AbortWorker
<1>5. \A v \in Workers : WorkerKept(v) \/ worker'[v] = worker[v]
  <2>1. ASSUME NEW v \in Workers, v # w
        PROVE  worker'[v] = worker[v]
    BY <2>1, <1>w DEF Become, GoTo, ReadChunk, Reclaim, Claim, Reread, TakeRows, FailChunk,
       ReleaseRows, FinalizeRead, DeleteMessage, ThrowInTry, AbortWorker
  <2>2. /\ worker'[w].pc # "idle" => worker'[w].chunk = worker[w].chunk
        /\ worker'[w].pc \notin {"conclude", "settle"}
    <3>1. /\ WorkerIdle.pc = "idle" /\ Rejected.pc = "idle"
          /\ Acknowledging(Target(w)).pc = "delete"
          /\ Acknowledging(Target(w)).chunk = worker[w].chunk
          /\ AlreadyConcluded(Target(w)).pc = "finalize"
          /\ AlreadyConcluded(Target(w)).chunk = worker[w].chunk
          /\ Finalizing(Target(w), FALSE).pc = "finalize"
          /\ Finalizing(Target(w), FALSE).chunk = worker[w].chunk
      BY DEF WorkerIdle, Rejected, Acknowledging, AlreadyConcluded, Finalizing, Target
    <3>2. worker[w] \in WorkerState
      BY <1>w DEF WellFormed
    <3>3. CASE ReadChunk(w) \/ Reclaim(w) \/ Claim(w) \/ Reread(w)
      BY <1>w, <3>1, <3>2, <3>3 DEF Become, GoTo, ReadChunk, Reclaim, Claim, Reread, WorkerState
    <3>4. CASE TakeRows(w) \/ FailChunk(w) \/ ReleaseRows(w) \/ AbortWorker(w)
      BY <1>w, <3>1, <3>2, <3>4
         DEF Become, GoTo, TakeRows, FailChunk, ReleaseRows, AbortWorker, WorkerState
    <3>5. CASE FinalizeRead(w) \/ DeleteMessage(w) \/ ThrowInTry(w)
      BY <1>w, <3>1, <3>2, <3>5
         DEF Become, GoTo, FinalizeRead, FinalizeDone, DeleteMessage, ThrowInTry, WorkerState
    <3>6. QED
      BY <3>3, <3>4, <3>5
  <2>3. QED
    BY <1>b, <2>1, <2>2 DEF WorkerKept
<1>6. QED
  BY <1>1, <1>2, <1>3, <1>4, <1>5, QuietKept

(* A new job has no chunk, and no other call has it.                       *)
LEMMA OpenJobSound ==
    ASSUME TypeInv, DeliveryInv, NEW p \in Schedulers, OpenJob(p)
    PROVE  DeliveryInv'
<1>p. scheduler[p] \in SchedulerState /\ scheduler \in [Schedulers -> SchedulerState]
  BY DEF TypeInv, TypeOK
<1>j. PICK j \in Jobs : /\ job[j] = "NONE" /\ job' = [job EXCEPT ![j] = "PROCESSING"]
                        /\ Plan(p, [scheduler[p] EXCEPT !.pc = "adopt", !.job = j])
  BY DEF OpenJob
<1>k. ChunksKept /\ NoNewSuccess /\ MessagesKept /\ MessagesStay /\ SentKept /\ RowsKept
  BY DEF OpenJob, ChunksKept, NoNewSuccess, MessagesKept, MessagesStay, SentKept, RowsKept
<1>l. JobsKept /\ NoNewVerdict /\ job'[j] = "PROCESSING"
  BY <1>j DEF JobsKept, NoNewVerdict, TypeInv, TypeOK
<1>q. /\ \A q \in Schedulers : q # p => scheduler'[q] = scheduler[q]
      /\ scheduler'[p].pc = "adopt" /\ scheduler'[p].job = j
  BY <1>p, <1>j DEF Plan, SchedulerState
<1>1. \A q \in Schedulers : JobOwned(q)'
  <2>1. JobOwned(p)'
    <3>1. \A c \in Chunks : chunk'[c].job = chunk[c].job /\ chunk[c].job # j
      BY <1>j, <1>k DEF DeliveryInv, ChunkSound, ChunksKept
    <3>2. QED
      BY <1>q, <1>l, <3>1 DEF JobOwned, ChunksOf
  <2>2. QED
    BY <1>q, <1>k, <1>l, <2>1, JobOwnedKept
<1>2. JobsApart'
  <2>1. \A q \in Schedulers : scheduler[q].pc \in Scheduling => scheduler[q].job # j
    BY <1>j DEF DeliveryInv, JobOwned
  <2>2. QED
    BY <1>q, <2>1 DEF DeliveryInv, JobsApart
<1>3. \A c \in Chunks : ChunkSound(c)'
  BY <1>k, <1>l, ChunkSoundKept DEF NoNewSuccess
<1>4. \A a \in Rows : RowSound(a)'
  BY <1>k, RowSoundKept DEF RowsKept
<1>5. \A w \in Workers : WorkerSound(w)'
  BY <1>k, WorkerSoundKept DEF OpenJob
<1>6. \A i \in Jobs : JobSound(i)'
  BY <1>k, <1>l, JobSoundKept DEF NoNewVerdict
<1>7. QED
  BY <1>1, <1>2, <1>3, <1>4, <1>5, <1>6 DEF DeliveryInv

(* A message is only sent for a chunk of the sender's job, after the last  *)
(* chunk of that job was created.                                          *)
LEMMA SendSound ==
    ASSUME TypeInv, DeliveryInv, NEW p \in Schedulers, NEW c \in Chunks,
           c \in Unsent(p), scheduler[p].pc = "send",
           message' = [message EXCEPT ![c].state = "visible"],
           scheduler' = scheduler \/ PlanTo(p, "failjob"),
           UNCHANGED <<stored, delivery, job, chunk, sent, worker>>
    PROVE  DeliveryInv'
<1>p. scheduler[p] \in SchedulerState /\ scheduler \in [Schedulers -> SchedulerState]
  BY DEF TypeInv, TypeOK
<1>m. /\ \A d \in Chunks : d # c => message'[d] = message[d]
      /\ message'[c].state = "visible"
  <2>1. message \in [Chunks -> MessageState]
    BY DEF TypeInv, TypeOK
  <2>2. QED
    BY <2>1 DEF MessageState
<1>k. ChunksKept /\ NoNewSuccess /\ MessagesStay /\ SentKept /\ RowsKept
      /\ JobsKept /\ NoNewVerdict
  BY <1>m DEF ChunksKept, NoNewSuccess, MessagesStay, SentKept, RowsKept, JobsKept, NoNewVerdict
<1>q. /\ \A q \in Schedulers : q # p => scheduler'[q] = scheduler[q]
      /\ scheduler'[p].pc \in {"send", "failjob"} /\ scheduler'[p].job = scheduler[p].job
  BY <1>p DEF PlanTo, SchedulerState
<1>c. /\ chunk[c].job = scheduler[p].job /\ scheduler[p].job \in Jobs
      /\ scheduler[p].pc \in Scheduling /\ scheduler[p].pc \notin Cutting
      /\ scheduler'[p].pc \in Scheduling /\ scheduler'[p].pc \notin Cutting
  BY <1>q DEF DeliveryInv, JobOwned, Scheduling, Cutting, Unsent, ChunksOf
<1>1. \A q \in Schedulers : JobOwned(q)'
  <2>1. JobOwned(p)'
    BY <1>q, <1>c DEF DeliveryInv, JobOwned, Cutting
  <2>2. ASSUME NEW q \in Schedulers, q # p
        PROVE  JobOwned(q)'
    <3>1. scheduler[q].pc \in Cutting => scheduler[q].job # chunk[c].job
      BY <2>2, <1>c DEF DeliveryInv, JobsApart, Scheduling, Cutting
    <3>2. JobOwned(q) /\ scheduler'[q] = scheduler[q]
      BY <2>2, <1>q DEF DeliveryInv
    <3>3. scheduler[q].pc \in Cutting =>
             \A d \in ChunksOf(scheduler[q].job) : message'[d].state = "unsent"
      BY <1>m, <3>1, <3>2 DEF JobOwned, ChunksOf
    <3>4. QED
      BY <3>2, <3>3 DEF JobOwned, ChunksOf
  <2>3. QED
    BY <2>1, <2>2
<1>2. JobsApart'
  BY <1>q, <1>c DEF DeliveryInv, JobsApart
<1>3. \A d \in Chunks : ChunkSound(d)'
  <2>1. chunk[c].status # "NONE"
    BY <1>c DEF DeliveryInv, ChunkSound
  <2>2. QED
    BY <1>m, <2>1 DEF DeliveryInv, ChunkSound
<1>4. \A a \in Rows : RowSound(a)'
  BY <1>k, RowSoundKept DEF RowsKept
<1>5. \A w \in Workers : WorkerSound(w)'
  BY <1>k, WorkerSoundKept
<1>6. \A j \in Jobs : JobSound(j)'
  BY <1>k, JobSoundKept DEF NoNewVerdict
<1>7. QED
  BY <1>1, <1>2, <1>3, <1>4, <1>5, <1>6 DEF DeliveryInv

(* A chunk is created before anything of its job is sent, so no processing *)
(* call, and no verdict, is about that job yet.                            *)
LEMMA CreateChunkSound ==
    ASSUME TypeInv, DeliveryInv, NEW p \in Schedulers, CreateChunk(p)
    PROVE  DeliveryInv'
<1>p. scheduler[p] \in SchedulerState /\ scheduler \in [Schedulers -> SchedulerState]
  BY DEF TypeInv, TypeOK
<1>j. PICK j \in Jobs : scheduler[p].job = j /\ job[j] # "NONE"
  BY DEF CreateChunk, PlanAt, DeliveryInv, JobOwned, Scheduling
<1>a. PICK c \in Chunks :
         /\ chunk[c].status = "NONE"
         /\ chunk' = [chunk EXCEPT ![c] = [status |-> "PENDING", job |-> scheduler[p].job,
                          payload |-> scheduler[p].page, attempts |-> 0, stale |-> FALSE]]
         /\ delivery' = [a \in Rows |->
               IF a \in scheduler[p].existing \cup Unsynced(scheduler[p].page)
               THEN [status |-> "PENDING", chunk |-> c] ELSE delivery[a]]
  BY DEF CreateChunk
<1>c. /\ \A d \in Chunks : d # c => chunk'[d] = chunk[d]
      /\ chunk'[c].status = "PENDING" /\ chunk'[c].job = j
      /\ chunk'[c].payload = scheduler[p].page
  BY <1>a, <1>j DEF TypeInv, TypeOK
<1>q. /\ \A q \in Schedulers : q # p => scheduler'[q] = scheduler[q]
      /\ scheduler'[p].pc = "more" /\ scheduler'[p].job = j
      /\ scheduler[p].pc = "chunk"
  BY <1>p, <1>j DEF CreateChunk, Plan, PlanAt, SchedulerState
<1>u. UNCHANGED <<job, message, sent, worker>>
  BY DEF CreateChunk
<1>s. /\ \A d \in ChunksOf(j) : message[d].state = "unsent"
      /\ message[c].state = "unsent"
      /\ scheduler[p].existing \subseteq scheduler[p].page
  BY <1>a, <1>j, <1>q DEF DeliveryInv, JobOwned, ChunkSound, Cutting
<1>1. \A q \in Schedulers : JobOwned(q)'
  <2>1. JobOwned(p)'
    <3>1. \A d \in Chunks : chunk'[d].job = j => message'[d].state = "unsent"
      BY <1>c, <1>s, <1>u DEF ChunksOf
    <3>2. job'[j] # "NONE"
      BY <1>j, <1>u
    <3>3. QED
      BY <1>q, <3>1, <3>2 DEF JobOwned, ChunksOf
  <2>2. ASSUME NEW q \in Schedulers, q # p
        PROVE  JobOwned(q)'
    <3>1. scheduler[q].pc \in Cutting => scheduler[q].job # j
      BY <2>2, <1>j, <1>q DEF DeliveryInv, JobsApart, Scheduling, Cutting
    <3>2. JobOwned(q) /\ scheduler'[q] = scheduler[q]
      BY <2>2, <1>q DEF DeliveryInv
    <3>3. scheduler[q].pc \in Cutting =>
             \A d \in Chunks : chunk'[d].job = scheduler[q].job => message'[d].state = "unsent"
      BY <1>c, <1>u, <3>1, <3>2 DEF JobOwned, ChunksOf
    <3>4. QED
      BY <1>u, <3>2, <3>3 DEF JobOwned, ChunksOf
  <2>3. QED
    BY <2>1, <2>2
<1>2. JobsApart'
  <2>1. scheduler[p].pc \in Scheduling
    BY <1>q DEF Scheduling
  <2>2. QED
    BY <1>j, <1>q, <2>1 DEF DeliveryInv, JobsApart
<1>3. \A d \in Chunks : ChunkSound(d)'
  <2>1. ChunkSound(c)'
    BY <1>c, <1>j, <1>u DEF ChunkSound
  <2>2. ASSUME NEW d \in Chunks, d # c
        PROVE  ChunkSound(d)'
    BY <2>2, <1>c, <1>u DEF DeliveryInv, ChunkSound
  <2>3. QED
    BY <2>1, <2>2
<1>4. ASSUME NEW a \in Rows
      PROVE  RowSound(a)'
  <2>1. CASE a \in scheduler[p].existing \cup Unsynced(scheduler[p].page)
    <3>1. delivery'[a] = [status |-> "PENDING", chunk |-> c] /\ a \in scheduler[p].page
      BY <1>a, <1>s, <2>1 DEF Unsynced
    <3>2. QED
      BY <1>c, <3>1 DEF RowSound
  <2>2. CASE a \notin scheduler[p].existing \cup Unsynced(scheduler[p].page)
    <3>1. delivery'[a] = delivery[a] /\ delivery[a].chunk # c
      BY <1>a, <2>2 DEF DeliveryInv, RowSound
    <3>2. QED
      BY <1>c, <3>1 DEF DeliveryInv, RowSound
  <2>3. QED
    BY <2>1, <2>2
<1>5. ASSUME NEW w \in Workers, worker[w].pc # "idle"
      PROVE  WorkerSound(w)'
  <2>1. /\ Target(w) \in Chunks /\ WorkerSound(w) /\ message[Target(w)].state # "unsent"
    BY <1>5 DEF DeliveryInv, WorkerSound, TypeInv, WellFormed, Target
  <2>2. Target(w) # c /\ JobOf(w) # j
    BY <1>s, <2>1 DEF JobOf, ChunksOf
  <2>3. chunk'[Target(w)] = chunk[Target(w)] /\ Target(w)' = Target(w) /\ JobOf(w)' = JobOf(w)
    BY <1>c, <1>u, <2>1, <2>2 DEF Target, JobOf
  <2>4. \A d \in Chunks : chunk'[d].job = JobOf(w) => d # c
    BY <1>c, <2>2
  <2>5. \A d \in ChunksOf(JobOf(w))' : d \in ChunksOf(JobOf(w)) /\ chunk'[d] = chunk[d]
    BY <1>c, <2>3, <2>4 DEF ChunksOf
  <2>6. QED
    BY <1>u, <2>1, <2>3, <2>5 DEF WorkerSound
<1>6. ASSUME NEW i \in Jobs
      PROVE  JobSound(i)'
  <2>1. CASE job[i] = "SUCCESS"
    <3>1. JobSound(i) /\ i # j
      BY <1>s, <2>1 DEF DeliveryInv, JobSound
    <3>2. \A d \in Chunks : chunk'[d].job = i <=> chunk[d].job = i /\ d # c
      <4>1. chunk'[c].job # i
        BY <1>c, <3>1
      <4>2. QED
        BY <1>c, <4>1
    <3>3. QED
      BY <1>c, <1>s, <1>u, <2>1, <3>1, <3>2 DEF JobSound, ChunksOf
  <2>2. CASE job[i] # "SUCCESS"
    BY <1>u, <2>2 DEF JobSound
  <2>3. QED
    BY <2>1, <2>2
<1>7. \A w \in Workers : worker[w].pc = "idle" => WorkerSound(w)'
  BY <1>u DEF WorkerSound
<1>8. QED
  BY <1>1, <1>2, <1>3, <1>4, <1>5, <1>6, <1>7 DEF DeliveryInv

(* A delivered message is about a chunk that exists.                       *)
LEMMA ReceiveSound ==
    ASSUME TypeInv, DeliveryInv, NEW w \in Workers, NEW c \in Chunks, Receive(w, c)
    PROVE  DeliveryInv'
<1>m. message[c].state = "visible" /\ message'[c].state = "inflight"
      /\ \A d \in Chunks : d # c => message'[d] = message[d]
  BY DEF Receive, TypeInv, TypeOK
<1>k. ChunksKept /\ NoNewSuccess /\ MessagesKept /\ MessagesStay /\ SentKept /\ RowsKept
      /\ JobsKept /\ NoNewVerdict /\ UNCHANGED scheduler
  BY <1>m DEF Receive, ChunksKept, NoNewSuccess, MessagesKept, MessagesStay, SentKept,
     RowsKept, JobsKept, NoNewVerdict
<1>1. /\ \A p \in Schedulers : JobOwned(p)'
      /\ JobsApart' /\ \A d \in Chunks : ChunkSound(d)'
      /\ \A a \in Rows : RowSound(a)'
      /\ \A j \in Jobs : JobSound(j)'
  BY <1>k, JobOwnedKept, JobsApartKept, ChunkSoundKept, RowSoundKept, JobSoundKept
     DEF NoNewSuccess, RowsKept, NoNewVerdict
<1>2. ASSUME NEW v \in Workers
      PROVE  WorkerSound(v)'
  <2>1. CASE v # w
    <3>1. worker'[v] = worker[v]
      BY <2>1 DEF Receive
    <3>2. QED
      BY <1>k, <3>1, WorkerSoundKept
  <2>2. CASE v = w
    <3>1. worker'[w].pc = "read" /\ worker'[w].chunk = c
      BY DEF Receive, WorkerIdle, TypeInv
    <3>2. QED
      BY <1>m, <2>2, <3>1 DEF WorkerSound, Target
  <2>3. QED
    BY <2>1, <2>2
<1>3. QED
  BY <1>1, <1>2 DEF DeliveryInv

(* Uploading, concluding and giving the verdict: what a call writes it has *)
(* learnt from an acceptance, and it still holds.                          *)
LEMMA ConcludingSound ==
    ASSUME TypeInv, DeliveryInv, NEW w \in Workers,
           Upload(w) \/ Conclude(w) \/ FinalizeTally(w) \/ FinalizeSettle(w)
    PROVE  DeliveryInv'
<1>w. worker[w] \in WellFormed /\ worker[w] \in WorkerState
      /\ worker \in [Workers -> WellFormed] /\ worker[w].pc # "idle"
  BY DEF TypeInv, WellFormed, At, Upload, Conclude, FinalizeTally, FinalizeSettle
<1>t. PICK c \in Chunks : c = Target(w)
  BY <1>w DEF Target, WellFormed
<1>c. /\ c \in Chunks /\ chunk[c] \in ChunkRow /\ chunk[c].payload \subseteq Rows
      /\ chunk[c].status # "NONE" /\ chunk[c].job \in Jobs
      /\ message[c].state # "unsent" /\ WorkerSound(w)
  BY <1>t, <1>w DEF WellFormed, TypeInv, TypeOK, ChunkRow, DeliveryInv, WorkerSound,
     ChunkSound
<1>m. MessagesKept /\ MessagesStay /\ UNCHANGED <<message, scheduler>>
  BY DEF MessagesKept, MessagesStay, Upload, Conclude, FinalizeTally, FinalizeSettle
<1>v. ASSUME NEW v \in Workers, v # w
      PROVE  worker'[v] = worker[v]
  BY <1>v, <1>w DEF Become, GoTo, Upload, Conclude, FinalizeTally, FinalizeSettle
<1>1. CASE Upload(w)
  <2>k. /\ ChunksKept /\ NoNewSuccess /\ RowsKept /\ JobsKept /\ NoNewVerdict
        /\ UNCHANGED chunk
    BY <1>1 DEF Upload, ChunksKept, NoNewSuccess, RowsKept, JobsKept, NoNewVerdict
  <2>a. ASSUME NEW a \in Rows
        PROVE  /\ sent[a] > 0 => sent'[a] > 0
               /\ (worker'[w].pc = "conclude" /\ a \in chunk[c].payload) => sent'[a] > 0
    <3>1. sent[a] \in Nat
      BY DEF TypeInv, TypeOK
    <3>2. \/ sent'[a] = sent[a] /\ worker'[w].pc = "fail"
          \/ sent'[a] = IF a \in chunk[c].payload THEN sent[a] + 1 ELSE sent[a]
      BY <1>t, <1>1, <1>w DEF Upload, GoTo, WorkerState
    <3>3. QED
      BY <3>1, <3>2
  <2>s. SentKept
    BY <2>a DEF SentKept
  <2>1. /\ \A p \in Schedulers : JobOwned(p)'
        /\ JobsApart' /\ \A d \in Chunks : ChunkSound(d)'
        /\ \A a \in Rows : RowSound(a)'
        /\ \A j \in Jobs : JobSound(j)'
    BY <1>m, <2>k, <2>s, JobOwnedKept, JobsApartKept, ChunkSoundKept, RowSoundKept,
       JobSoundKept DEF NoNewSuccess, RowsKept, NoNewVerdict
  <2>2. WorkerSound(w)'
    <3>1. worker'[w].pc \in {"conclude", "fail"} /\ worker'[w].chunk = worker[w].chunk
      BY <1>1, <1>w DEF Upload, GoTo, WorkerState
    <3>2. Target(w)' = c
      BY <1>t, <3>1 DEF Target
    <3>3. QED
      BY <1>c, <1>m, <2>k, <2>a, <3>1, <3>2 DEF WorkerSound
  <2>3. \A v \in Workers : WorkerSound(v)'
    BY <1>m, <1>v, <2>k, <2>s, <2>2, WorkerSoundKept
  <2>4. QED
    BY <2>1, <2>3 DEF DeliveryInv
<1>2. CASE Conclude(w)
  <2>1. /\ chunk' = [chunk EXCEPT ![c] =
                       [chunk[c] EXCEPT !.status = "SUCCESS", !.stale = FALSE]]
        /\ MoveRows(c, "PROCESSING", "SYNCED") /\ UNCHANGED <<sent, job>>
        /\ worker[w].pc = "conclude"
    BY <1>t, <1>2, <1>c DEF Conclude, At, TypeInv, TypeOK
  <2>2. /\ ChunksKept /\ \A d \in Chunks : d # c => chunk'[d] = chunk[d]
        /\ chunk'[c].status = "SUCCESS"
    BY <1>c, <2>1, ChunkWritten
  <2>3. SentKept /\ JobsKept /\ NoNewVerdict
    BY <2>1 DEF SentKept, JobsKept, NoNewVerdict
  <2>4. \A d \in Chunks : ChunkSound(d)'
    <3>1. \A d \in Chunks : d # c => ChunkSound(d)'
      BY <1>m, <2>2, <2>3, ChunkSoundKept
    <3>2. \A a \in chunk'[c].payload : sent'[a] > 0
      BY <1>t, <1>c, <2>1, <2>2 DEF WorkerSound, ChunksKept
    <3>3. ChunkSound(c)'
      BY <1>c, <1>m, <2>2, <2>3, <3>2 DEF ChunkSound, ChunksKept, JobsKept, DeliveryInv
    <3>4. QED
      BY <3>1, <3>3
  <2>5. \A a \in Rows : RowSound(a)'
    <3>1. ASSUME NEW a \in Rows, delivery'[a] # delivery[a]
          PROVE  RowSound(a)'
      <4>1. delivery'[a].chunk = delivery[a].chunk /\ delivery[a].chunk = c
        BY <2>1, <3>1, RowsMoved
      <4>2. QED
        BY <1>c, <2>2, <4>1 DEF DeliveryInv, RowSound, ChunksKept
    <3>2. ASSUME NEW a \in Rows, delivery'[a] = delivery[a]
          PROVE  RowSound(a)'
      BY <2>2, <3>2, RowSoundKept
    <3>3. QED
      BY <3>1, <3>2
  <2>6. WorkerKept(w)
    <3>1. worker'[w].pc \in {"finalize", "fail"} /\ worker'[w].chunk = worker[w].chunk
      BY <1>2, <1>w DEF Conclude, Become, GoTo, WorkerState
    <3>2. QED
      BY <1>w, <3>1 DEF WorkerKept
  <2>7. \A v \in Workers : WorkerSound(v)'
    BY <1>m, <1>v, <2>2, <2>3, <2>6, WorkerSoundKept
  <2>8. /\ \A p \in Schedulers : JobOwned(p)'
        /\ JobsApart' /\ \A j \in Jobs : JobSound(j)'
    BY <1>m, <2>2, <2>3, JobOwnedKept, JobsApartKept, JobSoundKept DEF NoNewVerdict
  <2>9. QED
    BY <2>4, <2>5, <2>7, <2>8 DEF DeliveryInv
<1>3. CASE FinalizeTally(w)
  <2>k. ChunksKept /\ NoNewSuccess /\ SentKept /\ RowsKept /\ JobsKept /\ NoNewVerdict
        /\ UNCHANGED <<chunk, job>>
    BY <1>3 DEF FinalizeTally, ChunksKept, NoNewSuccess, SentKept, RowsKept, JobsKept,
       NoNewVerdict
  <2>1. /\ \A p \in Schedulers : JobOwned(p)'
        /\ JobsApart' /\ \A d \in Chunks : ChunkSound(d)'
        /\ \A a \in Rows : RowSound(a)'
        /\ \A j \in Jobs : JobSound(j)'
    BY <1>m, <2>k, JobOwnedKept, JobsApartKept, ChunkSoundKept, RowSoundKept,
       JobSoundKept DEF NoNewSuccess, RowsKept, NoNewVerdict
  <2>2. \/ Become(w, [worker[w] EXCEPT !.pc = "settle", !.verdict = "FAILED"])
        \/ /\ ~SomeFailed(JobOf(w)) /\ NoneIncomplete(JobOf(w))
           /\ Become(w, [worker[w] EXCEPT !.pc = "settle", !.verdict = "SUCCESS"])
        \/ Become(w, FinalizeDone(w))
    BY <1>3 DEF FinalizeTally
  <2>3. CASE ~Become(w, FinalizeDone(w))
    <3>1. /\ worker'[w].pc = "settle" /\ worker'[w].chunk = c
          /\ worker'[w].verdict = "SUCCESS" =>
                ~SomeFailed(JobOf(w)) /\ NoneIncomplete(JobOf(w))
      BY <1>t, <1>w, <2>2, <2>3 DEF Become, WorkerState, Target
    <3>2. ASSUME ~SomeFailed(JobOf(w)), NoneIncomplete(JobOf(w)), NEW d \in ChunksOf(JobOf(w))
          PROVE  chunk[d].status = "SUCCESS"
      <4>1. d \in Chunks /\ chunk[d].job \in Jobs
        BY <1>t, <1>c DEF ChunksOf, JobOf
      <4>2. /\ chunk[d].status # "NONE" /\ chunk[d].status # "FAILED"
            /\ chunk[d].status \notin Active
        BY <3>2, <4>1 DEF DeliveryInv, ChunkSound, SomeFailed, NoneIncomplete
      <4>3. chunk[d].status \in {"NONE"} \cup Active \cup Terminal
        BY <4>1 DEF TypeInv, TypeOK, ChunkRow
      <4>4. QED
        BY <4>2, <4>3 DEF Terminal
    <3>3. Target(w)' = c /\ JobOf(w)' = JobOf(w) /\ ChunksOf(JobOf(w))' = ChunksOf(JobOf(w))
      BY <1>t, <2>k, <3>1 DEF Target, JobOf, ChunksOf
    <3>4. WorkerSound(w)'
      BY <1>c, <1>m, <2>k, <3>1, <3>2, <3>3 DEF WorkerSound
    <3>5. \A v \in Workers : WorkerSound(v)'
      BY <1>m, <1>v, <2>k, <3>4, WorkerSoundKept
    <3>6. QED
      BY <2>1, <3>5 DEF DeliveryInv
  <2>4. CASE Become(w, FinalizeDone(w))
    <3>1. worker'[w].pc \in {"idle", "delete"} /\ (worker'[w].pc = "idle" \/ worker'[w].chunk = c)
      BY <1>t, <1>w, <2>4 DEF Become, FinalizeDone, Acknowledging, Rejected, WorkerIdle
    <3>2. WorkerKept(w)
      BY <1>t, <1>w, <3>1 DEF WorkerKept, Target
    <3>3. \A v \in Workers : WorkerSound(v)'
      BY <1>m, <1>v, <2>k, <3>2, WorkerSoundKept
    <3>4. QED
      BY <2>1, <3>3 DEF DeliveryInv
  <2>5. QED
    BY <2>3, <2>4
<1>4. CASE FinalizeSettle(w)
  <2>k. ChunksKept /\ NoNewSuccess /\ SentKept /\ RowsKept /\ UNCHANGED chunk
    BY <1>4 DEF FinalizeSettle, ChunksKept, NoNewSuccess, SentKept, RowsKept
  <2>1. /\ worker[w].pc = "settle" /\ worker[w].verdict \in {"SUCCESS", "FAILED"}
        /\ job'[JobOf(w)] = worker[w].verdict /\ JobOf(w) = chunk[c].job
        /\ \A j \in Jobs : j # JobOf(w) => job'[j] = job[j]
    BY <1>t, <1>4, <1>c, <1>w DEF FinalizeSettle, At, WellFormed, Terminal, TypeInv, TypeOK, JobOf
  <2>2. JobsKept
    BY <2>1 DEF JobsKept
  <2>3. \A j \in Jobs : JobSound(j)'
    <3>j. PICK i \in Jobs : i = chunk[c].job
      BY <1>c
    <3>1. ASSUME worker[w].verdict = "SUCCESS"
          PROVE  JobSound(i)'
      <4>1. c \in ChunksOf(i) /\ ChunksOf(i)' = ChunksOf(i)
        BY <1>c, <2>k, <3>j DEF ChunksOf
      <4>2. \A d \in ChunksOf(i) : chunk[d].status = "SUCCESS"
        BY <1>c, <2>1, <3>1, <3>j DEF WorkerSound
      <4>3. QED
        BY <1>c, <1>m, <2>k, <4>1, <4>2 DEF JobSound
    <3>2. \A j \in Jobs : j # JobOf(w) => JobSound(j)'
      BY <1>m, <2>1, <2>k, JobSoundKept
    <3>3. worker[w].verdict = "FAILED" => JobSound(i)'
      BY <2>1, <2>k, <3>j DEF JobSound
    <3>4. QED
      BY <2>1, <3>j, <3>1, <3>2, <3>3
  <2>4. WorkerKept(w)
    <3>1. worker'[w].pc \in {"idle", "delete"} /\ (worker'[w].pc = "idle" \/ worker'[w].chunk = c)
      BY <1>t, <1>w, <1>4 DEF FinalizeSettle, Become, FinalizeDone, Acknowledging, Rejected,
         WorkerIdle
    <3>2. QED
      BY <1>t, <1>w, <3>1 DEF WorkerKept, Target
  <2>5. /\ \A p \in Schedulers : JobOwned(p)'
        /\ JobsApart' /\ \A d \in Chunks : ChunkSound(d)'
        /\ \A a \in Rows : RowSound(a)'
        /\ \A v \in Workers : WorkerSound(v)'
    BY <1>m, <1>v, <2>k, <2>2, <2>4, JobOwnedKept, JobsApartKept, ChunkSoundKept,
       RowSoundKept, WorkerSoundKept DEF NoNewSuccess, RowsKept
  <2>6. QED
    BY <2>3, <2>5 DEF DeliveryInv
<1>5. QED
  BY <1>1, <1>2, <1>3, <1>4

(* The invariant is inductive.                                             *)
LEMMA DeliveryStep == TypeInv /\ DeliveryInv /\ [Next]_vars => DeliveryInv'
<1> SUFFICES ASSUME TypeInv, DeliveryInv, [Next]_vars
             PROVE  DeliveryInv'
  OBVIOUS
<1>1. CASE UNCHANGED vars \/ \E a \in Rows : StoreRow(a)
  <2>1. UNCHANGED <<delivery, job, chunk, message, sent, scheduler, worker>>
    BY <1>1 DEF vars, StoreRow
  <2>2. QED
    BY <2>1, QuietKept DEF ChunksKept, NoNewSuccess, MessagesKept, SentKept, RowsKept,
       JobsKept, NoNewVerdict
<1>2. ASSUME NEW p \in Schedulers,
             \/ Trigger(p) \/ SchedulerStep(p) \/ SchedulingFails(p) \/ AbortScheduler(p)
      PROVE  DeliveryInv'
  <2>1. CASE OpenJob(p)
    BY <2>1, OpenJobSound
  <2>2. CASE CreateChunk(p)
    BY <2>2, CreateChunkSound
  <2>3. CASE SendChunk(p)
    <3>1. PICK c \in Unsent(p) : message' = [message EXCEPT ![c].state = "visible"]
      BY <2>3 DEF SendChunk
    <3>2. c \in Chunks /\ scheduler[p].pc = "send" /\ scheduler' = scheduler
          /\ UNCHANGED <<stored, delivery, job, chunk, sent, worker>>
      BY <2>3 DEF SendChunk, PlanAt, Unsent, ChunksOf
    <3>3. QED
      BY <3>1, <3>2, SendSound
  <2>4. CASE SchedulingFails(p) /\ ~UNCHANGED message
    <3>1. PICK c \in Unsent(p) : message' = [message EXCEPT ![c].state = "visible"]
      BY <2>4 DEF SchedulingFails
    <3>2. c \in Chunks /\ scheduler[p].pc = "send" /\ PlanTo(p, "failjob")
          /\ UNCHANGED <<stored, delivery, job, chunk, sent, worker>>
      BY <2>4 DEF SchedulingFails, PlanAt, Unsent, ChunksOf
    <3>3. QED
      BY <3>1, <3>2, SendSound
  <2>5. CASE UNCHANGED message /\ ~OpenJob(p) /\ ~CreateChunk(p) /\ ~SendChunk(p)
    BY <1>2, <2>5, SchedulingQuiet DEF SchedulerStep
  <2>6. QED
    BY <1>2, <2>1, <2>2, <2>3, <2>4, <2>5 DEF SchedulerStep, Trigger, CheckActive, ReadPage,
       AdoptRows, NextPage, SendsDone, MarkJobAsFailed, AbortScheduler
<1>3. ASSUME NEW c \in Chunks, VisibilityTimeout(c) \/ ProcessingTimeout(c)
      PROVE  DeliveryInv'
  BY <1>3, QueueQuiet
<1>4. ASSUME NEW w \in Workers, NEW c \in Chunks, Receive(w, c)
      PROVE  DeliveryInv'
  BY <1>4, ReceiveSound
<1>5. ASSUME NEW w \in Workers, WorkerStep(w) \/ ThrowInTry(w) \/ AbortWorker(w)
      PROVE  DeliveryInv'
  <2>1. CASE Upload(w) \/ Conclude(w) \/ FinalizeTally(w) \/ FinalizeSettle(w)
    BY <2>1, ConcludingSound
  <2>2. CASE ~(Upload(w) \/ Conclude(w) \/ FinalizeTally(w) \/ FinalizeSettle(w))
    BY <1>5, <2>2, ProcessingQuiet DEF WorkerStep
  <2>3. QED
    BY <2>1, <2>2
<1>6. QED
  BY <1>1, <1>2, <1>3, <1>4, <1>5 DEF Next

LEMMA DeliveryInvHolds == Spec => [](TypeInv /\ DeliveryInv)
<1>1. Init => TypeInv /\ DeliveryInv
  BY MyHrSyncConstants, InitTyped, DeliveryInit
<1>2. (TypeInv /\ DeliveryInv) /\ [Next]_vars => (TypeInv /\ DeliveryInv)'
  BY MyHrSyncConstants, StepTyped, DeliveryStep
<1>3. QED
  BY <1>1, <1>2, PTL DEF Spec

(* However many schedulers and workers overlap, a row recorded as SYNCED   *)
(* has been accepted by MyHR in the payload of the SUCCESS chunk it points *)
(* to (myhr.service.ts, the transaction that concludes a chunk).           *)
THEOREM SyncedRowsWereAccepted == Spec => []SyncedWasAccepted
<1>1. TypeInv /\ DeliveryInv => SyncedWasAccepted
  BY DEF DeliveryInv, RowSound, ChunkSound, SyncedWasAccepted
<1>2. QED
  BY <1>1, DeliveryInvHolds, PTL

(* A job is recorded as SUCCESS only with all its chunks, and never again  *)
(* gets one that is not (myhr.service.ts, finalizeJob): its chunks are all *)
(* created before the first message of the job is sent.                    *)
THEOREM JobVerdictsAreSound == Spec => []JobSuccessSound
<1>1. TypeInv /\ DeliveryInv => JobSuccessSound
  BY DEF DeliveryInv, JobSound, ChunkSound, ChunksOf, JobSuccessSound
<1>2. QED
  BY <1>1, DeliveryInvHolds, PTL

(* A chunk row that is written keeps SUCCESS.                              *)
LEMMA SuccessWritten ==
    ASSUME TypeInv, NEW c \in Chunks, NEW d \in Chunks, chunk[c].status = "SUCCESS", NEW new,
           chunk' = [chunk EXCEPT ![d] = new],
           chunk[d].status = "SUCCESS" => new.status = "SUCCESS"
    PROVE  chunk'[c].status = "SUCCESS"
  BY DEF TypeInv, TypeOK

LEMMA SuccessStep ==
    ASSUME TypeInv, [Next]_vars, NEW c \in Chunks, chunk[c].status = "SUCCESS"
    PROVE  chunk'[c].status = "SUCCESS"
<1>t. chunk \in [Chunks -> ChunkRow] /\ \A d \in Chunks : chunk[d] \in ChunkRow
  BY DEF TypeInv, TypeOK
<1>w. \A w \in Workers : worker[w].pc # "idle" => Target(w) \in Chunks
  BY DEF TypeInv, WellFormed, Target
<1>1. CASE UNCHANGED chunk
  BY <1>1
<1>2. ASSUME NEW p \in Schedulers, CreateChunk(p)
      PROVE  chunk'[c].status = "SUCCESS"
  BY <1>2, <1>t DEF CreateChunk
<1>3. ASSUME NEW p \in Schedulers, MarkJobAsFailed(p)
      PROVE  chunk'[c].status = "SUCCESS"
  <2>1. chunk'[c] = chunk[c]
    BY <1>3 DEF MarkJobAsFailed, FailActiveChunks, Active
  <2>2. QED
    BY <2>1
<1>4. ASSUME NEW d \in Chunks, ProcessingTimeout(d)
      PROVE  chunk'[c].status = "SUCCESS"
  <2>1. [chunk[d] EXCEPT !.stale = TRUE].status = chunk[d].status
    BY <1>t DEF ChunkRow
  <2>2. QED
    BY <1>4, <1>t, <2>1 DEF ProcessingTimeout
<1>5. ASSUME NEW w \in Workers, Reclaim(w) \/ Claim(w) \/ FailChunk(w)
      PROVE  chunk'[c].status = "SUCCESS"
  <2>1. Target(w) \in Chunks
    BY <1>5, <1>w DEF Reclaim, Claim, FailChunk, At
  <2>2. chunk'[c] = chunk[c]
    BY <1>5, <1>t, <2>1 DEF Reclaim, StaleClaim, Claim, Claimable, FailChunk
  <2>3. QED
    BY <2>2
<1>6. ASSUME NEW w \in Workers, Conclude(w)
      PROVE  chunk'[c].status = "SUCCESS"
  <2>1. Target(w) \in Chunks /\ chunk[Target(w)] \in ChunkRow
    BY <1>6, <1>t, <1>w DEF Conclude, At
  <2>2. chunk' = [chunk EXCEPT ![Target(w)] =
                    [chunk[Target(w)] EXCEPT !.status = "SUCCESS", !.stale = FALSE]]
    BY <1>6, <1>t, <2>1 DEF Conclude
  <2>3. [chunk[Target(w)] EXCEPT !.status = "SUCCESS", !.stale = FALSE].status = "SUCCESS"
    BY <2>1 DEF ChunkRow
  <2>4. QED
    BY <2>1, <2>2, <2>3, SuccessWritten
<1>7. QED
  <2>1. ASSUME NEW p \in Schedulers,
               \/ Trigger(p) \/ SchedulerStep(p) \/ SchedulingFails(p) \/ AbortScheduler(p)
        PROVE  chunk'[c].status = "SUCCESS"
    BY <1>1, <1>2, <1>3, <2>1 DEF SchedulerStep, Trigger, CheckActive, ReadPage, OpenJob,
       AdoptRows, NextPage, SendChunk, SendsDone, SchedulingFails, AbortScheduler
  <2>2. ASSUME NEW w \in Workers, WorkerStep(w) \/ ThrowInTry(w) \/ AbortWorker(w)
        PROVE  chunk'[c].status = "SUCCESS"
    BY <1>1, <1>5, <1>6, <2>2 DEF WorkerStep, ReadChunk, Reread, TakeRows, Upload,
       ReleaseRows, FinalizeRead, FinalizeTally, FinalizeSettle, DeleteMessage, ThrowInTry,
       AbortWorker
  <2>3. ASSUME NEW d \in Chunks, VisibilityTimeout(d) \/ ProcessingTimeout(d)
        PROVE  chunk'[c].status = "SUCCESS"
    BY <1>1, <1>4, <2>3 DEF VisibilityTimeout
  <2>4. ASSUME UNCHANGED vars \/ (\E a \in Rows : StoreRow(a))
               \/ (\E w \in Workers, d \in Chunks : Receive(w, d))
        PROVE  chunk'[c].status = "SUCCESS"
    BY <1>1, <2>4 DEF vars, StoreRow, Receive
  <2>5. QED
    BY <2>1, <2>2, <2>3, <2>4 DEF Next

(* No step of any call takes SUCCESS from a chunk.  Every update of a      *)
(* chunk but one names the status it expects; the one that does not is     *)
(* the transaction that sets SUCCESS (myhr.service.ts, processChunk).      *)
THEOREM SuccessIsKept == Spec => SuccessStays
<1>1. TypeInv /\ [Next]_vars =>
         [\A c \in Chunks : chunk[c].status = "SUCCESS" => chunk'[c].status = "SUCCESS"]_vars
  BY SuccessStep
<1>2. QED
  BY <1>1, DeliveryInvHolds, PTL DEF SuccessStays, Spec

-----------------------------------------------------------------------------
(* How often rows are sent and chunks tried.                               *)
(*                                                                         *)
(* Neither bound is inductive: both are about what can still happen        *)
(* without another fault.  A chunk may be claimed again while it is PENDING*)
(* or its claim can be taken back, and a call that owns a chunk may upload *)
(* it, or put it back.  Every such chance has been paid for by the creation*)
(* of the chunk or by a fault, and so has every upload and every attempt.  *)

Amount(b) == IF b THEN 1 ELSE 0

(* The chunk can be claimed without another fault.                         *)
Free(c) ==
    \/ chunk[c].status = "PENDING"
    \/ /\ chunk[c].status = "PROCESSING"
       /\ chunk[c].stale \/ ~\E w \in Workers : Owns(w, c)

BusyWorkers == {w \in Workers : worker[w].pc # "idle"}
Created == {c \in Chunks : chunk[c].status # "NONE"}

(* Only what is finite can be counted.                                     *)
FiniteInv ==
    /\ IsFiniteSet(BusyWorkers) /\ IsFiniteSet(Created)
    /\ \A c \in Chunks : chunk[c].status = "NONE" => chunk[c].payload = {}

Carriers(a) == {c \in Chunks : a \in chunk[c].payload}
FreeCarriers(a) == {c \in Carriers(a) : Free(c)}
MayUpload(w) == worker[w].pc \in {"take", "upload", "fail"}
Uploaders(a) == {w \in Workers : MayUpload(w) /\ a \in chunk[Target(w)].payload}
UploadFaults == faults["aborts"] + faults["errors"] + faults["overruns"]

UploadsPaid(a) ==
    sent[a] + Cardinality(Uploaders(a)) + Cardinality(FreeCarriers(a))
        <= Cardinality(Carriers(a)) + UploadFaults

(* An unfinished call whose message has been given to another one.  It may *)
(* put the chunk back on the strength of an attemptCount read long ago.    *)
Trying == {"read", "reclaim", "claim"} \cup OwnerSteps
Overtaken(c) ==
    {w \in Workers : /\ worker[w].pc \in Trying /\ Target(w) = c
                     /\ message[c].receipt # w}
Chances(c) == Amount(Free(c)) + Cardinality(Overtaken(c))
AttemptFaults == faults["aborts"] + faults["redeliveries"] + faults["overruns"]

(* The call that holds the message knows the attempts, but for those that  *)
(* faults have paid for.                                                   *)
Current(w, c) ==
    worker[w].pc \in Trying \ {"read"} /\ Target(w) = c /\ message[c].receipt = w
AttemptsPaid(c) ==
    /\ chunk[c].attempts <= MaxAttempts + AttemptFaults
    /\ chunk[c].status \in Active =>
          /\ Cardinality(Overtaken(c)) <= AttemptFaults
          /\ chunk[c].attempts + Chances(c) <= MaxAttempts + AttemptFaults
          /\ \A w \in Workers : Current(w, c) =>
                chunk[c].attempts + Chances(c) <= worker[w].attempts + 1 + AttemptFaults

(* A call that is to delete its message, or may still throw, has seen the  *)
(* chunk concluded; a message that nobody handles has no receipt.          *)
ConcludedSeen(w) ==
    \/ worker[w].pc = "delete"
    \/ worker[w].pc \in {"finalize", "tally", "settle"} /\ (worker[w].ack \/ worker[w].inTry)
    => chunk[Target(w)].status \in Terminal
Receipts == \A c \in Chunks : message[c].state # "inflight" => message[c].receipt = None

PaidInv ==
    /\ FiniteInv /\ Receipts
    /\ \A w \in Workers : ConcludedSeen(w)
    /\ \A a \in Rows : UploadsPaid(a)
    /\ \A c \in Chunks : AttemptsPaid(c)

(* Two finite sets that differ in one element at most.                     *)
LEMMA DifferInOne ==
    ASSUME NEW S, NEW T, NEW x, IsFiniteSet(S), S \ {x} = T \ {x}
    PROVE  /\ IsFiniteSet(T) /\ Cardinality(S) \in Nat /\ Cardinality(T) \in Nat
           /\ Cardinality(T) + Amount(x \in S) = Cardinality(S) + Amount(x \in T)
<1>1. /\ IsFiniteSet(S \ {x})
      /\ Cardinality(S \ {x}) = IF x \in S THEN Cardinality(S) - 1 ELSE Cardinality(S)
  BY FS_RemoveElement
<1>2. CASE x \in T
  <2>1. T = (T \ {x}) \cup {x} /\ x \notin T \ {x}
    BY <1>2
  <2>2. IsFiniteSet(T) /\ Cardinality(T) = Cardinality(T \ {x}) + 1
    BY <1>1, <2>1, FS_AddElement
  <2>3. Cardinality(S) \in Nat /\ Cardinality(T) \in Nat
    BY <2>2, FS_CardinalityType
  <2>4. QED
    BY <1>1, <1>2, <2>2, <2>3 DEF Amount
<1>3. CASE x \notin T
  <2>1. T = T \ {x}
    BY <1>3
  <2>2. IsFiniteSet(T) /\ Cardinality(T) = Cardinality(S \ {x})
    BY <1>1, <2>1
  <2>3. Cardinality(S) \in Nat /\ Cardinality(T) \in Nat
    BY <2>2, FS_CardinalityType
  <2>4. QED
    BY <1>1, <1>3, <2>2, <2>3 DEF Amount
<1>4. QED
  BY <1>2, <1>3

(* A set that gains one element at most.                                   *)
LEMMA OneMore ==
    ASSUME NEW S, IsFiniteSet(S), NEW x, NEW T, T \subseteq S \cup {x}
    PROVE  Cardinality(T) \in Nat /\ Cardinality(T) <= Cardinality(S) + 1
<1>1. IsFiniteSet(S \cup {x}) /\ Cardinality(S) \in Nat
  BY FS_AddElement, FS_CardinalityType
<1>2. Cardinality(S \cup {x}) \in Nat /\ Cardinality(S \cup {x}) <= Cardinality(S) + 1
  <2>1. Cardinality(S \cup {x}) = Cardinality(S) \/ Cardinality(S \cup {x}) = Cardinality(S) + 1
    BY FS_AddElement
  <2>2. QED
    BY <1>1, <2>1
<1>3. Cardinality(T) \in Nat /\ Cardinality(T) <= Cardinality(S \cup {x})
  BY <1>1, FS_Subset, FS_CardinalityType
<1>4. QED
  BY <1>1, <1>2, <1>3

LEMMA Counted ==
    ASSUME FiniteInv
    PROVE  /\ \A a \in Rows : /\ IsFiniteSet(Uploaders(a)) /\ Cardinality(Uploaders(a)) \in Nat
                              /\ IsFiniteSet(Carriers(a)) /\ Cardinality(Carriers(a)) \in Nat
                              /\ IsFiniteSet(FreeCarriers(a))
                              /\ Cardinality(FreeCarriers(a)) \in Nat
           /\ \A c \in Chunks : IsFiniteSet(Overtaken(c)) /\ Cardinality(Overtaken(c)) \in Nat
<1>1. ASSUME NEW a \in Rows
      PROVE  Uploaders(a) \subseteq BusyWorkers /\ Carriers(a) \subseteq Created
             /\ FreeCarriers(a) \subseteq Created
  BY DEF FiniteInv, Uploaders, MayUpload, BusyWorkers, Carriers, FreeCarriers, Created
<1>2. ASSUME NEW c \in Chunks
      PROVE  Overtaken(c) \subseteq BusyWorkers
  BY DEF Overtaken, Trying, OwnerSteps, BusyWorkers
<1>3. IsFiniteSet(BusyWorkers) /\ IsFiniteSet(Created)
  BY DEF FiniteInv
<1>4. QED
  BY <1>1, <1>2, <1>3, FS_Subset, FS_CardinalityType

(* What a fault pays.                                                      *)
LEMMA FaultsCounted ==
    ASSUME TypeOK
    PROVE  /\ UploadFaults \in Nat /\ AttemptFaults \in Nat
           /\ UNCHANGED faults => UNCHANGED <<UploadFaults, AttemptFaults>>
           /\ \A kind \in Faults, bound \in Nat : Spend(kind, bound) =>
                 /\ UploadFaults' = UploadFaults + Amount(kind \in {"aborts", "errors", "overruns"})
                 /\ AttemptFaults' =
                        AttemptFaults + Amount(kind \in {"aborts", "redeliveries", "overruns"})
<1>1. faults \in [Faults -> Nat]
  BY DEF TypeOK
<1>2. ASSUME NEW kind \in Faults, NEW bound \in Nat, Spend(kind, bound)
      PROVE  faults'[kind] = faults[kind] + 1
             /\ \A k \in Faults : k # kind => faults'[k] = faults[k]
  BY <1>1, <1>2 DEF Spend
<1>3. \A k \in Faults : faults[k] \in Nat
  BY <1>1
<1>4. QED
  BY <1>2, <1>3 DEF Faults, UploadFaults, AttemptFaults, Amount

-----------------------------------------------------------------------------
(* A processing call only touches its own chunk and its own message.       *)

OnItsChunk(w, c) ==
    /\ c \in Chunks /\ Target(w) = c /\ worker[w].pc # "idle"
    /\ \A v \in Workers : v # w => worker'[v] = worker[v]
    /\ worker'[w].pc # "idle" => worker'[w].chunk = c
    /\ \A d \in Chunks : d # c => chunk'[d] = chunk[d] /\ message'[d] = message[d]
    /\ chunk'[c].payload = chunk[c].payload
    /\ chunk[c].status # "NONE" /\ chunk'[c].status # "NONE"

LEMMA Elsewhere ==
    ASSUME NEW w \in Workers, NEW c, OnItsChunk(w, c), NEW d \in Chunks, d # c
    PROVE  /\ Free(d)' <=> Free(d)
           /\ Overtaken(d)' = Overtaken(d)
           /\ \A v \in Workers : Current(v, d)' <=> Current(v, d)
<1>1. chunk'[d] = chunk[d] /\ message'[d] = message[d]
  BY DEF OnItsChunk
<1>2. ASSUME NEW v \in Workers
      PROVE  /\ Owns(v, d)' <=> Owns(v, d)
             /\ worker[v].pc \in Trying /\ Target(v) = d <=>
                    worker'[v].pc \in Trying /\ worker'[v].chunk = d
             /\ Current(v, d)' <=> Current(v, d)
  <2>1. CASE v # w
    <3>1. worker'[v] = worker[v]
      BY <2>1 DEF OnItsChunk
    <3>2. QED
      BY <1>1, <3>1 DEF Owns, Target, Current
  <2>2. CASE v = w
    <3>1. worker[w].chunk # d /\ (worker'[w].pc # "idle" => worker'[w].chunk # d)
      BY DEF OnItsChunk, Target
    <3>2. "idle" \notin Trying /\ "idle" \notin OwnerSteps
      BY DEF Trying, OwnerSteps
    <3>3. QED
      BY <2>2, <3>1, <3>2 DEF Owns, Target, Current
  <2>3. QED
    BY <2>1, <2>2
<1>3. (\E v \in Workers : Owns(v, d))' <=> \E v \in Workers : Owns(v, d)
  BY <1>2
<1>4. Free(d)' <=> Free(d)
  BY <1>1, <1>3 DEF Free
<1>5. ASSUME NEW v \in Workers
      PROVE  v \in Overtaken(d)' <=> v \in Overtaken(d)
  BY <1>1, <1>2, <1>5 DEF Overtaken, Target
<1>6. Overtaken(d)' = Overtaken(d)
  <2>1. Overtaken(d)' \subseteq Workers /\ Overtaken(d) \subseteq Workers
    BY DEF Overtaken
  <2>2. QED
    BY <1>5, <2>1
<1>7. QED
  BY <1>2, <1>4, <1>6

(* The call goes on, changing by one what may be uploaded, or was.         *)
PaysUploads(w, c, s) ==
    /\ s \in {0, 1}
    /\ \A a \in Rows : sent'[a] = IF a \in chunk[c].payload THEN sent[a] + s ELSE sent[a]
    /\ UploadFaults' \in Nat /\ UploadFaults <= UploadFaults'
    /\ s + Amount(MayUpload(w)') + Amount(Free(c)') + UploadFaults
          <= Amount(MayUpload(w)) + Amount(Free(c)) + UploadFaults'

LEMMA UploadsPaidByWorker ==
    ASSUME TypeInv, FiniteInv, NEW a \in Rows, UploadsPaid(a),
           NEW w \in Workers, NEW c, OnItsChunk(w, c), NEW s, PaysUploads(w, c, s)
    PROVE  UploadsPaid(a)'
<1>1. /\ IsFiniteSet(Uploaders(a)) /\ Cardinality(Uploaders(a)) \in Nat
      /\ IsFiniteSet(FreeCarriers(a)) /\ Cardinality(FreeCarriers(a)) \in Nat
      /\ Cardinality(Carriers(a)) \in Nat /\ sent[a] \in Nat
      /\ UploadFaults \in Nat
  BY Counted, FaultsCounted DEF TypeInv, TypeOK
<1>2. c \in Chunks /\ \A d \in Chunks : chunk'[d].payload = chunk[d].payload
  BY DEF OnItsChunk
<1>3. Carriers(a)' = Carriers(a)
  BY <1>2 DEF Carriers
<1>4. /\ FreeCarriers(a) \ {c} = FreeCarriers(a)' \ {c}
      /\ c \in FreeCarriers(a) <=> a \in chunk[c].payload /\ Free(c)
      /\ c \in FreeCarriers(a)' <=> a \in chunk[c].payload /\ Free(c)'
  <2>1. \A d \in Chunks : d # c => (Free(d)' <=> Free(d))
    BY Elsewhere
  <2>2. \A d \in Chunks : d \in FreeCarriers(a)' <=> a \in chunk[d].payload /\ Free(d)'
    BY <1>2 DEF FreeCarriers, Carriers
  <2>3. \A d \in Chunks : d \in FreeCarriers(a) <=> a \in chunk[d].payload /\ Free(d)
    BY DEF FreeCarriers, Carriers
  <2>4. FreeCarriers(a) \subseteq Chunks /\ FreeCarriers(a)' \subseteq Chunks
    BY DEF FreeCarriers, Carriers
  <2>5. QED
    BY <1>2, <2>1, <2>2, <2>3, <2>4
<1>5. /\ Uploaders(a) \ {w} = Uploaders(a)' \ {w}
      /\ w \in Uploaders(a) <=> MayUpload(w) /\ a \in chunk[c].payload
      /\ w \in Uploaders(a)' <=> MayUpload(w)' /\ a \in chunk[c].payload
  <2>1. \A v \in Workers : v \in Uploaders(a) <=> MayUpload(v) /\ a \in chunk[Target(v)].payload
    BY DEF Uploaders
  <2>2. \A v \in Workers :
           v \in Uploaders(a)' <=> MayUpload(v)' /\ a \in chunk'[worker'[v].chunk].payload
    BY DEF Uploaders, Target
  <2>3. ASSUME NEW v \in Workers, v # w
        PROVE  v \in Uploaders(a) <=> v \in Uploaders(a)'
    <3>1. worker'[v] = worker[v]
      BY <2>3 DEF OnItsChunk
    <3>2. MayUpload(v) => worker[v].chunk \in Chunks
      BY DEF MayUpload, TypeInv, WellFormed
    <3>3. MayUpload(v)' <=> MayUpload(v)
      BY <3>1 DEF MayUpload
    <3>4. QED
      BY <1>2, <2>1, <2>2, <3>1, <3>2, <3>3 DEF Target
  <2>4. MayUpload(w)' => worker'[w].chunk = c
    BY DEF MayUpload, OnItsChunk
  <2>5. Target(w) = c
    BY DEF OnItsChunk
  <2>6. Uploaders(a) \subseteq Workers /\ Uploaders(a)' \subseteq Workers
    BY DEF Uploaders
  <2>7. QED
    BY <1>2, <2>1, <2>2, <2>3, <2>4, <2>5, <2>6
<1>6. /\ Cardinality(FreeCarriers(a)') \in Nat
      /\ Cardinality(FreeCarriers(a)') + Amount(c \in FreeCarriers(a)) =
            Cardinality(FreeCarriers(a)) + Amount(c \in FreeCarriers(a)')
  BY <1>1, <1>4, DifferInOne
<1>7. /\ Cardinality(Uploaders(a)') \in Nat
      /\ Cardinality(Uploaders(a)') + Amount(w \in Uploaders(a)) =
            Cardinality(Uploaders(a)) + Amount(w \in Uploaders(a)')
  BY <1>1, <1>5, DifferInOne
<1>8. /\ Cardinality(FreeCarriers(a))' = Cardinality(FreeCarriers(a)')
      /\ Cardinality(Uploaders(a))' = Cardinality(Uploaders(a)')
      /\ Cardinality(Carriers(a))' = Cardinality(Carriers(a))
  BY <1>3
<1>9. CASE a \in chunk[c].payload
  <2>1. /\ Amount(c \in FreeCarriers(a)) = Amount(Free(c))
        /\ Amount(c \in FreeCarriers(a)') = Amount(Free(c)')
        /\ Amount(w \in Uploaders(a)) = Amount(MayUpload(w))
        /\ Amount(w \in Uploaders(a)') = Amount(MayUpload(w)')
    BY <1>4, <1>5, <1>9 DEF Amount
  <2>2. sent'[a] = sent[a] + s /\ s \in {0, 1} /\ UploadFaults' \in Nat
    BY <1>9 DEF PaysUploads
  <2>3. s + Amount(MayUpload(w)') + Amount(Free(c)') + UploadFaults
            <= Amount(MayUpload(w)) + Amount(Free(c)) + UploadFaults'
    BY DEF PaysUploads
  <2>4. /\ Amount(MayUpload(w)) \in Nat /\ Amount(MayUpload(w)') \in Nat
        /\ Amount(Free(c)) \in Nat /\ Amount(Free(c)') \in Nat
    BY DEF Amount
  <2>5. QED
    BY <1>1, <1>6, <1>7, <1>8, <2>1, <2>2, <2>3, <2>4 DEF UploadsPaid
<1>10. CASE a \notin chunk[c].payload
  <2>1. /\ Amount(c \in FreeCarriers(a)) = 0 /\ Amount(c \in FreeCarriers(a)') = 0
        /\ Amount(w \in Uploaders(a)) = 0 /\ Amount(w \in Uploaders(a)') = 0
    BY <1>4, <1>5, <1>10 DEF Amount
  <2>2. sent'[a] = sent[a] /\ UploadFaults' \in Nat
    BY <1>10 DEF PaysUploads
  <2>3. UploadFaults <= UploadFaults'
    BY DEF PaysUploads
  <2>4. QED
    BY <1>1, <1>6, <1>7, <1>8, <2>1, <2>2, <2>3 DEF UploadsPaid
<1>11. QED
  BY <1>9, <1>10

(* The same for attempts.  What the call knows of them stays true as well, *)
(* or it has just read them, and no other call comes to hold the message.  *)
PaysAttempts(w, c) ==
    chunk'[c].status \in Active =>
        /\ chunk[c].status \in Active
        /\ message'[c] = message[c]
        /\ worker'[w].pc \in Trying => worker[w].pc \in Trying
        /\ chunk'[c].attempts + Amount(Free(c)') + Amount(w \in Overtaken(c)') + AttemptFaults
              <= chunk[c].attempts + Amount(Free(c)) + Amount(w \in Overtaken(c)) + AttemptFaults'
        /\ Current(w, c)' => \/ Current(w, c) /\ worker'[w].attempts = worker[w].attempts
                             \/ worker'[w].attempts = chunk'[c].attempts

LEMMA AttemptsPaidElsewhere ==
    ASSUME MyHrSyncConstants, TypeInv, TypeOK', FiniteInv,
           NEW w \in Workers, NEW c, OnItsChunk(w, c), NEW d \in Chunks, d # c, AttemptsPaid(d),
           AttemptFaults' \in Nat, AttemptFaults <= AttemptFaults'
    PROVE  AttemptsPaid(d)'
<1>t. AttemptFaults \in Nat /\ MaxAttempts \in Nat
      /\ \A v \in Workers : worker[v].attempts \in Nat
  BY FaultsCounted DEF TypeInv, WellFormed, WorkerState, MyHrSyncConstants
<1>n. /\ chunk[d].attempts \in Nat /\ chunk'[d].attempts \in Nat
      /\ Amount(Free(d)) \in Nat
  BY DEF TypeInv, TypeOK, ChunkRow, Amount
<1>1. chunk'[d] = chunk[d] /\ AttemptsPaid(d)
  BY DEF OnItsChunk
<1>2. /\ Amount(Free(d))' = Amount(Free(d)) /\ Cardinality(Overtaken(d))' = Cardinality(Overtaken(d))
      /\ \A v \in Workers : Current(v, d)' <=> Current(v, d)
  BY Elsewhere DEF Amount
<1>3. Chances(d)' = Chances(d) /\ Chances(d) \in Nat /\ Cardinality(Overtaken(d)) \in Nat
  BY <1>n, <1>2, Counted DEF Chances
<1>4. ASSUME NEW v \in Workers, Current(v, d)
      PROVE  worker'[v].attempts = worker[v].attempts
  <2>1. v # w
    BY <1>4 DEF Current, OnItsChunk
  <2>2. QED
    BY <2>1 DEF OnItsChunk
<1>5. chunk'[d].attempts <= MaxAttempts + AttemptFaults'
  BY <1>t, <1>n, <1>1 DEF AttemptsPaid
<1>6. ASSUME chunk'[d].status \in Active
      PROVE  /\ Cardinality(Overtaken(d))' <= AttemptFaults'
             /\ chunk'[d].attempts + Chances(d)' <= MaxAttempts + AttemptFaults'
             /\ \A v \in Workers : Current(v, d)' =>
                   chunk'[d].attempts + Chances(d)' <= worker'[v].attempts + 1 + AttemptFaults'
  <2>1. /\ Cardinality(Overtaken(d)) <= AttemptFaults
        /\ chunk[d].attempts + Chances(d) <= MaxAttempts + AttemptFaults
        /\ \A v \in Workers : Current(v, d) =>
              chunk[d].attempts + Chances(d) <= worker[v].attempts + 1 + AttemptFaults
    BY <1>1, <1>6 DEF AttemptsPaid
  <2>2. QED
    BY <1>t, <1>n, <1>1, <1>2, <1>3, <1>4, <2>1
<1>7. QED
  BY <1>5, <1>6 DEF AttemptsPaid

LEMMA AttemptsPaidByWorker ==
    ASSUME MyHrSyncConstants, TypeInv, TypeOK', FiniteInv, \A d \in Chunks : AttemptsPaid(d),
           NEW w \in Workers, NEW c, OnItsChunk(w, c),
           AttemptFaults' \in Nat, AttemptFaults <= AttemptFaults',
           chunk'[c].status \in Active \/ chunk'[c].attempts = chunk[c].attempts,
           PaysAttempts(w, c)
    PROVE  \A d \in Chunks : AttemptsPaid(d)'
<1>t. AttemptFaults \in Nat /\ MaxAttempts \in Nat
      /\ \A v \in Workers : worker[v].attempts \in Nat
  BY FaultsCounted DEF TypeInv, WellFormed, WorkerState, MyHrSyncConstants
<1>n. \A d \in Chunks : /\ chunk[d].attempts \in Nat /\ chunk'[d].attempts \in Nat
                        /\ Amount(Free(d)) \in Nat
  BY DEF TypeInv, TypeOK, ChunkRow, Amount
<1>c. c \in Chunks
  BY DEF OnItsChunk
<1>1. \A d \in Chunks : d # c => AttemptsPaid(d)'
  BY AttemptsPaidElsewhere
<1>2. AttemptsPaid(c)'
  <2>1. CASE chunk'[c].status \notin Active
    <3>1. chunk[c].attempts <= MaxAttempts + AttemptFaults
      BY <1>c DEF AttemptsPaid
    <3>2. chunk'[c].attempts = chunk[c].attempts /\ chunk[c].attempts \in Nat
      BY <1>n, <1>c, <2>1
    <3>3. chunk'[c].attempts <= MaxAttempts + AttemptFaults'
      BY <1>t, <3>1, <3>2
    <3>4. QED
      BY <2>1, <3>3 DEF AttemptsPaid
  <2>2. CASE chunk'[c].status \in Active
    <3>1. /\ chunk[c].status \in Active /\ message'[c] = message[c]
          /\ worker'[w].pc \in Trying => worker[w].pc \in Trying
          /\ chunk'[c].attempts + Amount(Free(c)') + Amount(w \in Overtaken(c)') + AttemptFaults
               <= chunk[c].attempts + Amount(Free(c)) + Amount(w \in Overtaken(c)) + AttemptFaults'
          /\ Current(w, c)' => \/ Current(w, c) /\ worker'[w].attempts = worker[w].attempts
                               \/ worker'[w].attempts = chunk'[c].attempts
      BY <2>2 DEF PaysAttempts
    <3>2. /\ Cardinality(Overtaken(c)) <= AttemptFaults
          /\ chunk[c].attempts + Chances(c) <= MaxAttempts + AttemptFaults
          /\ \A v \in Workers : Current(v, c) =>
                chunk[c].attempts + Chances(c) <= worker[v].attempts + 1 + AttemptFaults
      BY <1>c, <3>1 DEF AttemptsPaid
    <3>3. ASSUME NEW v \in Workers, v # w
          PROVE  /\ v \in Overtaken(c)' <=> v \in Overtaken(c)
                 /\ Current(v, c)' <=> Current(v, c)
                 /\ worker'[v].attempts = worker[v].attempts
      <4>1. worker'[v] = worker[v]
        BY <3>3 DEF OnItsChunk
      <4>2. QED
        BY <3>1, <4>1 DEF Overtaken, Current, Target
    <3>4. Overtaken(c) \ {w} = Overtaken(c)' \ {w}
      <4>1. Overtaken(c) \subseteq Workers /\ Overtaken(c)' \subseteq Workers
        BY DEF Overtaken
      <4>2. QED
        BY <3>3, <4>1
    <3>5. w \in Overtaken(c)' => w \in Overtaken(c)
      <4>1. w \in Overtaken(c)' => worker'[w].pc \in Trying /\ message'[c].receipt # w
        BY DEF Overtaken
      <4>2. Target(w) = c
        BY DEF OnItsChunk
      <4>3. QED
        BY <3>1, <4>1, <4>2 DEF Overtaken
    <3>6. /\ Cardinality(Overtaken(c)) \in Nat /\ Cardinality(Overtaken(c)') \in Nat
          /\ Cardinality(Overtaken(c)') + Amount(w \in Overtaken(c)) =
                Cardinality(Overtaken(c)) + Amount(w \in Overtaken(c)')
      BY <1>c, <3>4, Counted, DifferInOne
    <3>7. Cardinality(Overtaken(c)') <= Cardinality(Overtaken(c))
      BY <3>5, <3>6 DEF Amount
    <3>8. /\ Chances(c) = Amount(Free(c)) + Cardinality(Overtaken(c))
          /\ Chances(c)' = Amount(Free(c)') + Cardinality(Overtaken(c)')
      BY DEF Chances
    <3>9. Amount(Free(c)') \in {0, 1} /\ Amount(w \in Overtaken(c)') \in Nat
          /\ Amount(w \in Overtaken(c)) \in Nat
      BY DEF Amount
    <3>10. /\ Chances(c) \in Nat /\ Chances(c)' \in Nat
           /\ chunk'[c].attempts + Chances(c)' + AttemptFaults
                <= chunk[c].attempts + Chances(c) + AttemptFaults'
      BY <1>t, <1>n, <1>c, <3>1, <3>6, <3>8, <3>9
    <3>11. chunk'[c].attempts + Chances(c)' <= MaxAttempts + AttemptFaults'
           /\ chunk'[c].attempts <= MaxAttempts + AttemptFaults'
      BY <1>t, <1>n, <1>c, <3>2, <3>10
    <3>12. Cardinality(Overtaken(c)') <= AttemptFaults'
      BY <1>t, <3>2, <3>6, <3>7
    <3>13. ASSUME NEW v \in Workers, Current(v, c)'
           PROVE  chunk'[c].attempts + Chances(c)' <= worker'[v].attempts + 1 + AttemptFaults'
      <4>1. CASE Current(v, c) /\ worker'[v].attempts = worker[v].attempts
        BY <1>t, <1>n, <1>c, <3>2, <3>10, <4>1
      <4>2. CASE worker'[v].attempts = chunk'[c].attempts
        <5>1. Chances(c)' <= 1 + AttemptFaults' /\ Chances(c)' \in Nat
          BY <3>6, <3>8, <3>9, <3>12
        <5>2. chunk'[c].attempts \in Nat
          BY <1>n, <1>c
        <5>3. QED
          BY <4>2, <5>1, <5>2
      <4>3. QED
        BY <3>1, <3>3, <3>13, <4>1, <4>2
    <3>14. QED
      BY <3>11, <3>12, <3>13 DEF AttemptsPaid
  <2>3. QED
    BY <2>1, <2>2
<1>3. QED
  BY <1>1, <1>2

-----------------------------------------------------------------------------
(* The steps of a processing call.                                         *)

LEMMA BusyFacts ==
    ASSUME TypeInv, DeliveryInv, NEW w \in Workers, worker[w].pc # "idle"
    PROVE  /\ Target(w) \in Chunks /\ chunk[Target(w)] \in ChunkRow
           /\ chunk[Target(w)].status # "NONE" /\ message[Target(w)].state # "unsent"
           /\ worker[w] \in WorkerState /\ worker \in [Workers -> WellFormed]
           /\ chunk \in [Chunks -> ChunkRow] /\ message \in [Chunks -> MessageState]
  BY DEF Target, WellFormed, TypeInv, TypeOK, DeliveryInv, WorkerSound, ChunkSound

(* A call that is idle afterwards, or still has its chunk.                 *)
LEMMA Moved ==
    ASSUME TypeInv, NEW w \in Workers, NEW state, Become(w, state),
           state.pc # "idle" => state.chunk = Target(w)
    PROVE  /\ worker'[w] = state
           /\ \A v \in Workers : v # w => worker'[v] = worker[v]
           /\ worker'[w].pc # "idle" => worker'[w].chunk = Target(w)
  BY DEF Become, TypeInv

LEMMA GoToBecomes ==
    ASSUME NEW w \in Workers, NEW step, GoTo(w, step)
    PROVE  Become(w, [worker[w] EXCEPT !.pc = step])
  BY DEF GoTo, Become

(* The chunk and the message of a call that writes only its own.           *)
LEMMA Stays ==
    ASSUME TypeInv, DeliveryInv, NEW w \in Workers, worker[w].pc # "idle",
           \A v \in Workers : v # w => worker'[v] = worker[v],
           worker'[w].pc # "idle" => worker'[w].chunk = Target(w),
           chunk' = chunk \/ \E new : /\ chunk' = [chunk EXCEPT ![Target(w)] = new]
                                      /\ new.payload = chunk[Target(w)].payload
                                      /\ new.status # "NONE",
           message' = message \/ \E new : message' = [message EXCEPT ![Target(w)] = new]
    PROVE  OnItsChunk(w, Target(w))
<1> DEFINE c == Target(w)
<1>1. /\ c \in Chunks /\ chunk[c].status # "NONE"
      /\ chunk \in [Chunks -> ChunkRow] /\ message \in [Chunks -> MessageState]
  BY BusyFacts
<1>2. /\ \A d \in Chunks : d # c => chunk'[d] = chunk[d]
      /\ chunk'[c].payload = chunk[c].payload /\ chunk'[c].status # "NONE"
  <2>1. CASE chunk' = chunk
    BY <1>1, <2>1
  <2>2. CASE chunk' # chunk
    <3>1. PICK new : /\ chunk' = [chunk EXCEPT ![c] = new]
                     /\ new.payload = chunk[c].payload /\ new.status # "NONE"
      BY <2>2
    <3>2. chunk'[c] = new /\ \A d \in Chunks : d # c => chunk'[d] = chunk[d]
      BY <1>1, <3>1
    <3>3. QED
      BY <3>1, <3>2
  <2>3. QED
    BY <2>1, <2>2
<1>3. \A d \in Chunks : d # c => message'[d] = message[d]
  BY <1>1
<1>4. QED
  BY <1>1, <1>2, <1>3 DEF OnItsChunk

(* Nobody comes to be able to claim a chunk that keeps its state and its   *)
(* owner.                                                                  *)
LEMMA NotFreed ==
    ASSUME NEW w \in Workers, NEW c, OnItsChunk(w, c), chunk'[c] = chunk[c],
           Owns(w, c) => Owns(w, c)', Free(c)'
    PROVE  Free(c)
<1>1. ASSUME NEW v \in Workers, Owns(v, c)
      PROVE  Owns(v, c)'
  BY <1>1 DEF OnItsChunk, Owns
<1>2. QED
  BY <1>1 DEF Free

(* A concluded chunk stays concluded, with its attempts.                   *)
LEMMA TerminalStep ==
    ASSUME TypeInv, DeliveryInv, [Next]_vars, NEW c \in Chunks, chunk[c].status \in Terminal
    PROVE  chunk'[c].status \in Terminal /\ chunk'[c].attempts = chunk[c].attempts
<1>t. chunk \in [Chunks -> ChunkRow] /\ \A d \in Chunks : chunk[d] \in ChunkRow
  BY DEF TypeInv, TypeOK
<1>w. \A w \in Workers : worker[w].pc # "idle" => Target(w) \in Chunks
  BY DEF TypeInv, WellFormed, Target
<1>s. chunk[c].status \notin {"NONE", "PENDING", "PROCESSING"}
  BY DEF Terminal
<1>1. CASE chunk'[c] = chunk[c]
  BY <1>1
<1>2. ASSUME NEW p \in Schedulers, CreateChunk(p) \/ MarkJobAsFailed(p)
      PROVE  chunk'[c] = chunk[c]
  <2>1. CASE CreateChunk(p)
    BY <2>1, <1>t, <1>s DEF CreateChunk
  <2>2. CASE MarkJobAsFailed(p)
    BY <2>2, <1>s DEF MarkJobAsFailed, FailActiveChunks, Active
  <2>3. QED
    BY <1>2, <2>1, <2>2
<1>4. ASSUME NEW d \in Chunks, ProcessingTimeout(d)
      PROVE  chunk'[c] = chunk[c]
  BY <1>4, <1>t, <1>s DEF ProcessingTimeout
<1>5. ASSUME NEW w \in Workers, Reclaim(w) \/ Claim(w) \/ FailChunk(w)
      PROVE  chunk'[c] = chunk[c]
  <2>1. Target(w) \in Chunks
    BY <1>5, <1>w DEF Reclaim, Claim, FailChunk, At
  <2>2. QED
    BY <1>5, <1>t, <1>s, <2>1 DEF Reclaim, StaleClaim, Claim, Claimable, FailChunk
<1>6. ASSUME NEW w \in Workers, Conclude(w)
      PROVE  chunk'[c].status \in Terminal /\ chunk'[c].attempts = chunk[c].attempts
  <2>1. Target(w) \in Chunks /\ chunk[Target(w)] \in ChunkRow
    BY <1>6, <1>t, <1>w DEF Conclude, At
  <2>2. chunk' = [chunk EXCEPT ![Target(w)] =
                    [chunk[Target(w)] EXCEPT !.status = "SUCCESS", !.stale = FALSE]]
    BY <1>6, <1>t, <2>1 DEF Conclude
  <2>3. PICK new : new = [chunk[Target(w)] EXCEPT !.status = "SUCCESS", !.stale = FALSE]
    OBVIOUS
  <2>4. new.status = "SUCCESS" /\ new.attempts = chunk[Target(w)].attempts
    BY <2>1, <2>3 DEF ChunkRow
  <2>5. chunk' = [chunk EXCEPT ![Target(w)] = new]
    BY <2>2, <2>3
  <2>6. QED
    BY <1>t, <2>1, <2>4, <2>5 DEF Terminal
<1>7. QED
  <2>1. ASSUME NEW p \in Schedulers,
               \/ Trigger(p) \/ SchedulerStep(p) \/ SchedulingFails(p) \/ AbortScheduler(p)
        PROVE  chunk'[c] = chunk[c]
    BY <1>2, <2>1 DEF SchedulerStep, Trigger, CheckActive, ReadPage, OpenJob,
       AdoptRows, NextPage, SendChunk, SendsDone, SchedulingFails, AbortScheduler
  <2>2. ASSUME NEW w \in Workers, WorkerStep(w) \/ ThrowInTry(w) \/ AbortWorker(w), ~Conclude(w)
        PROVE  chunk'[c] = chunk[c]
    BY <1>5, <2>2 DEF WorkerStep, ReadChunk, Reread, TakeRows, Upload,
       ReleaseRows, FinalizeRead, FinalizeTally, FinalizeSettle, DeleteMessage, ThrowInTry,
       AbortWorker
  <2>3. ASSUME NEW d \in Chunks, VisibilityTimeout(d) \/ ProcessingTimeout(d)
        PROVE  chunk'[c] = chunk[c]
    BY <1>4, <2>3 DEF VisibilityTimeout
  <2>4. ASSUME UNCHANGED vars \/ (\E a \in Rows : StoreRow(a))
               \/ (\E w \in Workers, d \in Chunks : Receive(w, d))
        PROVE  chunk'[c] = chunk[c]
    BY <2>4 DEF vars, StoreRow, Receive
  <2>5. QED
    BY <1>1, <1>6, <2>1, <2>2, <2>3, <2>4 DEF Next

(* A step that neither sends nor counts, and after which no more can be    *)
(* uploaded or tried than before or than a fault has paid for.             *)
LEMMA NothingGained ==
    ASSUME TypeInv, NEW w \in Workers, NEW c, OnItsChunk(w, c),
           UNCHANGED sent,
           chunk'[c].status \in Active =>
              /\ chunk[c].status \in Active /\ message'[c] = message[c]
              /\ worker'[w].pc \in Trying => worker[w].pc \in Trying
              /\ Current(w, c)' => Current(w, c) /\ worker'[w].attempts = worker[w].attempts,
           chunk'[c].attempts = chunk[c].attempts,
           \/ MayUpload(w)' => MayUpload(w)
           \/ UploadFaults' = UploadFaults + 1,
           \/ Free(c)' => Free(c)
           \/ /\ UploadFaults' = UploadFaults + 1 /\ AttemptFaults' = AttemptFaults + 1
              /\ ~MayUpload(w)'
           \/ ~MayUpload(w)' /\ MayUpload(w) /\ w \in Overtaken(c) /\ w \notin Overtaken(c)',
           UploadFaults' \in {UploadFaults, UploadFaults + 1},
           AttemptFaults' \in {AttemptFaults, AttemptFaults + 1}
    PROVE  PaysUploads(w, c, 0) /\ PaysAttempts(w, c)
<1>n. /\ UploadFaults \in Nat /\ AttemptFaults \in Nat /\ \A a \in Rows : sent[a] \in Nat
      /\ chunk[c].attempts \in Nat
  BY FaultsCounted DEF TypeInv, TypeOK, ChunkRow, OnItsChunk
<1>1. PaysUploads(w, c, 0)
  <2>1. 0 + Amount(MayUpload(w)') + Amount(Free(c)') + UploadFaults
          <= Amount(MayUpload(w)) + Amount(Free(c)) + UploadFaults'
    BY <1>n DEF Amount
  <2>2. \A a \in Rows : sent'[a] = IF a \in chunk[c].payload THEN sent[a] + 0 ELSE sent[a]
    BY <1>n
  <2>3. UploadFaults' \in Nat /\ UploadFaults <= UploadFaults'
    BY <1>n
  <2>4. QED
    BY <2>1, <2>2, <2>3 DEF PaysUploads
<1>2. ASSUME chunk'[c].status \in Active
      PROVE  chunk'[c].attempts + Amount(Free(c)') + Amount(w \in Overtaken(c)') + AttemptFaults
              <= chunk[c].attempts + Amount(Free(c)) + Amount(w \in Overtaken(c)) + AttemptFaults'
  <2>1. w \in Overtaken(c)' => w \in Overtaken(c)
    <3>1. w \in Overtaken(c)' => worker'[w].pc \in Trying /\ message'[c].receipt # w
      BY DEF Overtaken
    <3>2. Target(w) = c
      BY DEF OnItsChunk
    <3>3. QED
      BY <1>2, <3>1, <3>2 DEF Overtaken
  <2>2. QED
    BY <1>n, <2>1 DEF Amount
<1>3. QED
  BY <1>1, <1>2 DEF PaysAttempts

(* The fields of a call that moves.                                        *)
LEMMA Became ==
    ASSUME TypeInv, NEW w \in Workers, NEW state, Become(w, state)
    PROVE  worker'[w] = state /\ \A v \in Workers : v # w => worker'[v] = worker[v]
  BY DEF Become, TypeInv

LEMMA WentTo ==
    ASSUME TypeInv, NEW w \in Workers, NEW step, GoTo(w, step)
    PROVE  /\ \A v \in Workers : v # w => worker'[v] = worker[v]
           /\ worker'[w].pc = step /\ worker'[w].chunk = worker[w].chunk
           /\ worker'[w].attempts = worker[w].attempts /\ worker'[w].ack = worker[w].ack
           /\ worker'[w].inTry = worker[w].inTry
  BY DEF GoTo, TypeInv, WellFormed, WorkerState

LEMMA FreshStates ==
    ASSUME NEW c
    PROVE  /\ WorkerIdle.pc = "idle" /\ Rejected.pc = "idle"
           /\ Acknowledging(c).pc = "delete" /\ Acknowledging(c).chunk = c
           /\ AlreadyConcluded(c).pc = "finalize" /\ AlreadyConcluded(c).chunk = c
           /\ Finalizing(c, FALSE).pc = "finalize" /\ Finalizing(c, FALSE).chunk = c
           /\ Finalizing(c, FALSE).ack = FALSE /\ Finalizing(c, FALSE).inTry = FALSE
  BY DEF WorkerIdle, Rejected, Acknowledging, AlreadyConcluded, Finalizing

(* A call that goes on without a claim: it uploads next if it was to take  *)
(* its rows, and is only to delete its message, or in its try block, when  *)
(* the chunk is concluded.                                                 *)
QuietMove(w, c) ==
    /\ \A v \in Workers : v # w => worker'[v] = worker[v]
    /\ worker'[w].pc # "idle" => worker'[w].chunk = c
    /\ worker[w].pc = "take" <=> worker'[w].pc = "upload"
    /\ worker'[w].pc \in {"upload", "reread", "finalize", "tally", "settle", "delete", "idle"}
    /\ worker'[w].pc = "upload" => worker'[w].attempts = worker[w].attempts
    /\ \/ worker'[w].pc \in {"finalize", "tally", "settle"} /\ (worker'[w].ack \/ worker'[w].inTry)
       \/ worker'[w].pc = "delete"
       => chunk[c].status \in Terminal

LEMMA QuietMoves ==
    ASSUME TypeInv, DeliveryInv, NEW w \in Workers, ConcludedSeen(w), NEW c, c = Target(w),
           \/ Reclaim(w) /\ ~StaleClaim(c)
           \/ Claim(w) /\ ~Claimable(c)
           \/ Reread(w) \/ TakeRows(w) \/ ReleaseRows(w) \/ FinalizeRead(w)
           \/ FinalizeTally(w) \/ FinalizeSettle(w) \/ DeleteMessage(w)
    PROVE  QuietMove(w, c)
<1>k. /\ WorkerIdle.pc = "idle" /\ Rejected.pc = "idle"
      /\ Acknowledging(c).pc = "delete" /\ Acknowledging(c).chunk = c
      /\ AlreadyConcluded(c).pc = "finalize" /\ AlreadyConcluded(c).chunk = c
      /\ Finalizing(c, FALSE).pc = "finalize" /\ Finalizing(c, FALSE).chunk = c
      /\ Finalizing(c, FALSE).ack = FALSE /\ Finalizing(c, FALSE).inTry = FALSE
  BY FreshStates
<1>f. worker[w].chunk = c /\ worker[w] \in WorkerState
  BY DEF Target, TypeInv, WellFormed
<1>1. CASE Reclaim(w) /\ ~StaleClaim(c)
  <2>1. worker[w].pc = "reclaim" /\ Become(w, Rejected)
    BY <1>1 DEF Reclaim, At
  <2>2. QED
    BY <1>k, <2>1, Became DEF QuietMove
<1>2. CASE Claim(w) /\ ~Claimable(c)
  <2>1. worker[w].pc = "claim" /\ GoTo(w, "reread")
    BY <1>2 DEF Claim, At
  <2>2. QED
    BY <1>f, <2>1, WentTo DEF QuietMove
<1>3. CASE Reread(w)
  <2>1. worker[w].pc = "reread"
        /\ \/ Become(w, Rejected)
           \/ chunk[c].status \in Terminal /\ Become(w, AlreadyConcluded(c))
    BY <1>3 DEF Reread, At
  <2>2. QED
    BY <1>k, <2>1, Became DEF QuietMove
<1>4. CASE TakeRows(w)
  <2>1. worker[w].pc = "take" /\ Become(w, [worker[w] EXCEPT !.pc = "upload", !.inTry = TRUE])
    BY <1>4 DEF TakeRows, At
  <2>2. PICK state : state = [worker[w] EXCEPT !.pc = "upload", !.inTry = TRUE]
    OBVIOUS
  <2>3. state.pc = "upload" /\ state.chunk = c /\ state.attempts = worker[w].attempts
    BY <1>f, <2>2 DEF WorkerState
  <2>4. worker'[w] = state /\ \A v \in Workers : v # w => worker'[v] = worker[v]
    BY <2>1, <2>2, Became
  <2>5. QED
    BY <2>1, <2>3, <2>4 DEF QuietMove
<1>5. CASE ReleaseRows(w)
  <2>1. worker[w].pc = "release" /\ (Become(w, Rejected) \/ Become(w, Finalizing(c, FALSE)))
    BY <1>5 DEF ReleaseRows, At
  <2>2. QED
    BY <1>k, <2>1, Became DEF QuietMove
<1>d. ASSUME worker[w].pc \in {"finalize", "tally", "settle"}, Become(w, FinalizeDone(w))
      PROVE  QuietMove(w, c)
  <2>1. CASE worker[w].ack
    <3>1. worker'[w] = Acknowledging(c) /\ \A v \in Workers : v # w => worker'[v] = worker[v]
      BY <1>d, <2>1, Became DEF FinalizeDone
    <3>2. chunk[c].status \in Terminal
      BY <1>d, <2>1 DEF ConcludedSeen
    <3>3. QED
      BY <1>d, <1>k, <3>1, <3>2 DEF QuietMove
  <2>2. CASE ~worker[w].ack
    <3>1. worker'[w] = Rejected /\ \A v \in Workers : v # w => worker'[v] = worker[v]
      BY <1>d, <2>2, Became DEF FinalizeDone
    <3>2. QED
      BY <1>d, <1>k, <3>1 DEF QuietMove
  <2>3. QED
    BY <2>1, <2>2
<1>6. CASE FinalizeRead(w)
  <2>1. worker[w].pc = "finalize" /\ (Become(w, FinalizeDone(w)) \/ GoTo(w, "tally"))
    BY <1>6 DEF FinalizeRead, At
  <2>2. CASE GoTo(w, "tally")
    <3>1. /\ \A v \in Workers : v # w => worker'[v] = worker[v]
          /\ worker'[w].pc = "tally" /\ worker'[w].chunk = c /\ worker'[w].ack = worker[w].ack
          /\ worker'[w].inTry = worker[w].inTry
      BY <1>f, <2>2, WentTo
    <3>2. QED
      BY <2>1, <3>1 DEF QuietMove, ConcludedSeen
  <2>3. QED
    BY <1>d, <2>1, <2>2
<1>7. CASE FinalizeTally(w)
  <2>1. worker[w].pc = "tally"
        /\ (\/ Become(w, FinalizeDone(w))
            \/ Become(w, [worker[w] EXCEPT !.pc = "settle", !.verdict = "FAILED"])
            \/ Become(w, [worker[w] EXCEPT !.pc = "settle", !.verdict = "SUCCESS"]))
    BY <1>7 DEF FinalizeTally, At
  <2>2. CASE ~Become(w, FinalizeDone(w))
    <3>1. PICK v \in {"FAILED", "SUCCESS"} :
             Become(w, [worker[w] EXCEPT !.pc = "settle", !.verdict = v])
      BY <2>1, <2>2
    <3>2. PICK state : state = [worker[w] EXCEPT !.pc = "settle", !.verdict = v]
      OBVIOUS
    <3>3. state.pc = "settle" /\ state.chunk = c /\ state.ack = worker[w].ack
          /\ state.inTry = worker[w].inTry
      BY <1>f, <3>2 DEF WorkerState
    <3>4. worker'[w] = state /\ \A u \in Workers : u # w => worker'[u] = worker[u]
      BY <3>1, <3>2, Became
    <3>5. QED
      BY <2>1, <3>3, <3>4 DEF QuietMove, ConcludedSeen
  <2>3. QED
    BY <1>d, <2>1, <2>2
<1>8. CASE FinalizeSettle(w)
  BY <1>d, <1>8 DEF FinalizeSettle, At
<1>9. CASE DeleteMessage(w)
  <2>1. worker[w].pc = "delete" /\ Become(w, WorkerIdle)
    BY <1>9 DEF DeleteMessage, At
  <2>2. QED
    BY <1>k, <2>1, Became DEF QuietMove
<1>10. QED
  BY <1>1, <1>2, <1>3, <1>4, <1>5, <1>6, <1>7, <1>8, <1>9

(* Steps that write no chunk and tell MyHR nothing, and leave no note of   *)
(* attempts.                                                               *)
LEMMA QuietPays ==
    ASSUME TypeInv, DeliveryInv, NEW w \in Workers, ConcludedSeen(w), NEW c, c = Target(w),
           \/ Reclaim(w) /\ ~StaleClaim(c)
           \/ Claim(w) /\ ~Claimable(c)
           \/ Reread(w) \/ TakeRows(w) \/ ReleaseRows(w) \/ FinalizeRead(w)
           \/ FinalizeTally(w) \/ FinalizeSettle(w) \/ DeleteMessage(w)
    PROVE  /\ OnItsChunk(w, c) /\ PaysUploads(w, c, 0) /\ PaysAttempts(w, c)
           /\ chunk'[c].attempts = chunk[c].attempts
           /\ ConcludedSeen(w)'
<1>b. worker[w].pc \in {"reclaim", "claim", "reread", "take", "release", "finalize", "tally",
                        "settle", "delete"}
  BY DEF At, Reclaim, Claim, Reread, TakeRows, ReleaseRows, FinalizeRead, FinalizeTally,
     FinalizeSettle, DeleteMessage
<1>f. c \in Chunks
  BY <1>b, BusyFacts
<1>u. UNCHANGED <<chunk, sent, faults>>
  BY DEF Reclaim, Claim, Reread, TakeRows, ReleaseRows, FinalizeRead, FinalizeTally,
     FinalizeSettle, DeleteMessage
<1>m. \/ UNCHANGED message
      \/ /\ worker[w].pc = "delete"
         /\ message' = [message EXCEPT ![c] = [state |-> "deleted", receipt |-> None]]
  BY DEF At, Reclaim, Claim, Reread, TakeRows, ReleaseRows, FinalizeRead, FinalizeTally,
     FinalizeSettle, DeleteMessage
<1>q. QuietMove(w, c)
  BY QuietMoves
<1>1. /\ \A v \in Workers : v # w => worker'[v] = worker[v]
      /\ worker'[w].pc # "idle" => worker'[w].chunk = c
      /\ worker[w].pc = "take" <=> worker'[w].pc = "upload"
      /\ worker'[w].pc \in {"upload", "reread", "finalize", "tally", "settle", "delete", "idle"}
      /\ worker'[w].pc = "upload" => worker'[w].attempts = worker[w].attempts
  BY <1>q DEF QuietMove
<1>3. OnItsChunk(w, c)
  BY <1>b, <1>u, <1>m, <1>1, Stays
<1>4. /\ worker'[w].pc \in Trying => worker[w].pc = "take" /\ worker'[w].pc = "upload"
      /\ MayUpload(w)' => MayUpload(w)
  BY <1>1 DEF Trying, OwnerSteps, MayUpload
<1>o. Owns(w, c) => Owns(w, c)'
  BY <1>b, <1>1 DEF OwnerSteps, Owns
<1>5. Free(c)' => Free(c)
  BY <1>3, <1>f, <1>o, <1>u, NotFreed
<1>6. chunk[c].status \in Active => message'[c] = message[c]
  <2>1. worker[w].pc = "delete" => chunk[c].status \in Terminal
    BY DEF ConcludedSeen
  <2>2. QED
    BY <1>m, <2>1 DEF Active, Terminal
<1>7. ASSUME chunk'[c].status \in Active, Current(w, c)'
      PROVE  Current(w, c) /\ worker'[w].attempts = worker[w].attempts
  <2>1. worker[w].pc = "take" /\ worker'[w].pc = "upload" /\ message'[c].receipt = w
    BY <1>4, <1>7 DEF Current
  <2>2. message'[c] = message[c]
    BY <1>6, <1>7, <1>u
  <2>3. QED
    BY <1>1, <2>1, <2>2 DEF Current, Trying, OwnerSteps
<1>8. UNCHANGED <<UploadFaults, AttemptFaults>>
  BY <1>u DEF UploadFaults, AttemptFaults
<1>9. PaysUploads(w, c, 0) /\ PaysAttempts(w, c)
  <2>1. worker'[w].pc \in Trying => worker[w].pc \in Trying
    BY <1>4 DEF Trying, OwnerSteps
  <2>2. UNCHANGED sent /\ chunk'[c] = chunk[c]
    BY <1>u
  <2>3. QED
    BY <1>3, <1>4, <1>5, <1>6, <1>7, <1>8, <2>1, <2>2, NothingGained
<1>10. ConcludedSeen(w)'
  BY <1>q, <1>u DEF ConcludedSeen, Target, QuietMove
<1>11. QED
  BY <1>3, <1>9, <1>10, <1>u

(* Claiming uses the chance to claim the chunk up, and makes one attempt.  *)
LEMMA ClaimPays ==
    ASSUME TypeInv, DeliveryInv, NEW w \in Workers, NEW c, c = Target(w),
           Claim(w), Claimable(c)
    PROVE  /\ OnItsChunk(w, c) /\ PaysUploads(w, c, 0) /\ PaysAttempts(w, c)
           /\ chunk'[c].status \in Active /\ ConcludedSeen(w)'
<1>1. worker[w].pc = "claim" /\ GoTo(w, "take") /\ chunk[c].status = "PENDING"
      /\ UNCHANGED <<message, sent, faults>>
  BY DEF Claim, Claimable, At
<1>2. /\ c \in Chunks /\ chunk[c] \in ChunkRow /\ chunk \in [Chunks -> ChunkRow]
  BY <1>1, BusyFacts
<1>3. PICK new : new = [chunk[c] EXCEPT !.status = "PROCESSING", !.stale = FALSE,
                                        !.attempts = @ + 1]
  OBVIOUS
<1>4. /\ new.status = "PROCESSING" /\ ~new.stale /\ new.payload = chunk[c].payload
      /\ new.attempts = chunk[c].attempts + 1
  BY <1>2, <1>3 DEF ChunkRow
<1>5. chunk' = [chunk EXCEPT ![c] = new]
  BY <1>2, <1>3 DEF Claim, Claimable
<1>6. chunk'[c] = new
  BY <1>2, <1>5
<1>7. /\ \A v \in Workers : v # w => worker'[v] = worker[v]
      /\ worker'[w].pc = "take" /\ worker'[w].chunk = c
      /\ worker'[w].attempts = worker[w].attempts
  BY <1>1, WentTo DEF Target
<1>8. OnItsChunk(w, c)
  BY <1>1, <1>4, <1>5, <1>7, Stays
<1>9. Free(c) /\ ~Free(c)' /\ ~MayUpload(w) /\ MayUpload(w)'
  <2>1. Owns(w, c)'
    BY <1>7 DEF Owns, OwnerSteps
  <2>2. QED
    BY <1>1, <1>4, <1>6, <1>7, <2>1 DEF Free, MayUpload
<1>10. /\ UNCHANGED <<UploadFaults, AttemptFaults>> /\ UploadFaults \in Nat
       /\ AttemptFaults \in Nat /\ \A a \in Rows : sent[a] \in Nat
       /\ chunk[c].attempts \in Nat
  BY <1>1, <1>2, FaultsCounted DEF TypeInv, TypeOK, ChunkRow
<1>11. PaysUploads(w, c, 0)
  BY <1>1, <1>9, <1>10 DEF PaysUploads, Amount
<1>12. w \in Overtaken(c)' <=> w \in Overtaken(c)
  <2>1. w \in Overtaken(c)' <=> worker'[w].pc \in Trying /\ worker'[w].chunk = c
                                /\ message'[c].receipt # w
    BY DEF Overtaken, Target
  <2>2. w \in Overtaken(c) <=> worker[w].pc \in Trying /\ message[c].receipt # w
    BY DEF Overtaken
  <2>3. QED
    BY <1>1, <1>7, <2>1, <2>2 DEF Trying, OwnerSteps
<1>13. Current(w, c)' => Current(w, c)
  BY <1>1, <1>7 DEF Current, Trying
<1>14. PaysAttempts(w, c)
  <2>1. /\ Amount(Free(c)') = 0 /\ Amount(Free(c)) = 1
        /\ Amount(w \in Overtaken(c)') = Amount(w \in Overtaken(c))
        /\ Amount(w \in Overtaken(c)) \in Nat
    BY <1>9, <1>12 DEF Amount
  <2>2. chunk'[c].attempts + Amount(Free(c)') + Amount(w \in Overtaken(c)') + AttemptFaults
          <= chunk[c].attempts + Amount(Free(c)) + Amount(w \in Overtaken(c)) + AttemptFaults'
    BY <1>4, <1>6, <1>10, <2>1
  <2>3. worker[w].pc \in Trying /\ chunk[c].status \in Active /\ message'[c] = message[c]
    BY <1>1 DEF Trying, Active
  <2>4. QED
    BY <1>7, <1>13, <2>2, <2>3 DEF PaysAttempts
<1>15. QED
  BY <1>4, <1>6, <1>7, <1>8, <1>11, <1>14 DEF Active, ConcludedSeen

(* A chunk that is taken back could be claimed before: its claim was stale.*)
LEMMA ReclaimPays ==
    ASSUME TypeInv, DeliveryInv, NEW w \in Workers, NEW c, c = Target(w),
           Reclaim(w), StaleClaim(c)
    PROVE  /\ OnItsChunk(w, c) /\ PaysUploads(w, c, 0) /\ PaysAttempts(w, c)
           /\ chunk'[c].attempts = chunk[c].attempts /\ ConcludedSeen(w)'
<1>1. worker[w].pc = "reclaim" /\ GoTo(w, "claim") /\ UNCHANGED <<message, sent, faults>>
      /\ chunk[c].status = "PROCESSING" /\ chunk[c].stale
  BY DEF Reclaim, StaleClaim, At
<1>2. /\ c \in Chunks /\ chunk[c] \in ChunkRow /\ chunk \in [Chunks -> ChunkRow]
  BY <1>1, BusyFacts
<1>3. PICK new : new = [chunk[c] EXCEPT !.status = "PENDING", !.stale = FALSE]
  OBVIOUS
<1>4. /\ new.status = "PENDING" /\ new.payload = chunk[c].payload
      /\ new.attempts = chunk[c].attempts
  BY <1>2, <1>3 DEF ChunkRow
<1>5. chunk' = [chunk EXCEPT ![c] = new]
  BY <1>2, <1>3 DEF Reclaim
<1>6. chunk'[c] = new
  BY <1>2, <1>5
<1>7. /\ \A v \in Workers : v # w => worker'[v] = worker[v]
      /\ worker'[w].pc = "claim" /\ worker'[w].chunk = c
      /\ worker'[w].attempts = worker[w].attempts
  BY <1>1, WentTo DEF Target
<1>8. OnItsChunk(w, c)
  BY <1>1, <1>4, <1>5, <1>7, Stays
<1>9. Free(c) /\ ~MayUpload(w)'
  BY <1>1, <1>7 DEF Free, MayUpload
<1>10. UNCHANGED <<UploadFaults, AttemptFaults>>
  BY <1>1 DEF UploadFaults, AttemptFaults
<1>11. Current(w, c)' => Current(w, c)
  BY <1>1, <1>7 DEF Current, Trying
<1>12. worker[w].pc \in Trying /\ chunk[c].status \in Active /\ message'[c] = message[c]
  BY <1>1 DEF Trying, Active
<1>13. PaysUploads(w, c, 0) /\ PaysAttempts(w, c)
  BY <1>1, <1>4, <1>6, <1>7, <1>8, <1>9, <1>10, <1>11, <1>12, NothingGained
<1>14. QED
  BY <1>4, <1>6, <1>7, <1>8, <1>13 DEF ConcludedSeen

(* Every upload uses a claim up, or an error pays for it.                  *)
LEMMA UploadPays ==
    ASSUME TypeInv, DeliveryInv, MyHrSyncConstants, NEW w \in Workers, NEW c, c = Target(w),
           Upload(w)
    PROVE  /\ OnItsChunk(w, c) /\ PaysAttempts(w, c)
           /\ \E s \in {0, 1} : PaysUploads(w, c, s)
           /\ chunk'[c].attempts = chunk[c].attempts /\ ConcludedSeen(w)'
<1>1. worker[w].pc = "upload" /\ UNCHANGED <<chunk, message>>
  BY DEF Upload, At
<1>2. c \in Chunks /\ \A a \in Rows : sent[a] \in Nat
  BY <1>1, BusyFacts DEF TypeInv, TypeOK
<1>3. /\ UploadFaults \in Nat /\ AttemptFaults \in Nat
      /\ \A bound \in Nat : Spend("errors", bound) =>
            UploadFaults' = UploadFaults + 1 /\ AttemptFaults' = AttemptFaults
      /\ UNCHANGED faults => UNCHANGED <<UploadFaults, AttemptFaults>>
  BY FaultsCounted DEF TypeInv, Faults, Amount
<1>4. /\ \/ GoTo(w, "conclude") /\ UNCHANGED faults
            /\ \A a \in Rows : sent'[a] = IF a \in chunk[c].payload THEN sent[a] + 1 ELSE sent[a]
         \/ GoTo(w, "fail") /\ Spend("errors", MaxErrors)
            /\ \E s \in {0, 1} : \A a \in Rows :
                  sent'[a] = IF a \in chunk[c].payload THEN sent[a] + s ELSE sent[a]
  BY <1>2 DEF Upload
<1>5. /\ \A v \in Workers : v # w => worker'[v] = worker[v]
      /\ worker'[w].pc \in {"conclude", "fail"} /\ worker'[w].chunk = c
      /\ worker'[w].attempts = worker[w].attempts
  BY <1>4, WentTo DEF Target
<1>6. OnItsChunk(w, c)
  BY <1>1, <1>5, Stays
<1>7. Free(c)' => Free(c)
  BY <1>1, <1>2, <1>5, <1>6, NotFreed DEF Owns, OwnerSteps
<1>8. MayUpload(w)
  BY <1>1 DEF MayUpload
<1>9. \E s \in {0, 1} : PaysUploads(w, c, s)
  <2>1. CASE GoTo(w, "conclude")
    <3>1. ~MayUpload(w)'
      BY <2>1, WentTo DEF MayUpload
    <3>2. "conclude" # "fail" /\ worker'[w].pc = "conclude"
      BY <2>1, WentTo
    <3>3. UNCHANGED faults
          /\ \A a \in Rows : sent'[a] = IF a \in chunk[c].payload THEN sent[a] + 1 ELSE sent[a]
      BY <1>4, <3>2, WentTo
    <3>4. /\ Amount(MayUpload(w)) = 1 /\ Amount(MayUpload(w)') = 0
          /\ Amount(Free(c)') <= Amount(Free(c)) /\ Amount(Free(c)) \in Nat
          /\ Amount(Free(c)') \in Nat
      BY <1>7, <1>8, <3>1 DEF Amount
    <3>5. UploadFaults' = UploadFaults /\ UploadFaults \in Nat
      BY <1>3, <3>3
    <3>6. PaysUploads(w, c, 1)
      BY <3>3, <3>4, <3>5 DEF PaysUploads
    <3>7. QED
      BY <3>6
  <2>2. CASE ~GoTo(w, "conclude")
    <3>1. PICK s \in {0, 1} : \A a \in Rows :
                  sent'[a] = IF a \in chunk[c].payload THEN sent[a] + s ELSE sent[a]
      BY <1>4, <2>2
    <3>2. UploadFaults' = UploadFaults + 1
      BY <1>3, <1>4, <2>2 DEF MyHrSyncConstants
    <3>3. PaysUploads(w, c, s)
      BY <1>3, <1>7, <1>8, <3>1, <3>2 DEF PaysUploads, Amount
    <3>4. QED
      BY <3>3
  <2>3. QED
    BY <2>1, <2>2
<1>10. AttemptFaults' = AttemptFaults
  BY <1>3, <1>4 DEF MyHrSyncConstants
<1>11. w \in Overtaken(c)' <=> w \in Overtaken(c)
  <2>1. w \in Overtaken(c)' <=> worker'[w].pc \in Trying /\ worker'[w].chunk = c
                                /\ message'[c].receipt # w
    BY DEF Overtaken, Target
  <2>2. w \in Overtaken(c) <=> worker[w].pc \in Trying /\ message[c].receipt # w
    BY DEF Overtaken
  <2>3. QED
    BY <1>1, <1>5, <2>1, <2>2 DEF Trying, OwnerSteps
<1>12. Current(w, c)' => Current(w, c)
  BY <1>1, <1>5 DEF Current, Trying, OwnerSteps
<1>13. PaysAttempts(w, c)
  <2>1. /\ Amount(Free(c)') <= Amount(Free(c))
        /\ Amount(w \in Overtaken(c)') = Amount(w \in Overtaken(c))
        /\ Amount(w \in Overtaken(c)) \in Nat /\ Amount(Free(c)') \in Nat
        /\ Amount(Free(c)) \in Nat
    BY <1>7, <1>11 DEF Amount
  <2>2. chunk[c].attempts \in Nat /\ chunk'[c] = chunk[c] /\ message'[c] = message[c]
    BY <1>1, <1>2 DEF TypeInv, TypeOK, ChunkRow
  <2>3. chunk'[c].attempts + Amount(Free(c)') + Amount(w \in Overtaken(c)') + AttemptFaults
          <= chunk[c].attempts + Amount(Free(c)) + Amount(w \in Overtaken(c)) + AttemptFaults'
    BY <1>3, <1>10, <2>1, <2>2
  <2>4. worker[w].pc \in Trying
    BY <1>1 DEF Trying, OwnerSteps
  <2>5. QED
    BY <1>5, <1>12, <2>2, <2>3, <2>4 DEF PaysAttempts
<1>14. QED
  BY <1>1, <1>5, <1>6, <1>9, <1>13 DEF ConcludedSeen

(* A concluded chunk cannot be claimed any more.                           *)
LEMMA ConcludePays ==
    ASSUME TypeInv, DeliveryInv, MyHrSyncConstants, NEW w \in Workers, NEW c, c = Target(w),
           Conclude(w)
    PROVE  /\ OnItsChunk(w, c) /\ PaysUploads(w, c, 0) /\ PaysAttempts(w, c)
           /\ chunk'[c].attempts = chunk[c].attempts /\ ConcludedSeen(w)'
<1>1. /\ worker[w].pc = "conclude" /\ UNCHANGED <<message, sent>>
      /\ \/ Become(w, [worker[w] EXCEPT !.pc = "finalize", !.ack = TRUE]) /\ UNCHANGED faults
         \/ GoTo(w, "fail") /\ Spend("errors", MaxErrors)
  BY DEF Conclude, At
<1>2. /\ c \in Chunks /\ chunk[c] \in ChunkRow /\ chunk \in [Chunks -> ChunkRow]
      /\ worker[w] \in WorkerState
  BY <1>1, BusyFacts
<1>3. PICK new : new = [chunk[c] EXCEPT !.status = "SUCCESS", !.stale = FALSE]
  OBVIOUS
<1>4. /\ new.status = "SUCCESS" /\ new.payload = chunk[c].payload
      /\ new.attempts = chunk[c].attempts
  BY <1>2, <1>3 DEF ChunkRow
<1>5. chunk' = [chunk EXCEPT ![c] = new]
  BY <1>2, <1>3 DEF Conclude
<1>6. chunk'[c] = new
  BY <1>2, <1>5
<1>7. /\ \A v \in Workers : v # w => worker'[v] = worker[v]
      /\ worker'[w].pc \in {"finalize", "fail"} /\ worker'[w].chunk = c
      /\ worker'[w].pc = "fail" => Spend("errors", MaxErrors)
  <2>1. CASE GoTo(w, "fail")
    <3>1. /\ \A v \in Workers : v # w => worker'[v] = worker[v]
          /\ worker'[w].pc = "fail" /\ worker'[w].chunk = c
      BY <2>1, WentTo DEF Target
    <3>2. PICK state : state = [worker[w] EXCEPT !.pc = "finalize", !.ack = TRUE]
      OBVIOUS
    <3>3. state.pc = "finalize"
      BY <1>2, <3>2 DEF WorkerState
    <3>4. ~Become(w, state)
      BY <3>1, <3>3, Became
    <3>5. QED
      BY <1>1, <3>1, <3>2, <3>4
  <2>2. CASE ~GoTo(w, "fail")
    <3>1. PICK state : state = [worker[w] EXCEPT !.pc = "finalize", !.ack = TRUE]
      OBVIOUS
    <3>2. state.pc = "finalize" /\ state.chunk = c
      BY <1>2, <3>1 DEF WorkerState, Target
    <3>3. worker'[w] = state /\ \A v \in Workers : v # w => worker'[v] = worker[v]
      BY <1>1, <2>2, <3>1, Became
    <3>4. QED
      BY <3>2, <3>3
  <2>3. QED
    BY <2>1, <2>2
<1>8. OnItsChunk(w, c)
  BY <1>1, <1>4, <1>5, <1>7, Stays
<1>9. ~Free(c)' /\ chunk'[c].status \notin Active /\ chunk'[c].status \in Terminal
  BY <1>4, <1>6 DEF Free, Active, Terminal
<1>10. /\ \/ UNCHANGED <<UploadFaults, AttemptFaults>>
          \/ UploadFaults' = UploadFaults + 1 /\ AttemptFaults' = AttemptFaults
       /\ worker'[w].pc = "fail" => UploadFaults' = UploadFaults + 1
  <2>1. \A bound \in Nat : Spend("errors", bound) =>
            UploadFaults' = UploadFaults + 1 /\ AttemptFaults' = AttemptFaults
    BY FaultsCounted DEF TypeInv, Faults, Amount
  <2>2. UNCHANGED faults => UNCHANGED <<UploadFaults, AttemptFaults>>
    BY DEF UploadFaults, AttemptFaults
  <2>3. QED
    BY <1>1, <1>7, <2>1, <2>2 DEF MyHrSyncConstants
<1>11. MayUpload(w)' => UploadFaults' = UploadFaults + 1
  BY <1>7, <1>10 DEF MayUpload
<1>12. PaysUploads(w, c, 0) /\ PaysAttempts(w, c)
  BY <1>1, <1>4, <1>6, <1>8, <1>9, <1>10, <1>11, NothingGained
<1>13. ConcludedSeen(w)'
  BY <1>7, <1>9 DEF ConcludedSeen, Target
<1>14. QED
  BY <1>4, <1>6, <1>8, <1>12, <1>13

(* A call in the try block fails: an error pays for the chunk being put    *)
(* back.                                                                   *)
LEMMA ThrowPays ==
    ASSUME TypeInv, DeliveryInv, MyHrSyncConstants, NEW w \in Workers, ConcludedSeen(w),
           NEW c, c = Target(w), ThrowInTry(w)
    PROVE  /\ OnItsChunk(w, c) /\ PaysUploads(w, c, 0) /\ PaysAttempts(w, c)
           /\ chunk'[c].attempts = chunk[c].attempts /\ ConcludedSeen(w)'
<1>1. /\ worker[w].pc \in {"conclude", "finalize", "tally", "settle"} /\ worker[w].inTry
      /\ UNCHANGED <<message, sent, chunk>> /\ Spend("errors", MaxErrors)
      /\ Become(w, [worker[w] EXCEPT !.pc = "fail", !.ack = FALSE, !.verdict = "none"])
  BY DEF ThrowInTry
<1>2. c \in Chunks /\ worker[w] \in WorkerState
  BY <1>1, BusyFacts
<1>3. PICK state : state = [worker[w] EXCEPT !.pc = "fail", !.ack = FALSE, !.verdict = "none"]
  OBVIOUS
<1>4. state.pc = "fail" /\ state.chunk = c /\ state.attempts = worker[w].attempts
  BY <1>2, <1>3 DEF WorkerState, Target
<1>5. worker'[w] = state /\ \A v \in Workers : v # w => worker'[v] = worker[v]
  BY <1>1, <1>3, Became
<1>6. OnItsChunk(w, c)
  BY <1>1, <1>4, <1>5, Stays
<1>7. Free(c)' => Free(c)
  BY <1>1, <1>2, <1>4, <1>5, <1>6, NotFreed DEF Owns, OwnerSteps
<1>8. UploadFaults' = UploadFaults + 1 /\ AttemptFaults' = AttemptFaults
  <2>1. \A bound \in Nat : Spend("errors", bound) =>
            UploadFaults' = UploadFaults + 1 /\ AttemptFaults' = AttemptFaults
    BY FaultsCounted DEF TypeInv, Faults, Amount
  <2>2. QED
    BY <1>1, <2>1 DEF MyHrSyncConstants
<1>9. ASSUME chunk[c].status \in Active
      PROVE  worker[w].pc = "conclude" /\ worker[w].pc \in Trying
             /\ (Current(w, c)' => Current(w, c) /\ worker'[w].attempts = worker[w].attempts)
  <2>1. worker[w].pc = "conclude"
    BY <1>1, <1>9 DEF ConcludedSeen, Active, Terminal
  <2>2. QED
    BY <1>1, <1>4, <1>5, <2>1 DEF Current, Trying, OwnerSteps
<1>10. PaysUploads(w, c, 0) /\ PaysAttempts(w, c)
  BY <1>1, <1>6, <1>7, <1>8, <1>9, NothingGained
<1>11. ConcludedSeen(w)'
  BY <1>4, <1>5 DEF ConcludedSeen
<1>12. QED
  BY <1>1, <1>6, <1>10, <1>11

(* A call is cut short: its claim will be taken back.                      *)
LEMMA AbortPays ==
    ASSUME TypeInv, DeliveryInv, MyHrSyncConstants, NEW w \in Workers, NEW c, c = Target(w),
           AbortWorker(w)
    PROVE  /\ OnItsChunk(w, c) /\ PaysUploads(w, c, 0) /\ PaysAttempts(w, c)
           /\ chunk'[c].attempts = chunk[c].attempts /\ ConcludedSeen(w)'
<1>1. /\ worker[w].pc # "idle" /\ UNCHANGED <<message, sent, chunk>>
      /\ Spend("aborts", MaxAborts) /\ Become(w, WorkerIdle)
  BY DEF AbortWorker, At
<1>2. worker'[w].pc = "idle" /\ \A v \in Workers : v # w => worker'[v] = worker[v]
  <2>1. WorkerIdle.pc = "idle"
    BY DEF WorkerIdle
  <2>2. QED
    BY <1>1, <2>1, Became
<1>3. OnItsChunk(w, c)
  BY <1>1, <1>2, Stays
<1>4. UploadFaults' = UploadFaults + 1 /\ AttemptFaults' = AttemptFaults + 1
  <2>1. \A bound \in Nat : Spend("aborts", bound) =>
            UploadFaults' = UploadFaults + 1 /\ AttemptFaults' = AttemptFaults + 1
    BY FaultsCounted DEF TypeInv, Faults, Amount
  <2>2. QED
    BY <1>1, <2>1 DEF MyHrSyncConstants
<1>5. ~MayUpload(w)' /\ worker'[w].pc \notin Trying /\ ~Current(w, c)' /\ ConcludedSeen(w)'
  BY <1>2 DEF MayUpload, Trying, OwnerSteps, Current, ConcludedSeen
<1>6. PaysUploads(w, c, 0) /\ PaysAttempts(w, c)
  BY <1>1, <1>3, <1>4, <1>5, NothingGained
<1>7. QED
  BY <1>1, <1>3, <1>5, <1>6

(* Putting a chunk back on the strength of an old attemptCount: either the *)
(* message has been given to another call, which its redelivery has paid   *)
(* for, or nobody else has the message and the count is good.              *)
LEMMA FailChunkPays ==
    ASSUME TypeInv, TypeOK', DeliveryInv, FiniteInv, MyHrSyncConstants,
           \A d \in Chunks : AttemptsPaid(d),
           NEW w \in Workers, NEW c, c = Target(w), FailChunk(w)
    PROVE  /\ OnItsChunk(w, c) /\ PaysUploads(w, c, 0)
           /\ \A d \in Chunks : AttemptsPaid(d)'
           /\ ConcludedSeen(w)'
<1>1. /\ worker[w].pc = "fail" /\ UNCHANGED <<message, sent, faults>>
      /\ Become(w, [worker[w] EXCEPT !.pc = "release", !.inTry = FALSE])
  BY DEF FailChunk, At
<1>2. /\ c \in Chunks /\ chunk[c] \in ChunkRow /\ chunk \in [Chunks -> ChunkRow]
      /\ worker[w] \in WorkerState
  BY <1>1, BusyFacts
<1>3. PICK state : state = [worker[w] EXCEPT !.pc = "release", !.inTry = FALSE]
  OBVIOUS
<1>4. state.pc = "release" /\ state.chunk = c
  BY <1>2, <1>3 DEF WorkerState, Target
<1>5. worker'[w] = state /\ \A v \in Workers : v # w => worker'[v] = worker[v]
  BY <1>1, <1>3, Became
<1>6. /\ ~MayUpload(w)' /\ worker'[w].pc \notin Trying /\ ~Current(w, c)' /\ ConcludedSeen(w)'
      /\ ~Owns(w, c)' /\ MayUpload(w)
  BY <1>1, <1>4, <1>5 DEF MayUpload, Trying, OwnerSteps, Current, ConcludedSeen, Owns
<1>7. w \notin Overtaken(c)'
  BY <1>6 DEF Overtaken
<1>8. /\ UNCHANGED <<UploadFaults, AttemptFaults>> /\ AttemptFaults \in Nat
      /\ UploadFaults \in Nat
  BY <1>1, FaultsCounted DEF TypeInv
<1>9. CASE chunk[c].status # "PROCESSING"
  <2>1. chunk' = chunk
    BY <1>9 DEF FailChunk
  <2>2. OnItsChunk(w, c)
    BY <1>1, <1>4, <1>5, <2>1, Stays
  <2>3. Free(c)' => Free(c)
    BY <1>9, <2>1 DEF Free
  <2>4. worker[w].pc \in Trying
    BY <1>1 DEF Trying, OwnerSteps
  <2>5. PaysUploads(w, c, 0) /\ PaysAttempts(w, c)
    BY <1>1, <1>6, <1>8, <2>1, <2>2, <2>3, <2>4, NothingGained
  <2>6. \A d \in Chunks : AttemptsPaid(d)'
    BY <1>8, <2>1, <2>2, <2>5, AttemptsPaidByWorker
  <2>7. QED
    BY <1>6, <2>2, <2>5, <2>6
<1>10. CASE chunk[c].status = "PROCESSING"
  <2>1. PICK new : new = [chunk[c] EXCEPT !.stale = FALSE,
                             !.status = IF IsFinalAttempt(w) THEN "FAILED" ELSE "PENDING"]
    OBVIOUS
  <2>2. /\ new.status = IF IsFinalAttempt(w) THEN "FAILED" ELSE "PENDING"
        /\ new.payload = chunk[c].payload /\ new.attempts = chunk[c].attempts
    BY <1>2, <2>1 DEF ChunkRow
  <2>3. chunk' = [chunk EXCEPT ![c] = new]
    BY <1>2, <1>10, <2>1 DEF FailChunk
  <2>4. chunk'[c] = new
    BY <1>2, <2>3
  <2>5. OnItsChunk(w, c)
    BY <1>1, <1>4, <1>5, <2>2, <2>3, Stays
  <2>6. CASE IsFinalAttempt(w) \/ w \in Overtaken(c)
    <3>1. Free(c)' => ~IsFinalAttempt(w)
      BY <2>2, <2>4, <2>6 DEF Free
    <3>2. chunk'[c].status \in Active => chunk[c].status \in Active
      BY <1>10 DEF Active
    <3>3. PaysUploads(w, c, 0) /\ PaysAttempts(w, c)
      BY <1>1, <1>6, <1>7, <1>8, <2>2, <2>4, <2>5, <2>6, <3>1, <3>2, NothingGained
    <3>4. \A d \in Chunks : AttemptsPaid(d)'
      BY <1>8, <2>2, <2>4, <2>5, <3>3, AttemptsPaidByWorker
    <3>5. QED
      BY <1>6, <2>5, <3>3, <3>4
  <2>7. CASE ~IsFinalAttempt(w) /\ w \notin Overtaken(c)
    <3>1. PaysUploads(w, c, 0)
      <4>1. /\ Amount(MayUpload(w)) = 1 /\ Amount(MayUpload(w)') = 0
            /\ Amount(Free(c)) \in {0, 1} /\ Amount(Free(c)') \in {0, 1}
        BY <1>6 DEF Amount
      <4>2. \A a \in Rows : sent'[a] = IF a \in chunk[c].payload THEN sent[a] + 0 ELSE sent[a]
        BY <1>1 DEF TypeInv, TypeOK
      <4>3. QED
        BY <1>8, <4>1, <4>2 DEF PaysUploads
    <3>2. message[c].receipt = w
      BY <1>1, <2>7 DEF Overtaken, Trying, OwnerSteps
    <3>3. Current(w, c) /\ chunk[c].status \in Active
      BY <1>1, <1>10, <3>2 DEF Current, Trying, OwnerSteps, Active
    <3>4. /\ Cardinality(Overtaken(c)) <= AttemptFaults
          /\ chunk[c].attempts + Chances(c) <= worker[w].attempts + 1 + AttemptFaults
      BY <1>2, <3>3 DEF AttemptsPaid
    <3>5. Overtaken(c)' = Overtaken(c)
      <4>1. ASSUME NEW v \in Workers, v # w
            PROVE  v \in Overtaken(c)' <=> v \in Overtaken(c)
        BY <1>1, <1>5, <4>1 DEF Overtaken, Target
      <4>2. Overtaken(c) \subseteq Workers /\ Overtaken(c)' \subseteq Workers
        BY DEF Overtaken
      <4>3. QED
        BY <1>7, <2>7, <4>1, <4>2
    <3>6. Cardinality(Overtaken(c))' = Cardinality(Overtaken(c))
          /\ Cardinality(Overtaken(c)) \in Nat
      BY <1>2, <3>5, Counted
    <3>7. worker[w].attempts + 1 < MaxAttempts /\ worker[w].attempts \in Nat
          /\ MaxAttempts \in Nat /\ chunk[c].attempts \in Nat
      BY <1>2, <2>7 DEF IsFinalAttempt, WorkerState, ChunkRow, MyHrSyncConstants
    <3>8. /\ Amount(Free(c)) \in {0, 1} /\ Amount(Free(c)') \in {0, 1}
          /\ Chances(c) = Amount(Free(c)) + Cardinality(Overtaken(c))
          /\ Chances(c)' = Amount(Free(c)') + Cardinality(Overtaken(c))'
      BY DEF Amount, Chances
    <3>9. /\ chunk'[c].attempts = chunk[c].attempts
          /\ chunk[c].attempts + Chances(c)' <= MaxAttempts + AttemptFaults
          /\ chunk[c].attempts <= MaxAttempts + AttemptFaults
      BY <1>8, <2>2, <2>4, <3>4, <3>6, <3>7, <3>8
    <3>10. \A v \in Workers : ~Current(v, c)'
      BY <1>1, <1>6, <3>2 DEF Current
    <3>11. AttemptsPaid(c)'
      BY <1>8, <3>4, <3>6, <3>9, <3>10 DEF AttemptsPaid
    <3>12. \A d \in Chunks : d # c => AttemptsPaid(d)'
      BY <1>8, <2>5, AttemptsPaidElsewhere
    <3>13. QED
      BY <1>6, <2>5, <3>1, <3>11, <3>12
  <2>8. QED
    BY <2>6, <2>7
<1>11. QED
  BY <1>9, <1>10

(* A call that reads the chunk remembers the attempts made so far.         *)
LEMMA ReadChunkPays ==
    ASSUME TypeInv, DeliveryInv, NEW w \in Workers, NEW c, c = Target(w), ReadChunk(w)
    PROVE  /\ OnItsChunk(w, c) /\ PaysUploads(w, c, 0) /\ PaysAttempts(w, c)
           /\ chunk'[c].attempts = chunk[c].attempts /\ ConcludedSeen(w)'
<1>1. worker[w].pc = "read" /\ UNCHANGED <<message, sent, chunk, faults>>
  BY DEF ReadChunk, At
<1>2. c \in Chunks /\ worker[w] \in WorkerState /\ chunk[c] \in ChunkRow
  BY <1>1, BusyFacts
<1>3. /\ \A v \in Workers : v # w => worker'[v] = worker[v]
      /\ worker'[w].chunk = c
      /\ \/ worker'[w].pc = "finalize" /\ chunk[c].status \in Terminal
         \/ worker'[w].pc \in {"reclaim", "claim"} /\ worker'[w].attempts = chunk[c].attempts
  <2>1. CASE chunk[c].status \in Terminal
    <3>1. Become(w, AlreadyConcluded(c))
      BY <2>1 DEF ReadChunk
    <3>2. AlreadyConcluded(c).pc = "finalize" /\ AlreadyConcluded(c).chunk = c
      BY FreshStates
    <3>3. QED
      BY <2>1, <3>1, <3>2, Became
  <2>2. CASE chunk[c].status \notin Terminal
    <3>1. PICK step \in {"reclaim", "claim"} :
             Become(w, [worker[w] EXCEPT !.attempts = chunk[c].attempts, !.pc = step])
      BY <2>2 DEF ReadChunk
    <3>2. PICK state : state = [worker[w] EXCEPT !.attempts = chunk[c].attempts, !.pc = step]
      OBVIOUS
    <3>3. state.pc = step /\ state.chunk = c /\ state.attempts = chunk[c].attempts
      BY <1>2, <3>2 DEF WorkerState, Target
    <3>4. worker'[w] = state /\ \A v \in Workers : v # w => worker'[v] = worker[v]
      BY <3>1, <3>2, Became
    <3>5. QED
      BY <3>3, <3>4
  <2>3. QED
    BY <2>1, <2>2
<1>4. OnItsChunk(w, c)
  BY <1>1, <1>3, Stays
<1>5. Free(c)' => Free(c)
  BY <1>1, <1>2, <1>4, NotFreed DEF Owns, OwnerSteps
<1>6. ~MayUpload(w)' /\ worker[w].pc \in Trying
  BY <1>1, <1>3 DEF MayUpload, Trying
<1>7. UNCHANGED <<UploadFaults, AttemptFaults>>
  BY <1>1 DEF UploadFaults, AttemptFaults
<1>8. /\ UploadFaults \in Nat /\ AttemptFaults \in Nat /\ chunk[c].attempts \in Nat
      /\ \A a \in Rows : sent[a] \in Nat
  BY <1>2, FaultsCounted DEF TypeInv, TypeOK, ChunkRow
<1>9. PaysUploads(w, c, 0)
  <2>1. /\ Amount(MayUpload(w)') = 0 /\ Amount(MayUpload(w)) \in Nat
        /\ Amount(Free(c)') <= Amount(Free(c)) /\ Amount(Free(c)) \in Nat
        /\ Amount(Free(c)') \in Nat
    BY <1>5, <1>6 DEF Amount
  <2>2. QED
    BY <1>1, <1>7, <1>8, <2>1 DEF PaysUploads
<1>10. PaysAttempts(w, c)
  <2>1. w \in Overtaken(c)' => w \in Overtaken(c)
    <3>1. w \in Overtaken(c)' => message'[c].receipt # w
      BY DEF Overtaken
    <3>2. QED
      BY <1>1, <1>6, <3>1 DEF Overtaken
  <2>2. /\ Amount(Free(c)') <= Amount(Free(c)) /\ Amount(Free(c)) \in Nat
        /\ Amount(Free(c)') \in Nat
        /\ Amount(w \in Overtaken(c)') <= Amount(w \in Overtaken(c))
        /\ Amount(w \in Overtaken(c)') \in Nat /\ Amount(w \in Overtaken(c)) \in Nat
    BY <1>5, <2>1 DEF Amount
  <2>3. chunk'[c].attempts + Amount(Free(c)') + Amount(w \in Overtaken(c)') + AttemptFaults
          <= chunk[c].attempts + Amount(Free(c)) + Amount(w \in Overtaken(c)) + AttemptFaults'
    BY <1>1, <1>7, <1>8, <2>2
  <2>4. Current(w, c)' => worker'[w].attempts = chunk'[c].attempts
    BY <1>1, <1>3 DEF Current, Trying, OwnerSteps
  <2>5. QED
    BY <1>1, <1>6, <2>3, <2>4 DEF PaysAttempts
<1>11. ConcludedSeen(w)'
  BY <1>1, <1>3 DEF ConcludedSeen, Target
<1>12. QED
  BY <1>1, <1>4, <1>9, <1>10, <1>11

-----------------------------------------------------------------------------
(* Steps that are not a processing call's, where at most one chunk becomes *)
(* free and a fault pays for it.                                           *)

UploadsMoved ==
    /\ \A c \in Chunks : chunk'[c].payload = chunk[c].payload
    /\ \A a \in Rows : sent'[a] = sent[a] /\ Uploaders(a)' \subseteq Uploaders(a)
    /\ UploadFaults' \in Nat
    /\ \/ UploadFaults <= UploadFaults' /\ \A c \in Chunks : Free(c)' => Free(c)
       \/ UploadFaults < UploadFaults'
          /\ \E c \in Chunks : \A d \in Chunks : d # c /\ Free(d)' => Free(d)

LEMMA UploadsPaidMoved ==
    ASSUME TypeInv, FiniteInv, UploadsMoved, NEW a \in Rows, UploadsPaid(a)
    PROVE  UploadsPaid(a)'
<1>1. /\ IsFiniteSet(Uploaders(a)) /\ Cardinality(Uploaders(a)) \in Nat
      /\ IsFiniteSet(FreeCarriers(a)) /\ Cardinality(FreeCarriers(a)) \in Nat
      /\ Cardinality(Carriers(a)) \in Nat /\ sent[a] \in Nat
      /\ UploadFaults \in Nat /\ UploadFaults' \in Nat
  BY Counted, FaultsCounted DEF TypeInv, TypeOK, UploadsMoved
<1>2. Carriers(a)' = Carriers(a) /\ sent'[a] = sent[a]
  BY DEF Carriers, UploadsMoved
<1>3. Cardinality(Uploaders(a)') \in Nat /\ Cardinality(Uploaders(a)') <= Cardinality(Uploaders(a))
  BY <1>1, FS_Subset, FS_CardinalityType DEF UploadsMoved
<1>4. /\ Cardinality(FreeCarriers(a)') \in Nat
      /\ Cardinality(FreeCarriers(a)') + UploadFaults
            <= Cardinality(FreeCarriers(a)) + UploadFaults'
  <2>1. CASE UploadFaults <= UploadFaults' /\ \A c \in Chunks : Free(c)' => Free(c)
    <3>1. FreeCarriers(a)' \subseteq FreeCarriers(a)
      BY <1>2, <2>1 DEF FreeCarriers, Carriers
    <3>2. /\ Cardinality(FreeCarriers(a)') \in Nat
          /\ Cardinality(FreeCarriers(a)') <= Cardinality(FreeCarriers(a))
      BY <1>1, <3>1, FS_Subset, FS_CardinalityType
    <3>3. QED
      BY <1>1, <2>1, <3>2
  <2>2. CASE /\ UploadFaults < UploadFaults'
             /\ \E c \in Chunks : \A d \in Chunks : d # c /\ Free(d)' => Free(d)
    <3>1. PICK c \in Chunks : \A d \in Chunks : d # c /\ Free(d)' => Free(d)
      BY <2>2
    <3>2. FreeCarriers(a)' \subseteq FreeCarriers(a) \cup {c}
      BY <1>2, <3>1 DEF FreeCarriers, Carriers
    <3>3. /\ Cardinality(FreeCarriers(a)') \in Nat
          /\ Cardinality(FreeCarriers(a)') <= Cardinality(FreeCarriers(a)) + 1
      BY <1>1, <3>2, OneMore
    <3>4. QED
      BY <1>1, <2>2, <3>3
  <2>3. QED
    BY <2>1, <2>2 DEF UploadsMoved
<1>5. /\ Cardinality(FreeCarriers(a))' = Cardinality(FreeCarriers(a)')
      /\ Cardinality(Uploaders(a))' = Cardinality(Uploaders(a)')
      /\ Cardinality(Carriers(a))' = Cardinality(Carriers(a))
  BY <1>2
<1>6. QED
  BY <1>1, <1>2, <1>3, <1>4, <1>5 DEF UploadsPaid

AttemptsMoved(c) ==
    /\ chunk'[c].attempts = chunk[c].attempts
    /\ AttemptFaults' \in Nat /\ AttemptFaults <= AttemptFaults'
    /\ chunk'[c].status \in Active =>
          /\ chunk[c].status \in Active
          /\ \/ Overtaken(c)' \subseteq Overtaken(c) /\ (Free(c)' => Free(c))
             \/ AttemptFaults < AttemptFaults' /\ Overtaken(c)' \subseteq Overtaken(c)
             \/ AttemptFaults < AttemptFaults' /\ (Free(c)' => Free(c))
                /\ \E w \in Workers : Overtaken(c)' \subseteq Overtaken(c) \cup {w}
          /\ \A w \in Workers : Current(w, c)' =>
                Current(w, c) /\ worker'[w].attempts = worker[w].attempts

LEMMA AttemptsPaidMoved ==
    ASSUME MyHrSyncConstants, TypeInv, FiniteInv, NEW c \in Chunks, AttemptsPaid(c),
           AttemptsMoved(c)
    PROVE  AttemptsPaid(c)'
<1>1. /\ AttemptFaults \in Nat /\ AttemptFaults' \in Nat /\ AttemptFaults <= AttemptFaults'
      /\ MaxAttempts \in Nat /\ chunk[c].attempts \in Nat
      /\ \A w \in Workers : worker[w].attempts \in Nat
      /\ IsFiniteSet(Overtaken(c)) /\ Cardinality(Overtaken(c)) \in Nat
      /\ chunk'[c].attempts = chunk[c].attempts
  BY FaultsCounted, Counted
     DEF TypeInv, TypeOK, ChunkRow, WellFormed, WorkerState, MyHrSyncConstants, AttemptsMoved
<1>2. chunk'[c].attempts <= MaxAttempts + AttemptFaults'
  BY <1>1 DEF AttemptsPaid
<1>3. ASSUME chunk'[c].status \in Active
      PROVE  /\ Cardinality(Overtaken(c)') <= AttemptFaults'
             /\ chunk'[c].attempts + Chances(c)' <= MaxAttempts + AttemptFaults'
             /\ \A w \in Workers : Current(w, c)' =>
                   chunk'[c].attempts + Chances(c)' <= worker'[w].attempts + 1 + AttemptFaults'
  <2>1. /\ Cardinality(Overtaken(c)) <= AttemptFaults
        /\ chunk[c].attempts + Chances(c) <= MaxAttempts + AttemptFaults
        /\ \A w \in Workers : Current(w, c) =>
              chunk[c].attempts + Chances(c) <= worker[w].attempts + 1 + AttemptFaults
    BY <1>3 DEF AttemptsPaid, AttemptsMoved
  <2>2. /\ Amount(Free(c)) \in {0, 1} /\ Amount(Free(c)') \in {0, 1}
        /\ (Free(c)' => Free(c)) => Amount(Free(c)') <= Amount(Free(c))
        /\ Chances(c) = Amount(Free(c)) + Cardinality(Overtaken(c))
        /\ Chances(c)' = Amount(Free(c)') + Cardinality(Overtaken(c)')
    BY DEF Amount, Chances
  <2>3. ASSUME Overtaken(c)' \subseteq Overtaken(c)
        PROVE  /\ Cardinality(Overtaken(c)') \in Nat
               /\ Cardinality(Overtaken(c)') <= Cardinality(Overtaken(c))
    BY <1>1, <2>3, FS_Subset, FS_CardinalityType
  <2>4. ASSUME NEW w \in Workers, Overtaken(c)' \subseteq Overtaken(c) \cup {w}
        PROVE  /\ Cardinality(Overtaken(c)') \in Nat
               /\ Cardinality(Overtaken(c)') <= Cardinality(Overtaken(c)) + 1
    BY <1>1, <2>4, OneMore
  <2>5. /\ Cardinality(Overtaken(c)') \in Nat /\ Chances(c) \in Nat /\ Chances(c)' \in Nat
        /\ Cardinality(Overtaken(c)') + AttemptFaults
              <= Cardinality(Overtaken(c)) + AttemptFaults'
        /\ Chances(c)' + AttemptFaults <= Chances(c) + AttemptFaults'
    <3>1. CASE Overtaken(c)' \subseteq Overtaken(c) /\ (Free(c)' => Free(c))
      BY <1>1, <2>2, <2>3, <3>1
    <3>2. CASE AttemptFaults < AttemptFaults' /\ Overtaken(c)' \subseteq Overtaken(c)
      BY <1>1, <2>2, <2>3, <3>2
    <3>3. CASE AttemptFaults < AttemptFaults' /\ (Free(c)' => Free(c))
               /\ \E w \in Workers : Overtaken(c)' \subseteq Overtaken(c) \cup {w}
      BY <1>1, <2>2, <2>4, <3>3
    <3>4. QED
      BY <1>3, <3>1, <3>2, <3>3 DEF AttemptsMoved
  <2>6. \A w \in Workers : Current(w, c)' =>
            Current(w, c) /\ worker'[w].attempts = worker[w].attempts
    BY <1>3 DEF AttemptsMoved
  <2>7. ASSUME NEW w \in Workers, Current(w, c)'
        PROVE  chunk'[c].attempts + Chances(c)' <= worker'[w].attempts + 1 + AttemptFaults'
    BY <1>1, <2>1, <2>5, <2>6, <2>7
  <2>8. QED
    BY <1>1, <2>1, <2>5, <2>7
<1>4. Cardinality(Overtaken(c))' = Cardinality(Overtaken(c)')
  OBVIOUS
<1>5. QED
  BY <1>2, <1>3, <1>4 DEF AttemptsPaid

(* A step after which nothing more can be claimed, and every call and      *)
(* every receipt is as it was.                                             *)
LEMMA NothingNew ==
    ASSUME MyHrSyncConstants, TypeInv, FiniteInv, UNCHANGED <<worker, sent>>,
           \A c \in Chunks : /\ chunk'[c].payload = chunk[c].payload
                             /\ chunk'[c].attempts = chunk[c].attempts
                             /\ chunk'[c].status \in Active => chunk'[c] = chunk[c]
                             /\ message'[c].receipt = message[c].receipt,
           UploadFaults' \in Nat, UploadFaults <= UploadFaults',
           AttemptFaults' \in Nat, AttemptFaults <= AttemptFaults'
    PROVE  /\ \A a \in Rows : UploadsPaid(a) => UploadsPaid(a)'
           /\ \A c \in Chunks : AttemptsPaid(c) => AttemptsPaid(c)'
<1>1. ASSUME NEW c \in Chunks, Free(c)'
      PROVE  Free(c)
  <2>1. chunk'[c] = chunk[c]
    BY <1>1 DEF Free, Active
  <2>2. \A w \in Workers : Owns(w, c)' <=> Owns(w, c)
    BY DEF Owns
  <2>3. QED
    BY <1>1, <2>1, <2>2 DEF Free
<1>2. \A a \in Rows : Uploaders(a)' = Uploaders(a)
  <2>1. \A w \in Workers : MayUpload(w)' <=> MayUpload(w)
    BY DEF MayUpload
  <2>2. \A w \in Workers : MayUpload(w) => Target(w) \in Chunks /\ worker'[w].chunk = Target(w)
    BY DEF MayUpload, TypeInv, WellFormed, Target
  <2>3. QED
    BY <2>1, <2>2 DEF Uploaders, Target
<1>3. UploadsMoved
  BY <1>1, <1>2 DEF UploadsMoved
<1>4. ASSUME NEW c \in Chunks
      PROVE  Overtaken(c)' = Overtaken(c) /\ \A w \in Workers : Current(w, c)' <=> Current(w, c)
  BY DEF Overtaken, Current, Target
<1>5. \A c \in Chunks : AttemptsMoved(c)
  BY <1>1, <1>4 DEF AttemptsMoved
<1>6. QED
  BY <1>3, <1>5, UploadsPaidMoved, AttemptsPaidMoved

(* A message goes to an idle call: whoever is still at work on its chunk   *)
(* had lost it before.                                                     *)
LEMMA ReceivePays ==
    ASSUME MyHrSyncConstants, TypeInv, FiniteInv, Receipts,
           NEW w \in Workers, NEW c \in Chunks, Receive(w, c)
    PROVE  /\ \A a \in Rows : UploadsPaid(a) => UploadsPaid(a)'
           /\ \A d \in Chunks : AttemptsPaid(d) => AttemptsPaid(d)'
<1>1. /\ worker[w].pc = "idle" /\ message[c].state = "visible"
      /\ message' = [message EXCEPT ![c] = [state |-> "inflight", receipt |-> w]]
      /\ Become(w, [WorkerIdle EXCEPT !.pc = "read", !.chunk = c])
      /\ UNCHANGED <<chunk, sent, faults>>
  BY DEF Receive, Become
<1>2. PICK state : state = [WorkerIdle EXCEPT !.pc = "read", !.chunk = c]
  OBVIOUS
<1>3. state.pc = "read" /\ state.chunk = c
  BY <1>2 DEF WorkerIdle
<1>4. worker'[w] = state /\ \A v \in Workers : v # w => worker'[v] = worker[v]
  BY <1>1, <1>2, Became
<1>5. /\ message'[c].receipt = w /\ message[c].receipt = None
      /\ \A d \in Chunks : d # c => message'[d] = message[d]
      /\ None \notin Workers
  <2>1. message \in [Chunks -> MessageState]
    BY DEF TypeInv, TypeOK
  <2>2. QED
    BY <1>1, <2>1 DEF Receipts, MyHrSyncConstants
<1>6. /\ UNCHANGED <<UploadFaults, AttemptFaults>> /\ UploadFaults \in Nat
      /\ AttemptFaults \in Nat
  BY <1>1, FaultsCounted DEF TypeInv
<1>7. \A v \in Workers, d \in Chunks : Owns(v, d)' <=> Owns(v, d)
  BY <1>1, <1>3, <1>4 DEF Owns, OwnerSteps
<1>8. \A d \in Chunks : Free(d)' <=> Free(d)
  BY <1>1, <1>7 DEF Free
<1>9. ASSUME NEW a \in Rows
      PROVE  Uploaders(a)' \subseteq Uploaders(a)
  BY <1>1, <1>3, <1>4 DEF Uploaders, MayUpload, Target
<1>10. UploadsMoved
  BY <1>1, <1>6, <1>8, <1>9 DEF UploadsMoved
<1>11. ASSUME NEW d \in Chunks, NEW v \in Workers
       PROVE  /\ v \in Overtaken(d)' => v \in Overtaken(d)
              /\ Current(v, d)' => Current(v, d) /\ worker'[v].attempts = worker[v].attempts
  <2>1. v \in Overtaken(d)' <=> worker'[v].pc \in Trying /\ worker'[v].chunk = d
                                /\ message'[d].receipt # v
    BY DEF Overtaken, Target
  <2>2. v \in Overtaken(d) <=> worker[v].pc \in Trying /\ worker[v].chunk = d
                               /\ message[d].receipt # v
    BY DEF Overtaken, Target
  <2>3. CASE v = w
    <3>1. v \in Overtaken(d)' => d = c
      BY <1>3, <1>4, <2>1, <2>3
    <3>2. v \notin Overtaken(d)'
      BY <1>5, <2>1, <2>3, <3>1
    <3>3. ~Current(v, d)'
      BY <1>3, <1>4, <2>3 DEF Current
    <3>4. QED
      BY <3>2, <3>3
  <2>4. CASE v # w
    <3>1. worker'[v] = worker[v] /\ message[c].receipt # v
      BY <1>4, <1>5, <2>4
    <3>2. CASE d = c
      BY <1>5, <2>1, <2>2, <2>4, <3>1, <3>2 DEF Current
    <3>3. CASE d # c
      <4>1. message'[d] = message[d]
        BY <1>5, <3>3
      <4>2. QED
        BY <2>1, <2>2, <3>1, <4>1 DEF Current, Target
    <3>4. QED
      BY <3>2, <3>3
  <2>5. QED
    BY <2>3, <2>4
<1>12. ASSUME NEW d \in Chunks
       PROVE  AttemptsMoved(d)
  <2>1. Overtaken(d)' \subseteq Overtaken(d)
    BY <1>11 DEF Overtaken
  <2>2. QED
    BY <1>1, <1>6, <1>8, <1>11, <2>1 DEF AttemptsMoved
<1>13. QED
  BY <1>10, <1>12, UploadsPaidMoved, AttemptsPaidMoved

(* A message that comes back while it is handled has one call lose it, and *)
(* the redelivery pays for what that call may still do.                    *)
LEMMA RedeliveryPays ==
    ASSUME MyHrSyncConstants, TypeInv, FiniteInv, NEW c \in Chunks, VisibilityTimeout(c)
    PROVE  /\ \A a \in Rows : UploadsPaid(a) => UploadsPaid(a)'
           /\ \A d \in Chunks : AttemptsPaid(d) => AttemptsPaid(d)'
<1>1. /\ message' = [message EXCEPT ![c] = [state |-> "visible", receipt |-> None]]
      /\ UNCHANGED <<chunk, sent, worker>>
      /\ IF BeingHandled(c) THEN Spend("redeliveries", MaxRedeliveries) ELSE UNCHANGED faults
  BY DEF VisibilityTimeout
<1>2. /\ message'[c].receipt = None /\ \A d \in Chunks : d # c => message'[d] = message[d]
      /\ None \notin Workers
  <2>1. message \in [Chunks -> MessageState]
    BY DEF TypeInv, TypeOK
  <2>2. QED
    BY <1>1, <2>1 DEF MyHrSyncConstants
<1>3. /\ UploadFaults' = UploadFaults /\ UploadFaults \in Nat /\ AttemptFaults \in Nat
      /\ AttemptFaults' = AttemptFaults + Amount(BeingHandled(c))
  <2>1. /\ UploadFaults \in Nat /\ AttemptFaults \in Nat
        /\ UNCHANGED faults => UNCHANGED <<UploadFaults, AttemptFaults>>
        /\ \A bound \in Nat : Spend("redeliveries", bound) =>
              UploadFaults' = UploadFaults /\ AttemptFaults' = AttemptFaults + 1
    BY FaultsCounted DEF TypeInv, Faults, Amount
  <2>2. MaxRedeliveries \in Nat
    BY DEF MyHrSyncConstants
  <2>3. QED
    BY <1>1, <2>1, <2>2 DEF Amount
<1>4. \A d \in Chunks : Free(d)' <=> Free(d)
  <2>1. \A v \in Workers, d \in Chunks : Owns(v, d)' <=> Owns(v, d)
    BY <1>1 DEF Owns
  <2>2. QED
    BY <1>1, <2>1 DEF Free
<1>5. \A a \in Rows : Uploaders(a)' = Uploaders(a)
  BY <1>1 DEF Uploaders, MayUpload, Target
<1>6. UploadsMoved
  BY <1>1, <1>3, <1>4, <1>5 DEF UploadsMoved
<1>7. ASSUME NEW d \in Chunks, NEW v \in Workers
      PROVE  /\ v \in Overtaken(d)' =>
                   \/ v \in Overtaken(d)
                   \/ d = c /\ message[c].receipt = v /\ worker[v].chunk = c
             /\ Current(v, d)' => Current(v, d) /\ worker'[v].attempts = worker[v].attempts
  <2>1. v \in Overtaken(d)' <=> worker[v].pc \in Trying /\ worker[v].chunk = d
                                /\ message'[d].receipt # v
    BY <1>1 DEF Overtaken, Target
  <2>2. v \in Overtaken(d) <=> worker[v].pc \in Trying /\ worker[v].chunk = d
                               /\ message[d].receipt # v
    BY DEF Overtaken, Target
  <2>3. CASE d = c
    BY <1>2, <2>1, <2>2, <2>3 DEF Current
  <2>4. CASE d # c
    <3>1. message'[d] = message[d]
      BY <1>2, <2>4
    <3>2. QED
      BY <1>1, <2>1, <2>2, <3>1 DEF Current, Target
  <2>5. QED
    BY <2>3, <2>4
<1>8. ASSUME NEW d \in Chunks
      PROVE  AttemptsMoved(d)
  <2>1. CASE BeingHandled(c)
    <3>1. PICK w \in Workers : message[c].receipt = w
      BY <2>1 DEF BeingHandled
    <3>2. Overtaken(d)' \subseteq Overtaken(d) \cup {w}
      <4>1. Overtaken(d)' \subseteq Workers
        BY DEF Overtaken
      <4>2. QED
        BY <1>7, <3>1, <4>1
    <3>3. AttemptFaults' = AttemptFaults + 1
      BY <1>3, <2>1 DEF Amount
    <3>4. QED
      BY <1>1, <1>3, <1>4, <1>7, <3>2, <3>3 DEF AttemptsMoved
  <2>2. CASE ~BeingHandled(c)
    <3>1. Overtaken(d)' \subseteq Overtaken(d)
      <4>1. Overtaken(d)' \subseteq Workers
        BY DEF Overtaken
      <4>2. QED
        BY <1>7, <2>2, <4>1 DEF BeingHandled
    <3>2. AttemptFaults' = AttemptFaults
      BY <1>3, <2>2 DEF Amount
    <3>3. QED
      BY <1>1, <1>3, <1>4, <1>7, <3>1, <3>2 DEF AttemptsMoved
  <2>3. QED
    BY <2>1, <2>2
<1>9. QED
  BY <1>6, <1>8, UploadsPaidMoved, AttemptsPaidMoved

(* A claim that grows stale frees the chunk, and has been paid for unless  *)
(* nobody is working on it: then it could have been taken back anyway.     *)
LEMMA OverrunPays ==
    ASSUME MyHrSyncConstants, TypeInv, FiniteInv, NEW c \in Chunks, ProcessingTimeout(c)
    PROVE  /\ \A a \in Rows : UploadsPaid(a) => UploadsPaid(a)'
           /\ \A d \in Chunks : AttemptsPaid(d) => AttemptsPaid(d)'
<1>1. /\ chunk[c].status = "PROCESSING" /\ UNCHANGED <<message, sent, worker>>
      /\ IF \E w \in Workers : Owns(w, c)
         THEN Spend("overruns", MaxOverruns) ELSE UNCHANGED faults
  BY DEF ProcessingTimeout
<1>2. chunk \in [Chunks -> ChunkRow] /\ chunk[c] \in ChunkRow
  BY DEF TypeInv, TypeOK
<1>3. PICK new : new = [chunk[c] EXCEPT !.stale = TRUE]
  OBVIOUS
<1>4. /\ new.status = "PROCESSING" /\ new.payload = chunk[c].payload
      /\ new.attempts = chunk[c].attempts
  BY <1>1, <1>2, <1>3 DEF ChunkRow
<1>5. chunk' = [chunk EXCEPT ![c] = new]
  BY <1>2, <1>3 DEF ProcessingTimeout
<1>6. chunk'[c] = new /\ \A d \in Chunks : d # c => chunk'[d] = chunk[d]
  BY <1>2, <1>5
<1>7. \A d \in Chunks : /\ chunk'[d].payload = chunk[d].payload
                        /\ chunk'[d].attempts = chunk[d].attempts
                        /\ chunk'[d].status = chunk[d].status
  BY <1>1, <1>4, <1>6
<1>8. /\ UploadFaults \in Nat /\ AttemptFaults \in Nat
      /\ UploadFaults' = UploadFaults + Amount(\E w \in Workers : Owns(w, c))
      /\ AttemptFaults' = AttemptFaults + Amount(\E w \in Workers : Owns(w, c))
  <2>1. /\ UploadFaults \in Nat /\ AttemptFaults \in Nat
        /\ UNCHANGED faults => UNCHANGED <<UploadFaults, AttemptFaults>>
        /\ \A bound \in Nat : Spend("overruns", bound) =>
              UploadFaults' = UploadFaults + 1 /\ AttemptFaults' = AttemptFaults + 1
    BY FaultsCounted DEF TypeInv, Faults, Amount
  <2>2. MaxOverruns \in Nat
    BY DEF MyHrSyncConstants
  <2>3. QED
    BY <1>1, <2>1, <2>2 DEF Amount
<1>9. /\ \A d \in Chunks : d # c /\ Free(d)' => Free(d)
      /\ ~(\E w \in Workers : Owns(w, c)) => Free(c)
  <2>1. \A v \in Workers, d \in Chunks : Owns(v, d)' <=> Owns(v, d)
    BY <1>1 DEF Owns
  <2>2. QED
    BY <1>1, <1>6, <2>1 DEF Free
<1>10. \A a \in Rows : Uploaders(a)' \subseteq Uploaders(a)
  <2>1. \A w \in Workers : MayUpload(w)' <=> MayUpload(w)
    BY <1>1 DEF MayUpload
  <2>2. \A w \in Workers : MayUpload(w) => Target(w) \in Chunks /\ worker'[w].chunk = Target(w)
    BY <1>1 DEF MayUpload, TypeInv, WellFormed, Target
  <2>3. QED
    BY <1>7, <2>1, <2>2 DEF Uploaders, Target
<1>11. \A d \in Chunks, w \in Workers : Current(w, d)' <=> Current(w, d)
  BY <1>1 DEF Current, Target
<1>12. \A d \in Chunks : Overtaken(d)' = Overtaken(d)
  BY <1>1 DEF Overtaken, Target
<1>n. /\ UploadFaults \in Nat /\ AttemptFaults \in Nat
      /\ (\A a \in Rows : sent'[a] = sent[a]) /\ (\A w \in Workers : worker'[w] = worker[w])
  BY <1>1, <1>8
<1>13. CASE \E w \in Workers : Owns(w, c)
  <2>1. UploadFaults' = UploadFaults + 1 /\ AttemptFaults' = AttemptFaults + 1
    BY <1>8, <1>13 DEF Amount
  <2>2. UploadsMoved
    <3>1. UploadFaults < UploadFaults' /\ UploadFaults' \in Nat
      BY <1>n, <2>1
    <3>2. QED
      BY <1>n, <1>7, <1>9, <1>10, <3>1 DEF UploadsMoved
  <2>3. \A d \in Chunks : AttemptsMoved(d)
    <3>1. AttemptFaults < AttemptFaults' /\ AttemptFaults <= AttemptFaults'
          /\ AttemptFaults' \in Nat
      BY <1>n, <2>1
    <3>2. QED
      BY <1>n, <1>7, <1>11, <1>12, <3>1 DEF AttemptsMoved
  <2>4. QED
    BY <2>2, <2>3, UploadsPaidMoved, AttemptsPaidMoved
<1>14. CASE ~\E w \in Workers : Owns(w, c)
  <2>1. UploadFaults' = UploadFaults /\ AttemptFaults' = AttemptFaults
    BY <1>8, <1>14 DEF Amount
  <2>2. \A d \in Chunks : Free(d)' => Free(d)
    BY <1>9, <1>14
  <2>3. UploadsMoved
    <3>1. UploadFaults <= UploadFaults' /\ UploadFaults' \in Nat
      BY <1>n, <2>1
    <3>2. QED
      BY <1>n, <1>7, <1>10, <2>2, <3>1 DEF UploadsMoved
  <2>4. \A d \in Chunks : AttemptsMoved(d)
    <3>1. AttemptFaults <= AttemptFaults' /\ AttemptFaults' \in Nat
      BY <1>n, <2>1
    <3>2. QED
      BY <1>n, <1>7, <1>11, <1>12, <2>2, <3>1 DEF AttemptsMoved
  <2>5. QED
    BY <2>3, <2>4, UploadsPaidMoved, AttemptsPaidMoved
<1>15. QED
  BY <1>13, <1>14

(* A new chunk pays for its first upload and its first attempt.            *)
LEMMA CreatingPays ==
    ASSUME MyHrSyncConstants, TypeInv, DeliveryInv, FiniteInv,
           NEW p \in Schedulers, CreateChunk(p)
    PROVE  /\ \A a \in Rows : UploadsPaid(a) => UploadsPaid(a)'
           /\ \A d \in Chunks : AttemptsPaid(d) => AttemptsPaid(d)'
<1>1. PICK c \in Chunks :
         /\ chunk[c].status = "NONE"
         /\ chunk' = [chunk EXCEPT ![c] = [status |-> "PENDING", job |-> scheduler[p].job,
                         payload |-> scheduler[p].page, attempts |-> 0, stale |-> FALSE]]
  BY DEF CreateChunk
<1>2. UNCHANGED <<message, sent, worker, faults>>
  BY DEF CreateChunk
<1>3. /\ chunk'[c].status = "PENDING" /\ chunk'[c].attempts = 0
      /\ \A d \in Chunks : d # c => chunk'[d] = chunk[d]
      /\ chunk[c].payload = {}
  BY <1>1 DEF TypeInv, TypeOK, FiniteInv
<1>4. \A w \in Workers : worker[w].pc # "idle" => Target(w) \in Chunks /\ Target(w) # c
  BY <1>1, BusyFacts
<1>5. /\ UNCHANGED <<UploadFaults, AttemptFaults>> /\ UploadFaults \in Nat
      /\ AttemptFaults \in Nat
  BY <1>2, FaultsCounted DEF TypeInv
<1>6. \A d \in Chunks : d # c => (Free(d)' <=> Free(d))
  <2>1. \A v \in Workers, d \in Chunks : Owns(v, d)' <=> Owns(v, d)
    BY <1>2 DEF Owns
  <2>2. QED
    BY <1>3, <2>1 DEF Free
<1>7. ~Free(c) /\ Free(c)'
  BY <1>1, <1>3 DEF Free
<1>8. ASSUME NEW a \in Rows, UploadsPaid(a)
      PROVE  UploadsPaid(a)'
  <2>1. /\ IsFiniteSet(Carriers(a)) /\ Cardinality(Carriers(a)) \in Nat
        /\ IsFiniteSet(FreeCarriers(a)) /\ Cardinality(FreeCarriers(a)) \in Nat
        /\ Cardinality(Uploaders(a)) \in Nat /\ sent[a] \in Nat
    BY Counted DEF TypeInv, TypeOK
  <2>2. Uploaders(a)' = Uploaders(a)
    <3>1. \A w \in Workers : MayUpload(w)' <=> MayUpload(w)
      BY <1>2 DEF MayUpload
    <3>2. \A w \in Workers : MayUpload(w) =>
             Target(w) \in Chunks /\ Target(w) # c /\ worker'[w].chunk = Target(w)
      BY <1>2, <1>4 DEF MayUpload, Target
    <3>3. QED
      BY <1>3, <3>1, <3>2 DEF Uploaders, Target
  <2>3. c \notin Carriers(a) /\ c \notin FreeCarriers(a)
    BY <1>3 DEF Carriers, FreeCarriers
  <2>4. /\ Carriers(a) \ {c} = Carriers(a)' \ {c}
        /\ FreeCarriers(a) \ {c} = FreeCarriers(a)' \ {c}
        /\ c \in Carriers(a)' <=> c \in FreeCarriers(a)'
    <3>1. ASSUME NEW d \in Chunks, d # c
          PROVE  /\ d \in Carriers(a) <=> d \in Carriers(a)'
                 /\ d \in FreeCarriers(a) <=> d \in FreeCarriers(a)'
      <4>1. chunk'[d] = chunk[d] /\ (Free(d)' <=> Free(d))
        BY <1>3, <1>6, <3>1
      <4>2. QED
        BY <4>1 DEF Carriers, FreeCarriers
    <3>2. /\ Carriers(a) \subseteq Chunks /\ Carriers(a)' \subseteq Chunks
          /\ FreeCarriers(a) \subseteq Chunks /\ FreeCarriers(a)' \subseteq Chunks
      BY DEF Carriers, FreeCarriers
    <3>3. c \in Carriers(a)' <=> c \in FreeCarriers(a)'
      BY <1>7 DEF Carriers, FreeCarriers
    <3>4. QED
      BY <3>1, <3>2, <3>3
  <2>5. /\ Cardinality(Carriers(a)') \in Nat
        /\ Cardinality(Carriers(a)') + Amount(c \in Carriers(a)) =
              Cardinality(Carriers(a)) + Amount(c \in Carriers(a)')
    BY <2>1, <2>4, DifferInOne
  <2>6. /\ Cardinality(FreeCarriers(a)') \in Nat
        /\ Cardinality(FreeCarriers(a)') + Amount(c \in FreeCarriers(a)) =
              Cardinality(FreeCarriers(a)) + Amount(c \in FreeCarriers(a)')
    BY <2>1, <2>4, DifferInOne
  <2>7. /\ Amount(c \in Carriers(a)) = 0 /\ Amount(c \in FreeCarriers(a)) = 0
        /\ Amount(c \in Carriers(a)') = Amount(c \in FreeCarriers(a)')
        /\ Amount(c \in Carriers(a)') \in Nat
    BY <2>3, <2>4 DEF Amount
  <2>8. /\ Cardinality(FreeCarriers(a))' = Cardinality(FreeCarriers(a)')
        /\ Cardinality(Uploaders(a))' = Cardinality(Uploaders(a))
        /\ Cardinality(Carriers(a))' = Cardinality(Carriers(a)')
        /\ sent'[a] = sent[a]
    BY <1>2, <2>2
  <2>9. QED
    BY <1>5, <1>8, <2>1, <2>5, <2>6, <2>7, <2>8 DEF UploadsPaid
<1>9. \A d \in Chunks : Overtaken(d)' = Overtaken(d)
  BY <1>2 DEF Overtaken, Target
<1>10. \A d \in Chunks, w \in Workers : Current(w, d)' <=> Current(w, d)
  BY <1>2 DEF Current, Target
<1>11. ASSUME NEW d \in Chunks, AttemptsPaid(d)
       PROVE  AttemptsPaid(d)'
  <2>1. CASE d # c
    <3>1. AttemptsMoved(d)
      BY <1>2, <1>3, <1>5, <1>6, <1>9, <1>10, <2>1 DEF AttemptsMoved
    <3>2. QED
      BY <1>11, <3>1, AttemptsPaidMoved
  <2>2. CASE d = c
    <3>1. \A w \in Workers : worker[w].pc \in Trying => Target(w) # c
      BY <1>4 DEF Trying, OwnerSteps
    <3>2. Overtaken(c) = {} /\ \A w \in Workers : ~Current(w, c)
      BY <3>1 DEF Overtaken, Current
    <3>3. Overtaken(c)' = {} /\ \A w \in Workers : ~Current(w, c)'
      BY <1>9, <1>10, <3>2
    <3>4. Cardinality(Overtaken(c)') = 0
      BY <3>3, FS_EmptySet
    <3>5. Amount(Free(c)') = 1 /\ MaxAttempts \in Nat \ {0}
      BY <1>7 DEF Amount, MyHrSyncConstants
    <3>6. Cardinality(Overtaken(c))' = 0 /\ Chances(c)' = 1
      BY <3>4, <3>5 DEF Chances
    <3>7. QED
      BY <1>3, <1>5, <2>2, <3>3, <3>5, <3>6 DEF AttemptsPaid
  <2>3. QED
    BY <2>1, <2>2
<1>12. QED
  BY <1>8, <1>11

(* The other steps of a scheduling call.                                   *)
LEMMA SchedulingPays ==
    ASSUME MyHrSyncConstants, TypeInv, DeliveryInv, FiniteInv, NEW p \in Schedulers,
           \/ Trigger(p) \/ SchedulerStep(p) \/ SchedulingFails(p) \/ AbortScheduler(p)
    PROVE  /\ \A a \in Rows : UploadsPaid(a) => UploadsPaid(a)'
           /\ \A d \in Chunks : AttemptsPaid(d) => AttemptsPaid(d)'
<1>1. CASE CreateChunk(p)
  BY <1>1, CreatingPays
<1>2. CASE ~CreateChunk(p)
  <2>1. UNCHANGED <<worker, sent>>
    BY <1>2 DEF SchedulerStep, Trigger, CheckActive, ReadPage, OpenJob,
       AdoptRows, NextPage, SendChunk, SendsDone, MarkJobAsFailed, SchedulingFails, AbortScheduler
  <2>2. \/ UNCHANGED faults
        \/ \E kind \in Faults, bound \in Nat : Spend(kind, bound)
    BY <1>2 DEF SchedulerStep, Trigger, CheckActive, ReadPage, OpenJob, AdoptRows, NextPage,
       SendChunk, SendsDone, MarkJobAsFailed, SchedulingFails, AbortScheduler, Faults,
       MyHrSyncConstants
  <2>3. /\ UploadFaults' \in Nat /\ UploadFaults <= UploadFaults'
        /\ AttemptFaults' \in Nat /\ AttemptFaults <= AttemptFaults'
    BY <2>2, FaultsCounted DEF TypeInv, Amount
  <2>4. \A c \in Chunks : message'[c].receipt = message[c].receipt
    <3>1. message \in [Chunks -> MessageState]
      BY DEF TypeInv, TypeOK
    <3>2. UNCHANGED message
          \/ \E c \in Chunks : message' = [message EXCEPT ![c].state = "visible"]
      BY <1>2 DEF SchedulerStep, Trigger, CheckActive, ReadPage, OpenJob, AdoptRows, NextPage,
         SendChunk, SendsDone, MarkJobAsFailed, SchedulingFails, AbortScheduler, Unsent, ChunksOf
    <3>3. QED
      BY <3>1, <3>2 DEF MessageState
  <2>5. \A c \in Chunks : /\ chunk'[c].payload = chunk[c].payload
                          /\ chunk'[c].attempts = chunk[c].attempts
                          /\ chunk'[c].status \in Active => chunk'[c] = chunk[c]
    <3>1. CASE MarkJobAsFailed(p)
      <4>1. ASSUME NEW c \in Chunks
            PROVE  \/ chunk'[c] = chunk[c]
                   \/ chunk'[c] = [chunk[c] EXCEPT !.status = "FAILED", !.stale = FALSE]
        BY <3>1 DEF MarkJobAsFailed, FailActiveChunks
      <4>2. \A c \in Chunks : chunk[c] \in ChunkRow
        BY DEF TypeInv, TypeOK
      <4>3. QED
        BY <4>1, <4>2 DEF ChunkRow, Active
    <3>2. CASE ~MarkJobAsFailed(p)
      <4>1. UNCHANGED chunk
        BY <1>2, <3>2 DEF SchedulerStep, Trigger, CheckActive, ReadPage, OpenJob, AdoptRows,
           NextPage, SendChunk, SendsDone, SchedulingFails, AbortScheduler
      <4>2. QED
        BY <4>1
    <3>3. QED
      BY <3>1, <3>2
  <2>6. QED
    BY <2>1, <2>3, <2>4, <2>5, NothingNew
<1>3. QED
  BY <1>1, <1>2

-----------------------------------------------------------------------------
(* All of it is kept by every step.                                        *)

LEMMA ProcessingPays ==
    ASSUME MyHrSyncConstants, TypeInv, TypeOK', DeliveryInv, PaidInv, NEW w \in Workers,
           WorkerStep(w) \/ ThrowInTry(w) \/ AbortWorker(w)
    PROVE  /\ OnItsChunk(w, Target(w)) /\ ConcludedSeen(w)'
           /\ \A a \in Rows : UploadsPaid(a)'
           /\ \A c \in Chunks : AttemptsPaid(c)'
<1>1. PICK c : c = Target(w)
  OBVIOUS
<1>2. /\ FiniteInv /\ ConcludedSeen(w)
      /\ \A a \in Rows : UploadsPaid(a)
      /\ \A d \in Chunks : AttemptsPaid(d)
  BY DEF PaidInv
<1>3. AttemptFaults' \in Nat /\ AttemptFaults <= AttemptFaults'
  <2>1. \/ UNCHANGED faults
        \/ \E kind \in Faults, bound \in Nat : Spend(kind, bound)
    BY DEF WorkerStep, ReadChunk, Reclaim, Claim, Reread, TakeRows, Upload, Conclude, FailChunk,
       ReleaseRows, FinalizeRead, FinalizeTally, FinalizeSettle, DeleteMessage, ThrowInTry,
       AbortWorker, Faults, MyHrSyncConstants
  <2>2. QED
    BY <2>1, FaultsCounted DEF TypeInv, Amount
<1>4. /\ OnItsChunk(w, c) /\ ConcludedSeen(w)'
      /\ \E s : PaysUploads(w, c, s)
      /\ \A d \in Chunks : AttemptsPaid(d)'
  <2>1. CASE FailChunk(w)
    BY <1>1, <1>2, <2>1, FailChunkPays
  <2>2. CASE ~FailChunk(w)
    <3>1. /\ OnItsChunk(w, c) /\ ConcludedSeen(w)'
          /\ (\E s : PaysUploads(w, c, s)) /\ PaysAttempts(w, c)
          /\ chunk'[c].status \in Active \/ chunk'[c].attempts = chunk[c].attempts
      <4>1. CASE Claim(w) /\ Claimable(c)
        BY <1>1, <4>1, ClaimPays
      <4>2. CASE Reclaim(w) /\ StaleClaim(c)
        BY <1>1, <4>2, ReclaimPays
      <4>3. CASE Upload(w)
        BY <1>1, <4>3, UploadPays
      <4>4. CASE Conclude(w)
        BY <1>1, <4>4, ConcludePays
      <4>5. CASE ThrowInTry(w)
        BY <1>1, <1>2, <4>5, ThrowPays
      <4>6. CASE AbortWorker(w)
        BY <1>1, <4>6, AbortPays
      <4>7. CASE ReadChunk(w)
        BY <1>1, <4>7, ReadChunkPays
      <4>8. CASE \/ Reclaim(w) /\ ~StaleClaim(c)
                 \/ Claim(w) /\ ~Claimable(c)
                 \/ Reread(w) \/ TakeRows(w) \/ ReleaseRows(w) \/ FinalizeRead(w)
                 \/ FinalizeTally(w) \/ FinalizeSettle(w) \/ DeleteMessage(w)
        BY <1>1, <1>2, <4>8, QuietPays
      <4>9. QED
        BY <2>2, <4>1, <4>2, <4>3, <4>4, <4>5, <4>6, <4>7, <4>8 DEF WorkerStep
    <3>2. \A d \in Chunks : AttemptsPaid(d)'
      BY <1>2, <1>3, <3>1, AttemptsPaidByWorker
    <3>3. QED
      BY <3>1, <3>2
  <2>3. QED
    BY <2>1, <2>2
<1>5. \A a \in Rows : UploadsPaid(a)'
  BY <1>2, <1>4, UploadsPaidByWorker
<1>6. QED
  BY <1>1, <1>4, <1>5

(* What can be counted stays finite: a step wakes one call, or creates one *)
(* chunk.                                                                  *)
LEMMA FiniteMoved ==
    ASSUME FiniteInv, NEW w, NEW c,
           \A v \in Workers : v # w => worker'[v] = worker[v],
           \A d \in Chunks : d # c /\ chunk[d].status = "NONE" =>
               chunk'[d].payload = chunk[d].payload /\ chunk'[d].status = "NONE",
           \A d \in Chunks : chunk'[d].status = "NONE" =>
               chunk[d].status = "NONE" /\ chunk'[d].payload = chunk[d].payload
    PROVE  FiniteInv'
<1>1. /\ BusyWorkers' \subseteq BusyWorkers \cup {w} /\ Created' \subseteq Created \cup {c}
      /\ IsFiniteSet(BusyWorkers) /\ IsFiniteSet(Created)
      /\ \A d \in Chunks : chunk[d].status = "NONE" => chunk[d].payload = {}
  BY DEF FiniteInv, BusyWorkers, Created
<1>2. IsFiniteSet(BusyWorkers \cup {w}) /\ IsFiniteSet(Created \cup {c})
  BY <1>1, FS_AddElement
<1>3. IsFiniteSet(BusyWorkers') /\ IsFiniteSet(Created')
  BY <1>1, <1>2, FS_Subset
<1>4. \A d \in Chunks : chunk'[d].status = "NONE" => chunk'[d].payload = {}
  BY <1>1
<1>5. QED
  BY <1>3, <1>4 DEF FiniteInv

LEMMA FiniteStep ==
    ASSUME MyHrSyncConstants, TypeInv, TypeOK', DeliveryInv, PaidInv, [Next]_vars
    PROVE  FiniteInv'
<1>f. FiniteInv
  BY DEF PaidInv
<1>t. chunk \in [Chunks -> ChunkRow] /\ \A d \in Chunks : chunk[d] \in ChunkRow
  BY DEF TypeInv, TypeOK
<1>1. ASSUME NEW w \in Workers, WorkerStep(w) \/ ThrowInTry(w) \/ AbortWorker(w)
      PROVE  FiniteInv'
  <2>1. OnItsChunk(w, Target(w))
    BY <1>1, ProcessingPays
  <2>2. /\ \A v \in Workers : v # w => worker'[v] = worker[v]
        /\ \A d \in Chunks : d # Target(w) => chunk'[d] = chunk[d]
        /\ chunk[Target(w)].status # "NONE" /\ chunk'[Target(w)].status # "NONE"
    BY <2>1 DEF OnItsChunk
  <2>3. QED
    BY <1>f, <2>2, FiniteMoved
<1>2. ASSUME NEW p \in Schedulers, CreateChunk(p)
      PROVE  FiniteInv'
  <2>1. PICK c \in Chunks :
           chunk' = [chunk EXCEPT ![c] = [status |-> "PENDING", job |-> scheduler[p].job,
                         payload |-> scheduler[p].page, attempts |-> 0, stale |-> FALSE]]
    BY <1>2 DEF CreateChunk
  <2>2. UNCHANGED worker
    BY <1>2 DEF CreateChunk
  <2>3. chunk'[c].status = "PENDING" /\ \A d \in Chunks : d # c => chunk'[d] = chunk[d]
    BY <1>t, <2>1
  <2>4. QED
    BY <1>f, <2>2, <2>3, FiniteMoved
<1>3. ASSUME NEW w \in Workers, NEW c \in Chunks, Receive(w, c)
      PROVE  FiniteInv'
  <2>1. UNCHANGED chunk /\ \A v \in Workers : v # w => worker'[v] = worker[v]
    BY <1>3 DEF Receive, TypeInv
  <2>2. QED
    BY <1>f, <2>1, FiniteMoved
<1>4. ASSUME UNCHANGED worker,
             \A d \in Chunks : \/ chunk'[d] = chunk[d]
                               \/ chunk[d].status # "NONE" /\ chunk'[d].status # "NONE"
      PROVE  FiniteInv'
  BY <1>f, <1>4, FiniteMoved
<1>5. ASSUME NEW p \in Schedulers, MarkJobAsFailed(p)
      PROVE  FiniteInv'
  <2>1. ASSUME NEW d \in Chunks
        PROVE  \/ chunk'[d] = chunk[d]
               \/ /\ chunk[d].status \in Active
                  /\ chunk'[d] = [chunk[d] EXCEPT !.status = "FAILED", !.stale = FALSE]
    BY <1>5 DEF MarkJobAsFailed, FailActiveChunks
  <2>2. \A d \in Chunks : \/ chunk'[d] = chunk[d]
                          \/ chunk[d].status # "NONE" /\ chunk'[d].status # "NONE"
    BY <1>t, <2>1 DEF ChunkRow, Active
  <2>3. UNCHANGED worker
    BY <1>5 DEF MarkJobAsFailed
  <2>4. QED
    BY <1>4, <2>2, <2>3
<1>6. ASSUME NEW c \in Chunks, ProcessingTimeout(c)
      PROVE  FiniteInv'
  <2>1. /\ chunk[c].status = "PROCESSING" /\ chunk' = [chunk EXCEPT ![c].stale = TRUE]
        /\ UNCHANGED worker
    BY <1>6 DEF ProcessingTimeout
  <2>2. \A d \in Chunks : \/ chunk'[d] = chunk[d]
                          \/ chunk[d].status # "NONE" /\ chunk'[d].status # "NONE"
    BY <1>t, <2>1 DEF ChunkRow
  <2>3. QED
    BY <1>4, <2>1, <2>2
<1>7. ASSUME UNCHANGED <<worker, chunk>>
      PROVE  FiniteInv'
  BY <1>4, <1>7
<1>8. ASSUME NEW p \in Schedulers,
             \/ Trigger(p) \/ SchedulerStep(p) \/ SchedulingFails(p) \/ AbortScheduler(p)
      PROVE  FiniteInv'
  BY <1>2, <1>5, <1>7, <1>8 DEF SchedulerStep, Trigger, CheckActive, ReadPage, OpenJob,
     AdoptRows, NextPage, SendChunk, SendsDone, SchedulingFails, AbortScheduler
<1>9. QED
  BY <1>1, <1>3, <1>6, <1>7, <1>8 DEF Next, vars, StoreRow, VisibilityTimeout

LEMMA ReceiptsStep ==
    ASSUME TypeInv, Receipts, [Next]_vars
    PROVE  Receipts'
<1>t. /\ message \in [Chunks -> MessageState]
      /\ \A c \in Chunks : message[c].state # "inflight" => message[c].receipt = None
  BY DEF TypeInv, TypeOK, Receipts
<1>1. ASSUME UNCHANGED message
      PROVE  Receipts'
  BY <1>1 DEF Receipts
<1>2. ASSUME NEW c \in Chunks, message[c].state = "unsent",
             message' = [message EXCEPT ![c].state = "visible"]
      PROVE  Receipts'
  BY <1>t, <1>2 DEF Receipts, MessageState
<1>3. ASSUME NEW c \in Chunks, NEW new, message' = [message EXCEPT ![c] = new],
             new.state = "inflight" \/ new.receipt = None
      PROVE  Receipts'
  BY <1>t, <1>3 DEF Receipts
<1>4. ASSUME NEW p \in Schedulers, SendChunk(p) \/ SchedulingFails(p)
      PROVE  Receipts'
  BY <1>1, <1>2, <1>4 DEF SendChunk, SchedulingFails, Unsent, ChunksOf
<1>5. ASSUME NEW p \in Schedulers,
             \/ Trigger(p) \/ SchedulerStep(p) \/ SchedulingFails(p) \/ AbortScheduler(p)
      PROVE  Receipts'
  BY <1>1, <1>4, <1>5 DEF SchedulerStep, Trigger, CheckActive, ReadPage, OpenJob,
     AdoptRows, CreateChunk, NextPage, SendsDone, MarkJobAsFailed, AbortScheduler
<1>6. ASSUME NEW c \in Chunks, VisibilityTimeout(c) \/ ProcessingTimeout(c)
      PROVE  Receipts'
  BY <1>1, <1>3, <1>6 DEF VisibilityTimeout, ProcessingTimeout
<1>7. ASSUME NEW w \in Workers, NEW c \in Chunks, Receive(w, c)
      PROVE  Receipts'
  BY <1>3, <1>7 DEF Receive
<1>8. ASSUME NEW w \in Workers, DeleteMessage(w)
      PROVE  Receipts'
  <2>1. Target(w) \in Chunks
    BY <1>8 DEF DeleteMessage, At, TypeInv, WellFormed, Target
  <2>2. QED
    BY <1>1, <1>3, <1>8, <2>1 DEF DeleteMessage
<1>9. ASSUME NEW w \in Workers, WorkerStep(w) \/ ThrowInTry(w) \/ AbortWorker(w)
      PROVE  Receipts'
  BY <1>1, <1>8, <1>9 DEF WorkerStep, ReadChunk, Reclaim, Claim, Reread, TakeRows, Upload,
     Conclude, FailChunk, ReleaseRows, FinalizeRead, FinalizeTally, FinalizeSettle, ThrowInTry,
     AbortWorker
<1>10. QED
  BY <1>1, <1>5, <1>6, <1>7, <1>9 DEF Next, vars, StoreRow

LEMMA ConcludedStep ==
    ASSUME MyHrSyncConstants, TypeInv, TypeOK', DeliveryInv, PaidInv, [Next]_vars,
           NEW w \in Workers
    PROVE  ConcludedSeen(w)'
<1>1. ASSUME worker'[w] = worker[w]
      PROVE  ConcludedSeen(w)'
  <2>1. ConcludedSeen(w)
    BY DEF PaidInv
  <2>2. worker[w].pc # "idle" => Target(w) \in Chunks
    BY DEF TypeInv, WellFormed, Target
  <2>3. Target(w) \in Chunks /\ chunk[Target(w)].status \in Terminal =>
            chunk'[Target(w)].status \in Terminal
    BY TerminalStep
  <2>4. QED
    BY <1>1, <2>1, <2>2, <2>3 DEF ConcludedSeen, Target
<1>2. ASSUME NEW v \in Workers, WorkerStep(v) \/ ThrowInTry(v) \/ AbortWorker(v)
      PROVE  ConcludedSeen(w)'
  <2>1. OnItsChunk(v, Target(v)) /\ ConcludedSeen(v)'
    BY <1>2, ProcessingPays
  <2>2. QED
    BY <1>1, <2>1 DEF OnItsChunk
<1>3. ASSUME NEW v \in Workers, NEW c \in Chunks, Receive(v, c)
      PROVE  ConcludedSeen(w)'
  <2>1. CASE v = w
    <3>1. PICK state : state = [WorkerIdle EXCEPT !.pc = "read", !.chunk = c]
      OBVIOUS
    <3>2. state.pc = "read"
      BY <3>1 DEF WorkerIdle
    <3>3. worker'[w] = state
      BY <1>3, <2>1, <3>1, Became DEF Receive, Become
    <3>4. QED
      BY <3>2, <3>3 DEF ConcludedSeen
  <2>2. CASE v # w
    BY <1>1, <1>3, <2>2 DEF Receive, TypeInv
  <2>3. QED
    BY <2>1, <2>2
<1>4. ASSUME NEW p \in Schedulers,
             \/ Trigger(p) \/ SchedulerStep(p) \/ SchedulingFails(p) \/ AbortScheduler(p)
      PROVE  UNCHANGED worker
  BY <1>4 DEF SchedulerStep, Trigger, CheckActive, ReadPage, OpenJob, AdoptRows, CreateChunk,
     NextPage, SendChunk, SendsDone, MarkJobAsFailed, SchedulingFails, AbortScheduler
<1>5. QED
  BY <1>1, <1>2, <1>3, <1>4 DEF Next, vars, StoreRow, VisibilityTimeout, ProcessingTimeout

LEMMA PaidInit == MyHrSyncConstants /\ Init => PaidInv
<1> SUFFICES ASSUME MyHrSyncConstants, Init
             PROVE  PaidInv
  OBVIOUS
<1>1. TypeInv
  BY InitTyped
<1>2. /\ \A w \in Workers : worker[w].pc = "idle"
      /\ \A c \in Chunks : chunk[c].status = "NONE" /\ chunk[c].payload = {}
                           /\ chunk[c].attempts = 0 /\ message[c].receipt = None
      /\ \A a \in Rows : sent[a] = 0
  BY DEF Init, WorkerIdle
<1>3. BusyWorkers = {} /\ Created = {}
  BY <1>2 DEF BusyWorkers, Created
<1>4. FiniteInv
  BY <1>2, <1>3, FS_EmptySet DEF FiniteInv
<1>5. Receipts /\ \A w \in Workers : ConcludedSeen(w)
  BY <1>2 DEF Receipts, ConcludedSeen
<1>6. UploadFaults \in Nat /\ AttemptFaults \in Nat
  BY <1>1, FaultsCounted DEF TypeInv
<1>7. ASSUME NEW a \in Rows
      PROVE  UploadsPaid(a)
  <2>1. Uploaders(a) = {} /\ Carriers(a) = {} /\ FreeCarriers(a) = {}
    BY <1>2 DEF Uploaders, MayUpload, Carriers, FreeCarriers
  <2>2. /\ Cardinality(Uploaders(a)) = 0 /\ Cardinality(Carriers(a)) = 0
        /\ Cardinality(FreeCarriers(a)) = 0 /\ sent[a] = 0
    BY <1>2, <2>1, FS_EmptySet
  <2>3. QED
    BY <1>6, <2>2 DEF UploadsPaid
<1>8. ASSUME NEW c \in Chunks
      PROVE  AttemptsPaid(c)
  <2>1. chunk[c].attempts = 0 /\ chunk[c].status \notin Active
    BY <1>2 DEF Active
  <2>2. MaxAttempts \in Nat
    BY DEF MyHrSyncConstants
  <2>3. QED
    BY <1>6, <2>1, <2>2 DEF AttemptsPaid
<1>9. QED
  BY <1>4, <1>5, <1>7, <1>8 DEF PaidInv

LEMMA PaidStep ==
    ASSUME MyHrSyncConstants, TypeInv, TypeOK', DeliveryInv, PaidInv, [Next]_vars
    PROVE  PaidInv'
<1>1. FiniteInv' /\ Receipts' /\ \A w \in Workers : ConcludedSeen(w)'
  BY FiniteStep, ReceiptsStep, ConcludedStep DEF PaidInv
<1>2. /\ FiniteInv /\ Receipts
      /\ \A a \in Rows : UploadsPaid(a)
      /\ \A c \in Chunks : AttemptsPaid(c)
  BY DEF PaidInv
<1>3. /\ \A a \in Rows : UploadsPaid(a)'
      /\ \A c \in Chunks : AttemptsPaid(c)'
  <2>1. ASSUME NEW w \in Workers, WorkerStep(w) \/ ThrowInTry(w) \/ AbortWorker(w)
        PROVE  (\A a \in Rows : UploadsPaid(a)') /\ (\A c \in Chunks : AttemptsPaid(c)')
    BY <2>1, ProcessingPays
  <2>2. ASSUME NEW w \in Workers, NEW d \in Chunks, Receive(w, d)
        PROVE  (\A a \in Rows : UploadsPaid(a)') /\ (\A c \in Chunks : AttemptsPaid(c)')
    BY <1>2, <2>2, ReceivePays
  <2>3. ASSUME NEW d \in Chunks, VisibilityTimeout(d) \/ ProcessingTimeout(d)
        PROVE  (\A a \in Rows : UploadsPaid(a)') /\ (\A c \in Chunks : AttemptsPaid(c)')
    BY <1>2, <2>3, RedeliveryPays, OverrunPays
  <2>4. ASSUME NEW p \in Schedulers,
               \/ Trigger(p) \/ SchedulerStep(p) \/ SchedulingFails(p) \/ AbortScheduler(p)
        PROVE  (\A a \in Rows : UploadsPaid(a)') /\ (\A c \in Chunks : AttemptsPaid(c)')
    BY <1>2, <2>4, SchedulingPays
  <2>5. ASSUME UNCHANGED vars \/ \E a \in Rows : StoreRow(a)
        PROVE  (\A a \in Rows : UploadsPaid(a)') /\ (\A c \in Chunks : AttemptsPaid(c)')
    <3>1. UNCHANGED <<chunk, message, sent, worker, faults>>
      BY <2>5 DEF vars, StoreRow
    <3>2. /\ UploadFaults' = UploadFaults /\ AttemptFaults' = AttemptFaults
          /\ UploadFaults \in Nat /\ AttemptFaults \in Nat
      BY <3>1, FaultsCounted DEF TypeInv
    <3>3. QED
      BY <1>2, <3>1, <3>2, NothingNew
  <2>6. QED
    BY <2>1, <2>2, <2>3, <2>4, <2>5 DEF Next
<1>4. QED
  BY <1>1, <1>3 DEF PaidInv

LEMMA PaidInvHolds == Spec => [](TypeInv /\ PaidInv)
<1>1. Init => PaidInv
  BY MyHrSyncConstants, PaidInit
<1>2. TypeInv /\ TypeInv' /\ DeliveryInv /\ PaidInv /\ [Next]_vars => PaidInv'
  BY MyHrSyncConstants, PaidStep DEF TypeInv
<1>3. QED
  BY <1>1, <1>2, DeliveryInvHolds, PTL DEF Spec

(* MyHR accepts a row once for every chunk that carries it, and once more  *)
(* only for a crash, a failed call or a claim that was overrun: neither a  *)
(* duplicate delivery of a chunk's message nor calls on the same chunk at  *)
(* the same time repeat an upload.                                         *)
THEOREM UploadsAreBounded == Spec => []AcceptedOnce
<1>1. TypeInv /\ PaidInv => AcceptedOnce
  <2> SUFFICES ASSUME TypeInv, PaidInv, NEW a \in Rows
               PROVE  sent[a] <= Cardinality({c \in Chunks : a \in chunk[c].payload})
                                     + faults["aborts"] + faults["errors"] + faults["overruns"]
    BY DEF AcceptedOnce
  <2>1. /\ Cardinality(Uploaders(a)) \in Nat /\ Cardinality(FreeCarriers(a)) \in Nat
        /\ Cardinality(Carriers(a)) \in Nat /\ sent[a] \in Nat
        /\ sent[a] + Cardinality(Uploaders(a)) + Cardinality(FreeCarriers(a))
              <= Cardinality(Carriers(a)) + UploadFaults
    BY Counted DEF PaidInv, UploadsPaid, TypeInv, TypeOK
  <2>2. \A k \in Faults : faults[k] \in Nat
    BY DEF TypeInv, TypeOK
  <2>3. sent[a] <= Cardinality(Carriers(a)) + UploadFaults
    <3>1. UploadFaults \in Nat
      BY FaultsCounted DEF TypeInv
    <3>2. QED
      BY <2>1, <3>1
  <2>4. QED
    BY <2>1, <2>2, <2>3 DEF Carriers, UploadFaults, Faults
<1>2. QED
  BY <1>1, PaidInvHolds, PTL

(* A chunk is tried at most MYHR_MAX_CHUNK_ATTEMPTS times, and once more   *)
(* for every crash, early redelivery and overrun, although the catch block *)
(* compares the limit with a count read before the claim.                  *)
THEOREM AttemptsAreBounded == Spec => []AttemptsBounded
<1>1. TypeInv /\ PaidInv => AttemptsBounded
  <2> SUFFICES ASSUME TypeInv, PaidInv, NEW c \in Chunks
               PROVE  chunk[c].attempts <= MaxAttempts + faults["aborts"]
                                   + faults["redeliveries"] + faults["overruns"]
    BY DEF AttemptsBounded
  <2>1. chunk[c].attempts <= MaxAttempts + AttemptFaults /\ chunk[c].attempts \in Nat
    BY DEF PaidInv, AttemptsPaid, TypeInv, TypeOK, ChunkRow
  <2>2. \A k \in Faults : faults[k] \in Nat
    BY DEF TypeInv, TypeOK
  <2>3. QED
    BY <2>1, <2>2, MyHrSyncConstants DEF AttemptFaults, Faults, MyHrSyncConstants
<1>2. QED
  BY <1>1, PaidInvHolds, PTL

-----------------------------------------------------------------------------
(* Delivered rows, when triggers do not overlap.                           *)

(* What is true of a row without a delivery record, or with one that says  *)
(* SYNCED, is only changed by the transaction that creates a chunk.        *)
LEMMA RowStays ==
    ASSUME TypeInv, [Next]_vars, \A p \in Schedulers : ~CreateChunk(p),
           NEW a \in Rows, delivery[a].status \in {"NONE", "SYNCED"}
    PROVE  delivery'[a] = delivery[a]
<1>1. CASE UNCHANGED delivery
  BY <1>1
<1>2. ASSUME NEW c, NEW to, MoveRows(c, "PENDING", to) \/ MoveRows(c, "PROCESSING", to)
      PROVE  delivery'[a] = delivery[a]
  <2>1. delivery[a] # [status |-> "PENDING", chunk |-> c]
        /\ delivery[a] # [status |-> "PROCESSING", chunk |-> c]
    OBVIOUS
  <2>2. QED
    BY <1>2, <2>1 DEF MoveRows
<1>3. ASSUME NEW p \in Schedulers,
             \/ Trigger(p) \/ SchedulerStep(p) \/ SchedulingFails(p) \/ AbortScheduler(p)
      PROVE  delivery'[a] = delivery[a]
  <2>1. CASE MarkJobAsFailed(p)
    BY <2>1 DEF MarkJobAsFailed, Active
  <2>2. CASE ~MarkJobAsFailed(p)
    BY <1>1, <1>3, <2>2 DEF SchedulerStep, Trigger, CheckActive, ReadPage, OpenJob,
       AdoptRows, NextPage, SendChunk, SendsDone, SchedulingFails, AbortScheduler
  <2>3. QED
    BY <2>1, <2>2
<1>4. ASSUME NEW w \in Workers, WorkerStep(w) \/ ThrowInTry(w) \/ AbortWorker(w)
      PROVE  delivery'[a] = delivery[a]
  <2>1. CASE TakeRows(w) \/ Conclude(w) \/ ReleaseRows(w)
    BY <1>2, <2>1 DEF TakeRows, Conclude, ReleaseRows
  <2>2. CASE ~(TakeRows(w) \/ Conclude(w) \/ ReleaseRows(w))
    BY <1>1, <1>4, <2>2 DEF WorkerStep, ReadChunk, Reclaim, Claim, Reread, Upload, FailChunk,
       FinalizeRead, FinalizeTally, FinalizeSettle, DeleteMessage, ThrowInTry, AbortWorker
  <2>3. QED
    BY <2>1, <2>2
<1>5. CASE \/ UNCHANGED vars \/ \E b \in Rows : StoreRow(b)
           \/ \E c \in Chunks : VisibilityTimeout(c) \/ ProcessingTimeout(c)
           \/ \E w \in Workers, c \in Chunks : Receive(w, c)
  BY <1>1, <1>5 DEF vars, StoreRow, VisibilityTimeout, ProcessingTimeout, Receive
<1>6. QED
  BY <1>3, <1>4, <1>5 DEF Next

(* The rows of a page still have no delivery record when their chunk is    *)
(* created: nobody else could have given them one.                         *)
Paging == {"open", "adopt", "chunk"}
PageFresh ==
    \A p \in Schedulers :
        /\ scheduler[p].pc \in Paging =>
              \A a \in scheduler[p].page : delivery[a].status = "NONE"
        /\ scheduler[p].pc = "chunk" => scheduler[p].existing = {}

OneTrigger == \A p, q \in Schedulers : p = q

LEMMA PageStep ==
    ASSUME OneTrigger, TypeInv, PageFresh, [Next]_vars
    PROVE  PageFresh'
<1>t. \A p \in Schedulers : scheduler[p] \in SchedulerState /\ scheduler[p].page \in SUBSET Rows
  BY DEF TypeInv, TypeOK, SchedulerState
<1>s. scheduler \in [Schedulers -> SchedulerState]
  BY DEF TypeInv, TypeOK
<1> SUFFICES ASSUME NEW p \in Schedulers
             PROVE  /\ scheduler'[p].pc \in Paging =>
                          \A a \in scheduler'[p].page : delivery'[a].status = "NONE"
                    /\ scheduler'[p].pc = "chunk" => scheduler'[p].existing = {}
  BY DEF PageFresh
<1>1. CASE scheduler'[p].pc \notin Paging
  BY <1>1 DEF Paging
<1>2. ASSUME scheduler'[p].pc \in Paging
      PROVE  \A q \in Schedulers : ~CreateChunk(q)
  <2>1. ASSUME CreateChunk(p)
        PROVE  FALSE
    <3>1. scheduler'[p] = [scheduler[p] EXCEPT !.pc = "more", !.page = {}, !.existing = {}]
      BY <1>s, <2>1 DEF CreateChunk, Plan
    <3>2. scheduler'[p].pc = "more"
      BY <1>t, <3>1 DEF SchedulerState
    <3>3. QED
      BY <1>2, <3>2 DEF Paging
  <2>2. QED
    BY <2>1 DEF OneTrigger
<1>3. ASSUME scheduler'[p].pc \in Paging, NEW a \in Rows, delivery[a].status = "NONE"
      PROVE  delivery'[a].status = "NONE"
  BY <1>2, <1>3, RowStays
<1>4. CASE scheduler'[p] = scheduler[p]
  BY <1>1, <1>3, <1>4, <1>t DEF PageFresh
<1>5. CASE ReadPage(p)
  <2>1. PICK rows \in SUBSET Rows : rows = Unsynced(scheduler[p].cutoff)
    BY <1>t DEF Unsynced, SchedulerState
  <2>2. \A a \in rows : delivery[a].status = "NONE"
    BY <2>1 DEF Unsynced
  <2>3. \/ scheduler'[p] = SchedulerIdle
        \/ scheduler'[p] = [scheduler[p] EXCEPT !.pc = "open", !.page = Page(rows)]
    BY <1>s, <1>5, <2>1 DEF ReadPage, Plan
  <2>a. CASE scheduler'[p] = SchedulerIdle
    BY <1>1, <2>a DEF SchedulerIdle, Paging
  <2>b. CASE scheduler'[p] = [scheduler[p] EXCEPT !.pc = "open", !.page = Page(rows)]
    <3>1. scheduler'[p].pc = "open" /\ scheduler'[p].page = Page(rows)
      BY <1>t, <2>b DEF SchedulerState
    <3>2. Page(rows) \in SUBSET rows
      BY DEF Page
    <3>3. QED
      BY <1>3, <2>2, <3>1, <3>2 DEF Paging
  <2>4. QED
    BY <2>3, <2>a, <2>b
<1>6. CASE NextPage(p)
  <2>1. PICK rows \in SUBSET Rows : rows = Unsynced(scheduler[p].cutoff)
    BY <1>t DEF Unsynced, SchedulerState
  <2>2. \A a \in rows : delivery[a].status = "NONE"
    BY <2>1 DEF Unsynced
  <2>3. \/ scheduler'[p] = [scheduler[p] EXCEPT !.pc = "send", !.cutoff = {}]
        \/ scheduler'[p] = [scheduler[p] EXCEPT !.pc = "adopt", !.page = Page(rows)]
    BY <1>s, <1>6, <2>1 DEF NextPage, Plan
  <2>4. \/ scheduler'[p].pc = "send"
        \/ scheduler'[p].pc = "adopt" /\ scheduler'[p].page = Page(rows)
    BY <1>t, <2>3 DEF SchedulerState
  <2>5. Page(rows) \in SUBSET rows
    BY DEF Page
  <2>6. QED
    BY <1>1, <1>3, <2>2, <2>4, <2>5 DEF Paging
<1>7. CASE OpenJob(p)
  <2>1. PICK j \in Jobs : scheduler'[p] = [scheduler[p] EXCEPT !.pc = "adopt", !.job = j]
    BY <1>s, <1>7 DEF OpenJob, Plan
  <2>2. scheduler'[p].pc = "adopt" /\ scheduler'[p].page = scheduler[p].page
    BY <1>t, <2>1 DEF SchedulerState
  <2>3. scheduler[p].pc = "open"
    BY <1>7 DEF OpenJob, PlanAt
  <2>4. QED
    BY <1>3, <1>t, <2>2, <2>3 DEF PageFresh, Paging
<1>8. CASE AdoptRows(p)
  <2>1. PICK existing : existing = {a \in scheduler[p].page : delivery[a].status # "NONE"}
    OBVIOUS
  <2>2. scheduler'[p] = [scheduler[p] EXCEPT !.pc = "chunk", !.existing = existing]
    BY <1>s, <1>8, <2>1 DEF AdoptRows, Plan
  <2>3. /\ scheduler'[p].pc = "chunk" /\ scheduler'[p].page = scheduler[p].page
        /\ scheduler'[p].existing = existing
    BY <1>t, <2>2 DEF SchedulerState
  <2>4. \A a \in scheduler[p].page : delivery[a].status = "NONE"
    BY <1>8 DEF AdoptRows, PlanAt, PageFresh, Paging
  <2>5. QED
    BY <1>3, <1>t, <2>1, <2>3, <2>4 DEF Paging
<1>9. ASSUME \/ Trigger(p) \/ CreateChunk(p) \/ SendChunk(p) \/ SendsDone(p)
             \/ MarkJobAsFailed(p) \/ SchedulingFails(p) \/ AbortScheduler(p)
      PROVE  scheduler'[p] = scheduler[p] \/ scheduler'[p].pc \notin Paging
  <2>1. CASE Trigger(p)
    <3>1. scheduler'[p] = [SchedulerIdle EXCEPT !.pc = "check", !.cutoff = stored]
      BY <1>s, <2>1 DEF Trigger, Plan
    <3>2. QED
      BY <3>1 DEF SchedulerIdle, Paging
  <2>2. CASE CreateChunk(p)
    <3>1. scheduler'[p] = [scheduler[p] EXCEPT !.pc = "more", !.page = {}, !.existing = {}]
      BY <1>s, <2>2 DEF CreateChunk, Plan
    <3>2. scheduler'[p].pc = "more"
      BY <1>t, <3>1 DEF SchedulerState
    <3>3. QED
      BY <3>2 DEF Paging
  <2>3. CASE SendChunk(p)
    BY <2>3 DEF SendChunk
  <2>4. CASE SendsDone(p) \/ MarkJobAsFailed(p) \/ AbortScheduler(p)
    <3>1. scheduler'[p] = SchedulerIdle
      BY <1>s, <2>4 DEF SendsDone, MarkJobAsFailed, AbortScheduler, Plan
    <3>2. QED
      BY <3>1 DEF SchedulerIdle, Paging
  <2>5. CASE SchedulingFails(p)
    <3>1. scheduler'[p] = [scheduler[p] EXCEPT !.pc = "failjob"]
      BY <1>s, <2>5 DEF SchedulingFails, PlanTo
    <3>2. scheduler'[p].pc = "failjob"
      BY <1>t, <3>1 DEF SchedulerState
    <3>3. QED
      BY <3>2 DEF Paging
  <2>6. QED
    BY <1>9, <2>1, <2>2, <2>3, <2>4, <2>5
<1>10. CASE CheckActive(p)
  <2>1. \/ scheduler'[p] = SchedulerIdle \/ scheduler'[p] = [scheduler[p] EXCEPT !.pc = "page"]
    BY <1>s, <1>10 DEF CheckActive, Plan, PlanTo
  <2>2. scheduler'[p].pc \in {"idle", "page"}
    BY <1>t, <2>1 DEF SchedulerState, SchedulerIdle
  <2>3. QED
    BY <1>1, <2>2 DEF Paging
<1>11. ASSUME NEW w \in Workers, WorkerStep(w) \/ ThrowInTry(w) \/ AbortWorker(w)
       PROVE  scheduler'[p] = scheduler[p]
  BY <1>11 DEF WorkerStep, ReadChunk, Reclaim, Claim, Reread, TakeRows, Upload, Conclude,
     FailChunk, ReleaseRows, FinalizeRead, FinalizeTally, FinalizeSettle, DeleteMessage,
     ThrowInTry, AbortWorker
<1>12. ASSUME \/ UNCHANGED vars \/ \E b \in Rows : StoreRow(b)
              \/ \E c \in Chunks : VisibilityTimeout(c) \/ ProcessingTimeout(c)
              \/ \E w \in Workers, c \in Chunks : Receive(w, c)
       PROVE  scheduler'[p] = scheduler[p]
  BY <1>12 DEF vars, StoreRow, VisibilityTimeout, ProcessingTimeout, Receive
<1>13. QED
  <2>1. CASE \E q \in Schedulers :
                \/ Trigger(q) \/ SchedulerStep(q) \/ SchedulingFails(q) \/ AbortScheduler(q)
    <3>1. \/ Trigger(p) \/ SchedulerStep(p) \/ SchedulingFails(p) \/ AbortScheduler(p)
      BY <2>1 DEF OneTrigger
    <3>2. QED
      BY <3>1, <1>1, <1>4, <1>5, <1>6, <1>7, <1>8, <1>9, <1>10 DEF SchedulerStep
  <2>2. QED
    BY <1>4, <1>11, <1>12, <2>1 DEF Next

(* As long as triggers do not overlap, the delivery record of a delivered  *)
(* row is never written again, whatever late workers, retries and          *)
(* markJobAsFailed do.                                                     *)
THEOREM SyncedIsKept ==
    ASSUME OneTrigger
    PROVE  Spec => SyncedStays
<1>1. Init => PageFresh
  BY DEF Init, PageFresh, SchedulerIdle, Paging
<1>2. TypeInv /\ PageFresh /\ [Next]_vars => PageFresh'
  BY PageStep
<1>3. TypeInv /\ PageFresh /\ [Next]_vars =>
         [\A a \in Rows : delivery[a].status = "SYNCED" => delivery'[a] = delivery[a]]_vars
  <2> SUFFICES ASSUME TypeInv, PageFresh, [Next]_vars, NEW a \in Rows,
                      delivery[a].status = "SYNCED"
               PROVE  delivery'[a] = delivery[a]
    OBVIOUS
  <2>1. ASSUME NEW p \in Schedulers, CreateChunk(p)
        PROVE  delivery'[a] = delivery[a]
    <3>1. scheduler[p].existing = {}
      BY <2>1 DEF CreateChunk, PlanAt, PageFresh
    <3>2. a \notin scheduler[p].existing \cup Unsynced(scheduler[p].page)
      BY <3>1 DEF Unsynced
    <3>3. QED
      BY <2>1, <3>2 DEF CreateChunk
  <2>2. QED
    BY <2>1, RowStays
<1>4. QED
  BY <1>1, <1>2, <1>3, DeliveryInvHolds, PTL DEF SyncedStays, Spec
=============================================================================
