# A TLA+ development of the biometric attendance server

The repository is a NestJS server with a PostgreSQL database behind Prisma and
one AWS SQS queue. Biometric devices upload attendance logs; the server stores
them in chunks, asynchronously, and delivers them once an hour to an external
HR service (MyHR). This directory holds TLA+ models of that asynchronous core
and of the services around it, the TLC instances that check them, and proofs for
every instance.

## 1. Inventory

| Component | State it keeps | Operations |
|---|---|---|
| Store sync intake (`sync/sync.service.ts`) | `StoreSyncRecord`, `StoreSyncRecordChunk` rows, all PENDING | `storeSyncRecord`: check devices, one record per store, chunks, one message per chunk |
| SQS poller and worker (`sqs-queue/sqs.processor.ts`) | the queue; per call: what was read from the chunk | `poll`, `processMessage`, `processSyncRecordChunk`, `insertSyncPayload`, `finalizeStoreSyncRecord`; `processSyncRecords` for older producers |
| MyHR delivery (`myhr/myhr.service.ts`, `myhr-sync-eligibility.ts`, `scheduler/`) | `MyHrSyncJob`, `MyHrSyncChunk`, `MyHrAttendanceSync`, uploaded batches, a cached token | `queueMyHrAttendanceSync`, `scheduleAttendanceSync`, `createSyncJob`, `createChunk`, `processChunk`, `uploadBiometrics`, `markJobAsFailed`, `finalizeJob` |
| Stores, devices (`store/`, `device/`) | catalogue rows with a status | create, update, deactivate, delete (cascading) |
| Authentication, users (`auth/`, `users/`) | one row per user: one-time code, expiry, counters, reset token, password history | `login`, `verifyOtp`, `resendOtp`, `forgotPassword`, `resetPassword`, `inviteUsers` |
| Attendance (`attendance/`) | attendance rows | `importAttendanceRecords`, `getGeneralRecord`, single queries |
| Reports and files (`sync/`, `statistics/`, `lib/excel.ts`) | none | `exportStoreSyncStatus`, `excelSyncRecord`, `generateExport`; `getDashboardInfo`, `getStoreSyncChartData` |
| Around the requests (`audit-trail/`, `roles/`, `file-security/`, `mail/`, `config/`, `testing/`, `prisma/seeds`) | audit rows | stateless checks, I/O, wiring |

**Interactions.** Intake and worker share the database and the queue, nothing
else: a message carries a chunk id. Every server process runs the HTTP API, the
hourly cron job and a poller that hands up to ten messages at a time to
concurrent `processMessage` calls. A message is deleted after its handler
returned, and stays in the queue when the handler threw. Store administration
writes the same rows, and its deletions cascade. MyHR delivery starts from the
attendance rows that the worker inserted, through the same queue.

**What is hard.** Almost every operation is a chain of database statements with
an `await` between them, without a transaction and with several processes
doing the same. The queue delivers at least once, in any order, and again when a
handler takes longer than the visibility timeout. A process can die between any
two statements. What protects the data are a few conditional updates
(`updateMany ... WHERE status = ...`), one hand-written SQL statement that
finalizes a record, and the order in which statements are executed.
`PROJECT.json` lists each hazard at its line with the properties aimed at it.

**What makes each component correct.**

* Intake and worker: a chunk is worked on by one handler at a time; a message is
  dropped only when somebody has taken its chunk up; a record says SUCCESS only
  if every row of its upload is in the database, FAILED only if a chunk failed,
  and counts what it inserted; outcomes stay; every sent chunk is concluded.
* MyHR delivery: what is recorded as delivered was delivered, and stays so; a job
  says SUCCESS only if all of its chunks did; attempts are bounded; a crashed
  worker does not block its chunk.
* Authentication: a code gives one access token, only the code that was stored
  is mailed, a code is not replaced before its cooldown, and a locked account
  is shut to calls that have read it before; a reset link that was used or
  replaced is dead, and the password history keeps recent passwords out.
* Catalogue: names and serial numbers are unique, a device is deactivated only
  under an inactive store. Both rules are checks apart from their writes, so the
  properties say how far they can be off and by what.
* Back office: an interrupted import leaves a whole number of rows, each once;
  a report depends on the attempts and not on their order, and a success stays
  reported unless a SYNC_RECORDS message takes its own success back; a page keeps
  the order it was sorted by; figures that are subtracted from one another fit.

## 2. Modules

| Module | Role |
|---|---|
| `SyncOutcome` | abstract: what the store sync promises, without queue, workers or transactions |
| `StoreSync` | intake, queue, worker and store administration |
| `StoreSyncProofs` | types, the claim protocol and the reported outcomes of `StoreSync`, and that it implements `SyncOutcome`, for every instance |
| `ChunkPayload` | how `chunkSyncPayload` cuts an upload, loop round by loop round |
| `ExcelUpload` | from a file to the upload of a device, to one store's group, to `ChunkPayload` |
| `ExcelUploadProofs` | that the loop cuts every upload as the reference does, and that every row of a file is sent once, for every file and limit |
| `Filter`, `FilterProofs` | what a filter leaves of a sequence, and what is known of it |
| `LegacySync` | the SYNC_RECORDS message of older producers, for several records at once |
| `LegacySyncProofs` | every safety property of `LegacySync`, for every instance |
| `MyHrSync` | MyHR scheduling, queue and chunk processing |
| `Account` | login, one-time code, resend and the lock counters, on one user row |
| `AccountProofs` | the safety properties of `Account`, for every instance |
| `PasswordReset` | reset links and the password history, on one user row |
| `PasswordResetProofs` | its safety properties, for every instance |
| `Catalog` | stores, devices and the calls that change them |
| `Backoffice` | `Catalog` with the import, the status report, the page of records and the figures |
| `BackofficeProofs` | the types, the two properties of the catalog, imports, pages, reports and figures, for every instance |
| `MyHrSyncProofs` | types, delivery records, the two bounds and the permanence of delivered rows of `MyHrSync`, for every instance |
| `MCStoreSync`, `MCExcelUpload`, `MCLegacySync`, `MCMyHrSync`, `MCAccount`, `MCPasswordReset`, `MCBackoffice` | the sets TLC uses |

Three compositions are made of these: `StoreSync` joins intake, queue, worker and
store administration; `ExcelUpload` extends `ChunkPayload`, whose upload it
computes; `Backoffice` extends `Catalog`, whose steps happen between its own.
`StoreSync` and `Backoffice` meet at the sync records: what the first leaves, the
second reports.

### StoreSync

State and code: `record` and `chunk` are the two tables, `attendance[a]` the
record that owns an attendance row, `message[c]` the message of chunk `c` with
its current receipt, `handler[h]` the locals of a `processMessage` call,
`upload[u]` how far `storeSyncRecord` has got, `storeStatus` the status that
devices and records see through their store. `crashed` is a history variable:
the chunks whose owner was cut short. A count of rows is modelled by the set of
rows counted, so that a wrong count shows as a wrong set.

One action is one database statement or one SQS call together with the code up
to the next `await`; the step names follow the code: `ReadChunk`, `Claim`,
`Reread`, `Start`, `LookupDevices`, `ReadExisting`, `InsertBatch`,
`MarkSuccess`, `MarkFailed` (the catch block), `Summarise` and `Settle` (the
finalization), `DeleteMessage`. Choices worth knowing:

* *Finalization is two actions.* It is one SQL statement, but under READ
  COMMITTED its chunk summary is the snapshot at its start, while the row it
  updates is the one that holds when the lock is granted, and only the WHERE
  clause on that row is evaluated again.
* *A lost reply* is a write that takes effect and then runs the catch block
  (`Continue`); a failed call is `ThrowInTry`. A call that fails outside the try
  block, and a crash, are `Abort`: both leave the message in the queue.
* *Deleting a message with an old receipt* may or may not remove it; SQS leaves
  it open.
* *Devices follow their store*: the device lookup sees the status of the store.
  A device moved to another store is one of the errors of `ThrowInTry`.
* A chunk has at most 500 rows and `insertBatch` flushes at 500, hence one
  `createMany` per chunk.

### ChunkPayload

`logs[d]` is the number of logs of the `d`-th device of the upload; a chunk is a
sequence of slices (device, first log, number of logs), so that order, gaps and
overlaps show. `device` and `offset` are the two loop variables,
`currentRecords` and `currentCount` those of the function, `chunks` its result.
`EmptyDevice` and `TakeSlice` are one round of the outer and of the inner loop,
`Flush` is `flushChunk` (which neither appends nor resets when there is nothing
to flush). `CutAsReference` compares the result with the obvious definition:
chunk `n` has the `n`-th stretch of `Limit` logs of the upload. A log is a device
and a position, and its place in the upload is the number of logs that are not
after it, so that neither side of the comparison needs recursion.

### ExcelUpload

A row of a file is its list of serial numbers or `Invalid`; a log is its row
number. `ReadRow` is one round of `eachRow` (the first serial number decides, an
invalid row rejects the file), `CutGroup` is a round of the loop over
`recordsByStore`, for whichever store: rounds do not depend on each other. From
there on `ChunkPayload` goes on with `logs` computed from the group.
`EveryRowOnce` follows the rows through all three: a carried row is named by its
chunk, its slice and its place in the slice, and what the chunks of a store
carry is compared with the file. An upload as JSON skips the
file; both start in `ExcelInit`. That a serial number may be unknown, or a store
inactive, is the device check of `StoreSync`.

### LegacySync

`record`, `attendance`, `message` and `handler` are as in `StoreSync`; a message
also remembers whether it was redelivered, which only `CountExact` looks at.
`Payload[m]` is the flattened payload: per log its id and the record of its
device's store. A handler knows the logs it has yet to offer (`todo`) by their
place in the payload. `ToInsert` leaves out the ids that have rows and repeated
ids of the payload, `NextBatch` is the first `BatchSize` places of `todo`,
`Created` those of a batch for which `createMany` makes a row, and `Counted` the
counting rule of `insertBatch`: with several records, all of a batch or none.
Unlike in `StoreSync`, counts are numbers here, since a row is not a record's
only because a handler counted it. `SetStatus` is an update by id, whatever the
status: there is no claim.

### MyHrSync

`delivery[a]` is the `MyHrAttendanceSync` row of attendance row `a`, `job` and
`chunk` are the two tables, `sent[a]` counts how often MyHR has accepted `a`,
`scheduler[p]` and `worker[w]` are the locals of `scheduleAttendanceSync` and
`processChunk` calls. Rows, jobs and chunks are numbers in creation order.

* The transaction of `createSyncJob` is three actions (look for an active job,
  read a page, commit the job): READ COMMITTED and no unique constraint let two
  of them overlap.
* `createChunk` is two: its `updateMany` sees the rows that exist when it runs
  (`AdoptRows`), its `createMany` skips those that exist at commit
  (`CreateChunk`).
* The age of a claim is one bit, `stale`. It is set at any time when nobody owns
  the chunk any more, and at the expense of the budget `MaxOverruns` while
  somebody does.
* `Conclude` updates the chunk by id whatever its status, and the rows only
  where they are PROCESSING, as the code does. `FinalizeRead`, `FinalizeTally`
  and `FinalizeSettle` are the two reads and the write of `finalizeJob`.
* Left out: the token, the saved batch (one external outcome with the upload),
  and the deletion of stores, which removes rows together with their delivery
  state.

### Account

`user` is the user's row, `call[p]` the locals of a request: `row` the code and
expiry it has read (of the row, it uses nothing else later), `otp` the code it
was given or has generated, `currentDate` the date it took. `issued`, `stored`,
`mailed` and `tokens` are history variables. `Issue` is the conditional update
of `login` and of `resendOtp`, `Consume` and `CountOtpFailure` those of
`verifyOtp`; `CountLoginFailure` and `ResetLoginFailures` are updates by id.

* Whether the password matches and whether it has expired are choices: neither
  the code nor the counters depend on which password it is. A call that only
  throws or answers from the row changes nothing and is not a step.
* Codes are members of a small set and may repeat, as six random digits may;
  `StillSame` compares code and expiry, as the code does.
* `loginFailedAttempts` stops at the limit here and does not in the code; from
  the limit on all its values mean the same. `otpFailedAttempts` is not capped:
  that it stays within its type is a property of the conditional update.
* `verifyOtp` takes its date before it reads the row (two actions), `login` and
  `resendOtp` after.

### PasswordReset

`user` is the columns that resets use: the history, the token, and of the two
dates what is asked of them (`linkValid`, `passwordExpired`). `call[p]` is the
locals of a request; `minted`, `known` (mailed or returned), `uses` and `past`
are history variables. Issuing a token is three actions: generate, store
(`StoreToken`, an update by id), hand over; a reset is two: `ResetPassword` reads
and checks the row, `SetPassword` updates it by id after the hash is computed.

* These columns are disjoint from those of `Account`, which is why there are two
  modules. `login` with an expired password resets its failure counter in
  `Account` and goes on as `LoginExpired` here.
* A token stands for its hash, a password for its hash: both are only compared.
* What the code guarantees is what the properties say, no more: a link may set a
  password once *per overlapping call* (`LinkUses`), and the rule about the last
  three passwords (`DifferentFromLast`) holds for resets that have read one
  another's result. A reset computed from an older history may bring back a
  password that was set in between; that history is then the one in force.

### Catalog and Backoffice

`store[s]` and `device[d]` are the rows, `Unborn` or `Gone` when there is none;
`call[c]` the locals of a call between its check and its write. Creates and
`deactivateDevice` are two actions; an update or removal is one, since its check
is repeated by the statement itself (a missing row or foreign key makes it
throw). `renamed` and `disturbed` are history variables: rows given another name
or number by an update, devices moved or whose store was activated.

`records` are the `StoreSyncRecord` rows in the order of their insertion,
`import[i]`, `page` and `figures` the locals of an import, of `getGeneralRecord`
and of a statistics request.

* `SyncStarts` and `SyncMoves` stand for `StoreSync` and `LegacySync`: records are
  created PENDING, to be filled by messages of one of two types. `ChunkMoves`
  concludes a record once, as `TerminalStable` of `StoreSync` says. `LegacyMoves`
  writes a record by id, like `SetStatus` of `LegacySync`: each delivery of a
  SYNC_RECORDS message sets it to PROCESSING again, a SUCCESS too, and may end in
  FAILED. Nothing in the repository sends that message any more, but the handler
  is still there for those of older producers.
* `ReportedSuccessStays` says what this does to the report. A reported success is
  taken back only with the record that was reported, by a SYNC_RECORDS message,
  and where the store has a success of the chunk pipeline that day, the report
  stays a success at least as late as that one.
* `importAttendanceRecords` checks the file as a whole and then inserts row by
  row; `EndImport` ends it at any row. Of several stores with one name any may be
  taken. The records it creates stay PENDING.
* `ReportRow` is computed from a *sequence* of attempts, because the query asks
  for no order; `Reported` takes one of them and `ReportOrderFree` says that it
  does not matter.
* The first query of a page takes whatever stores a filter leaves, sorted by their
  latest record, the second fetches them; `totalItems` is left out.
* `figures` counts once per query, in any order, with other steps in between;
  `changed` remembers whether stores came or went. Only the two counts that
  `getTotalStoreUnsynced` and `getStoreSyncChartData` subtract are modelled;
  `activeStores` is shown as it is.

## 3. Runs

Deadlock is not checked: the environment's budgets run out and a finished system
stands still. Every bound is a constant: `MaxAborts` (crashes, uncaught errors),
`MaxErrors` (failed calls that a catch block sees), `MaxTimeouts` (visibility
timeouts that overtake a running call; those of dead calls are free; called
`MaxRedeliveries` in `MyHrSync`), `MaxOverruns` (claims of a running MyHR worker
that grow old), `MaxStoreOps`, `MaxRemovals`, `MaxTriggers`, `MaxDevices` and
`MaxLogs` of `ChunkPayload`, `MaxRows` of `ExcelUpload`, `MaxTime` and `MaxCodes` of
`Account`, `MaxResets` of `PasswordReset`, and `Budgets` of `Catalog`: how many calls
of each kind a behaviour makes.

| Run | Instance | Shows |
|---|---|---|
| `store_sync_faults` | an upload of two chunks, a retry of one of them by a second upload, two handlers, one fault of each kind | claims are exclusive and never forgotten, outcomes justified and stable, counts exact |
| `store_sync_live` | one upload of two chunks, one of them without logs, one fault of each kind, one store operation, fairness | no message is dropped untaken; implements `SyncOutcome`; chunks and records are concluded, with the two exceptions below |
| `store_sync_counts` | one upload, one failed call | **violated**: counts of a FAILED record may stay old |
| `upload_chunks` | all uploads of up to four devices with up to seven logs each; all files of up to five rows for three devices of two stores; limit three | the cut is the reference cut, nothing is lost, every row is sent once, the loops end |
| `legacy_sync` | a message with two records, one with a single record, shared ids, batches of two, one fault of each kind, one deleted store, fairness | SUCCESS means complete, counts sound and exact where promised, retries succeed |
| `account` | one user, two calls at a time, two code values, three issues, four instants, two failures to a lock | one token per code, mail, cooldown, lock |
| `password_reset` | one user, two calls at a time, four tokens, four passwords, five resets, history of three | uses of a link, dead links, sound history, no recent password |
| `backoffice` | two stores, three devices, two calls at a time, an import of up to three rows, up to three sync attempts over two days, one page or one request for figures | how far uniqueness and the deactivation rule can be off; imports, reports, pages, figures |
| `myhr_faults` | two rows, two jobs, two workers, one scheduling call at a time, one fault of each kind | delivery records, verdicts, what stays, uploads bounded by the faults |
| `myhr_live` | two rows, one trigger, one crash, two errors, fairness | attempts are bounded; chunks and jobs are concluded, with the exception below |
| `myhr_taken_over` | one row, two triggers at a time, no fault | **violated**: a delivered row is taken over by a second job |
| `myhr_late_success` | one row, one lost reply of a send | **violated**: a row that MyHR has is recorded as FAILED |

*Why these bounds are enough to be interesting.* Two handlers are the smallest
number that can meet on a chunk; a third would only wait or repeat the second.
Two chunks of one record are needed for overlapping finalizations and for a
record that is partly failed; the third chunk, of a second upload, shares an
attendance id and so exercises duplicates in both orders. Faults are budgets
that are spent at any step: one of each kind allows every pair and triple of
different faults, such as a crash after an early redelivery. Two errors
(`myhr_live`) reach the attempt limit of two; two jobs let a later job meet what an earlier one left. A limit of three
with devices of up to seven logs has devices that end before, at and after a
chunk boundary and span three chunks, in every order and with empty devices in
between. Batches of two make `LegacySync` insert in several statements. In `account`,
three codes of two values let a value come back after another one, four
instants let codes of lifetime three and cooldown one be fresh, replaceable and
expired, and two calls reach the limit of two together. Five
resets fill a history of three, drop from it and let a dropped password come
back; four tokens let two calls hold one each after two were used. In
`backoffice` a behaviour has one of seven budgets (`MCBudgets`): devices under one
or two stores with two creates at a time; an import with a sync attempt and a
store operation; three sync attempts, one or two of them of SYNC_RECORDS messages;
a page, and figures, with two attempts and a store operation. What the budgets keep apart does not meet in the code either:
pages, reports and figures write nothing, and imports never touch a device.
Deactivating and deleting a store while its sync runs needs one store operation.
A type invariant that is proved (section 4) is not checked again by a run, and
triggers that overlap in `MyHrSync` are left to the theorems (for
`SyncedWasAccepted`, `JobSuccessSound` and the two bounds) and to
`myhr_taken_over`. The theorems of section 4 hold without any of these bounds.

*Fairness.* Handlers, workers, scheduling calls and uploads take their next
step (weak fairness): each is a call that returns or times out. A message that
becomes visible again and again is eventually received (strong fairness), since
every process polls for as long as it runs. `ExcelUpload` is sequential: its
next step comes. The timeouts of work that nobody is
doing any more expire (weak fairness). Faults are never forced, so no property
relies on one happening or not happening.

*What liveness says, exactly.* `ChunkConcludes` (StoreSync) excepts a chunk
whose owner was cut short: the next delivery finds it PROCESSING, returns, and
its message is deleted; nothing takes it up again. `RecordConcludes` needs a
crash *and* an early redelivery to fail. In MyHR a stale claim is taken back, so
`ChunkConcludes` has no exception there; `JobConcludes` excepts a job whose
scheduling process died before every chunk was sent: such a job stays
PROCESSING, and every later trigger is skipped because of it. `Succeeds`
(LegacySync) excepts a failure that meets an early redelivery: the overtaken
handler writes FAILED, or dies after PROCESSING, when the other one has already
succeeded and deleted the message.

### Findings

1. `store_sync_counts`: chunk 1 fails and its handler takes its summary; chunk 2
   succeeds, its handler finalizes and acknowledges; the first handler then
   writes its older summary. `insertedRecords` of the FAILED record stays too
   low. A SUCCESS record cannot be hit: it needs a summary of SUCCESS chunks
   only (`SuccessCountsRows`).
2. `myhr_taken_over`: two triggers pass the check for an active job together.
   The second job selects rows that the first then delivers, and `createChunk`
   resets their state to PENDING. The schema comment promises that a delivered
   record is not selected by a later job.
3. `myhr_late_success`: a send fails after SQS took the message, so
   `markJobAsFailed` fails the chunk and its rows while a worker uploads them.
   The worker sets the chunk to SUCCESS, the rows stay FAILED.

## 4. Proofs

The theorems about `StoreSync` hold for arbitrary sets of stores, uploads,
records, chunks, attendance ids and handlers and arbitrary bounds, assuming only
`StoreSyncConstants`: the static functions have their types, chunk indices are
unique within a record (the unique index of the table), and every record has a
chunk (`chunkSyncPayload` never returns an empty list).

* `StoreSyncProofs!TypesHold` (`TypeOK`). `TypeOK` alone is not inductive: a
  step of a handler writes the row of *its* chunk, which must be a chunk.
  `TypeInv` adds that a handler that is not idle has one. The finalization's
  error, a `CHOOSE` over the failed chunks, needs that a nonempty set of chunks
  of one record has a smallest index (`FirstOfFailed`, by well-foundedness of
  the naturals).
* `StoreSyncProofs`: `ClaimIsExclusive` (`OneOwner`), `ClaimIsNotForgotten`
  (`NoForgottenClaim`), `MessageIsKept` (`DeletedMessageWasTaken`). They are
  proved together, from one inductive invariant `ClaimInv`. `OneOwner` alone is
  not inductive: the claim is safe because the chunk is PENDING and *an owned
  chunk is not* (`OwnerStatus`), a property that the catch block, the lost reply
  of the success update and the deletion of the store each have to keep.
  `DeletedMessageWasTaken` rests on `PastClaim`: a handler that got as far as
  acknowledging has seen its chunk past PENDING, and no step leads back to
  PENDING. `Known` says that only stored chunks have messages. TLC confirmed
  `ClaimInv` on an instance before it was proved.
* `StoreSyncProofs`, second half: `OutcomesAreSound` (`OutcomeSound`), `CountsAreRows`
  (`SuccessCountsRows`), `OutcomesStay` (`TerminalStable`). What a record reports
  is only as good as the summary a finalization took earlier, under a snapshot,
  and writes later, under a lock. `SummariesHold` says what of it is still true
  then: the FAILED chunks and the SUCCESS chunks in it stay what they are, which
  needs the claims (`TypeInv /\ ClaimInv`), and it covers *every* chunk of the
  record, which needs `Whole`: a message is sent only when all chunks of its
  record are stored. For the counts, `RowsAccounted` follows an attendance row
  from its insertion, over a handler that owns its chunk and has counted it, to the
  count of a SUCCESS chunk, and `CountedAreRows` goes the other way.
  `PayloadKept` says why a chunk may be concluded: the rows found in the first query
  are still there, or their store is not. TLC confirmed `OutcomeInv` before it was
  proved.
* `StoreSyncProofs!PipelineImplementsOutcome` (`ImplementsSyncOutcome`): under the
  mapping of `StoreSync` initial states map to initial states and every step to a
  `Resolve`, `Succeed`, `Fail` or `Remove` or to a stutter. The same invariants
  are what makes `Settle` a `Succeed` or a `Fail` with its guard.

* `LegacySyncProofs`, for any payloads, batch size, number of messages, records
  and handlers and any faults, from `LegacySyncConstants` (logs name records of
  their own message; finitely many attendance ids). Three layers:
  * `CountsAreSound` (`CountSound`) and `LegacyTypeCorrect` (`TypeOK`) from
    `SoundInv`. That a handler's count stays within its type *is* a property: it
    holds because a record owns what has been counted for it
    (`CountedAreOwned`), which an insertion keeps because the ids of a batch are
    distinct (`OncePerId`) and had no row.
  * `SuccessMeansComplete` (`SuccessComplete`) from `CompleteInv`: an id that is
    no longer to be offered has its row, or had it and lost it with a deleted
    store (`OfferedHadRow`).
  * `CountsAreExact` (`CountExact`) from `ExactInv`. A message that was never
    redelivered has one handler (`SingleHandler`), which started from records
    without rows (`NothingBefore`) and from counts of zero, and from then on counts
    what its record owns, *or has skipped a row* (`CountingExactly`): the
    property is about payloads without a skipped row, but the invariant has to speak
    of the others, since whether one was skipped shows only in the end.

  TLC confirmed all three on the instance of `legacy_sync` before they were proved.

* `ExcelUploadProofs`, for every limit, every file and every upload, from
  `ChunkPayloadConstants` and `ExcelUploadConstants` (the first serial number of a
  valid row is that of a known device; there are finitely many devices).
  First the loop, whose invariant is `ChunkInv`. `RoomAlwaysLeft` (`RoomLeft`):
  between two rounds the chunk being filled is below the limit. Hence no
  chunk exceeds it, every round of the inner loop takes at least one log, and
  the branch for a chunk without room is never taken. `LoopInv`
  adds that an offset other than 0 lies inside a device of the upload;
  `SliceFits` bounds what a round takes. With it, `ChunkTypes` (`TypeOK`).
  `CutIsReference` (`CutAsReference`) and `NothingIsLeftOut` (`NothingLeftOut`) rest
  on `CutInv`: the number of logs taken so far is `Limit` for every chunk plus
  `currentCount`; the chunk being filled has exactly the taken logs beyond the
  finished chunks; its slices are in order and behind the loop's position; and
  every log and device passed is in some part. What makes the induction short is
  `TakenByPlace`: the logs taken are those whose place is at most their number, so
  that a full chunk has its stretch as soon as the numbers agree.
  Then the file. `EveryRowIsSentOnce` (`EveryRowOnce`) rests on `ExcelInv`:
  `FileRead` (the rows read so far are those of the entries; an entry has the rows of
  its device in increasing order; no device has two entries) and `Grouped` (the
  group has all entries of its store and is the upload that the loop got). That
  `CutGroup` hands the loop an upload it was proved for (`CutGroupSound`) needs
  both that a group is not empty and that devices in it are distinct, hence no more
  than there are. The property itself then follows from the two about the cut: a
  carried row is a log of its chunk (`CarriedIsLog`) and every log is carried
  (`LogIsCarried`), and they are carried in the order of the upload
  (`CarriedInOrder`), across chunks because places of an earlier chunk are smaller.
  TLC confirmed `CutInv` and `ExcelInv` on the instance of `upload_chunks` before they
  were proved.

* `FilterProofs!NthInOrder`: the positions that a filter leaves are visited all, once
  and in order, for every finite set of them. `Backoffice` and `ExcelUpload` use it.

* `AccountProofs`: all the properties of the run `account`, for any number of
  calls and any limit, lifetime and cooldown (`AccountConstants`: the cooldown is
  at most the lifetime). They rest on one invariant, `AccountInv`. The
  properties are not inductive as they stand: `GoodCall` says that a call about to issue has seen
  the cooldown of *the code it read* pass, which with `StillSame` makes it the
  cooldown of the code in force; `PendingMailStored` links the locals of a call
  that is about to mail to the codes stored; `OneTokenPerCode` counts the code in
  force as one not yet spent. `LockIsKept` (`LockedMeansShut`) also says what the lock
  of failed logins is worth, which `login` lifts by id on the strength of an older
  read: each lift uses up a login that was under way before the lock, and no such
  login is added while the lock lasts.

* `PasswordResetProofs`: all the properties of the run `password_reset`, for any
  number of calls, tokens and passwords and any length of the history.
  `TokenInv` follows a token from its generation (carried by one call, known to
  nobody) to its use (in no row any more); `LinksStayDead` and the types follow
  from it. `LinkUsesBounded` needs a count that a single use does not change:
  uses of `t` *plus* the calls about to use it (`UsesInv`). For the history,
  `Window` says that the row holds the run of passwords that were set one after
  the other, and `CallHistory` that a call which has read the latest password has
  read the row's own history.

* `BackofficeProofs`: `BackofficeHasCatalog` shows that `Backoffice` implements
  `CatalogSpec`: whatever it adds leaves the catalog alone. The theorems about
  stores and devices are proved of `CatalogSpec` and carried over:
  `CatalogTypes`, `DuplicatesAreBounded` (holders of a number plus creates that
  have found it free are no more than there are calls: `SharedInv`) and
  `InactiveIsExplained` (a device that is inactive *or about to be* is
  explained: `InactiveInv`). `BackofficeTypes` adds the tables.
  Of the rest, `ImportsArePrefixes` (`ImportIsPrefix`) follows from `ImportSound`:
  what an import remembers and what the tables say are the same map from stores
  to sync records, and every row before the one it is at belongs to a store of that
  map. `FiguresAlwaysAddUp` (`FiguresAddUp`) needs to know what holds while a
  request is half answered (`FiguresSound`): each answer so far is at most the
  number of stores, and the answer that is the number of stores still is that
  number. It uses that there are finitely many stores (`CatalogConstants`). TLC
  confirmed both invariants on the instance of `backoffice` before they were proved.
  `PagesShowNewer` (`PageShowsNewer`) rests on `PageSound`: what a page has found are
  stores that exist or are gone for good, and while one exists its latest record is
  not earlier than the one remembered. `ReportsAreOrderFree` (`ReportOrderFree`) and
  `SuccessStaysReported` (`ReportedSuccessStays`) rest on `ReportSound`, which says
  what is reported in terms of the *set* of attempts. The loop over their sequence
  is a recursive function; that it has a value and what that value is
  (`RunningExists`, `RunningIsLatest`) is proved by the least counterexample
  (`LeastOfSome`), since induction is out of the provers' reach here. That every
  order has all attempts (`ReturnedIs`) and that a filter keeps the order
  (`NthInOrder`, `KeptIs`) are facts about finite sets. `SuccessStaysReported` further
  needs `SuccessIsShown` (a success of a day is shown, at its time or a later one) and
  `RecordsStay`: only a record of a SYNC_RECORDS message ever leaves SUCCESS. TLC
  confirmed `PageSound` and
  `ReportSound` on the instance of `backoffice` too.

* `MyHrSyncProofs`, for any number of schedulers, workers, rows, jobs and chunks
  and any bounds, so also for triggers that overlap: `MyHrTypes` (`TypeOK`; with
  the shape of a worker's locals in `TypeInv`), `SyncedRowsWereAccepted`
  (`SyncedWasAccepted`), `JobVerdictsAreSound` (`JobSuccessSound`) and
  `SuccessIsKept` (`SuccessStays`). The invariant is `DeliveryInv`: a chunk
  that is SUCCESS has been accepted, a worker that is about to conclude knows
  that it was, one that is about to write SUCCESS for a job has seen all of its
  chunks SUCCESS, and nobody adds a chunk to a job whose first message has been
  sent (`JobOwned`, `JobSound`), which is what makes a read of the chunks still
  true when the verdict is written. TLC confirmed `DeliveryInv` on the instance
  of `myhr_faults`, and on one with overlapping triggers, before it was proved.
  `UploadsAreBounded` (`AcceptedOnce`) and `AttemptsAreBounded` (`AttemptsBounded`)
  rest on `PaidInv`. Neither bound is inductive, since it compares what has
  happened with the faults spent and says nothing of what is about to happen.
  The invariant counts *chances* as well: an upload may follow from a chunk that
  is free to be claimed, from a worker that is about to upload and from a claim
  that was taken back from a worker which has not noticed; an attempt from a claim
  likewise. Every chance was paid for, by the creation of the chunk or by a fault,
  and a step may turn one chance into another but not add one (`UploadsPaid`,
  `AttemptsPaid`). This needs that the worker which holds the message knows the
  number of attempts that is stored, that a receipt which is out of date belongs to
  a message that was redelivered (`Receipts`), that a worker which finds its
  chunk concluded is not counted twice (`ConcludedSeen`), and that all sets
  counted are finite (`FiniteInv`). TLC confirmed `PaidInv` before it was proved.
  `SyncedIsKept` (`SyncedStays`) is the one result that assumes, as the run of that
  property does, that triggers do not overlap (`OneTrigger`): with two of them it is
  false (finding 2). The invariant is `PageFresh`: the rows of a page have no
  delivery record until the chunk of that page is created, also when an earlier
  trigger died half way. TLC confirmed it on the instance of `myhr_faults`.

**Only model-checked.** Every safety property of a passing run has a theorem.
What stays with TLC, on the instances of section 3, are the liveness properties
(`ChunkConcludes` and `RecordConcludes` of `StoreSync`, `Succeeds` of `LegacySync`,
`ExcelReturns`, `ChunkConcludes` and `JobConcludes` of `MyHrSync`): the prover has
no rules for fairness and ENABLED here.

`StoreSync!CountsRefreshed` and `MyHrSync!DeliveryAuthoritative` are violated
(findings 1 to 3) and have no theorem for that reason.

## 5. Not modelled

* *The cached MyHR token.* It is a field of one process, shared by its uploads and
  cleared by any of them. No state depends on it: a missing token costs a login, a
  stale one a 401, which is a failed call in `MyHrSync`.
* *Single queries*: the lists and look-ups of stores, devices, users, attendance
  rows, jobs and employees, `getSyncRecordsByDeviceSerialNumbers`, the data of
  `generateExport`. One statement and a projection leave nothing to interleave.
* *Formatting*: workbook layout, CSV cells, punch codes, mails. *Time zones*: a day
  is a day in the models, while the report counts days in its own time zone,
  the page in UTC and the statistics in that of the process.
* *Stateless parts*: guards, permission tables, file signatures, configuration.
  *Audit rows* are appended after the response and read by nobody here.
* *The testing endpoints* send a message that every delivery rejects.
* *Seeds and one-off scripts*, run by hand on an idle database, among them the
  table `SyncStatistics`, which only they write.
* *The coupling of messages inside one poller*: `poll` waits for the slowest of
  ten. Handlers receive on their own in the models, which covers several
  processes and is more than one of them does; that one hanging call
  delays the others is not expressed.
* *Effects of store deletions on MyHR delivery*: they remove rows with their
  delivery state.
