# A verification project for legere

legere is a self-hosted archive of documents and receipts: one Node process that
serves the API and the web interface and runs the background workers, a
PostgreSQL database that also holds the job queue (pg-boss), an S3 store, and
external services that do the reading (Stirling-PDF, Docling, language models).
This directory holds TLA+ modules translated from its source, TLC configurations
that check them on small instances, and TLAPS proofs.

1. [Inventory](#1-inventory)
2. [The modules and the code](#2-the-modules-and-the-code)
3. [What the runs check](#3-what-the-runs-check)
4. [Fairness](#4-fairness)
5. [Where the code and its docs disagree](#5-where-the-code-and-its-docs-disagree)
6. [What is proved](#6-what-is-proved)
7. [What is not modelled](#7-what-is-not-modelled)
8. [Plan](#8-plan)

Paths below are relative to `src/src/server/`.

## 1. Inventory

The code that decides something is in `application/` (use cases and job
handlers), `domain/` (entities and pure rules) and parts of `infrastructure/`
(the queue, the repositories, throttling). Controllers, clients of services and
the React interface carry no logic of their own worth a model.

### Document pipeline

*State.* A document's row: the status of six steps (`canonical`, `preview`,
`markdown`, `analysis`, `fields`, `vectorization`), the one recorded error with
the step it belongs to, the type and who chose it; the composition (pages) and
the canonical PDF built from it; the jobs of the queue `document-process`; in
the process, a map from document to the promise of its last run.

*Operations.* A run of the handler (`jobs/handle-document-process.ts`), a
reprocess (`documents/reprocess-document.ts`), every edit that enqueues a rebuild
(`documents/compose-document.ts` and others), the choice of a preview page, the
release of paused steps (`queue/resume-released-pipeline-work.ts`), the hourly
sweep (`jobs/handle-maintenance.ts`), the retry of a failed job.

*Hard.* A run takes minutes and writes by rows it read long before; two jobs of
a document may be active at once, and a job may be delivered again while its
first call goes on; a service goes away in any step; the process dies; pauses
hold steps whose inputs are not there; the queue absorbs jobs it takes for the
same work.

*Correct when* two runs never work on one document, an edit is always built, an
outage or a pause is never turned into a verdict about the document, the error
shown belongs to a step that has not gone through since, what a person chose is
kept, and every step gets its answer in the end.

### Job queue (pg-boss)

*State.* Rows of `pgboss.job`: created, retry, active, failed. *Operations.*
enqueue under the `short` policy with a key derived from the payload, fetch,
complete, fail (another attempt, or no more), expire, retry by hand, archive.
It is external; what is modelled of it is what the adapter and the repositories
of `src/` use.

### Queue workers

*State.* `WorkerRegistry`: per queue the subscribers that poll, one job each,
the setting they were registered with, and the slots they share.
*Operations.* `start`, `reconfigure`, and a callback for each job.
*Hard.* A reconfiguration does not wait for callbacks, so subscribers of two
settings work side by side; pg-boss may reject any call half way.
*Correct when* the limit holds over both generations, no fetched job is stranded
between them, and a queue has the subscribers its setting says.

### Service gates

*State.* `ServiceGate`: concurrency, cooldown, slots taken, FIFO queue, the
breaker armed by an outage, the hold and the timer set by a provider's
Retry-After. *Operations.* `configure`, `run` with its two awaits, two timers.
*Hard.* Everything can change while a unit waits or dials; a slot is given by
one microtask and taken up in another; timers come early or late.
*Correct when* each slot is freed exactly once, nobody is overtaken or
forgotten, the limit, the hold and the breaker are respected.

### Processing control plane

*State.* The settings row with its revision; what the gates and workers were
last configured with; the state of the last application; the chain of commands.
*Operations.* Commands on one queue, step or service, and the legacy one that
replaces everything; persist, apply, recover by writing the before-image as a
new revision, resume what a pause released; crash and boot.
*Hard.* Any database or queue call may fail, in the recovery too; commands based
on old revisions; a crash between the row and the runtime.
*Correct when* the runtime holds what the row says or the snapshot admits that it
does not, and no command covers a write it has not read.

### Whole-file reads

*State.* A counter and a FIFO of waiters in front of every request that needs a
whole file in memory. *Operations.* `run`, refused with 429 over a depth.
*Hard.* The slot of a waiter is counted by the waiter, one microtask after it was
woken. *Correct when* nobody is left in the queue.

### Library scan and file ingest

*State.* Libraries with the time of their last scan, scan runs, file refs (path,
size, time, `DISCOVERED`, `HASHED`, `MISSING` or `EXCLUDED`, hash and file), the
jobs of `library-scan` and `file-ingest`.
*Operations.* Due scans and "Scan now" (`jobs/handle-library-scan.ts`,
`libraries/manage-scans.ts`), a walk that compares the tree with a snapshot of the
refs and enqueues what it is not sure of, an ingest (`jobs/handle-file-ingest.ts`)
that hashes a file and marks its ref in the transaction that gives the bytes a
document, switching a library on and off.
*Hard.* The volume and the refs change during a walk that goes by its snapshot;
a scan dies between its refs and its jobs; a file changes while it is hashed;
scans and ingests are delivered twice.
*Correct when* a ref that would pass for unchanged has the hash of what is there,
a ref never names a file that is gone, and every file of an enabled library has a
home in the end.

### Files, composition, trash

*State.* File rows, one a content; documents with their pages, of which several
may read one file; receipts, each over one file; the trash mark of a file; the
originals in the bucket.
*Operations.* Uploads, additions, replacements, ingests; arranging, turning,
cropping, splitting, moving, combining, removing, deleting
(`documents/compose-document.ts`, `arrange-pages.ts`, `manage-documents.ts`);
conversions between document and receipt (`archive-items/`); restore and purge
(`trash/manage-trash.ts`); the sweep of the bucket (`jobs/handle-maintenance.ts`).
*Hard.* Lists of pages are computed from a read and written much later;
transactions at READ COMMITTED decide side by side whether a file is still read;
objects and rows are written by different services; rows of a file are locked in
some operations and only read in others.
*Correct when* every file is in reach of somebody or in the trash, a content has
one row and one home, no page is lost to a list computed from an older one, a
document keeps pages and readers, and the original of a file is in the bucket.

### Receipts and duplicate review

*State.* Receipts (`ACTIVE`, `REPLACED`, `MERGE_UNDONE`) with the state of their
preview and extraction, reviews of pairs with what each decided, combined PDFs,
jobs of `receipt-process`.
*Operations.* Different purchases, keep one, combine, undo
(`receipts/review-receipt-duplicates.ts`), delete, convert, process, retry,
recover (`jobs/handle-receipt-process.ts`, `receipts/manage-receipts.ts`,
`receipts/retry-failed-receipts.ts`).
*Hard.* A decision rests on the result of an earlier one; combining assembles a
PDF outside any transaction; undo in any order; receipts disappear and change
while they are processed.
*Correct when* whatever a decision hid can be brought back, no purchase vanishes
or is counted twice, and processing settles.

### Page OCR

*State.* One result per page and provider, its attempts. *Operations.* Request,
handle, retry (`ocr/`). *Hard.* Answers of minutes written by old reads.

### Registration, sessions, invites, OAuth

*State.* A verification series with code, attempts and ticket; invites, resets,
users, sessions; codes and token families of OAuth. *Operations.* Start, verify,
complete, log in, change a password, rotate a token. *Hard.* Concurrent requests
that spend the same attempt, ticket, invite or code.
*Correct when* each is spent once and an expired one never.

### The rest

Request throttling (a sliding window and a block, in memory), catalogues of
people, subjects and types with their merges, collections, search, integrations,
adapters, presentation and the web interface.

### How they interact

People and schedules enqueue jobs; workers fetch them as far as the shared slots
allow; a handler calls services through their gates and writes rows; a settings
command changes gates, workers and pauses at once; what it releases is
reprocessed; maintenance enqueues what was forgotten. People and scans bring files,
whose bytes go to the bucket before their rows are committed and leave it after; an
edit of a document, a conversion and a decision about receipts enqueue the work they
cause once they are committed. Everything in memory
(chains, slots, gates, queues, timers) is gone with the process, and the rows and
jobs remain.

## 2. The modules and the code

| Module | What it models |
| --- | --- |
| `ServiceGate` | `application/queue/service-gate.ts`, one gate |
| `WholeFileReads` | `application/documents/whole-file-reads.ts` |
| `WorkerRegistry` | `infrastructure/queue/worker-registry.ts`, one queue |
| `ProcessingControl` | `application/processing/processing-control-plane.ts`, with `application/queue/queue-settings.ts` and `reconfigure` of the registry |
| `PipelinePause` | `domain/entities/pipeline-pause.ts` and the pure rules of `domain/entities/document.ts` and of the handler |
| `DocumentPipeline` | one document: its row, its jobs, the runs of `application/jobs/handle-document-process.ts`, and everybody who touches them |
| `FileLife` | what the archive promises about a content: an abstract specification |
| `ArchiveFiles` | files, pages, receipts, trash and bucket, with every operation that brings, arranges, converts, discards, restores, purges or sweeps them; it implements `FileLife` |
| `LibraryScan` | one library: `jobs/handle-library-scan.ts`, `jobs/handle-file-ingest.ts`, `libraries/`, and what people do to the documents of its files |
| `ReceiptReviews` | one owner's receipts: `receipts/review-receipt-duplicates.ts`, `jobs/handle-receipt-process.ts`, deletion and conversion |
| `...Proofs` | theorems about the module of the name: `ServiceGate`, `WorkerRegistry`, `WholeFileReads`, `ProcessingControl`, `DocumentPipeline`, `ArchiveFiles`, `LibraryScan`, `ReceiptReviews` |
| `MC...` | instances for TLC |

`PROJECT.json` maps every definition to its lines. Operators under a comment
that begins with `fault:` or `Mutant:` model no code: each is a bug the code does
not have, used to see that a property would notice it.

**Atomicity.** JavaScript runs to its next `await`. An action is therefore the
code from one await to the next, with at most one database access: what is read
before an await is kept in the state (`exec[e].row`, `request[r].row`,
`cmd[c].before`) and used after it, as the code does. In `ServiceGate` and
`WholeFileReads` the awaits are microtasks: a woken unit is a stage of its own
(`admitted`, `woken`), other microtasks may run before it, timers may not
(`MicrotasksDrained`).

**ServiceGate.** `pc[u]` is how far the call `u` of `run()` has come. Deadlines
are the number of ticks left. `Call` is `run()` up to `acquire()`'s await,
`Resume` the rest up to dialing, `Answered`, `Unreachable`, `Throttled` the three
outcomes that `watch()` tells apart, `Finally` and `CooldownOver` the two places
where a slot is freed. `Tick` is the clock; `Drift` lets timers run ahead of it,
which is why `scheduleResume` re-arms. A unit that went in while there was no
gate (`ungated`) took no slot and frees none.

**WorkerRegistry.** A subscriber polls, has fetched a job and waits for a slot, or
works. `OffWork` stops the polling of all of them and lets callbacks go on;
`Start` resizes the shared slots before `Work` registers new subscribers one by
one; `Throw` is a rejection of pg-boss anywhere in between. Subscribers are taken
from a finite set, so `Work` waits when all are in use; `Work` is not required to
happen.

**ProcessingControl.** A command goes through `queued`, `persist`, `gates`, `off`
and `start` for each affected queue, and `resume`; on a failure through `restore`,
`off` and `start` again, with the before-image. The three places where the
before-image can fail to be applied (the row, the queue, the workers) are three
faults. A command that is answered leaves the head of the chain, and the next one
reads the row only then. `Clamp` is the one conversion that changes numbers. One
service and one flag for all pausable steps are enough: gates are configured without
failing, and paused steps have no copy in memory.

**DocumentPipeline.** `Deliver` is a worker's fetch with the chaining of
`inFlight`; `Read`, `Slate`, `Begin`, `Reread` and the `Step...` actions are the
run; `End` and `Abort` its ends; `Expire`, `Archive`, `RetryFailed` the queue;
`Ask`, `Allow`, `Submit` the three awaits of a reprocess. The work of a step is
one of four outcomes: done, nothing to do, failed, service away. The content of
the canonical PDF is the revision of the composition it shows. The sweep's
conditions on age (two hours without a write) are read as: no live job and no
reprocess between its write and its enqueue.

**ArchiveFiles.** `req[r]` is how far a request has come and what it has read.
Every id a request makes (file, document, receipt, page entry) is named after the
request, which keeps ids fresh without a counter. Transactions run at READ
COMMITTED. One whose decision rests on a read without a lock is two steps: it has
read (`checked`, with the documents it has locked, the rows it holds and the hash
it has locked) and it commits, so that others may read and commit in between; one
that takes its locks before it reads is a single step. `Upload`, `Ingest`,
`AddFile` and `ReplaceFile` store the object; `CheckBytes` is
`findOrCreateByContentHash` under the advisory lock of the hash, with the
questions asked of the row; `CommitBytes` the rest of the transaction;
`DropObject` the delete of an object that was not needed. The edits have the list
they were computed from as a precondition (`Unchanged`), as `replacePages` has;
`Combine` and `ExpandPages` take the list under the lock. `TakeOut` and
`CommitTakingOut` write the pages and ask what is still read
(`filterFilesWithoutLivePages`). `Purge` deletes rows and `PurgeObjects` their
objects; `SweepList`, `SweepAsk`, `SweepDelete` are the three steps of the orphan
sweep. `crossed` is a ghost: the files about which two open transactions decided
side by side, a sweep asked while their row was not yet committed, whose pages were
written to a document combined into another one meanwhile (`Strands`), or whose
document was made a receipt of another file. It changes nothing and says where the
code's promises end. Lists are selected from and opened without recursion:
`InOrder` lines a set up by an order, `Pick` takes the entries at some places in
their order, and everything the code does with `filter` and `flatMap` is one of
these, so that it can be proved about. A move to a new document has the request as
its target, since that is the new document's name.

**LibraryScan.** `Write` and `Move` are the volume; a size and a modification time
are one number from a clock, and a content is its own file id. A scan is `Fetch`
(with the snapshot), `Visit`, `PassBy`, `TooLarge` and `Collide` for the paths of
the walk, `MarkMissing`, `EnqueueIngest`, `FinishScan`; `FailScan`, `Expire`,
`Crash` and `RecoverJob` interrupt it and bring it back. An ingest is
`BeginIngest`, `HashFile` and a transaction at READ COMMITTED: `FindFile` finds the
row of the bytes (which is locked by nobody) or creates one that nobody else sees
yet, `MarkRef` marks the ref and asks for a document, `CommitIngest` commits both
with the document it may create. `FileGone`, `RowGone` (the foreign key refuses a
mark that names a purged row), `FailIngest` and `ExpireIngest` are its other ends. A
purge is two statements: `BeginPurge` excludes the refs that name the file, as they
are committed by then; `Purge` deletes the row, for which it waits until no open
ingest refers to it, and commits; `AbortPurge` is the refusal of a page that has come
to read the file, or the time limit. What a transaction has written and not committed
is kept with it (`ingest`, `purging`, `tombs`), and a statement that wants a ref
another one has written waits (`Locked`). At the end of a purge the foreign key clears
every ref that still names the file (`Purged`). A document created over a file that
was trashed since the ingest found it makes `home` "both": the file is read and in
the trash. Jobs of one path that wait are one: a second one ingests what the
first has ingested. Two variables are ghosts: `unread`, paths whose ref has a time at
which nobody has read the file, and `beside`, paths whose ref was last marked while a
purge of the same file went on. Retries of an ingest are left open: a failed one may
come back or not, and the next scan must see to it.

**ReceiptReviews.** Comparing two receipts and deciding about them is one step:
the request carries a revision that every write changes, and it is computed again
under the locks of both rows, so that a decision about a pair that has changed is
refused and does nothing. Combining is more: `StoreMerged` assembles and stores the
PDF, `FindResult` is its transaction up to the file and the receipt to reuse,
`CommitMerge` the rest of it, `CleanUp` the delete of a PDF without a row. The hourly
sweep of the bucket works on the same objects beside all this: `SweepList`,
`SweepAsk`, `SweepDelete`, one await each. `Undo` refuses while a
later review in force uses the result. `BeginRun`, `StartRender`, `Rendered`,
`StartExtraction`, `Extracted` are a run; `SweepStale`, `RecoverJob` and
`RetryFailedReceipts` bring it back. Two variables are ghosts: `converted`, combined
receipts that were documents when their decision was undone, and `missed`, PDFs that a
sweep asked about while the combination they are for had not committed. The trash is
not in this module: a deleted receipt is neither restored nor purged (section 7).

**Abstracted data.** Text, fields, vectors, file names, messages and wording are
left out. A setting is a small number, a step list is a set, a document's type is
only who chose it.

## 3. What the runs check

| Run | Instance | Properties |
| --- | --- | --- |
| `gate` | 3 calls, concurrency 0..2, cooldown 0..1, deadlines up to 4 ticks | `SlotAccounting`, `NoLostWakeup`, `ProviderDeadlineKept`, `NoOvertaking`, `LimitRespected`, `HoldRespected`, `BreakerRespected`, `WaiterServed` |
| `reads` | 5 calls, limit 2, depth 2 | `QueueIsServed`, `CounterIsReaders`, `WaiterReads` |
| `workers` | 5 subscribers, concurrency up to 3, 2 rejected calls | `SlotsAreJobs`, `NobodyStranded`, `SubscribersAreApplied`, `ConcurrencyHeld`, `FetchedIsWorked` |
| `control` | 2 queues, 2 commands at a time, 2 revisions written by commands, 3 faults | `RuntimeFollowsStored`, `FailedRecoveryTold`, `NoUnreadOverwrite`, `CommandAnswered` |
| `pipeline_faults` | 2 jobs, 2 calls, 1 edit, 1 outage, 2 crashes, expiries or database errors | `OneRunAtATime`, `NoEditForgotten` |
| `pipeline_pauses` | every set of pauses over canonical, markdown, analysis, set from the start and never switched; three of 1 reprocess, a type set by hand, 2 outages | `PauseIsNoVerdict`, `RecordedErrorIsCurrent`, `PausedStepNotStarted`, `DoneStaysDone` |
| `pipeline_settles` | 1 job, 2 calls; two of a fault, 2 outages, an edit, a pause or a release | `EverythingSettles` |
| `archive` | 3 requests of any kind, 2 contents of one and two pages, 4 archives to start from, 2 files a document | `LostOnlyByOverlap`, `OneHome`, `ReadersRemain`, `OriginalKept`, `NothingOverwritten`, `LifeOfContents` |
| `library` | 2 paths, 2 contents, a library of at most 1 file, 2 scans and 1 ingest at once, 1 "Scan now"; two of a change of the volume, a decision of a person (a purge among them), a fault | `RefsNameRows`, `FreshHash`, `EveryFileSettles` |
| `receipts` | 3 receipts, one not yet processed, 3 overlapping pairs, 2 reviews, 2 results, 1 sweep of the bucket at a time; one of a fault, a retry, a deletion, a conversion or a sweep | `HiddenIsUndoable`, `PurchaseStaysVisible`, `CountedOnce`, `ReceiptsSettle` |
| `pipeline_lost_rebuild` | an edit and two changes of the pauses | `RebuildOutlivesPause`, refuted |
| `pipeline_manual_type` | a type set by hand during a run | `ManualTypeKept`, refuted |

What the three runs of rows and files show:

* `LostOnlyByOverlap`: a file is out of reach only where two transactions decided
  about it side by side, or where its pages are in a document that was combined
  away. The plain promise (`BytesInReach`) does not hold; section 5 says why.
  `OneHome`: a file is pages of documents, a receipt or in the trash, and one of
  these, unless it was crossed over. Crossed files are left out of it because of a
  sequence the run is too small for: pages stranded in a document that was combined
  away are a receipt by then, and a second combination that had read the document
  while it was live takes them to a live one.
  `ReadersRemain`: no sequence of edits leaves a document without pages, or one
  nobody may read. `OriginalKept` is about the bucket. `NothingOverwritten`: a page
  stays somewhere, with its crop, until a request that saw it takes it out or edits
  it. `LifeOfContents` is the refinement: under `place <- PlaceOf`, which says of a
  content whether it is unknown, in documents, a receipt, in the trash or in
  limbo, each step is one of `Arrive`, `Discard`, `Convert`, `Recover`, `Forget` of
  `FileLife`, or a stutter. It shows that only a purge forgets a content, and
  nothing that is in use is purged. `Recover` is the second combination above.
* `RefsNameRows`: a ref that names a file names the row of the content it was hashed
  to, and that row has a home; a ref that passes for hashed names a file, unless it
  was marked while a purge of the same file went on (`beside`). The exception is real
  (section 5), and what is left of the promise for such a ref is `EveryFileSettles`:
  the next scan takes it for one to read again. `FreshHash`: a ref a scan would take for
  unchanged has the hash of what is there. `EveryFileSettles`: once nothing changes
  any more, each file has a home for good.
* `HiddenIsUndoable`, `PurchaseStaysVisible` and `CountedOnce` relate decisions and
  receipts in both directions, whatever was undone, deleted, converted or combined
  again in between. Of the original of a combined receipt `PurchaseStaysVisible`
  says that it is in the bucket, whatever the end of a failed combination or a sweep
  deletes, unless a sweep asked about it before its row was committed (`missed`):
  the race that `OriginalKept` exempts for uploads, and TLC reaches it here in seven
  steps when the exemption is taken out. `ReceiptsSettle`: nothing stays in
  processing unless it has failed.

**Why the bounds are enough.** Three units give one that dials, one that waits
and one that tries to overtake. With a safety margin of 1 and deadlines of up to
3 ticks each of the three answers of `safeRetryAfterResumeAt` occurs (the
deadline itself, its midpoint, the margin before it), and 0 and 4 are the
deadlines outside its range. Five subscribers are two working ones of an old
setting and three of a new one. Two queues are one that was reconfigured and one
whose reconfiguration fails. Three faults are a failed application, a failed
recovery and a crash. One document is enough because a run touches only its own
document and the map of chains is per document; two jobs are the one that runs
and the one an edit or reprocess adds; two calls are one that is chained and one
that runs. `RETRY_LIMIT` is 1 or 2 instead of 5, so that retries run out.

Three requests are two that cross over a file and one that finds what they left.
The four archives are what makes files meet: two documents of one scan, a library
document combined with an upload, a document and a deleted receipt, a receipt and
a library file in the trash. `MaxFiles` 2 lets a combination reach the limit and
pass it. Two paths are enough for a move and for two refs of one content; with a
limit of one file a scan of both is refused; two scans are one that has a snapshot
and one that overtakes it; one ingest is enough to meet a purge, a deletion or a
restore between any two of its statements, and two ingests of one content are kept
apart by the lock on the hash. One sweep is enough beside the one combination that is
made at a time. Three receipts in a chain of pairs, and a pair with the
result of a combination, let a review rest on another and be undone in both
orders. The run `library` has 775 470 distinct states, `receipts` 426 481, `gate` 45 438.

The type invariants of the modules are not among the properties of the runs. Those
of `ServiceGate`, `WorkerRegistry`, `ProcessingControl` and `DocumentPipeline`, and
the types of `LibraryScan` and `ReceiptReviews`, are proved (section 6); so is that of
`ArchiveFiles`, whose parts are `OneRow` and `RowsFit` of `ArchiveFilesProofs`.

**What the bounds leave out.**

* `NoEditForgotten` is checked with fewer faults than retries. When a rebuild
  loses *every* attempt before its clean slate (process death or database errors
  each time) the canonical step still reads as `DONE`, and nothing but the failed
  job itself remembers the edit.
* In `pipeline_pauses` the pauses hold from the start and nobody switches one, so that
  of the hazard of pauses that are read after the row
  (`jobs/handle-document-process.ts:225`) the run meets a row that changes and not
  pauses that do. A pause set in the middle of a run does not stop that run: the
  handler reads the pauses once. Switches are in `pipeline_settles` and in the refuted
  `pipeline_lost_rebuild`. One reprocess at a time is asked for (`MaxAsks` 1).
* `DoneStaysDone` speaks of runs that nobody disturbs: an edit or a reprocess is
  meant to do steps again, and a retry after a crash has no checkpoint.
* `EverythingSettles` is stated for documents that people leave alone in the end,
  which the bound on events ensures; steps held by a pause are excepted.
* `EveryFileSettles` is asked of a library that is on and within its limit, of
  files that are there, that nobody has deleted from the archive, and whose new
  bytes no restore has hidden (`Library_hidden_bytes.cfg`, section 5). It asks for a
  home for good, and for a fresh hash again and again, not for good: a
  scan with a snapshot older than an ingest asks for that file once more.
* `ReceiptsSettle` is satisfied by a receipt that has failed in one of its two
  steps while the other is stuck (section 5).

`CHECK_DEADLOCK FALSE` is set where the system may really come to rest: a
document that is settled with no job left, a control plane whose bounded
revisions are used up.

## 4. Fairness

* `ServiceGate`: the clock and the timers go on, microtasks are run, and every
  call to a service ends (`AbortSignal` timeouts in the clients). Nothing makes
  anybody call, configure or drift.
* `WholeFileReads`: microtasks are run, and a read ends.
* `WorkerRegistry`: a job ends (each handler's services time out, and pg-boss
  expires a job that does not). A reconfiguration need not be completed.
* `ProcessingControl`: a call of the database or of pg-boss returns or fails. No
  fairness on `Boot` or on clients.
* `DocumentPipeline`: runs go on, requests that have begun are carried through, a
  job whose call is lost expires, failed jobs are archived, the hourly sweep
  comes. `Deliver` and `Submit` are strongly fair: a worker polls again and again,
  and a free place among the bounded jobs and calls, of which the code has as
  many as it wants, may come and go. Nobody has to ask, edit or release.
* `LibraryScan`: the cron comes back, an expired job is found and delivered again, a
  scan or an ingest that is under way goes on. `BeginIngest` is strongly fair for
  each path: jobs of one priority are fetched in the order they came, so that none
  is passed over for ever while the worker is now busy and now free. A purge that
  has begun ends, by its time limit if need be. Nobody has to touch the volume,
  press "Scan now", or delete.
* `ReceiptReviews`: a job that waits is fetched, a call under way goes on, an
  expired job is found, the sweep of stale receipts comes back, and a transaction that
  has begun ends. Nobody has to decide, undo or retry, and no sweep of the bucket has to
  come.
* `ArchiveFiles` has no fairness: what a request leaves undone is undone.

## 5. Where the code and its docs disagree

Two runs end in a counterexample that TLC finds:

* **An edit made during a pause of the canonical step is lost**
  (`Pipeline_lost_rebuild.cfg`). `05-library-and-processing.md` says that any
  change to the composition enqueues a rebuild (line 923) and that resuming drains
  what waited (line 481). An edit leaves the step `DONE` and enqueues a job; its
  run meets the pause and drops the step; the release looks for steps that are
  `PENDING` or `QUEUED`, the sweep for unfinished ones; the canonical PDF keeps the
  old composition until somebody reprocesses it.
* **A type chosen by a person during the analysis is overwritten**
  (`Pipeline_manual_type.cfg`). `03-domain-model.md:263` says that `MANUAL` is
  never overwritten. The handler decides by the row it read before it asked the
  model.

Eight more were met while modelling. Their properties are stated in the modules
and their configurations kept here, to be run by hand; TLC refutes each.

* `Pipeline_sweep_held.cfg`, `HeldStepUntouched`: the docs say that a step a pause
  is holding is not swept (`05-library-and-processing.md:198-200`); the sweep
  leaves out the paused steps and not those a pause of their *input* holds, so
  it marks these `QUEUED` and enqueues a job that does nothing.
* `Pipeline_outage_verdict.cfg`, `OutageIsNoVerdict`: the docs say that a document
  is never marked `FAILED` because a container was away (line 531). A reprocess of
  the preview alone, while the canonical step waits for its service, takes a
  step that is `QUEUED` for one that failed, and marks the preview `FAILED`.
* `Pipeline_error_wiped.cfg`, `ErrorKeptUntilRerun`: the comment on
  `clearsRecordedFailure` says that an error may be wiped only by a run that may
  re-run its step; a reprocess decides so from a row read before the pauses, and
  wipes an error that another run recorded in between.
* `ProcessingControl_applied.cfg`, `AppliedIsLive`: after a failed recovery the
  state is `DEGRADED` until a restart (line 663); the next command that succeeds,
  about another queue, overwrites it with `APPLIED`, and the snapshot says so while
  a queue has no workers.
* `WholeFileReads_limit.cfg`, `ReadsWithinLimit`: the comment promises a fixed
  number of units in flight. The queue loses its waiter when a read ends and the
  counter gains it a microtask later; a call in a microtask between the two takes
  the slot as well. It needs two microtasks of different requests to be pending at
  once, and the excess goes away as reads end.
* `Archive_out_of_reach.cfg`, `BytesInReach`: the backlog (`tasks/backlog.md:1304`,
  M47.15) wants no sequence of compositions to leave "bytes nobody can delete". Two
  transactions that each take one of the last two pages of a file out see the
  other's page, and neither puts the file into the trash. Two more ways lead there:
  pages appended to a document that was combined into another one meanwhile
  (`Combine` and an addition without precondition do not read the state of their
  target again), and pages added to a document while it is converted into a receipt
  of what it was read to hold.
* `Library_tombstone.cfg`, `TombstoneKept`: a scan leaves `EXCLUDED` refs alone
  (comment at `application/jobs/handle-library-scan.ts:158`), but by its snapshot; a
  document deleted during the walk has its ref marked `MISSING`, and comes back
  with the file.
* `Library_hidden_bytes.cfg`, `HashedIsRead`: a ref whose size or time changed is
  rehashed (`05-library-and-processing.md:75`). A restore marks the refs of its file
  `HASHED` whatever they are; if a scan has just given one a new time, the new bytes
  are never read.

Others follow from the same models and have no configuration of their own:

* A restore asks for the home of a file without a lock on it, so that two restores,
  or a restore and an upload of the same bytes, may both give it a document.
* The orphan sweep asks for rows before an upload has committed and deletes the
  object after it has (`crossed` in `OriginalKept`). It does the same to the PDF of a
  combination of receipts, which is put into the bucket before its transaction
  (`receipts/review-receipt-duplicates.ts:257`): the combined receipt is on the shelf and
  its original is gone (`missed` in `PurchaseStaysVisible`).
* A purge excludes the refs of its file (`trash/manage-trash.ts:243`) without seeing one
  that an open ingest has just marked, waits for that ingest to delete the row, and the
  foreign key (`ON DELETE SET NULL`) clears the ref: it stays `HASHED` and names no file
  (`beside` in `RefsNameRows`). The next scan reads it again, and the purged file comes
  back as a new document.
* A document deleted between the statements of an ingest that found its file leaves the
  ingest with a file that was live when it was found and has no document when it asks: it
  creates one over a file that is in the trash by then ("both" in `home`).
* Converting a document takes pages that were added or replaced meanwhile with it,
  and may make a receipt of a file that is in the trash by then.
* Bytes that are already a receipt make an ingest fail on every retry; an ingest of
  a managed file without a home, or of one whose receipt is deleted at the same
  time, gives a document that nobody may read.
* A failed scan that is retried with its run finds the run ended and returns;
  "Scan now" on a library that is off leaves its run `RUNNING` until it is on again.
* A scan that dies between the marking of a ref and its job, with the document
  deleted in between, leaves the new bytes behind an `EXCLUDED` ref.
* A receipt whose preview has failed while its extraction is queued or running is
  not recovered by the sweep (`lockStaleUnstarted` leaves failed ones to people).
* A combined receipt that is a document while its decision is undone, and is
  converted back afterwards, is on the shelf next to its parts (`converted` in
  `CountedOnce`); `21-receipt-duplicates.md:39` leaves it out of the undo on
  purpose. Restoring a deleted combined receipt from the trash
  (`trash/manage-trash.ts:172-199`) does the same: it makes a new receipt over the
  same PDF, beside the parts if its decision was undone in between. This one is not
  modelled, and `CountedOnce` says nothing of it.

## 6. What is proved

`ServiceGateProofs` proves, for any finite set of units, any limits and any times
with `0 < RETRY_AFTER_SAFETY <= MAX_RETRY_AFTER`, every safety property that the
run `gate` checks. The assumptions are those `ServiceGate` names.

The invariant that is inductive is

    IInv == TypeOK /\ SlotAccounting /\ QueueMatchesStages
            /\ NoLostWakeup /\ ProviderDeadlineKept

No part stands alone. `TypeOK` says that the counter does not go below zero, which
only `SlotAccounting` gives: a unit that frees a slot is counted in it.
`SlotAccounting` needs `QueueMatchesStages`: `admit()` adds to the counter the
number of heads it takes off the queue, and this is the number of units that
change stage only if the queue holds each waiting unit once. `NoLostWakeup` needs
the second half of `ProviderDeadlineKept` (a hold has its timer) where a call
queues because of a hold. `ProviderDeadlineKept` needs a fact about the
arithmetic of the deadline, `SafeResumeRange`.

The proof goes along the code. `AdmitKeeps` is the heart: whatever calls
`admit()`, if the counter given to it is the number of slot holders among the
stages given to it and the queue is exact for them, both hold afterwards, and the
gate is full, held, or its queue empty. It rests on two lemmas about
sequences (the first `n` of a sequence without repetition are `n` elements;
the rest of it keeps the others, once each). `FreeKeeps` and `ReleaseKeeps` carry
it to the two places that free a slot; there is one lemma for each action, and
`StepKeeps` puts them together. The action properties follow from the invariant:
`AdmitObeys` for those who come out of the queue, `StepObeys` for every step.
`LimitRespected` is stated for each unit that gets in and not for the counter, since a
release frees a slot and lets the next unit in at once: with a limit lowered below the
slots taken the counter would not rise, and the unit must not get in.

`WorkerRegistryProofs` proves every safety property of the run `workers`, for any
finite set of subscribers, any maximum and any number of rejected calls. Its
invariant has two halves. The slots (`SlotsInv`) repeat the argument above on
the same two lemmas: the counter is the number of running jobs because the queue names
each waiting callback once, and `AdmitKeeps` holds for `Start` as well, which
resizes the slots while subscribers of an old setting work. The subscribers
(`ChangeInv`) need `ChangeProgress`, which `SubscribersAreApplied` is not inductive
without: after `offWork` nobody polls, a reconfiguration that is `left` short of its
`target` has registered `target - left` subscribers, and who was told to stop is
still in a callback, so that no place is reused while it counts as stopped.
`ConcurrencyHeld` follows from the invariant after the step: the counter is within
the limit when somebody is let in, and it is the number of running jobs.

`WholeFileReadsProofs` proves the two invariants of the run `reads` for any finite
set of calls, any positive limit and any depth. `QueueIsServed` is kept because a
release takes one off the counter and adds one to those who are awake, if the
waiter it wakes is neither reading nor awake already; this is `QueueIsExact`.

`ProcessingControlProofs` proves the type invariant and every safety property of the
run `control`, for any queues, commands, revisions and failed calls. The
argument is about the chain. `InChain` says that of all commands only the head is
past its read, so the row is what the head has read or written (`RowIsItsOwn`), and
the runtime is what it has applied so far (`RuntimeAsFar`): queues it has not got to
are among those its change is about (`Remaining`), and every other one is as the row
says. While a command is applied the revision of the last failed recovery, `lost`, is
below the row's, so that a recovery that fails marks its own revision and no later
command takes it for another (`FailedRecoveryTold`).

`DocumentPipelineProofs` proves `OneRunAtATime` and `RecordedErrorIsCurrent` for any
number of jobs, calls, retries and faults. The first needs the shape of the chain
(`InLine`): the calls that are alive form a sequence, each `after` the one before,
the map points at the last, and only a call that waits for nobody runs
(`RunsFirst`). The second needs `ErrorIsBehind`: before its clean slate a run has in
hand the error that the row records, or none is recorded; from then on it has
something left to do, and the error recorded, if any, is of none of these steps.

On this invariant rest four accounts, inductive together with it (`Accounts`), and
with them every other safety property of the runs `pipeline_faults` and
`pipeline_pauses`:

* `DebtIsOwed` gives `NoEditForgotten` (`EditsAreRebuilt`). While the canonical PDF
  reads as done and shows an old composition, some job owes the rebuild (`Owes`): it
  is live and asks for the canonical step, it is no resume, every call made for it
  has yet to read the composition, and it has lost no more attempts than there were
  faults. A job that loses a call goes into its next attempt as long as
  it has one, and still owes; a job that has none left has seen more faults than
  `RETRY_LIMIT`; an edit brings a job of its own or is absorbed by one that waits.
  Two hypotheses, both needed. Faults are at most `RETRY_LIMIT`: with more, every
  attempt may be lost. No pause can hold the canonical step: with one the
  code does lose a rebuild, which is what the run `pipeline_lost_rebuild` shows.
  The number of edits, jobs, calls, outages and requests is arbitrary, and so are
  pauses of other steps.
* `PausesHold` gives `PauseIsNoVerdict` and `PausedStepNotStarted`, for as long as
  nobody switches a pause (`spent.switches = 0`, as in the run): what a paused step
  that is not settled feeds is not settled in the row, nor in the row that a run has
  in hand before its clean slate, and no run has a held step to do after it. When a pause
  is set during a run both fail by design, since the handler reads the pauses once.
* `OnItsOwn` gives `DoneStaysDone` (`NothingDoneIsUndone`). While nobody has touched
  a document, no reprocess or release is under way, each call has an active job of
  its own (`EachItsJob`), a run that is no resume is alone and finds nothing done
  (`FirstAlone`), and no run has a done step to do (`NoneToRedo`). Outages, expiries,
  retries from a checkpoint and the sweep all keep it.
* `Counted` and `CreatedIsNew` are what these need of the counters: no bound is
  passed, and a job that was never delivered has neither retries nor calls.

`LibraryScanProofs` proves the two invariants of the run `library`, for any paths,
contents, number of scans, ingests and purges, statement by statement. It asks
nothing of a scan's snapshot, which may be as old as it likes. `RowsHeld` says that
the row an open ingest has marked a ref with stays until it ends, because a purge of
it waits; `PurgesSeen` that an open ingest which refers to a file that is being
purged knows it (it was told when the purge began, or asked when it marked), and
that a purge which can still delete its row finds it named only by refs it has
marked itself or by refs that were marked beside it. From these `Purged` leaves a
hashed ref without a file only in `beside`. `HashKnown` is that a hashed ref has a
hash. `Clocked` says that no time is ahead of the clock, so that a file that changes
has a time nobody knows; `HashIsThere` that the hash of a ref, or of an ingest that
has read its file, is the file's, unless the file has another time by now or a scan
wrote the time of bytes that nobody has read (`unread`).

`ReceiptReviewsProofs` proves the three invariants of the run `receipts` for any
receipts, pairs, reviews, results and faults. They are inductive only together and
with five facts: a review names a result that fits its pair and has been there
(`Named`), a combined receipt has a file and the file its object (`Objects`), a
receipt is combined of one pair, however often (`OnePair`), a decision about a
combined receipt comes after the one that made it (`MadeFirst`), and a combined
receipt that is there has a decision in force (`InForce`, from which `CountedOnce`
follows). An undo brings back what its review hid because nobody else has
hidden it since, and sets the combined receipt aside because no other review in
force made it or rests on it. `MergeIsSound` carries this over the steps of a
combination that is being made, and `SweepIsSound` over those of any number of sweeps:
what a sweep is about to delete belongs to no row, and if it belongs to the combination
under way it is in `missed`; `Objects` is about `Kept`, the PDFs that are in the bucket
or missed, and every sweep leaves `Kept` what a row or the combination needs.

`ArchiveFilesProofs` proves every property of the run `archive`, the refinement of
`FileLife` among them, for any contents and page counts, any number of requests and
any archives to start from. The archives are at rest (`ArchivesAssumption`): their
ids are not those of requests, pages and receipts name rows, each file has one
place, each document has pages and readers. TLC evaluates the assumption on the four
archives of the run. The proof has three parts.

*Between the bucket and the database* (`Invariant`): `OriginalKept`, and that a
content has one row. `HashIsHeld`: of the transactions that bring the same bytes one
is open, and while it is about to create their row there is none. `StoredIsThere`:
what a request has stored for a file it may create is in the bucket, or a sweep has
asked about it. `DeletesUseless`: what a purge or a sweep is about to delete from
the bucket belongs to no row, and to no request that may still create one; a purge
deletes rows first, ids are not used again (`MadeAtTheEnd`), and the object of an
open upload that a sweep asked about is in `crossed`. `GoOnKeeps` and `CreateKeeps`
are the two ways a request goes on; each action is shown to be one of them.

*Where the files are* (`Arranged`): `LostOnlyByOverlap`, `OneHome` and
`ReadersRemain`. None of the three is inductive, because a transaction commits what
it decided about rows it read some steps ago. The strengthening is `AInv`:

    AInv == RowsFit /\ OnePlace /\ (\A q \in Requests : RequestFits(q)) /\ Apart
            /\ ReadersRemain

`OnePlace` has the first two properties, and that a document combined away holds
nothing but crossed files. `RequestFits` says of what a request has in hand that it
still fits the rows: a list in hand was read of a live document, and if that has been
combined away since, the pages stranded in it are of other makers than the list's, so
that the edit finds another list and is refused; a replacement
leaves every document it reaches its readers; what an open transaction decided about
the places of its subjects holds until it commits, for every file that is not
crossed. `Apart` says why it holds: two open transactions have locked different
documents, and what both of them decide about is crossed. For each action one lemma
shows which documents and files it disturbs and that others' decisions are not
among them, or cross (`DecidedStay`, `LockedStay`); `StepArranges` puts them
together.

*Steps.* `NothingOverwritten` (`PagesAreAccounted`): every page is `Accounted` for by
the action that disturbs it. An edit writes a list that keeps the one it was
computed from (`KeepsAll`), which is the one that is there; a move, a split and a
combination share the pages out between two documents (`Shares`); a deletion, a
removal and a replacement take out what their request names. `LifeOfContents`
(`ContentsLive`): `Was(f)` is the place of a row, and there is one row a content
(`OneRow`), so the place of a content is that of its row or `unknown`; every action
is shown to be a step of `FileLife` or to move nothing.

What the two parts need of lists is proved first, from counting: `InOrder` of a
finite set hits each element once and in order (`Strict` orders), so `Pick` keeps
the entries of the chosen places, and expanding keeps every entry or replaces it by
its pages. That is why these operators count places and do not use `SelectSeq` and
`FlattenSeq`: those are recursive, and what they return for every input cannot be
proved.

What stays with TLC alone: liveness under fairness and `ENABLED`, which are out of
the prover's reach: `WaiterServed`, `WaiterReads`, `FetchedIsWorked`, `CommandAnswered`,
`EverythingSettles`, `EveryFileSettles`, `ReceiptsSettle`. Every safety property of
every passing run is proved, within the hypotheses said above:
`NoEditForgotten` is only checked, and refuted, beyond them; `PauseIsNoVerdict` and
`PausedStepNotStarted` are claimed for pauses that stay as they are.

## 7. What is not modelled

* What services compute, how PDFs, pictures and mails are read: external or data.
* The bulk reprocess by step: many single reprocesses, whose order and bound the
  single document does not see.
* Of the queues, what the handlers that are modelled do not need: their
  priorities, the listings of the monitor, the handlers of embeddings and OCR.
* Of the archive: the preview page, the metadata and the people of a document; who
  may read which document, beyond the question whether somebody may.
* Of a library: unreadable folders, files past the memory limit, and the overlap of
  the folders of two libraries (`libraries/manage-libraries.ts:260-276` asks for it
  without a lock).
* Of receipts: which pairs are proposed, the limits of a combination, the replay of
  an operation id (it only answers), the pause of their queue; their restore from the
  trash, and its purge, beside reviews (both are in `ArchiveFiles`, without reviews).
* Of the pipeline: the markdown step of an e-mail writes the type too, as `AUTO` and by
  the row it read before (`jobs/handle-document-process.ts:587-602`). It is a second way
  to what `pipeline_manual_type` refutes and touches no other property.
* Page OCR, registration, sessions, invites, OAuth and throttling (plan).
* Catalogues, collections and search: rows changed by one transaction each, one SQL
  query; the hard part is text.
* Several processes: the architecture has one (ADR-002); chains, slots and gates
  are in its memory.
* Losing or corrupting the database: a transaction is atomic and durable.
* HTTP, authentication of requests, rendering, the web interface.

## 8. Plan

1. *Done:* the gates, the workers, the control plane, the document pipeline, the
   files of the archive with their abstract life, the library, the receipts, and a
   proof module for each.
2. `Registration`: series, attempts, tickets, invites and resets with concurrent
   requests; the OAuth code and token family.
3. `PageOcr`: one result per page and provider, its attempts and the staleness of a
   run against an edited document.
4. Pure rules against reference definitions: the sliding window of the throttler,
   page order, the work key.
5. An abstract queue (units, a limit, first come first served) that `ServiceGate`
   and `WorkerRegistry` both implement; `ProcessingControl` over `WorkerRegistry`
   instead of its summary of it; `DocumentPipeline` composed with the edits of
   `ArchiveFiles`.
6. Theorems: the parts of the abstract queue (5) as refinements; what
   `EditsAreRebuilt` becomes when a pause of the canonical step is never released; a
   `FileLife` with the documents of a content instead of its place; the premises
   of the liveness properties (that what a fair action waits for stays
   enabled), as far as they are invariants.
