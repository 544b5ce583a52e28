# VAS: a verification project in TLA+

VAS is a face recognition and person tracking service: cameras push images to a
webhook, a FastAPI backend recognises the faces, decides who each one is, records
the sighting with its evidence, and raises alerts. This directory models the parts
of the backend in which several actors meet over state that must stay right: the
intake of images, the path of the evidence, the vector index beside the database and
the deletion of people from both, live alerts, vehicle sightings, and the queue of
machine learning jobs. TLC checks them on small instances, and TLAPS proves their
safety properties for all instances.

Paths below are relative to the repository; line numbers refer to
`backend/...` under `src/`.

## 1. Inventory

### Components, their state and their operations

| Component | State it keeps | Operations | What makes it correct |
|---|---|---|---|
| Webhook intake (`routes/webhook.py`, `core/processing_feedback.py`) | per-process maps of seen and reserved job keys, feedback records | answer a repetition, reserve, offer, release or keep the key | a refused image can be retried; an accepted one is not taken twice; what is polled is under way |
| Ingest queue (`core/processing_queue.py`, `services/queue_worker.py`) | per-pipeline buffers, an asyncio queue of batches, a count of waiting images, totals | `add`, `flush_batches`, `get`, `process_batch` | the backpressure count is exact; an accepted image is neither dropped nor forgotten |
| Frame identity transaction (`services/image_processing.py`, `core/identity_service.py`) | identities and embedding rows; an open transaction per frame | match, create, insert, commit, skip | an embedding never outlives its purpose; no row references a deleted person |
| Evidence persistence (`core/detection_evidence.py`) | detections, faces, appearances, embedding links | `persist_detection`, `compensate_failed_detection`, publish, alert | evidence is recorded once and whole, and announced at most once |
| Batch writer and spool (`core/batch_writer.py`, `core/detection_spool.py`) | `*.json` and `*.failed.json` files, a flush lock | enqueue, flush, acknowledge, rotate, quarantine, stop | accepted work settles as recorded or quarantined, never both, never neither |
| Circuit breaker (`core/circuit_breaker.py`) | state, failures, last failure time | `can_execute`, `call_succeeded`, `call_failed` | opens at the threshold; probation is strict |
| Orphan reconciliation (`core/identity_retention.py`) | none of its own | select, read the spool, delete | removes every orphan, and only orphans |
| Merge and unmerge (`core/identity_service.py`, `core/identity_merge_lock.py`) | `merged_into_id` chains, `identity_merges` | merge, unmerge, `resolve_survivor` | evidence follows its person |
| Permanent deletion (`core/known_face_lifecycle.py`) | a journal, rows, files, index entries | delete, resume | nothing of the person is left and the deletion can be resumed |
| Vector index (`core/vector_index/*`) | memory index, snapshots on disk, a `CURRENT` pointer | add, remove, save, load, reconcile | `CURRENT` always names a whole snapshot; index and table converge |
| ML job queue (`core/task_history.py`, `ml/job_service.py`, `ml/worker.py`) | job rows with status, lease, cancel flag; one child process per job | enqueue, claim, renew, cancel, finish, expire | one active job per type; every job ends in one terminal state |
| Supervision (`core/service_supervisor.py`, `lifespan.py`) | one task per loop | restart with backoff, start, stop | a loop that fails is called again |
| Locks and rate limits (`core/distributed_lock.py`, `core/rate_limiter.py`) | Redis keys | acquire, release | exclusion while Redis answers |
| Delivery (`core/websocket_manager.py`, `core/detection_alert_inbox.py`) | connections, subscriptions | broadcast | at most once per client |
| Live alerts, watch lists (`core/live_alert_service.py`, `core/watchlist_service.py`) | alerts with count, status, last trigger; trigger rows | evaluate and fire inside a frame's transaction, pause, resume, renew, delete, expire | no update is lost; cooldown and limits hold |
| Vehicle sightings (`vehicles/ingest.py`, `vehicles/processing.py`, `routes/vehicles.py`) | one row per detection, record and job at once: state, attempts, lease, review, version | accept, claim, finish, fail, review, retry | an event is stored once and whole; one analysis; a person's verdict stands |
| Enrollment (`core/enrollment_service.py`, `routes/known_faces.py`) | pending enrollments, photos | submit, approve, reject | one approval; rows and files agree |
| Caches and tracker (`core/face_tracker.py`, `core/redis_cache.py`, ...) | recent faces | remember, expire | a stale entry never resurrects a person |
| Retention of files and logs (`core/data_retention.py`, `core/storage_references.py`) | files | sweep | a file that is still named is kept |
| Settings, clustering, batch search, exports, analytics, ML registry, authentication, SQL agent, HTTP API, frontend | see `PROJECT.json` | | |

`PROJECT.json` lists all of them with what is modelled and, for the rest, why not.

### How they interact

```
camera -> webhook -> ingest queue -> worker --identity transaction--> identities, embeddings
                                       |
                                       | add_detection (durable: fsync + rename)
                                       v
                                     spool  --flush--> persist_detection --> detections, faces,
                                       ^                   |                  appearances, link
                                       | protects          +-> publish, acknowledge, alert
                               reconciliation (retention loop)
administrators: merge, permanent deletion (same tables, no knowledge of the spool)

persist_detection --evaluates--> live alerts <--pause, renew, delete-- users
                                             <--moved by merges, expired by a sweep

identities, embeddings --write, cleanup, status--> FAISS index --save--> snapshots, CURRENT
        |   ^                                        ^      ^                  |
        |   +---- permanent deletion: journal, purge-+      +----- startup ----+
        +------------- reconciliation (loop) --------+

webhook --accept--> vehicle_sightings <--claim, finish-- vehicle workers
                                      <--review, retry-- people

API --enqueue, cancel--> background_task_history <--claim, renew, expire, finish-- worker
                                  ^                                                  | spawn,
                                  +---------finish--------- child process <----------+ terminate
                                                                 |
                                                                 +--> models, datasets, thresholds
```

The actors share three things: PostgreSQL rows at READ COMMITTED, the spool
directory, and the memory of one process (the deployment runs a single worker,
`gunicorn.conf.py`, so each in-memory lock is global).

### What is hard

* A frame is two transactions, possibly minutes apart: the identity transaction
  commits the embedding, the flush commits the detection that links it. Everything
  else - merges, deletion, reconciliation, a restart - can come between.
* Commit, publication, removal of the file and alerting are four steps. The
  process, the connection or a timeout may cut the sequence anywhere, and the
  writer can believe a write failed when it took effect.
* Two deletions (compensation, reconciliation) decide on a statement snapshot and
  act after waiting for row locks; foreign keys cascade over what was committed
  meanwhile.
* One flush at a time must make progress past a frame that always fails.
* A job runs in a process that its worker cannot see into: the lease of the worker
  can pass while the process works, the process can commit its outcome after its job
  was given up, and the worker can die or fail to report.
* The index is told after the row commits, and told of a removal before it commits.
  Reconciliation applies rows it read before an await. Saves and purges run in a
  thread, guarded by a flag that is tested before an await and by a Redis lease that
  is granted to everyone while Redis is away.
* A snapshot is published in four durable steps; an error or a crash falls between any
  two, and the code that cleans up runs after the pointer may already have moved.
* A live alert is read into a session, decided on, and written back. No lock is taken
  for it; the safety of the count rests on locks taken for other reasons.
* A sender repeats a request while the first one is at work; keys and records expire
  or are full meanwhile.
* A person reviews a sighting while workers analyse it, each under a lease that may
  pass.

`PROJECT.json` lists each hazard at its line, with the property that covers it or
the reason none does yet.

## 2. The modules

| Module | Models | Read it for |
|---|---|---|
| `CircuitBreaker` | `core/circuit_breaker.py` | operators, composed into the next module |
| `DetectionEvidence` | identity transaction, spool, batch writer, compensation, reconciliation, merge, deletion | the core of the project |
| `EvidenceLedger` | nothing in the code: the abstract specification | what the evidence path promises |
| `IngestQueue` | `core/processing_queue.py`, `services/queue_worker.py` | the queue in front |
| `WebhookIntake` | `routes/webhook.py`, `core/processing_feedback.py`; extends `IngestQueue` | what a repeated request is told |
| `VectorIndex` | `core/vector_index/*`, `core/distributed_lock.py`, `core/known_face_lifecycle.py`, the index calls of `core/identity_service.py` and `core/identity_retention.py` | snapshots, reconciliation, permanent deletion |
| `VehicleQueue` | `vehicles/ingest.py`, `vehicles/processing.py`, the review routes of `routes/vehicles.py` | leases and optimistic versions |
| `LiveAlerts` | `core/live_alert_service.py` inside `persist_detection`; merges and unmerges | a read-modify-write under borrowed locks |
| `MlJobs` | the queue part of `core/task_history.py`, `ml/job_service.py`, `ml/worker.py` | leases, supervision and child processes |
| `JobLifecycle` | nothing in the code: the abstract specification | what the job queue promises |
| `MCDetectionEvidence`, `MCWebhookIntake`, `MCVectorIndex`, `MCVehicleQueue`, `MCLiveAlerts`, `MCMlJobs` | - | instances for TLC |
| `EvidenceLedger_proofs`, `MlJobs_proofs` | - | the refinement proofs, and what the abstract specifications promise |
| `DetectionEvidence_proofs` | - | invariants of the rows, on top of `EvidenceLedger_proofs` |
| `IngestQueue_proofs` | - | the counting argument of the queue |
| `WebhookIntake_proofs` | - | the intake refines the queue; keys and records, on top of `IngestQueue_proofs` |
| `VectorIndex_proofs`, `VehicleQueue_proofs`, `LiveAlerts_proofs` | - | inductive invariants |

Definitions named as seeded faults are the operations with a plausible mistake in
them. No specification uses them: putting one in the place of its original makes the
property it was written for fail, which shows that the property can.

### DetectionEvidence: state

| Variable | In the code |
|---|---|
| `person`, `survivor`, `mergeLog` | rows of `identities`, the end of each `merged_into_id` chain, rows of `identity_merges` |
| `emb`, `owner` | the row of `identity_embeddings` of the frame: absent, `unlinked` (`detection_id` NULL), `linked`, deleted; its `identity_id` |
| `recorded`, `sighting` | rows of `detections`; the identity of the frame's `identity_appearances` and `faces` rows |
| `aged` | embeddings older than `STALE_CAMERA_EMBEDDING_GRACE` |
| `worker`, `face` | where the worker is in `process_image` for the frame; the face dict it carries, which is also what the spool file stores |
| `queue`, `quarantined` | `<root>/*.json` in mtime order; `*.failed.json` |
| `flusher`, `batch`, `current` | where `flush` is, the files it listed and has not tried, the one it is on |
| `circuit`, `failures` | the writer's breaker |
| `cleaner`, `rows`, `doomed` | where `reconcile_orphan_camera_embeddings` is, the rows it selected, the identities its open transaction decided to delete |
| `published`, `alerted` | counts of calls, for the properties |

### DetectionEvidence: actions

* Identity transaction: `MatchIdentity`, `InsertObservation` (separate, because a
  merge or a deletion can fall between the search and the insert), `CreateIdentity`,
  `CommitObservation` (heard of or not), `RollbackObservation`, `Discard`.
* Hand-over: `Enqueue` (`add_detection`), `WriteDirectly` (feedback requested, or the
  spool refused the frame).
* Direct write: `DirectCommit`, `DirectFail`, `DirectPublish`, `DirectAlert`,
  `DirectCompensate`, `DirectErase`, `WorkerGivesUp`.
* Flush: `FlushBegin`, then for each frame `FlushCommit`, `FlushReplay`,
  `FlushRetain` (which may hide a commit), `FlushInvalid`; after a commit
  `FlushPublish`, `FlushAcknowledge`, `FlushAlert`, `FlushPostCommitFails`; for broken
  evidence `FlushCompensate`, `FlushErase`, `FlushCompensateFails`, `FlushQuarantine`;
  at any point `FlushCancelled`.
* Reconciliation: `CleanerSelect`, `CleanerReadSpool`, `CleanerDelete`,
  `CleanerErase`, `CleanerFails`.
* The rest: `Merge`, `DeletePerson`, `GracePeriodEnds`, `Crash`.

`Persist` is `persist_detection` from its link check to its commit. `LockedRows` and
`ReferencedByOpenInsert` stand for PostgreSQL's row locks: rows an open transaction
deleted, and the KEY SHARE lock an uncommitted insert holds on the identity it
references. `EraseRows` is a deletion with the schema's cascades
(`db_models.py`: embeddings and appearances cascade, faces are set to NULL, merge
records forbid). A transaction is one step when its locks keep the others out for
its whole length; it is split where the code reads a snapshot and acts on it later.

### IngestQueue: state and actions

`buffer` is `pipeline_batches`, `old` the pipelines past `batch_timeout`, `queue` the
asyncio queue, `pending_items` the count behind backpressure, `step` and `inHand` the
workers, the totals are the processor's counters. `add` is `Add` and `AddRefused`,
`flush_batches` is `Flush`, `get` is `Get`, the worker goes on with `AcquireSemaphore` and
`Finish`. `add` and `flush_batches` hold `_batch_lock` and never suspend inside, so they
are single steps; and as nobody holds the lock across a suspension, `get`, which takes it
after the batch, never waits for it and is a single step too.

### WebhookIntake: state and actions

`seen` is `_dedup_seen` without its expired keys, `pending` is `_dedup_pending`, `record`
the feedback records of `processing_feedback._events`. Of each request, `answer` is its
progress and then what it was told, `offered` and `queued` the images the queue was
asked to take and took.

The head of the handler has no await and is one step for each way out:
`AnswerProcessing`, `AnswerPending`, `AnswerDuplicate`, `RefuseCapacity`, `AnswerEmpty`,
or `Reserve`. Then `Offer` (one `add`, through `IngestQueue`'s `Add` and `AddRefused`) for
each image, and `EndRequest` or `Interrupt`, both through `Finally`. `Report` is the
worker's report on one image before its batch is finished; `ForgetKey` and
`ForgetRecord` are the TTLs. Today's `add` never suspends, because its lock is
uncontended and it awaits nothing else; the model lets other handlers run between two
images all the same, as the handler's reservation is written for it and the tests of
the webhook stub a queue that does suspend.

### VectorIndex: state and actions

| Variable | In the code |
|---|---|
| `status`, `stored`, `journal`, `noted`, `photos` | `identities.status`, embedding rows, `person_delete_pending` rows and the keys they list, photo files |
| `indexed`, `saveVersion` | `_meta` with the FAISS index, `_save_version` |
| `lock`, `thread` | the RLock's holder and how far its `save()` or `purge()` is |
| `saving`, `reconciling` | the flags of `VectorIndexManager` |
| `writer`, `expiry` | of each key, the coroutine that writes its row, the cleanup that removes it |
| `saver`, `rec`, `rows`, `deleter`, `plan` | coroutines between awaits, and what they remember across them |
| `dirs`, `whole`, `keysIn`, `pointer`, `quarantined` | snapshot directories, the complete ones, their keys, `CURRENT`, quarantined snapshots |
| `lease` | `fr:lock:vector-index-save` in Redis |

* Process: `Start` (load, or rebuild without a snapshot or with a damaged one, then a
  first reconciliation), `Crash`.
* Rows: `Match`, `CommitRow`, `IndexRow`; `Unindex`, `DeleteRow`; `SetActive`.
* Reconciliation: `RecBegin`, `RecRead`, `RecApply`, `RecEnd` (the flag falls after
  the report), or `RecFails` at any await.
* Save: `SaveRequest`, `SaveAdmitted` or `SaveSkipped`, `SaveBegin`, then in the thread
  `Publish`, `FinishSave`, or `SaveFails` before or after the swap of the pointer.
* Deletion: `DeleteRequest` (journal and inactive status, committed), `DeletePlan`,
  `PurgeAdmitted` or `PurgeRefused`, `PurgeQueued`, `PurgeBegin`, the same thread steps,
  `Sweep`, `PurgeEnds` or `SweepFails`, `Unlink`, `DeleteCommit`, and `DeleteFails` at any
  point. Requesting the deletion again is the resume.
* Redis: `LeaseGranted` (had, or pretended while Redis is away), `LeaseExpires`.

### VehicleQueue: state and actions

`state`, `due`, `attempts`, `lease`, `lapsed`, `review`, `plate`, `version` are columns of
`vehicle_sightings`; a lease is named by the claim it was granted to. `source` tells which
delivery inserted the row, `job` what a worker remembers, `shown` what a reviewer has on
the screen. `Look`, `Refuse`, `Insert` are `accept_vehicle_event` under its advisory lock;
`FailSpent`, `Claim`, `Abandon`, `TooLate`, `Finish`, `Fail` are `process_one`; `Open`,
`Decide`, `Conflict`, `Retry` the routes.

### LiveAlerts: state and actions

`into`, `merge`, `moved` are the merges with the alerts each moved; `owner`, `status`,
`count`, `triggers` the alerts and their trigger rows; `recent` and `overdue` stand for the
cooldown and the date. Of each frame, `pc`, `people`, `face`, `found`, `saw`, `fired` are its
transaction: resolved identities, the face it is at, what it read, what it wrote and has
not committed. `edit` is a pause or resume between its read and its write.

A frame goes `Begin`, `LockPeople` (row locks in one order), for each face `ReadAlerts` then
`Fire` or `SavepointFails`, or `NextFace`, and `Commit` or `Abort`. `Merge` and `Unmerge`
wait for every frame (the exclusive advisory lock), the users' `EditBegins`, `EditEnds`,
`Delete`, `Renew` and the `Sweep` wait for nothing but the rows they write (`Free`).

### MlJobs: state and actions

| Variable | In the code |
|---|---|
| `status`, `leaseOwner`, `cancelRequested` | columns of `background_task_history` (`cancel_requested_at` set or not); status `none` before the row exists |
| `lapsed` | rows whose `lease_expires_at` is in the past |
| `line` | the rows by `scheduled_time`; `NextInLine` is the first scheduled one |
| `asked`, `cancelling` | requests between two statements: a submission past its early lookup, a cancellation and the status it read |
| `worker`, `held`, `verdict` | where a worker is in `run_worker` and `_supervise`, its job, and why its process ended |
| `child` | the process of a job: started, working, outcome committed, reported, gone |
| `published` | times the outcome of the job was committed |

* API: `Ask` then `Insert` (`enqueue_ml_job`, with the partial unique index on active
  types), `AskCancel` then `Cancel` (`request_cancel`).
* Worker: `Expire` (`fail_expired_queue_leases`), `Claim` (whose commit may take effect
  unheard), `Spawn`, `SeeExit`, `TimeOut`, `Look`, `Renew` (which also fails by error),
  `Terminate`, `Report` (whose error is swallowed), `Die`, `Restart`.
* Child: `Begin`, `Publish`, `ChildReports`, `ChildEnds`. It reports through the same
  `FinishJob` as the worker.
* Time: `LeaseLapses`, at any moment of a running job.

### Abstractions

* One face and one embedding per frame. Frames are independent in the code except
  through the rows they share, which several frames of one person exercise.
* In `DetectionEvidence` the vector index, the files of images, and everything sent to
  clients are outside; an announcement is a counted event. The optional alert savepoints
  of `persist_detection` never fail the frame; they are the subject of `LiveAlerts`.
* Clocks are nondeterministic: a breaker's timeout, a buffer's age, the grace period.
  The grace period ends only after the worker let go of the frame; it is ten minutes
  (`identity_retention.py:36`), the worker's hold is seconds.
* In `DetectionEvidence` permanent deletion is its destructive transaction; its journal,
  purge, files and resume are in `VectorIndex`.
* The ingest queue does not restart: its content is in memory by design.
* The failure counter saturates at `MaxFailures`, at or above the threshold, where
  larger values behave alike.
* A failure of the database or the disk is a choice at every call.
* What a job computes is one commit; a job with several commits differs only in how
  much of its outcome an interruption leaves. A process cannot report `cancelled`:
  the flag it would read is in the memory of the API process (`is_cancel_requested`).
* One process serves (`WORKERS=1`), so that a flag in memory is a flag of the system.
  The vector backend is the FAISS one (`VECTOR_BACKEND`; the default, pgvector, has no
  snapshot and no purge).
* A snapshot is whole or not; which file of it is damaged makes no difference to `load`.
  The TTL of the save lease outlives every save.
* A key keeps its vector: a row is written once, and removed for good.
* In `VehicleQueue` a row's images and embedding are left out; the reading of the
  analysis is any plate or none.
* In `LiveAlerts` similarity, camera, hours and identity filters choose any subset of the
  alerts that are due. A frame's own evidence is in `DetectionEvidence`. The limit and the
  cooldown of an alert are constants: an `update_alert` that changes them is left out.
* In `WebhookIntake` every image of a payload is decodable text; an entry that is empty
  would only be skipped.
* The heartbeat row of the worker and the other users of the task history are left
  out. The jobs the worker submits itself go through the same `enqueue_ml_job`.

## 3. The runs

| Run | Checks | Shows |
|---|---|---|
| `evidence_safety` | `TypeOK`, `EvidenceWhole`, `HalfOpenIsOneFailureFromOpen`, `LedgerSpec`, `SelectedFramesAreOver` | with a chain of two merges, a deletion of the final survivor, reconciliation and two interruptions, the path implements the ledger, recorded evidence stays whole and on one person, and the rows reconciliation goes on to delete belong to frames that are over (what cascades with an identity it deletes is finding 1) |
| `evidence_progress` | `OrphansAreRemoved`, `QueuedFramesOfLivePeopleSettle` | the queue drains behind a frame that always fails, and what crashes and failures leave behind is removed |
| `intake` | `IntakeTypeOK`, `PendingExact`, `AcceptedNeverDropped`, `TotalsAddUp`, `DuplicateMeansAccepted`, `RefusedIsRetryable`, `QueuedOnce`, `PendingIsUnderWay`, `AcceptedImagesHandled` | five requests for two events into a queue of two: whatever is repeated, refused, interrupted or forgotten, nobody is told duplicate of something refused, no event is queued twice before its key expires, no sender waits for a result nobody computes; the queue's count is exact, and an image in a buffer that never fills is handled too |
| `index` | `TypeOK`, `PurgedStaysOut`, `DestroyedUnderJournal`, `CurrentIsWhole`, `IndexConverges`, `MaintenanceEnds` | what a deletion purged comes back through no snapshot, reconciliation, restart or save; nothing is destroyed but under a committed journal; `CURRENT` names a whole snapshot; the index ends as the searchable rows; no flag stays up |
| `index_prune` | `PublishedIsKept` | violated: see finding 4 |
| `vehicles` | `TypeOK`, `EventsAreWhole`, `AnsweredIsStored`, `OneResult`, `AttemptsAreBounded`, `VerdictStands`, `DecidedAsShown`, `AcceptedAreSettled` | an event delivered twice with different vehicles is stored once and whole, each sighting gets one result within its attempts or is failed, and people's verdicts are informed and stand |
| `alerts` | `TypeOK`, `CountsAreExact`, `FiresToItsLimit`, `CooldownHolds` | no trigger is lost or uncounted and no alert exceeds its limit or fires inside its cooldown, with merges, aborted frames, pauses and resumes in between |
| `mljobs_safety` | `TypeOK`, `LifecycleSpec` | two workers, two jobs of one type, leases that pass under a live process: one active job per type, no job started or published twice, completed only after it published, and no final status overwritten |
| `mljobs_progress` | `OneProcessAtATime`, `ClaimedJobsEnd`, `CancelledJobsEnd`, `WorkersAreFreed` | with the one worker of the deployment, jobs are serialized, a claimed or cancelled job ends, and the worker is freed of a process that outlives its job |
| `evidence_cascade` | `ErasureSparesOtherFrames` | violated, by compensation and by reconciliation: see finding 1 |
| `evidence_replay` | `QueuedFramesSettle` | violated: see finding 2 |
| `evidence_orphans_merged` | `OrphansAreRemoved` | violated: see finding 3 |

Deadlock is not checked: each frame, image and job is offered once, and the system
stops when all are settled.

### Bounds

* Two frames: enough for one to be committed while another is compensated, replayed
  or rotated, and for one to block the other in the queue. `BatchSize` 1 puts them in
  different flushes, 2 in the same.
* Three identities with merges `u1 -> u2 -> ann`: a frame's row can be on the loser,
  in the middle of the chain, or on the survivor, and `DeletePerson` can take the whole
  family.
* `MaxInterruptions` 2: a crash during the replay that follows a crash, and a
  cancelled flush followed by a crash.
* `FailureThreshold` 2 reaches every state of the breaker.
* `evidence_progress` has no merges, which finding 3 sets aside, one crash, and a breaker
  that opens at the first failure.
* `intake`: five requests cover each order of a first, a repeated and an empty request of
  one event, and a partly accepted one of another; `MaxSize` 2 and `BatchSize` 2 let the
  queue refuse a first, a later or all images of a request; `MaxEvents` 1 fills the
  feedback records, and one key or record expires at any moment.
* `index`: one vector of one person. What the properties forbid happens to one key at a
  time, and the actors that meet over it (writer, cleanup, save, reconciliation,
  deletion, restart) are all there, with one fault, one failed fsync and one toggle each
  at any point. `index_prune` needs five saves to have three directories on disk.
  `MaxVersion` 6
  is above what `index` can reach, and above what `index_prune` needs.
* `vehicles`: the repeated delivery sees one vehicle more, so that a mixed event would
  show; two workers make a lease change hands, `MaxAttempts` 2 (5 in the code) lets the
  first attempt and the last one end differently, and one retry starts over. One review
  is enough for its race with each analysis.
* `alerts`: one frame of each person and one of both; one merge, undone once; one alert
  with limit 1 and a date, the other with a cooldown; one abort and one resume.
* `mljobs_safety`: two jobs of one type are what the unique index decides between, and
  two workers with two deaths and lapsing leases let a job be given up by one worker
  while its process, started by the other, goes on. `mljobs_progress`: two types, one
  with a deadline, so that a process can hang with and without one, and one death.
* Frames are symmetric in `evidence_cascade` only, and jobs of one type and workers in
  `mljobs_safety`; the runs with liveness use no symmetry.

All runs that pass visit their whole state space.

### Fairness

`supervised_loop` (`core/service_supervisor.py`) calls `flush` and the reconciliation
again after every cycle, whether it failed or not; `lifespan.py` registers both. So:

* `TransactionsEnd`: every transaction and every write ends, if only by a timeout or
  an error (weak fairness).
* `FlusherFairness`, `CleanerFairness`: a step that is tried again and again succeeds
  some time (strong fairness on the successful outcome of a frame's write, of the
  removal of its file, of the reconciliation's statements). This is the assumption
  that a database or a disk does not fail for ever; without it no retry loop makes
  progress. It says nothing of *which* frame is tried: that the loop reaches every
  frame is the code's rotation, and `evidence_progress` fails without it.
* No fairness on people, crashes or cancellations.
* `MlJobs!Fairness`: a worker takes its steps, since every wait in `_supervise` has a
  timeout and `_terminate` ends in SIGKILL; `run_worker` comes back to maintenance
  before it claims, so expiry is strongly fair; the clock reaches a deadline that is
  watched for ever (strong fairness of `TimeOut`); a dead container is restarted
  (`docker-compose.prod.yml`, `restart: unless-stopped`); a lease nobody renews passes.
  Nothing is assumed of the processes, which may hang, or of people.
* `IntakeFairness`: a handler that has started runs to its end, the flusher and the
  workers are loops on the same event loop; the semaphore is strongly fair because
  `asyncio.Semaphore` serves its waiters in order. No request has to be sent, and nothing
  has to expire.
* `VectorIndex!Fairness`: the loops of `lifespan.py` reconcile again and again, statements
  and the thread's file operations return, a free RLock is had by who waits for it, and
  a process that died is restarted. Nothing makes anyone save, delete or write; an
  operation that has begun may fail. `IndexConverges` then needs that faults, toggles
  and people stop, which their bounds say.
* `VehicleQueue!Fairness`: time passes, some process polls, and a job ends, perhaps
  always by a crash. `AcceptedAreSettled` holds even then.
* `LiveAlerts` states no fairness: nothing in it has to happen.

## 4. Findings

1. **Compensation and reconciliation can take another frame's evidence**
   (`detection_evidence.py:405`, `identity_retention.py:259`). Both delete an identity
   that was left without evidence, and both decide it with NOT EXISTS on the snapshot of
   the DELETE. If another frame has inserted an embedding of that person and not
   committed, the DELETE waits for that insert's lock, then deletes the identity, and the
   embedding just committed cascades (`db_models.py:672`). The docstring of the one
   promises to remove only what this frame created (`detection_evidence.py:379`), that of
   the other never to touch rows younger than the grace (`identity_retention.py:221`).
   The other frame, perhaps queued by then, finds no embedding. One property forbids both,
   `ErasureSparesOtherFrames`, and the run refutes it with the shorter counterexample, a
   compensation. The reconciliation needs one step more. With `WriteDirectly` taken out of
   `Next`, so that no frame is compensated, TLC finds it in the same instance:
   `CreateIdentity(f1, u1)`, `CommitObservation(f1, FALSE)`, `GracePeriodEnds(f1)`,
   `MatchIdentity(f2, u1)`, `InsertObservation(f2)`, `CleanerSelect`, `CleanerReadSpool`,
   `CleanerDelete` (`u1` is doomed), `CommitObservation(f2, TRUE)`, perhaps `Enqueue(f2)`,
   `CleanerErase`. Locking the identity's row `FOR UPDATE` in a statement before the one
   that asks whether it has evidence would close both.
2. **A frame of a deleted person is retried for ever** (`batch_writer.py:163`).
   `resolve_survivor` raises `ValueError`, which is retained rather than quarantined,
   and each attempt counts against the database breaker. `detection_spool.py:92` says
   that invalid work is not endlessly replayed.
3. **One merged identity stops the reconciliation** (`identity_retention.py:260`).
   An identity named in `identity_merges` cannot be deleted, and the NOT EXISTS list
   does not exclude it; the foreign key error rolls back the whole transaction, so
   every row selected with it survives each cycle too.

4. **Pruning can remove the snapshot just published** (`flat_faiss.py:341`). If the fsync
   of the directory fails after `CURRENT` was replaced, `save` removes the directory
   `CURRENT` names. The next start finds a pointer to nothing, rebuilds from the rows and
   counts versions from 0, while newer directories are still there. Its first save
   publishes snapshot 1, and `_prune_snapshots` keeps the two highest names: it removes
   snapshot 1. Line 338 says that the newest are kept. Nothing is lost for good, as the
   index is derived from the rows, but each start rebuilds until the counter has passed
   the old names.

Findings 2 and 3 refute a liveness property under the fairness of section 3;
`evidence_progress` shows the rest of the claim holds once the deleted person,
respectively the merge, is set aside. `CurrentIsWhole` shows that without a failed fsync
the pointer always names a whole snapshot.

A limit of the deletion that `PurgedStaysOut` makes explicit: a camera write that
committed its row before the purge and tells the index after it puts that one vector
back, until the next reconciliation finds no row for it; the deletion may have been
reported as complete in between. The row itself is gone.

Two limits of the job queue that the properties make explicit, and that its comments
do not deny: only `threshold_learning` has a deadline, so a training that hangs keeps
the worker, and with it the failing of abandoned jobs (hence `HangsForEver` in the
liveness properties); and a job that was failed or cancelled may have published its
outcome, as the message of `fail_expired_queue_leases` says (hence `Produce` after a
final status in `JobLifecycle`).

## 5. Proofs

Every safety property of the passing runs, and both refinements, are proved for every
value of the constants. Each proof has the same shape: an inductive invariant that is
stronger than the property, the fact that it holds initially, one lemma per action or
group of actions that keeps it, and a temporal step. What follows names the invariants
and why each part is needed; TLC checked each of them on the instance of its run before
it was proved.

### Detection evidence

From `EvidenceAssumption` and `ThresholdAssumption` only (any finite set of frames, any
people, merges, interruptions and batch size).

* `SpoolConsistent`: `Spec => []SpoolInv`.
* `EvidencePathKeepsLedger`: `Spec => LedgerSpec`, the refinement of `EvidenceLedger`
  with the queued frames as its pending ones.
* `EvidencePromises`, `AcceptedFramesAreSettled`: what a client may conclude from the
  ledger. No frame is both recorded and set aside; each channel hears of a frame at most
  once and only after it is recorded; a frame leaves the spool only for the record or for
  quarantine, for good.
* `EvidenceTypes`, `EvidenceStaysWhole`, `HalfOpenOnProbation`,
  `ReconciliationSelectsFinishedFrames`: the invariants of the run `evidence_safety`.
* `QueuedRowsAreTakenThreeWays`: what finding 1 leaves true. A queued frame loses its row
  only to the flush that compensates it, to the deletion of its person by an
  administrator, or to the cascade of an identity that a compensation or reconciliation
  had decided to delete; reconciliation never takes it as one of its own rows.

The refinement is not inductive by itself; `SpoolInv` is what makes each step map to a
ledger step or a stutter:

* `SpoolTypes`: the types the argument needs.
* `Distinct(queue)`: a frame has one file. Without it, acknowledging one file would
  leave the frame pending and a second acknowledgement would have nothing to settle.
* `Ownership`: a frame is with its worker or in the spool, never both; so the direct
  write and the flush cannot both record it, and a frame that is recorded is not queued
  afterwards.
* `Notices`: a frame not recorded has not been announced, and one that will be
  announced has not been yet.
* `FlushProgress`: what each state of the flush knows of the frame it is on: recorded
  and still queued before an acknowledgement, queued and not recorded before a
  quarantine.

The rows need more, since `EvidenceWhole` says nothing of a frame still to be written.
`EvidenceInv` adds to `SpoolInv` and `TypeOK`:

* `Chains`: survivors are ends of their chains and nobody is merged with an identity that
  is not committed, so resolving the person a frame carries gives a person who stays the
  survivor until a later merge, which moves rows and sightings together.
* `Faces`: the person in the face dict of a frame still to be written was committed, and an
  insert still open keeps its person from being deleted.
* `Owners`: the foreign key. A row that exists is of a person who lives.
* `Selection`: reconciliation selects rows of frames whose worker is done with them, and
  once it has read the disk none of its rows is queued. A frame is enqueued only by its
  worker, so what was not queued then is not queued when the rows are erased, two awaits
  later.
* `OpenMeansFailed`: an open breaker has a full set of failures, which it still has when
  it becomes half-open.

The many actions are first sorted into kinds (a row commits, evidence commits, rows are
erased, rows move, a worker moves, ...), and each part is shown to be kept by each kind.

### Job queue

From `JobAssumption` only (any finite set of jobs, any types, workers and number of
deaths): `JobsConsistent`, `JobsKeepLifecycle` (the refinement of `JobLifecycle`),
`OneWorkerSerializes` (with one worker, `[]OneProcessAtATime`), `JobQueueTypes`, and what
the life cycle promises: `JobsKeepPromises` (one active job per type, at most one outcome
per job, none completed without one) and `FinalStatusStays`.

`AskedHaveNoRow` lets an insert be an acceptance; `Holding` says that a worker holds a job
that was started, that no other worker holds it, and that one which has yet to spawn finds
no process of it, so a job has one process; `Processes` ties what the process committed to
where it is, so a second publication, and a completion without one, are impossible.
Serialization needs one fact more, `Attended`: a live process is the one some worker
watches or is about to terminate; a single worker watches one. `OtherTypes` completes
`TypeOK`.

### Queue and webhook intake

`BackpressureIsExact`, `AcceptedImagesStay`, `TotalsAreExact` and `QueueTypes` hold of
`IngestQueue` from `QueueAssumption` only (any finite set of images, any pipelines and
workers, any positive sizes). They are about cardinalities, so `QueueInv` first says that
the sets do not overlap (`Apart`: an image is in one buffer, one batch or one worker's
hands) and that a waiting worker holds nothing (`Hands`). Then an image added, taken or
finished changes each cardinality by what the code adds to or subtracts from its counter.
`AcceptedNeverDropped` needs the count and its bound: batches are disjoint and not empty,
so there are no more of them than images in them (`BatchesAreFewer`), and whoever puts a
batch still holds an image of less than `MaxSize`, so the queue has room.

`IntakeDrivesTheQueue` shows `IntakeSpec => Spec` of the queue, and with it
`QueueBehindTheWebhook`: the three properties hold behind the webhook. On top of it
`IntakeTypes`, `DuplicatesWereAccepted`, `RefusalsAreRetryable`, `EventsAreQueuedOnce` and
`PendingMeansUnderWay`, from `IntakeAssumption` and `QueueAssumption`. One conjunct of
`IntakeAssumption` is there for the proof: an image belongs to one request, once. An image
is an upload, not its content, so this is how `SenderOf` reads in the code, where each
queue item carries the feedback key of its own request. `IntakeInv` adds:

* `Own`: what the queue took of a request are images of that request, and a request not
  handled yet has none.
* `Reservations`: `_dedup_pending` is exactly the events being added, each by one request.
  So an event that is seen and not pending has nobody at work, and "duplicate" is true.
* `Kept`: a key is held for a request of the event that is at work, got something into the
  queue, or had no image; a record for one that asked for feedback. The last is needed
  because the `finally` of a request without feedback leaves the record alone.
* `Once`: until it expires, the key of a request that is at work or was accepted is held,
  and by that request only. `QueuedOnce` alone is not inductive: two requests at work
  would break it at their next image.
* `ReportsAreOfTaken`: only an image taken from the queue is reported, so one just added
  is not.
* `UnderWay`: `PendingIsUnderWay` with the request at work before its image is taken. A
  report settles the record of the image's own sender, and a batch ends when its images
  are reported, so a record that still says pending has an image inside.

### Vector index

From `IndexAssumption` only (any keys, people, savers, crashes, faults and versions):
`IndexTypes`, `PurgedKeysStayOut`, `DestructionIsJournaled` and `SnapshotsStayWhole`, every
safety property of the run `index`. `IndexInv` rests on `Locking`: the RLock is held exactly
by the coroutine whose thread runs, so between its steps nobody else changes the index or
its directories. On it build

* `Writing` and `Numbering`: the version being written exists, it is the one after
  CURRENT's, and no directory is further ahead, as long as no fsync failed after a swap
  (pruning keeps by number; after such a failure the counter is behind, which is the
  finding of `index_prune`);
* `Journaled`: a journaled person is inactive, a deletion at work has its journal and is
  about keys of its person only;
* `Purging`: what a running purge took out is neither in the index nor in the snapshot it
  writes, and the rows reconciliation holds are not of a person being purged nor purged
  before. This is the part that `PurgedStaysOut` needs: a key comes back only through rows
  read before the purge, or a snapshot written before it.

### Vehicle sightings

From `VehicleAssumption` only (any deliveries, sightings, workers, reviewers and number of
attempts): `VehicleTypes`, `AnalysedOnce`, `PoisonIsBounded`, `EventsStayWhole`,
`AnswersAreDurable`, `PeopleDecide` and `DecisionsAreInformed`, that is, every safety property
of the run `vehicles`. The invariant has four parts that rest on the types and not on each
other:

* `Leases`: a lease is that of the latest claim, it exists exactly while the row is
  processing, and who remembers it knows the attempts. So a worker whose lease was
  taken over cannot match the row, and a result is written only by the one that can.
* `Counts`: results and claims, as functions of the row's state; from `Leases`.
* `Intake`: of the deliveries of an event at most one is between its lookup and its
  commit, and then no row of the event exists.
* `Screens`: a screen that shows the current version shows the current row, since every
  change of verdict or plate changes the version.

### Live alerts

From `AlertAssumption` only (any people, alerts, frames, users and merges):
`LiveAlertTypes`, `CountsStayExact`, `LimitsHold` and `CooldownsHold`, every property of the
run `alerts`. The code takes no lock for an alert; the invariant names the ones it leans on.
`Sure` says that what a frame read of an alert it found or fired is still true: the count,
that its cooldown is over, that its limit has room. It is kept because the alert belongs to
a person whose row the frame has locked; because no other frame has (`Apart`); and because a
merge, which would move the alert to another person, waits for the frame's transaction.
`Stored` makes each commit add a new trigger, so that the count grows with the set, and
`Limited` carries `Room` over pauses and resumes.

### Only model-checked

The liveness properties (`OrphansAreRemoved`, `QueuedFramesOfLivePeopleSettle`,
`ClaimedJobsEnd`, `CancelledJobsEnd`, `WorkersAreFreed`, `AcceptedImagesHandled`,
`IndexConverges`, `MaintenanceEnds`, `AcceptedAreSettled`) with the fairness they use, since
fairness is stated with ENABLED, which is outside the prover's reach; and the refutations of
section 4, which are counterexamples of an instance.

## 6. Plan

Done: `CircuitBreaker`, `DetectionEvidence` with `EvidenceLedger`, `IngestQueue` and
`WebhookIntake`, `VectorIndex`, `VehicleQueue`, `LiveAlerts`, `MlJobs` with `JobLifecycle`;
proofs of every safety property. What could still be proved:

1. Measures behind the liveness properties, as far as they are safety: that every retry of
   a frame, a job or a deletion leaves less to do or uses up a bounded interruption.
2. `CurrentIsWhole` with failed fsyncs, had the version counter been taken from the
   directory: a variant of `VectorIndex` that shows the fix of the finding to be enough.
3. An abstract specification of the vector index (the set of searchable keys) that
   `VectorIndex` implements between reconciliations.

## 7. Not modelled

* Restoring rows at an unmerge, promotion and the multi-merge: they move rows by recorded
  provenance, one transaction each under the exclusive lock. Their effect on live alerts
  is modelled, that on evidence is not.
* Authentication, webhook credentials, body limits, payload aliases and parsing in front
  of the intake; the webhook's other routes.
* Live alerts: creation and its quota, notifications, watch lists, channel tests, and
  acknowledgement, whose docstring (`live_alert_service.py:908`) says it is atomic and flips
  only what is unacknowledged while its UPDATE has no such condition.
* Known vehicles, vehicle search and pipeline settings; the vision worker.
* Enrollment, face tracker and caches, websocket delivery, data retention, settings: small
  protocols over one row or one process's memory, after the ones above in risk.
* The ML registry's promotion and shadow mode, which are one transaction each; training,
  clustering, scoring, search and analytics, which compute and keep no protocol; the SQL
  agent, a loop around a language model over read-only statements; the HTTP API,
  frontend and migrations.

Most of the repository is of the last kind: routes, queries, reports and rendering. The
modules cover the code in which more than one actor changes durable or shared state.
