------------------------- MODULE DetectionEvidence -------------------------
(***************************************************************************)
(* The detection evidence path: from the identity transaction of a camera  *)
(* frame, through the durable queue on disk and the batch writer, to the   *)
(* one transaction that records detection, face, sighting and embedding    *)
(* link; with its compensation, its quarantine, the reconciliation of      *)
(* orphan embeddings, and the merges and deletions of people that run at   *)
(* the same time.  Each frame shows one face and yields one embedding.     *)
(*                                                                         *)
(* The database is READ COMMITTED.  A transaction is one step where it     *)
(* holds row locks that keep the others out; it is split where it waits,   *)
(* and where it decides on one snapshot and acts later.                    *)
(***************************************************************************)
EXTENDS Naturals, Sequences, FiniteSets, CircuitBreaker

CONSTANTS
    Frames,                 \* camera frames: each is processed once
    Identities,             \* identity ids
    KnownPersons,           \* enrolled people: KNOWN, with an enrollment photo
    Poison,                 \* frames whose evidence the database rejects
    MergePairs,             \* bound: the merges <<loser, winner>> tried
    BatchSize,              \* BATCH_WRITE_SIZE
    PreservePersonHistory,  \* PRESERVE_PERSON_HISTORY
    MaxInterruptions,       \* bound: crashes and cancelled flushes
    None                    \* no value

ASSUME EvidenceAssumption ==
    /\ IsFiniteSet(Frames)
    /\ KnownPersons \subseteq Identities
    /\ Poison \subseteq Frames
    /\ MergePairs \subseteq Identities \X Identities
    /\ BatchSize \in Nat \ {0}
    /\ PreservePersonHistory \in BOOLEAN
    /\ MaxInterruptions \in Nat
    /\ None \notin Identities \cup Frames

VARIABLES
    \* --- database: committed rows
    person,         \* identities: "unborn", "live" or "gone" (row deleted)
    survivor,       \* end of the merged_into_id chain of each identity
    mergeLog,       \* identity_merges: pairs <<loser, winner>>
    emb,            \* embedding row of each frame
    owner,          \* identity_id of the embedding row
    recorded,       \* frames with a detection row
    sighting,       \* identity of the appearance and face rows of each frame
    aged,           \* frames whose embedding is older than the grace period
    \* --- the worker processing each frame (memory)
    worker,         \* its progress
    face,           \* face dict: identity, and whether this frame created it
    \* --- durable queue: <root>/*.json by mtime, and *.failed.json
    queue,
    quarantined,
    \* --- BatchDatabaseWriter (memory)
    flusher,        \* progress of the one flush that holds the writer's lock
    batch,          \* frames this flush read and has not written
    current,        \* the frame being written
    \* --- reconcile_orphan_camera_embeddings (memory and open transaction)
    cleaner,
    rows,           \* pairs <<frame, owner>> selected
    doomed,         \* identities its open transaction decided to delete
    \* --- history, for the properties
    published,      \* publish_unknown_events calls for each frame
    alerted,        \* broadcast_detection_alerts calls for each frame
    interruptions

dbVars      == <<person, survivor, mergeLog, emb, owner, recorded, sighting, aged>>
workerVars  == <<worker, face>>
spoolVars   == <<queue, quarantined>>
flushVars   == <<flusher, batch, current>>
cleanVars   == <<cleaner, rows, doomed>>
noticeVars  == <<published, alerted>>
vars == <<dbVars, workerVars, spoolVars, flushVars, breakerVars, cleanVars,
          noticeVars, interruptions>>

WorkerState  == {"idle", "matched", "inserted", "observed", "direct",
                 "publishing", "alerting", "compensating", "erasing",
                 "done", "lost"}
FlusherState == {"idle", "writing", "publishing", "ackFresh",
                 "ackReplay", "alerting", "compensating", "erasing",
                 "quarantining"}
CleanerState == {"idle", "selected", "filtered", "erasing"}
FaceDict == [identity : Identities, created : BOOLEAN]

Elements(s) == {s[i] : i \in DOMAIN s}
Queued == Elements(queue)

TypeOK ==
    /\ person \in [Identities -> {"unborn", "live", "gone"}]
    /\ survivor \in [Identities -> Identities]
    /\ mergeLog \subseteq Identities \X Identities
    /\ emb \in [Frames -> {"none", "unlinked", "linked", "gone"}]
    /\ owner \in [Frames -> Identities \cup {None}]
    /\ recorded \subseteq Frames
    /\ sighting \in [Frames -> Identities \cup {None}]
    /\ aged \subseteq Frames
    /\ worker \in [Frames -> WorkerState]
    /\ face \in [Frames -> FaceDict \cup {None}]
    /\ queue \in Seq(Frames)
    /\ quarantined \subseteq Frames
    /\ flusher \in FlusherState
    /\ batch \subseteq Frames
    /\ current \in Frames \cup {None}
    /\ cleaner \in CleanerState
    /\ rows \subseteq Frames \X Identities
    /\ doomed \subseteq Identities
    /\ published \in [Frames -> Nat]
    /\ alerted \in [Frames -> Nat]
    /\ interruptions \in 0 .. MaxInterruptions
    /\ BreakerTypeOK

Init ==
    /\ person = [i \in Identities |-> IF i \in KnownPersons THEN "live" ELSE "unborn"]
    /\ survivor = [i \in Identities |-> i]
    /\ mergeLog = {}
    /\ emb = [f \in Frames |-> "none"]
    /\ owner = [f \in Frames |-> None]
    /\ recorded = {}
    /\ sighting = [f \in Frames |-> None]
    /\ aged = {}
    /\ worker = [f \in Frames |-> "idle"]
    /\ face = [f \in Frames |-> None]
    /\ queue = <<>>
    /\ quarantined = {}
    /\ flusher = "idle"
    /\ batch = {}
    /\ current = None
    /\ cleaner = "idle"
    /\ rows = {}
    /\ doomed = {}
    /\ published = [f \in Frames |-> 0]
    /\ alerted = [f \in Frames |-> 0]
    /\ interruptions = 0
    /\ BreakerInit

-----------------------------------------------------------------------------
(* What a statement sees in the committed rows.                             *)

\* A committed embedding row of f exists.
HasRow(f) == emb[f] \in {"unlinked", "linked"}

\* identity_images rows of i: photos follow their person through merges.
Enrolled(i) == \E k \in KnownPersons : person[k] # "gone" /\ survivor[k] = i

\* The NOT EXISTS clauses of the two identity deletions, for a transaction
\* that has itself deleted the embeddings of `erased`.
EvidenceFree(i, erased) ==
    /\ \A g \in Frames \ erased : ~(HasRow(g) /\ owner[g] = i)
    /\ \A g \in Frames : sighting[g] # i
    /\ ~Enrolled(i)

\* An open transaction holds a KEY SHARE lock on identity i: it inserted an
\* embedding row that references i and has not committed.
ReferencedByOpenInsert(i) ==
    \E g \in Frames : worker[g] = "inserted" /\ face[g].identity = i

\* identity_merges.from_identity_id and to_identity_id reference identities
\* without ON DELETE: an identity named by a merge record cannot be deleted.
NamedByMerge(i) == \E m \in mergeLog : i \in {m[1], m[2]}

\* Rows an open transaction deleted: statements on them wait for its end.
LockedRows ==
    {f \in Frames : \/ worker[f] = "erasing"
                    \/ flusher = "erasing" /\ current = f
                    \/ cleaner = "erasing" /\ \E r \in rows : r[1] = f}

\* DELETE of the embeddings in `erased` that are not linked, and of the
\* identities in `people`.  embeddings and appearances cascade; faces are
\* set to NULL.
EraseRows(erased, people) ==
    LET hit(g) == \/ g \in erased /\ emb[g] = "unlinked"
                  \/ HasRow(g) /\ owner[g] \in people
    IN  /\ emb' = [g \in Frames |-> IF hit(g) THEN "gone" ELSE emb[g]]
        /\ owner' = [g \in Frames |-> IF hit(g) THEN None ELSE owner[g]]
        /\ sighting' = [g \in Frames |-> IF sighting[g] \in people
                                         THEN None ELSE sighting[g]]
        /\ person' = [i \in Identities |-> IF i \in people THEN "gone" ELSE person[i]]

-----------------------------------------------------------------------------
(* The identity transaction of a frame (image_processing).                  *)

\* find_or_create_identity returns a live, unmerged identity.  The insert
\* comes later in the same transaction, after other statements.
MatchIdentity(f, i) ==
    /\ worker[f] = "idle"
    /\ person[i] = "live" /\ survivor[i] = i
    /\ worker' = [worker EXCEPT ![f] = "matched"]
    /\ face' = [face EXCEPT ![f] = [identity |-> i, created |-> FALSE]]
    /\ UNCHANGED <<dbVars, spoolVars, flushVars, breakerVars, cleanVars,
                   noticeVars, interruptions>>

\* save_embedding flushes the row: its foreign key check takes a KEY SHARE
\* lock on the identity row, merged meanwhile or not.
InsertObservation(f) ==
    /\ worker[f] = "matched"
    /\ person[face[f].identity] = "live"
    /\ worker' = [worker EXCEPT ![f] = "inserted"]
    /\ UNCHANGED <<dbVars, face, spoolVars, flushVars, breakerVars, cleanVars,
                   noticeVars, interruptions>>

\* Nobody matched: a new UNKNOWN identity and its embedding in one transaction.
CreateIdentity(f, i) ==
    /\ worker[f] = "idle"
    /\ person[i] = "unborn" /\ ~ReferencedByOpenInsert(i)
    /\ worker' = [worker EXCEPT ![f] = "inserted"]
    /\ face' = [face EXCEPT ![f] = [identity |-> i, created |-> TRUE]]
    /\ UNCHANGED <<dbVars, spoolVars, flushVars, breakerVars, cleanVars,
                   noticeVars, interruptions>>

\* The commit takes effect.  `heard` is FALSE when the connection drops before
\* the worker learns of it: the face is then skipped like any failed one.
CommitObservation(f, heard) ==
    /\ worker[f] = "inserted"
    /\ emb' = [emb EXCEPT ![f] = "unlinked"]
    /\ owner' = [owner EXCEPT ![f] = face[f].identity]
    /\ person' = [person EXCEPT ![face[f].identity] = "live"]
    /\ worker' = [worker EXCEPT ![f] = IF heard THEN "observed" ELSE "done"]
    /\ UNCHANGED <<survivor, mergeLog, recorded, sighting, aged, face,
                   spoolVars, flushVars, breakerVars, cleanVars, noticeVars,
                   interruptions>>

\* Any error rolls the transaction back and the face is skipped; so does a
\* matched identity deleted before the insert (foreign key violation).
RollbackObservation(f) ==
    /\ worker[f] \in {"matched", "inserted"}
    /\ worker' = [worker EXCEPT ![f] = "done"]
    /\ UNCHANGED <<dbVars, face, spoolVars, flushVars, breakerVars, cleanVars,
                   noticeVars, interruptions>>

\* Tracked recently, duplicate in the image, or skipped as Unknown: the frame
\* ends here and its committed embedding is left for reconciliation.
Discard(f) ==
    /\ worker[f] = "observed"
    /\ worker' = [worker EXCEPT ![f] = "done"]
    /\ UNCHANGED <<dbVars, face, spoolVars, flushVars, breakerVars, cleanVars,
                   noticeVars, interruptions>>

\* batch_writer.add_detection: the file is durable once it is renamed.
Enqueue(f) ==
    /\ worker[f] = "observed"
    /\ queue' = Append(queue, f)
    /\ worker' = [worker EXCEPT ![f] = "done"]
    /\ UNCHANGED <<dbVars, face, quarantined, flushVars, breakerVars,
                   cleanVars, noticeVars, interruptions>>

\* The frame asks for feedback, or the spool refused it (disk error).
WriteDirectly(f) ==
    /\ worker[f] = "observed"
    /\ worker' = [worker EXCEPT ![f] = "direct"]
    /\ UNCHANGED <<dbVars, face, spoolVars, flushVars, breakerVars, cleanVars,
                   noticeVars, interruptions>>

-----------------------------------------------------------------------------
(* persist_detection.                                                       *)

ResolveSurvivor(f) == survivor[face[f].identity]

\* resolve_survivor raises ValueError.
Vanished(f) ==
    person[face[f].identity] = "gone" \/ person[ResolveSurvivor(f)] = "gone"

\* EmbeddingLinkError, IntegrityError or DataError.
InvalidEvidence(f) ==
    \/ f \in Poison
    \/ emb[f] # "unlinked"                          \* missing, or cross link
    \/ owner[f] \notin {face[f].identity, ResolveSurvivor(f)}

\* Seeded fault: no dedup, a replay is written like a first delivery.
NeverRecorded(f) == FALSE

\* The dedup by detection uuid: a replay answers without side effects.
AlreadyRecorded(f) == f \in recorded

Persistable(f) ==
    /\ ~AlreadyRecorded(f) /\ ~Vanished(f) /\ ~InvalidEvidence(f)
    /\ f \notin LockedRows

\* Seeded fault: the late row is linked but left on the merged person.
PersistWithoutRepointing(f) ==
    /\ recorded' = recorded \cup {f}
    /\ emb' = [emb EXCEPT ![f] = "linked"]
    /\ sighting' = [sighting EXCEPT ![f] = ResolveSurvivor(f)]
    /\ UNCHANGED <<person, survivor, mergeLog, aged, owner>>

\* The committed effect: embedding re-pointed to the survivor and linked,
\* appearance and face rows on the survivor.
Persist(f) ==
    /\ recorded' = recorded \cup {f}
    /\ emb' = [emb EXCEPT ![f] = "linked"]
    /\ owner' = [owner EXCEPT ![f] = ResolveSurvivor(f)]
    /\ sighting' = [sighting EXCEPT ![f] = ResolveSurvivor(f)]
    /\ UNCHANGED <<person, survivor, mergeLog, aged>>

\* The direct write commits; a commit that is not heard of is compensated.
DirectCommit(f, heard) ==
    /\ worker[f] = "direct"
    /\ Persistable(f)
    /\ Persist(f)
    /\ worker' = [worker EXCEPT ![f] = IF heard THEN "publishing" ELSE "compensating"]
    /\ UNCHANGED <<face, spoolVars, flushVars, breakerVars, cleanVars,
                   noticeVars, interruptions>>

\* The direct write fails, for any reason.
DirectFail(f) ==
    /\ worker[f] = "direct"
    /\ worker' = [worker EXCEPT ![f] = "compensating"]
    /\ UNCHANGED <<dbVars, face, spoolVars, flushVars, breakerVars, cleanVars,
                   noticeVars, interruptions>>

\* publish_unknown_events, then broadcast_detection_alerts.
DirectPublish(f) ==
    /\ worker[f] = "publishing"
    /\ published' = [published EXCEPT ![f] = @ + 1]
    /\ worker' = [worker EXCEPT ![f] = "alerting"]
    /\ UNCHANGED <<dbVars, face, spoolVars, flushVars, breakerVars, cleanVars,
                   alerted, interruptions>>

DirectAlert(f) ==
    /\ worker[f] = "alerting"
    /\ alerted' = [alerted EXCEPT ![f] = @ + 1]
    /\ worker' = [worker EXCEPT ![f] = "done"]
    /\ UNCHANGED <<dbVars, face, spoolVars, flushVars, breakerVars, cleanVars,
                   published, interruptions>>

-----------------------------------------------------------------------------
(* compensate_failed_detection: one transaction that deletes the embedding  *)
(* of the frame, then the identity the frame created if nothing else        *)
(* references it.  Whether anything does is read in the snapshot of the     *)
(* DELETE; the row is locked and deleted later.                             *)

Compensable(f) == face[f].created /\ person[face[f].identity] = "live"
                  /\ EvidenceFree(face[f].identity, {g \in {f} : emb[g] = "unlinked"})

\* Nothing but the embedding to delete: the transaction commits.
CompensateEmbedding(f) ==
    /\ ~Compensable(f)
    /\ f \notin LockedRows
    /\ EraseRows({f}, {})

\* The identity is deleted too, once the transactions that hold a lock on its
\* row ended.  What they committed cascades.
CompensateIdentity(f) ==
    /\ ~ReferencedByOpenInsert(face[f].identity)
    /\ ~NamedByMerge(face[f].identity)
    /\ EraseRows({f}, {face[f].identity})

DirectCompensate(f) ==
    /\ worker[f] = "compensating"
    /\ \/ /\ CompensateEmbedding(f)
          /\ worker' = [worker EXCEPT ![f] = "done"]
       \/ /\ Compensable(f) /\ f \notin LockedRows
          /\ worker' = [worker EXCEPT ![f] = "erasing"]
          /\ UNCHANGED <<person, emb, owner, sighting>>
    /\ UNCHANGED <<survivor, mergeLog, recorded, aged, face, spoolVars,
                   flushVars, breakerVars, cleanVars, noticeVars, interruptions>>

DirectErase(f) ==
    /\ worker[f] = "erasing"
    /\ CompensateIdentity(f)
    /\ worker' = [worker EXCEPT ![f] = "done"]
    /\ UNCHANGED <<survivor, mergeLog, recorded, aged, face, spoolVars,
                   flushVars, breakerVars, cleanVars, noticeVars, interruptions>>

\* The compensation fails and rolls back; or a publication raised.  Either
\* way the worker is done with the frame.
WorkerGivesUp(f) ==
    /\ worker[f] \in {"compensating", "erasing", "publishing", "alerting"}
    /\ worker' = [worker EXCEPT ![f] = "done"]
    /\ UNCHANGED <<dbVars, face, spoolVars, flushVars, breakerVars, cleanVars,
                   noticeVars, interruptions>>

-----------------------------------------------------------------------------
(* BatchDatabaseWriter.flush: one at a time, under the writer's lock.       *)

\* The file of f leaves the directory.
Without(q, f) ==
    LET p == CHOOSE i \in DOMAIN q : q[i] = f
    IN  [i \in 1 .. Len(q) - 1 |-> IF i < p THEN q[i] ELSE q[i + 1]]

\* Seeded fault: a failed file keeps its place at the head.
RotateNothing(f) == UNCHANGED queue

\* os.utime: the file of f becomes the newest, if it still exists.
Rotate(f) ==
    queue' = IF f \in Queued THEN Append(Without(queue, f), f) ELSE queue

\* detection_spool.pending(limit): the oldest files.
Oldest == {queue[i] : i \in {j \in DOMAIN queue : j <= BatchSize}}

\* The loop moves on to the next frame of the batch, or ends.
NextFrame(left) ==
    /\ batch' = left
    /\ current' = None
    /\ flusher' = IF left = {} THEN "idle" ELSE "writing"

StayOn(f, step) ==
    /\ batch' = batch \ {f}
    /\ current' = f
    /\ flusher' = step

FlushBegin ==
    /\ flusher = "idle"
    /\ queue # <<>>
    /\ CanExecute
    /\ batch' = Oldest
    /\ flusher' = "writing"
    /\ UNCHANGED <<dbVars, workerVars, spoolVars, current, cleanVars,
                   noticeVars, interruptions>>

\* First commit of f, heard of.
FlushCommit(f) ==
    /\ flusher = "writing" /\ f \in batch
    /\ Persistable(f)
    /\ Persist(f)
    /\ StayOn(f, "publishing")
    /\ UNCHANGED <<workerVars, spoolVars, breakerVars, cleanVars, noticeVars,
                   interruptions>>

\* Replay of a committed frame: the existing detection, no events.
FlushReplay(f) ==
    /\ flusher = "writing" /\ f \in batch
    /\ AlreadyRecorded(f)
    /\ StayOn(f, "ackReplay")
    /\ UNCHANGED <<dbVars, workerVars, spoolVars, breakerVars, cleanVars,
                   noticeVars, interruptions>>

\* `except Exception`: counted by the breaker, kept on disk, moved behind the
\* other files.  The commit may have taken effect all the same.
FlushRetain(f, committed) ==
    /\ flusher = "writing" /\ f \in batch
    /\ IF committed THEN Persistable(f) /\ Persist(f) ELSE UNCHANGED dbVars
    /\ CallFailed
    /\ Rotate(f)
    /\ NextFrame(batch \ {f})
    /\ UNCHANGED <<workerVars, quarantined, cleanVars, noticeVars, interruptions>>

\* Broken evidence: compensate, then quarantine.
FlushInvalid(f) ==
    /\ flusher = "writing" /\ f \in batch
    /\ ~AlreadyRecorded(f) /\ ~Vanished(f) /\ InvalidEvidence(f)
    /\ f \notin LockedRows
    /\ StayOn(f, "compensating")
    /\ UNCHANGED <<dbVars, workerVars, spoolVars, breakerVars, cleanVars,
                   noticeVars, interruptions>>

FlushCompensate ==
    /\ flusher = "compensating"
    /\ \/ /\ CompensateEmbedding(current)
          /\ flusher' = "quarantining"
       \/ /\ Compensable(current) /\ current \notin LockedRows
          /\ flusher' = "erasing"
          /\ UNCHANGED <<person, emb, owner, sighting>>
    /\ UNCHANGED <<survivor, mergeLog, recorded, aged, workerVars, spoolVars,
                   batch, current, breakerVars, cleanVars, noticeVars,
                   interruptions>>

FlushErase ==
    /\ flusher = "erasing"
    /\ CompensateIdentity(current)
    /\ flusher' = "quarantining"
    /\ UNCHANGED <<survivor, mergeLog, recorded, aged, workerVars, spoolVars,
                   batch, current, breakerVars, cleanVars, noticeVars,
                   interruptions>>

\* compensate_failed_detection swallows its own failure.
FlushCompensateFails ==
    /\ flusher \in {"compensating", "erasing"}
    /\ flusher' = "quarantining"
    /\ UNCHANGED <<dbVars, workerVars, spoolVars, batch, current, breakerVars,
                   cleanVars, noticeVars, interruptions>>

\* detection_spool.quarantine: the rename to *.failed.json.
FlushQuarantine ==
    /\ flusher = "quarantining"
    /\ quarantined' = quarantined \cup {current}
    /\ queue' = Without(queue, current)
    /\ NextFrame(batch)
    /\ UNCHANGED <<dbVars, workerVars, breakerVars, cleanVars, noticeVars,
                   interruptions>>

FlushPublish ==
    /\ flusher = "publishing"
    /\ published' = [published EXCEPT ![current] = @ + 1]
    /\ flusher' = "ackFresh"
    /\ UNCHANGED <<dbVars, workerVars, spoolVars, batch, current, breakerVars,
                   cleanVars, alerted, interruptions>>

\* detection_spool.acknowledge, then the alerts of a fresh commit; a replay
\* has none and the write counts as a success.
FlushAcknowledge ==
    /\ flusher \in {"ackFresh", "ackReplay"}
    /\ queue' = Without(queue, current)
    /\ \/ /\ flusher = "ackFresh"
          /\ flusher' = "alerting"
          /\ UNCHANGED <<batch, current, breakerVars>>
       \/ /\ flusher = "ackReplay"
          /\ NextFrame(batch)
          /\ CallSucceeded
    /\ UNCHANGED <<dbVars, workerVars, quarantined, cleanVars, noticeVars,
                   interruptions>>

FlushAlert ==
    /\ flusher = "alerting"
    /\ alerted' = [alerted EXCEPT ![current] = @ + 1]
    /\ CallSucceeded
    /\ NextFrame(batch)
    /\ UNCHANGED <<dbVars, workerVars, spoolVars, cleanVars, published,
                   interruptions>>

\* The commit is done but what follows fails or times out: the file, if it
\* is still there, is retried and will be recognised as a replay.
FlushPostCommitFails ==
    /\ flusher \in {"publishing", "ackFresh", "ackReplay", "alerting"}
    /\ CallFailed
    /\ Rotate(current)
    /\ NextFrame(batch)
    /\ UNCHANGED <<dbVars, workerVars, quarantined, cleanVars, noticeVars,
                   interruptions>>

\* stop() cancels the flush at any await; renaming a file to quarantine may
\* also raise out of the loop.  Open transactions roll back.
FlushCancelled ==
    /\ flusher # "idle"
    /\ interruptions < MaxInterruptions
    /\ interruptions' = interruptions + 1
    /\ NextFrame({})
    /\ UNCHANGED <<dbVars, workerVars, spoolVars, breakerVars, cleanVars,
                   noticeVars>>

-----------------------------------------------------------------------------
(* reconcile_orphan_camera_embeddings.                                      *)

\* Seeded faults: deleted rows are selected too; people on the watch list are
\* left out.
OrphansOfAnyState == {f \in Frames : emb[f] # "linked" /\ f \in aged}

OrphansOfUnknowns ==
    {f \in Frames : /\ emb[f] = "unlinked" /\ f \in aged
                    /\ owner[f] \notin KnownPersons
                    /\ PreservePersonHistory =>
                           \A g \in Frames : sighting[g] # owner[f]}

\* Camera embeddings older than the grace and not linked, except, when
\* history is preserved, those of identities with a recorded sighting.
Orphans ==
    {f \in Frames : /\ emb[f] = "unlinked" /\ f \in aged
                    /\ PreservePersonHistory =>
                           \A g \in Frames : sighting[g] # owner[f]}

CleanerSelect ==
    /\ cleaner = "idle"
    /\ Orphans # {}
    /\ rows' = {<<f, owner[f]>> : f \in Orphans}
    /\ cleaner' = "selected"
    /\ UNCHANGED <<dbVars, workerVars, spoolVars, flushVars, breakerVars,
                   doomed, noticeVars, interruptions>>

\* Seeded fault: reconciliation does not look at the disk.
CleanerIgnoresSpool ==
    /\ cleaner = "selected"
    /\ cleaner' = "filtered"
    /\ UNCHANGED <<dbVars, workerVars, spoolVars, flushVars, breakerVars, rows,
                   doomed, noticeVars, interruptions>>

\* protected_embedding_ids: rows of frames still in the queue are left out.
CleanerReadSpool ==
    /\ cleaner = "selected"
    /\ LET kept == {r \in rows : r[1] \notin Queued}
       IN  /\ rows' = kept
           /\ cleaner' = IF kept = {} THEN "idle" ELSE "filtered"
    /\ UNCHANGED <<dbVars, workerVars, spoolVars, flushVars, breakerVars,
                   doomed, noticeVars, interruptions>>

RowFrames == {r[1] : r \in rows}

\* UNKNOWN identities of the selected rows left without any evidence.
CleanerDoomed ==
    {i \in {r[2] : r \in rows} :
        /\ i \notin KnownPersons
        /\ person[i] = "live"
        /\ EvidenceFree(i, {g \in RowFrames : emb[g] = "unlinked"})}

CleanerDelete ==
    /\ cleaner = "filtered"
    /\ RowFrames \cap LockedRows = {}
    /\ IF CleanerDoomed = {}
       THEN /\ EraseRows(RowFrames, {})
            /\ cleaner' = "idle"
            /\ rows' = {}
            /\ UNCHANGED doomed
       ELSE /\ cleaner' = "erasing"
            /\ doomed' = CleanerDoomed
            /\ UNCHANGED <<person, emb, owner, sighting, rows>>
    /\ UNCHANGED <<survivor, mergeLog, recorded, aged, workerVars, spoolVars,
                   flushVars, breakerVars, noticeVars, interruptions>>

CleanerErase ==
    /\ cleaner = "erasing"
    /\ \A i \in doomed : ~ReferencedByOpenInsert(i) /\ ~NamedByMerge(i)
    /\ EraseRows(RowFrames, doomed)
    /\ cleaner' = "idle"
    /\ rows' = {}
    /\ doomed' = {}
    /\ UNCHANGED <<survivor, mergeLog, recorded, aged, workerVars, spoolVars,
                   flushVars, breakerVars, noticeVars, interruptions>>

\* Any error, a foreign key violation included, rolls everything back; the
\* next retention cycle starts over.
CleanerFails ==
    /\ cleaner # "idle"
    /\ cleaner' = "idle"
    /\ rows' = {}
    /\ doomed' = {}
    /\ UNCHANGED <<dbVars, workerVars, spoolVars, flushVars, breakerVars,
                   noticeVars, interruptions>>

-----------------------------------------------------------------------------
(* Administrators, time and crashes.                                        *)

\* merge_identities: under the exclusive merge lock, with both rows locked
\* FOR UPDATE, so no open insert references either and no open erasure holds
\* an embedding that moves.
Merge(i, j) ==
    /\ <<i, j>> \in MergePairs /\ i # j
    /\ person[i] = "live" /\ person[j] = "live"
    /\ survivor[i] = i /\ survivor[j] = j
    /\ ~ReferencedByOpenInsert(i) /\ ~ReferencedByOpenInsert(j)
    /\ \A f \in LockedRows : owner[f] # i
    /\ survivor' = [x \in Identities |-> IF survivor[x] = i THEN j ELSE survivor[x]]
    /\ mergeLog' = mergeLog \cup {<<i, j>>}
    /\ owner' = [f \in Frames |-> IF owner[f] = i THEN j ELSE owner[f]]
    /\ sighting' = [f \in Frames |-> IF sighting[f] = i THEN j ELSE sighting[f]]
    /\ UNCHANGED <<person, emb, recorded, aged, workerVars, spoolVars,
                   flushVars, breakerVars, cleanVars, noticeVars, interruptions>>

\* permanently_delete of a known person: the identities merged into it, their
\* merge records, embeddings, appearances and faces all go.  The spool is not
\* consulted.
DeletePerson(k) ==
    LET family == {i \in Identities : survivor[i] = k}
    IN  /\ k \in KnownPersons /\ person[k] = "live" /\ survivor[k] = k
        /\ \A i \in family : ~ReferencedByOpenInsert(i)
        /\ \A f \in LockedRows : owner[f] \notin family
        /\ EraseRows({}, {i \in family : person[i] = "live"})
        /\ mergeLog' = {m \in mergeLog : m[1] \notin family /\ m[2] \notin family}
        /\ UNCHANGED <<survivor, recorded, aged, workerVars, spoolVars,
                       flushVars, breakerVars, cleanVars, noticeVars,
                       interruptions>>

\* The grace period of an embedding passes.  It is far longer than a worker
\* keeps a frame between its identity transaction and the queue.
GracePeriodEnds(f) ==
    /\ emb[f] = "unlinked" /\ f \notin aged
    /\ worker[f] \in {"done", "lost"}
    /\ aged' = aged \cup {f}
    /\ UNCHANGED <<person, survivor, mergeLog, emb, owner, recorded, sighting,
                   workerVars, spoolVars, flushVars, breakerVars, cleanVars,
                   noticeVars, interruptions>>

\* The process dies: open transactions roll back, memory is lost, the
\* directory stays.
Crash ==
    /\ interruptions < MaxInterruptions
    /\ interruptions' = interruptions + 1
    /\ worker' = [f \in Frames |-> IF worker[f] \in {"idle", "done"}
                                   THEN worker[f] ELSE "lost"]
    /\ NextFrame({})
    /\ BreakerReset
    /\ cleaner' = "idle" /\ rows' = {} /\ doomed' = {}
    /\ UNCHANGED <<dbVars, face, spoolVars, noticeVars>>

-----------------------------------------------------------------------------
IdentityStep(f) ==
    \/ \E i \in Identities : MatchIdentity(f, i) \/ CreateIdentity(f, i)
    \/ InsertObservation(f)
    \/ \E heard \in BOOLEAN : CommitObservation(f, heard)
    \/ RollbackObservation(f)

WriteStep(f) ==
    \/ Discard(f) \/ Enqueue(f) \/ WriteDirectly(f)
    \/ \E heard \in BOOLEAN : DirectCommit(f, heard)
    \/ DirectFail(f) \/ DirectPublish(f) \/ DirectAlert(f)
    \/ DirectCompensate(f) \/ DirectErase(f) \/ WorkerGivesUp(f)

\* The outcomes of a write that end its frame's stay in the queue.
FlushSettles(f) == FlushCommit(f) \/ FlushReplay(f) \/ FlushInvalid(f)

FlushStep ==
    \/ FlushBegin
    \/ \E f \in Frames :
          \/ FlushSettles(f)
          \/ \E committed \in BOOLEAN : FlushRetain(f, committed)
    \/ FlushCompensate \/ FlushErase \/ FlushCompensateFails \/ FlushQuarantine
    \/ FlushPublish \/ FlushAcknowledge \/ FlushAlert \/ FlushPostCommitFails

CleanerStep ==
    \/ CleanerSelect \/ CleanerReadSpool \/ CleanerDelete \/ CleanerErase
    \/ CleanerFails

PeopleStep ==
    \/ \E i, j \in Identities : Merge(i, j)
    \/ \E k \in Identities : DeletePerson(k)

Next ==
    \/ \E f \in Frames : IdentityStep(f) \/ WriteStep(f) \/ GracePeriodEnds(f)
    \/ FlushStep \/ FlushCancelled
    \/ CleanerStep
    \/ PeopleStep
    \/ Crash

Spec == Init /\ [][Next]_vars

-----------------------------------------------------------------------------
(* Properties.                                                              *)

\* The path keeps the promises of EvidenceLedger: accepted frames settle as
\* recorded or quarantined, never both, are recorded once and announced at
\* most once, across crashes, replays, cancelled flushes and lost commits.
Ledger == INSTANCE EvidenceLedger WITH pending <- Queued

LedgerSpec == Ledger!LedgerSpec

\* A recorded frame keeps its evidence whole and on one unmerged person: its
\* embedding is linked and belongs to the person its sighting names, through
\* late rows, merges and deletions, until the row of that person is deleted,
\* be it by an erasure that should have spared her (ErasureSparesOtherFrames).
EvidenceWhole ==
    \A f \in recorded :
        /\ owner[f] = sighting[f]
        /\ IF sighting[f] = None
           THEN emb[f] = "gone"
           ELSE /\ emb[f] = "linked"
                /\ person[sighting[f]] = "live"
                /\ survivor[sighting[f]] = sighting[f]

\* Reconciliation reads the rows, then the directory, then deletes.  Whatever
\* workers, the flush and merges do in between, a row it goes on to delete
\* belongs to a frame that is over: not on disk, and in no worker that may
\* still write it or put it there.
SelectedFramesAreOver ==
    cleaner \in {"filtered", "erasing"} =>
        \A f \in RowFrames : f \notin Queued /\ worker[f] \in {"done", "lost"}

\* The embedding of f goes with the enrolled person an administrator deletes.
DeletedWithPerson(f) ==
    \E k \in KnownPersons :
        survivor[owner[f]] = k /\ person[k] = "live" /\ person'[k] = "gone"

\* An erasure takes the rows it was meant for and no others: compensation
\* those of its own frame (detection_evidence.py:379), reconciliation those it
\* selected, which are older than the grace (identity_retention.py:222).  Any
\* other row goes with a person an administrator deletes.  Violated: both
\* delete an identity they saw without evidence, and what another frame
\* committed to it meanwhile, queued or recorded, cascades.
ErasureSparesOtherFrames ==
    [][\A f \in Frames :
          HasRow(f) /\ ~HasRow(f)' =>
              \/ worker[f] \in {"compensating", "erasing"}
              \/ flusher \in {"compensating", "erasing"} /\ current = f
              \/ cleaner \in {"filtered", "erasing"} /\ f \in RowFrames
              \/ DeletedWithPerson(f)]_vars

(***************************************************************************)
(* Fairness.  supervised_loop calls flush again after every cycle, failed  *)
(* or not, and retention calls the reconciliation again; every statement   *)
(* and transaction ends, if only by a timeout.  A database or disk that    *)
(* fails does not fail for ever: the successful outcome of a step that is  *)
(* tried again and again is strongly fair.                                 *)
(***************************************************************************)
TransactionsEnd ==
    /\ \A f \in Frames : WF_vars(RollbackObservation(f) \/ WorkerGivesUp(f))
    /\ WF_vars(CleanerFails)
    /\ WF_vars(FlushStep)

FlusherFairness ==
    /\ SF_vars(FlushAcknowledge)
    /\ \A f \in Frames : SF_vars(FlushSettles(f))

CleanerFairness ==
    /\ WF_vars(CleanerSelect)
    /\ SF_vars(CleanerReadSpool) /\ SF_vars(CleanerDelete) /\ SF_vars(CleanerErase)

FlusherFairSpec == Spec /\ TransactionsEnd /\ FlusherFairness
CleanerFairSpec == Spec /\ TransactionsEnd /\ CleanerFairness
FairSpec == FlusherFairSpec /\ CleanerFairness

\* detection_spool.py:92: work is not replayed endlessly.  Every queued frame
\* leaves the queue, recorded or quarantined.
QueuedFramesSettle == \A f \in Frames : f \in Queued ~> f \notin Queued

\* The same, for frames whose person was not deleted under them: rotation
\* keeps a frame that fails for ever from starving the others.
QueuedFramesOfLivePeopleSettle ==
    \A f \in Frames : f \in Queued ~> (f \notin Queued \/ Vanished(f))

\* identity_retention.py:206: an old camera embedding whose frame is not
\* queued ends linked or removed; with PRESERVE_PERSON_HISTORY, unless its
\* person has a recorded sighting.
OrphansAreRemoved ==
    \A f \in Frames :
        f \in aged /\ f \notin Queued /\ emb[f] = "unlinked"
            ~> \/ emb[f] # "unlinked"
               \/ PreservePersonHistory /\ \E g \in Frames : sighting[g] = owner[f]
=============================================================================
