---------------------------- MODULE VectorIndex ----------------------------
(***************************************************************************)
(* The FAISS index beside PostgreSQL: its writers, its snapshots on disk,  *)
(* the reconciliation with the database, and the permanent deletion of a   *)
(* known person (backend/core/vector_index, known_face_lifecycle.py).      *)
(* An embedding row is a key; the database decides which keys are          *)
(* searchable, and the index is derived from it.                           *)
(*                                                                         *)
(* One process serves (WORKERS=1).  Its event loop runs the coroutines,    *)
(* split where they await; save() and purge() run in a thread that holds   *)
(* the index's RLock, so that every other use of the index waits for them. *)
(***************************************************************************)
EXTENDS Naturals, FiniteSets

CONSTANTS
    Keys,           \* identity_embeddings.id
    Persons,        \* known people
    PersonOf,       \* the person of each key
    Savers,         \* callers of save_once: the autosave loop, the routes
    MaxAutosaves,   \* bound: saves these callers begin
    MaxVersion,     \* bound: snapshot versions
    MaxToggles,     \* bound: deactivations and reactivations
    MaxFaults,      \* bound: crashes, and errors before the pointer swap or in cleanup
    MaxSyncFaults,  \* bound: directory fsync errors after the pointer swap
    None            \* nobody

ASSUME IndexAssumption ==
    /\ IsFiniteSet(Keys)
    /\ PersonOf \in [Keys -> Persons]
    /\ Savers \cap Persons = {}
    /\ None \notin Savers \cup Persons
    /\ MaxVersion \in Nat \ {0}
    /\ {MaxAutosaves, MaxToggles, MaxFaults, MaxSyncFaults} \subseteq Nat

Owners == Savers \cup Persons       \* who holds a lock: a person's deletion, or a saver
Versions == 1 .. MaxVersion

VARIABLES
    \* --- database: committed rows
    status,         \* identities.status; "gone" once the row is deleted
    stored,         \* embedding rows
    journal,        \* persons with a person_delete_pending row
    noted,          \* embedding_ids of that row
    photos,         \* persons whose photo files exist
    \* --- the index in memory
    phase,          \* of the process: "down", "starting", "up"
    indexed,        \* keys of _meta and of the FAISS index
    saveVersion,    \* _save_version
    lock,           \* holder of the RLock
    thread,         \* progress of the save or purge that holds it
    saving, reconciling,                    \* VectorIndexManager._saving, ._reconciling
    \* --- coroutines
    writer,         \* of each key: the camera write or enrollment that makes it
    expiry,         \* of each key: the retention or orphan cleanup that removes it
    saver,
    rec, rows,      \* reconcile(): progress, and the rows it selected
    deleter, plan,  \* permanently_delete(): progress, and plan['embedding_ids']
    \* --- disk
    dirs, whole,    \* snapshot directories; those completely written
    keysIn,         \* keys of each snapshot
    pointer,        \* CURRENT, 0 when missing
    quarantined,    \* keys in quarantined snapshots
    lease,          \* Redis: holder of fr:lock:vector-index-save
    \* --- history and bounds
    purged,         \* keys a purge removed and no writer has indexed since
    toggles, autosaves, faults, syncFaults

dbVars    == <<status, stored, journal, noted, photos>>
flagVars  == <<saving, reconciling>>
coroVars  == <<writer, expiry, saver, rec, rows, deleter, plan>>
diskVars  == <<dirs, whole, keysIn, pointer, quarantined>>
threadVars == <<lock, thread>>
bounds    == <<toggles, autosaves, faults, syncFaults>>
vars == <<dbVars, phase, indexed, saveVersion, threadVars, flagVars, coroVars,
          diskVars, lease, purged, bounds>>

KeysOf(p) == {k \in Keys : PersonOf[k] = p}

\* SEARCHABLE_STATUS_SQL over committed rows.
Searchable == {k \in stored : status[PersonOf[k]] = "active"}

\* A deletion past its second person lock keeps the identity row locked.
Locked(p) == deleter[p] \notin {"idle", "journaled"}

TypeOK ==
    /\ status \in [Persons -> {"active", "inactive", "gone"}]
    /\ stored \subseteq Keys
    /\ journal \subseteq Persons
    /\ noted \in [Persons -> SUBSET Keys]
    /\ photos \subseteq Persons
    /\ phase \in {"down", "starting", "up"}
    /\ indexed \subseteq Keys
    /\ saveVersion \in 0 .. MaxVersion
    /\ lock \in Owners \cup {None}
    /\ thread \in {"idle", "writing", "published", "sweeping"}
    /\ saving \in BOOLEAN /\ reconciling \in BOOLEAN
    /\ writer \in [Keys -> {"idle", "matched", "committed", "done"}]
    /\ expiry \in [Keys -> {"idle", "removed", "done"}]
    /\ saver \in [Savers -> {"idle", "acquiring", "queued", "running"}]
    /\ rec \in {"idle", "begun", "read", "applied"} /\ rows \subseteq Keys
    /\ deleter \in [Persons -> {"idle", "journaled", "planned", "acquiring",
                                "queued", "running", "purged", "unlinked"}]
    /\ plan \in [Persons -> SUBSET Keys]
    /\ dirs \subseteq Versions /\ whole \subseteq dirs
    /\ keysIn \in [Versions -> SUBSET Keys]
    /\ pointer \in 0 .. MaxVersion
    /\ quarantined \subseteq Keys
    /\ lease \in Owners \cup {None}
    /\ purged \subseteq Keys
    /\ toggles \in 0 .. MaxToggles /\ autosaves \in 0 .. MaxAutosaves
    /\ faults \in 0 .. MaxFaults /\ syncFaults \in 0 .. MaxSyncFaults

Init ==
    /\ status = [p \in Persons |-> "active"]
    /\ stored = {} /\ journal = {}
    /\ noted = [p \in Persons |-> {}]
    /\ photos = Persons
    /\ phase = "down"
    /\ indexed = {} /\ saveVersion = 0
    /\ lock = None /\ thread = "idle"
    /\ saving = FALSE /\ reconciling = FALSE
    /\ writer = [k \in Keys |-> "idle"]
    /\ expiry = [k \in Keys |-> "idle"]
    /\ saver = [s \in Savers |-> "idle"]
    /\ rec = "idle" /\ rows = {}
    /\ deleter = [p \in Persons |-> "idle"]
    /\ plan = [p \in Persons |-> {}]
    /\ dirs = {} /\ whole = {}
    /\ keysIn = [v \in Versions |-> {}]
    /\ pointer = 0 /\ quarantined = {}
    /\ lease = None
    /\ purged = {}
    /\ toggles = 0 /\ autosaves = 0
    /\ faults = 0 /\ syncFaults = 0

-----------------------------------------------------------------------------
(* Start and crash of the process.                                          *)

\* startup(): the loaded snapshot brings its version back; without one, or
\* with one that fails its checks, the index is rebuilt from the searchable
\* rows and counts from 0 again.  A first reconciliation follows.
Start ==
    /\ phase = "down"
    /\ phase' = "starting"
    /\ reconciling' = TRUE /\ rec' = "begun"
    /\ \/ /\ pointer \in whole
          /\ indexed' = keysIn[pointer]
          /\ saveVersion' = pointer
          /\ UNCHANGED <<dirs, quarantined>>
       \/ /\ pointer \notin dirs
          /\ indexed' = Searchable
          /\ saveVersion' = 0
          /\ UNCHANGED <<dirs, quarantined>>
       \/ /\ pointer \in dirs \ whole
          /\ dirs' = dirs \ {pointer}
          /\ quarantined' = quarantined \cup keysIn[pointer]
          /\ indexed' = Searchable
          /\ saveVersion' = 0
    /\ UNCHANGED <<dbVars, threadVars, saving, writer, expiry, saver, rows,
                   deleter, plan, whole, keysIn, pointer, lease, purged,
                   bounds>>

\* Memory and open transactions are lost; the lease stays until its TTL.
Crash ==
    /\ phase # "down" /\ faults < MaxFaults
    /\ faults' = faults + 1
    /\ phase' = "down"
    /\ indexed' = {} /\ saveVersion' = 0
    /\ lock' = None /\ thread' = "idle"
    /\ saving' = FALSE /\ reconciling' = FALSE
    /\ writer' = [k \in Keys |-> IF writer[k] = "idle" THEN "idle" ELSE "done"]
    /\ expiry' = [k \in Keys |-> IF expiry[k] = "idle" THEN "idle" ELSE "done"]
    /\ saver' = [s \in Savers |-> "idle"]
    /\ rec' = "idle" /\ rows' = {}
    /\ deleter' = [p \in Persons |-> "idle"]
    /\ plan' = [p \in Persons |-> {}]
    /\ UNCHANGED <<dbVars, diskVars, lease, purged, toggles, autosaves,
                   syncFaults>>

\* The TTL outlives every save: only the lease of a dead owner expires.
OwnerAlive == \/ \E s \in Savers : s = lease /\ saver[s] \in {"queued", "running"}
              \/ \E p \in Persons : p = lease /\ deleter[p] \in {"queued", "running"}

LeaseExpires ==
    /\ lease # None /\ ~OwnerAlive
    /\ lease' = None
    /\ UNCHANGED <<dbVars, phase, indexed, saveVersion, threadVars, flagVars,
                   coroVars, diskVars, purged, bounds>>
-----------------------------------------------------------------------------
(* Rows and their keys: camera writes and enrollments, cleanups, status.    *)

\* A frame matched, or an enrollment was accepted, while the person was live.
Match(k) ==
    /\ phase = "up" /\ writer[k] = "idle"
    /\ status[PersonOf[k]] = "active"
    /\ writer' = [writer EXCEPT ![k] = "matched"]
    /\ UNCHANGED <<dbVars, phase, indexed, saveVersion, threadVars, flagVars,
                   expiry, saver, rec, rows, deleter, plan, diskVars, lease,
                   purged, bounds>>

\* save_embedding: the row commits first.  Its foreign key waits for a locked
\* identity and fails for a deleted one.
CommitRow(k) ==
    /\ writer[k] = "matched" /\ ~Locked(PersonOf[k])
    /\ IF status[PersonOf[k]] = "gone"
       THEN /\ writer' = [writer EXCEPT ![k] = "done"]
            /\ UNCHANGED stored
       ELSE /\ writer' = [writer EXCEPT ![k] = "committed"]
            /\ stored' = stored \cup {k}
    /\ UNCHANGED <<status, journal, noted, photos, phase, indexed,
                   saveVersion, threadVars, flagVars, expiry, saver, rec,
                   rows, deleter, plan, diskVars, lease, purged, bounds>>

\* ... and then the index is told, whatever became of the row meanwhile.
IndexRow(k) ==
    /\ writer[k] = "committed" /\ lock = None
    /\ \/ indexed' = indexed \cup {k} /\ purged' = purged \ {k}
       \/ UNCHANGED <<indexed, purged>>          \* the add fails, which is logged
    /\ writer' = [writer EXCEPT ![k] = "done"]
    /\ UNCHANGED <<dbVars, phase, saveVersion, threadVars, flagVars, expiry,
                   saver, rec, rows, deleter, plan, diskVars, lease, bounds>>

\* Retention and orphan cleanup: keys leave the index before the rows go,
Unindex(k) ==
    /\ phase = "up" /\ expiry[k] = "idle" /\ k \in stored /\ lock = None
    /\ indexed' = indexed \ {k}
    /\ expiry' = [expiry EXCEPT ![k] = "removed"]
    /\ UNCHANGED <<dbVars, phase, saveVersion, threadVars, flagVars, writer,
                   saver, rec, rows, deleter, plan, diskVars, lease, purged,
                   bounds>>

\* and the deletion of the rows commits or rolls back later.
DeleteRow(k) ==
    /\ expiry[k] = "removed"
    /\ expiry' = [expiry EXCEPT ![k] = "done"]
    /\ stored' \in {stored, stored \ {k}}
    /\ UNCHANGED <<status, journal, noted, photos, phase, indexed,
                   saveVersion, threadVars, flagVars, writer, saver, rec,
                   rows, deleter, plan, diskVars, lease, purged, bounds>>

\* Seeded fault: a journaled person may be reactivated.
SetActiveIgnoresJournal(p) ==
    /\ phase = "up" /\ toggles < MaxToggles
    /\ status[p] # "gone" /\ ~Locked(p)
    /\ status' = [status EXCEPT ![p] = IF @ = "active" THEN "inactive" ELSE "active"]
    /\ toggles' = toggles + 1
    /\ UNCHANGED <<stored, journal, noted, photos, phase, indexed,
                   saveVersion, threadVars, flagVars, coroVars, diskVars,
                   lease, purged, autosaves, faults, syncFaults>>

\* set_active, refused while a deletion is unfinished.  The index is left to
\* the next reconciliation.
SetActive(p) ==
    /\ phase = "up" /\ toggles < MaxToggles
    /\ status[p] # "gone" /\ ~Locked(p) /\ p \notin journal
    /\ status' = [status EXCEPT ![p] = IF @ = "active" THEN "inactive" ELSE "active"]
    /\ toggles' = toggles + 1
    /\ UNCHANGED <<stored, journal, noted, photos, phase, indexed,
                   saveVersion, threadVars, flagVars, coroVars, diskVars,
                   lease, purged, autosaves, faults, syncFaults>>

-----------------------------------------------------------------------------
(* reconcile_once.                                                          *)

RecBegin ==
    /\ phase = "up" /\ ~reconciling
    /\ reconciling' = TRUE /\ rec' = "begun"
    /\ UNCHANGED <<dbVars, phase, indexed, saveVersion, threadVars, saving,
                   writer, expiry, saver, rows, deleter, plan, diskVars,
                   lease, purged, bounds>>

\* The SELECT; its result is used after the await.
RecRead ==
    /\ rec = "begun"
    /\ rec' = "read" /\ rows' = Searchable
    /\ UNCHANGED <<dbVars, phase, indexed, saveVersion, threadVars, flagVars,
                   writer, expiry, saver, deleter, plan, diskVars, lease,
                   purged, bounds>>

\* Seeded fault: stale keys are left alone.
RecApplyAddsOnly ==
    /\ rec = "read" /\ lock = None
    /\ indexed' = indexed \cup rows
    /\ rec' = "applied" /\ rows' = {}
    /\ UNCHANGED <<dbVars, phase, saveVersion, threadVars, flagVars, writer,
                   expiry, saver, deleter, plan, diskVars, lease, purged,
                   bounds>>

\* keys(), remove() of the stale and add() of the missing follow each other
\* without a suspension, so the index ends as the rows read earlier.
RecApply ==
    /\ rec = "read" /\ lock = None
    /\ indexed' = rows
    /\ rec' = "applied" /\ rows' = {}
    /\ UNCHANGED <<dbVars, phase, saveVersion, threadVars, flagVars, writer,
                   expiry, saver, deleter, plan, diskVars, lease, purged,
                   bounds>>

\* The sync states are written, the report is audited, and the flag falls.
RecEnd ==
    /\ rec = "applied"
    /\ rec' = "idle" /\ reconciling' = FALSE
    /\ phase' = "up"
    /\ UNCHANGED <<dbVars, indexed, saveVersion, threadVars, saving, writer,
                   expiry, saver, rows, deleter, plan, diskVars, lease, purged,
                   bounds>>

\* A statement fails: the flag falls, the next cycle starts over.
RecFails ==
    /\ rec # "idle" /\ phase = "up" /\ faults < MaxFaults
    /\ faults' = faults + 1
    /\ rec' = "idle" /\ rows' = {} /\ reconciling' = FALSE
    /\ UNCHANGED <<dbVars, phase, indexed, saveVersion, threadVars, saving,
                   writer, expiry, saver, deleter, plan, diskVars, lease,
                   purged, toggles, autosaves, syncFaults>>

-----------------------------------------------------------------------------
(* save_once: the in-process flag, the Redis lease, the thread.             *)

\* The flag is tested before the lease is awaited and set after it.
SaveRequest(s) ==
    /\ phase = "up" /\ saver[s] = "idle" /\ ~saving
    /\ autosaves < MaxAutosaves
    /\ autosaves' = autosaves + 1
    /\ saver' = [saver EXCEPT ![s] = "acquiring"]
    /\ UNCHANGED <<dbVars, phase, indexed, saveVersion, threadVars, flagVars,
                   writer, expiry, rec, rows, deleter, plan, diskVars, lease,
                   purged, toggles, faults, syncFaults>>

\* acquire(): granted, or granted without a lease when Redis fails.
LeaseGranted(o) == \/ lease = None /\ lease' = o
                   \/ UNCHANGED lease

SaveAdmitted(s) ==
    /\ saver[s] = "acquiring"
    /\ LeaseGranted(s)
    /\ saving' = TRUE
    /\ saver' = [saver EXCEPT ![s] = "queued"]
    /\ UNCHANGED <<dbVars, phase, indexed, saveVersion, threadVars,
                   reconciling, writer, expiry, rec, rows, deleter, plan,
                   diskVars, purged, bounds>>

SaveSkipped(s) ==
    /\ saver[s] = "acquiring" /\ lease # None
    /\ saver' = [saver EXCEPT ![s] = "idle"]
    /\ UNCHANGED <<dbVars, phase, indexed, saveVersion, threadVars, flagVars,
                   writer, expiry, rec, rows, deleter, plan, diskVars, lease,
                   purged, bounds>>

\* What save() does first, whoever called it, once the RLock is free: the
\* directory of the next version is made, or overwritten, with these keys.
WriteSnapshot(o, keys) ==
    /\ lock = None /\ lock' = o
    /\ thread' = "writing"
    /\ saveVersion < MaxVersion
    /\ indexed' = keys
    /\ dirs' = dirs \cup {saveVersion + 1}
    /\ whole' = whole \ {saveVersion + 1}
    /\ keysIn' = [keysIn EXCEPT ![saveVersion + 1] = keys]

SaveBegin(s) ==
    /\ saver[s] = "queued"
    /\ WriteSnapshot(s, indexed)
    /\ saver' = [saver EXCEPT ![s] = "running"]
    /\ UNCHANGED <<dbVars, phase, saveVersion, flagVars, writer, expiry, rec,
                   rows, deleter, plan, pointer, quarantined, lease, purged,
                   bounds>>

\* Seeded fault: the pointer is swapped before the files are complete.
PublishEarly(o) ==
    /\ lock = o /\ thread = "writing"
    /\ thread' = "published"
    /\ pointer' = saveVersion + 1
    /\ UNCHANGED <<dbVars, phase, indexed, saveVersion, lock, flagVars,
                   coroVars, dirs, whole, keysIn, quarantined, lease, purged,
                   bounds>>

\* Steps 1 to 3: every file is durable, then CURRENT is replaced.
Publish(o) ==
    /\ lock = o /\ thread = "writing"
    /\ thread' = "published"
    /\ whole' = whole \cup {saveVersion + 1}
    /\ pointer' = saveVersion + 1
    /\ UNCHANGED <<dbVars, phase, indexed, saveVersion, lock, flagVars,
                   coroVars, dirs, keysIn, quarantined, lease, purged,
                   bounds>>

\* The caller of the thread resumes: the flag falls and the lease is given up.
Release(o) ==
    /\ lock' = None /\ thread' = "idle"
    /\ saving' = FALSE
    /\ lease' = IF lease = o THEN None ELSE lease

\* The waiting coroutine goes back to its loop, or its deletion to step next.
\* A deletion that fails rolls back and leaves its journal.
Resume(o, next) ==
    IF o \in Savers
    THEN saver' = [saver EXCEPT ![o] = "idle"] /\ UNCHANGED <<deleter, plan>>
    ELSE /\ deleter' = [deleter EXCEPT ![o] = next]
         /\ plan' = IF next = "idle" THEN [plan EXCEPT ![o] = {}] ELSE plan
         /\ UNCHANGED saver

\* Seeded fault: the flag falls only when the save succeeds.
SaveFailsStuck(o) ==
    /\ lock = o /\ thread = "writing" /\ faults < MaxFaults
    /\ faults' = faults + 1
    /\ dirs' = dirs \ {saveVersion + 1}
    /\ whole' = whole \ {saveVersion + 1}
    /\ lock' = None /\ thread' = "idle"
    /\ lease' = IF lease = o THEN None ELSE lease
    /\ Resume(o, "idle")
    /\ UNCHANGED <<dbVars, phase, indexed, saveVersion, flagVars, writer,
                   expiry, rec, rows, keysIn, pointer, quarantined, purged,
                   toggles, autosaves, syncFaults>>

\* Seeded fault: a directory just written is no longer counted, its files stay.
SaveFailsUnlinked(o) ==
    /\ lock = o /\ thread = "published" /\ syncFaults < MaxSyncFaults
    /\ syncFaults' = syncFaults + 1
    /\ dirs' = dirs \ {saveVersion + 1}
    /\ Release(o)
    /\ Resume(o, "idle")
    /\ UNCHANGED <<dbVars, phase, indexed, saveVersion, reconciling, writer,
                   expiry, rec, rows, whole, keysIn, pointer, quarantined,
                   purged, toggles, autosaves, faults>>

\* An exception before or after the swap removes the directory just written.
\* A late one is the fsync of step 4: CURRENT then names no directory.
SaveFails(o) ==
    /\ lock = o
    /\ \/ /\ thread = "writing" /\ faults < MaxFaults
          /\ faults' = faults + 1 /\ UNCHANGED syncFaults
       \/ /\ thread = "published" /\ syncFaults < MaxSyncFaults
          /\ syncFaults' = syncFaults + 1 /\ UNCHANGED faults
    /\ dirs' = dirs \ {saveVersion + 1}
    /\ whole' = whole \ {saveVersion + 1}
    /\ Release(o)
    /\ Resume(o, "idle")
    /\ UNCHANGED <<dbVars, phase, indexed, saveVersion, reconciling, writer,
                   expiry, rec, rows, keysIn, pointer, quarantined, purged,
                   toggles, autosaves>>

\* _prune_snapshots(keep=2), by the names.
Newest(names) ==
    {v \in names : Cardinality({u \in names : u > v}) < 2}

\* The version is adopted and old snapshots go.  A save ends here; a purge
\* goes on to sweep the rest.
FinishSave(o) ==
    /\ lock = o /\ thread = "published"
    /\ saveVersion' = saveVersion + 1
    /\ dirs' = Newest(dirs)
    /\ whole' = whole \cap Newest(dirs)
    /\ IF o \in Savers
       THEN Release(o) /\ Resume(o, "idle")
       ELSE /\ thread' = "sweeping"
            /\ UNCHANGED <<lock, saving, lease, saver, deleter, plan>>
    /\ UNCHANGED <<dbVars, phase, indexed, reconciling, writer, expiry, rec,
                   rows, keysIn, pointer, quarantined, purged, bounds>>

-----------------------------------------------------------------------------
(* permanently_delete.                                                      *)

\* The journal and the INACTIVE status commit together, before any cleanup.
DeleteRequest(p) ==
    /\ phase = "up" /\ deleter[p] = "idle" /\ status[p] # "gone"
    /\ status' = [status EXCEPT ![p] = "inactive"]
    /\ journal' = journal \cup {p}
    /\ noted' = [noted EXCEPT ![p] = @ \cup (stored \cap KeysOf(p))]
    /\ deleter' = [deleter EXCEPT ![p] = "journaled"]
    /\ UNCHANGED <<stored, photos, phase, indexed, saveVersion, threadVars,
                   flagVars, writer, expiry, saver, rec, rows, plan, diskVars,
                   lease, purged, bounds>>

\* The person is locked again and the plan read again: a camera write may
\* have committed since.  The journal's keys stay in it.
DeletePlan(p) ==
    /\ deleter[p] = "journaled"
    /\ plan' = [plan EXCEPT ![p] = (stored \cap KeysOf(p)) \cup noted[p]]
    /\ deleter' = [deleter EXCEPT ![p] = "planned"]
    /\ UNCHANGED <<dbVars, phase, indexed, saveVersion, threadVars, flagVars,
                   writer, expiry, saver, rec, rows, diskVars, lease, purged,
                   bounds>>

\* A refusal or an error: rollback, 503, and the deletion may be requested
\* again.
GiveUp(p) ==
    /\ deleter' = [deleter EXCEPT ![p] = "idle"]
    /\ plan' = [plan EXCEPT ![p] = {}]

\* Seeded fault: a running reconciliation does not stop the purge.
PurgeAdmittedOverReconcile(p) ==
    /\ deleter[p] = "planned" /\ ~saving
    /\ deleter' = [deleter EXCEPT ![p] = "acquiring"]
    /\ UNCHANGED <<dbVars, phase, indexed, saveVersion, threadVars, flagVars,
                   writer, expiry, saver, rec, rows, plan, diskVars, lease,
                   purged, bounds>>

\* _purge_index: maintenance in progress refuses the purge.
PurgeAdmitted(p) ==
    /\ deleter[p] = "planned" /\ ~saving /\ ~reconciling
    /\ deleter' = [deleter EXCEPT ![p] = "acquiring"]
    /\ UNCHANGED <<dbVars, phase, indexed, saveVersion, threadVars, flagVars,
                   writer, expiry, saver, rec, rows, plan, diskVars, lease,
                   purged, bounds>>

PurgeRefused(p) ==
    /\ \/ deleter[p] = "planned" /\ (saving \/ reconciling)
       \/ deleter[p] = "acquiring" /\ lease # None
    /\ GiveUp(p)
    /\ UNCHANGED <<dbVars, phase, indexed, saveVersion, threadVars, flagVars,
                   writer, expiry, saver, rec, rows, diskVars, lease, purged,
                   bounds>>

PurgeQueued(p) ==
    /\ deleter[p] = "acquiring"
    /\ LeaseGranted(p)
    /\ saving' = TRUE
    /\ deleter' = [deleter EXCEPT ![p] = "queued"]
    /\ UNCHANGED <<dbVars, phase, indexed, saveVersion, threadVars,
                   reconciling, writer, expiry, saver, rec, rows, plan,
                   diskVars, purged, bounds>>

\* purge(): the keys leave the index, and a snapshot without them is saved.
PurgeBegin(p) ==
    /\ deleter[p] = "queued"
    /\ WriteSnapshot(p, indexed \ plan[p])
    /\ deleter' = [deleter EXCEPT ![p] = "running"]
    /\ UNCHANGED <<dbVars, phase, saveVersion, flagVars, writer, expiry,
                   saver, rec, rows, plan, pointer, quarantined, lease,
                   purged, bounds>>

\* Every other snapshot goes, one directory at a time, and the quarantine.
Sweep(p) ==
    /\ lock = p /\ thread = "sweeping"
    /\ \/ \E v \in dirs \ {pointer} :
             /\ dirs' = dirs \ {v} /\ whole' = whole \ {v}
             /\ UNCHANGED quarantined
       \/ /\ quarantined # {} /\ quarantined' = {}
          /\ UNCHANGED <<dirs, whole>>
    /\ UNCHANGED <<dbVars, phase, indexed, saveVersion, threadVars, flagVars,
                   coroVars, keysIn, pointer, lease, purged, bounds>>

PurgeEnds(p) ==
    /\ lock = p /\ thread = "sweeping"
    /\ dirs \subseteq {pointer} /\ quarantined = {}
    /\ Release(p)
    /\ Resume(p, "purged")
    /\ purged' = purged \cup plan[p]
    /\ UNCHANGED <<dbVars, phase, indexed, saveVersion, reconciling, writer,
                   expiry, rec, rows, diskVars, bounds>>

\* A cleanup error is not swallowed as in routine pruning.
SweepFails(p) ==
    /\ lock = p /\ thread = "sweeping" /\ faults < MaxFaults
    /\ faults' = faults + 1
    /\ Release(p)
    /\ Resume(p, "idle")
    /\ UNCHANGED <<dbVars, phase, indexed, saveVersion, reconciling, writer,
                   expiry, rec, rows, diskVars, purged, toggles, autosaves,
                   syncFaults>>

\* The photo files go while the rows that name them still exist.
Unlink(p) ==
    /\ deleter[p] = "purged"
    /\ photos' = photos \ {p}
    /\ deleter' = [deleter EXCEPT ![p] = "unlinked"]
    /\ UNCHANGED <<status, stored, journal, noted, phase, indexed,
                   saveVersion, threadVars, flagVars, writer, expiry, saver,
                   rec, rows, plan, diskVars, lease, purged, bounds>>

\* One commit: the rows, the identity, and the journal turned into a receipt.
DeleteCommit(p) ==
    /\ deleter[p] = "unlinked"
    /\ stored' = stored \ KeysOf(p)
    /\ status' = [status EXCEPT ![p] = "gone"]
    /\ journal' = journal \ {p}
    /\ noted' = [noted EXCEPT ![p] = {}]
    /\ GiveUp(p)
    /\ UNCHANGED <<photos, phase, indexed, saveVersion, threadVars, flagVars,
                   writer, expiry, saver, rec, rows, diskVars, lease, purged,
                   bounds>>

\* Any statement or file operation of the second transaction may fail.
DeleteFails(p) ==
    /\ deleter[p] \in {"journaled", "planned", "purged", "unlinked"}
    /\ faults < MaxFaults
    /\ faults' = faults + 1
    /\ GiveUp(p)
    /\ UNCHANGED <<dbVars, phase, indexed, saveVersion, threadVars, flagVars,
                   writer, expiry, saver, rec, rows, diskVars, lease, purged,
                   toggles, autosaves, syncFaults>>

-----------------------------------------------------------------------------
ThreadStep(o) == Publish(o) \/ SaveFails(o) \/ FinishSave(o)

RowStep(k) == Match(k) \/ CommitRow(k) \/ IndexRow(k) \/ Unindex(k) \/ DeleteRow(k)

SaverStep(s) == SaveRequest(s) \/ SaveAdmitted(s) \/ SaveSkipped(s) \/ SaveBegin(s)

DeleteStep(p) ==
    \/ DeleteRequest(p) \/ DeletePlan(p)
    \/ PurgeAdmitted(p) \/ PurgeRefused(p) \/ PurgeQueued(p) \/ PurgeBegin(p)
    \/ Sweep(p) \/ PurgeEnds(p) \/ SweepFails(p)
    \/ Unlink(p) \/ DeleteCommit(p) \/ DeleteFails(p)

Next ==
    \/ Start \/ Crash \/ LeaseExpires
    \/ RecBegin \/ RecRead \/ RecApply \/ RecEnd \/ RecFails
    \/ \E k \in Keys : RowStep(k)
    \/ \E p \in Persons : SetActive(p) \/ DeleteStep(p)
    \/ \E s \in Savers : SaverStep(s)
    \/ \E o \in Owners : ThreadStep(o)

Spec == Init /\ [][Next]_vars

\* The supervised loops reconcile again and again, awaited statements return,
\* the thread works on, whoever waits for the RLock gets it when it stays
\* free, and a process that died is restarted.
ThreadRuns == \E o \in Owners : Publish(o) \/ FinishSave(o)
SweepRuns == \E p \in Persons : Sweep(p) \/ PurgeEnds(p)

Fairness ==
    /\ WF_vars(Start)
    /\ WF_vars(RecBegin) /\ WF_vars(RecRead)
    /\ WF_vars(RecApply) /\ WF_vars(RecEnd)
    /\ \A k \in Keys : WF_vars(IndexRow(k)) /\ WF_vars(DeleteRow(k))
    /\ WF_vars(\E s \in Savers : SaveBegin(s))
    /\ WF_vars(\E p \in Persons : PurgeBegin(p))
    /\ WF_vars(ThreadRuns) /\ WF_vars(SweepRuns)

FairSpec == Spec /\ Fairness

-----------------------------------------------------------------------------
HeldOnDisk == quarantined \cup UNION {keysIn[v] : v \in dirs}

\* Once a deletion has purged a key, no reconciliation that read its row
\* before, no snapshot, no restart and no other save brings it back; only a
\* writer that had committed the row and not yet told the index can.
PurgedStaysOut == purged \cap (indexed \cup HeldOnDisk) = {}

\* known_face_lifecycle.py:3: what a deletion destroys belongs to a person it
\* has durably made inactive, whatever fails, crashes or is clicked meanwhile.
DestroyedUnderJournal ==
    \A p \in Persons :
        p \notin photos \/ KeysOf(p) \cap purged # {} =>
            \/ status[p] = "gone"
            \/ status[p] = "inactive" /\ p \in journal

\* save(): "A crash before (3) leaves the previous snapshot authoritative ...
\* after (3) the new snapshot is durable."  As long as no fsync of step 4 has
\* failed, CURRENT names a complete snapshot, through crashes, failed saves,
\* pruning and sweeping.
CurrentIsWhole == pointer # 0 /\ syncFaults = 0 => pointer \in whole

\* flat_faiss.py:338, "Keep the newest few; the previous one is the rollback
\* target": a save that succeeds leaves the snapshot it published on disk.
PublishedIsKept ==
    [][\A o \in Owners : FinishSave(o) => pointer' \in whole']_vars

\* Reconciliation wins: whatever raced with it, the index ends as the
\* searchable rows.
IndexConverges == <>[](indexed = Searchable)

\* No path leaves a maintenance flag up, which would refuse every later
\* deletion and skip every later save.
MaintenanceEnds ==
    /\ saving ~> ~saving
    /\ reconciling ~> ~reconciling
=============================================================================
