------------------------ MODULE VectorIndex_proofs ------------------------
(***************************************************************************)
(* Proofs about VectorIndex, for any number of keys, people, savers,       *)
(* crashes, faults and versions.  The invariant rests on who holds the     *)
(* RLock (Locking): nobody else changes the index or its directories       *)
(* meanwhile.  The snapshots, the journal and the purge each build on it.  *)
(***************************************************************************)
EXTENDS VectorIndex, FiniteSetTheorems, TLAPS

USE IndexAssumption

\* The RLock is held exactly by the coroutine whose thread runs, a sweep is a
\* deletion's, and a process that is down holds and remembers nothing.
Locking ==
    /\ lock = None <=> thread = "idle"
    /\ \A s \in Savers : saver[s] = "running" <=> lock = s
    /\ \A p \in Persons : deleter[p] = "running" <=> lock = p
    /\ thread = "sweeping" => lock \in Persons
    /\ phase = "down" =>
          /\ lock = None /\ rec = "idle"
          /\ \A s \in Savers : saver[s] = "idle"
          /\ \A p \in Persons : deleter[p] = "idle"

\* The version being written exists, and once published is CURRENT's.
Writing ==
    /\ thread \in {"writing", "published"} =>
          saveVersion < MaxVersion /\ saveVersion + 1 \in dirs
    /\ thread = "published" => pointer = saveVersion + 1
    /\ thread = "sweeping" => pointer = saveVersion /\ pointer \in Versions

\* As long as no fsync failed after a swap, the counter and CURRENT go
\* together and no directory is more than one version ahead.
Numbering ==
    syncFaults = 0 =>
        /\ pointer # 0 => pointer \in whole
        /\ phase = "down" => \A v \in dirs : v <= pointer + 1
        /\ phase # "down" =>
              /\ \A v \in dirs : v <= saveVersion + 1
              /\ pointer = IF thread = "published" THEN saveVersion + 1 ELSE saveVersion

\* A journaled person is inactive, a deletion at work has its journal, and it
\* is about keys of its person only.
Journaled ==
    \A p \in Persons :
        /\ p \in journal => status[p] = "inactive"
        /\ deleter[p] # "idle" => p \in journal
        /\ noted[p] \subseteq KeysOf(p) /\ plan[p] \subseteq KeysOf(p)

\* What a running purge took out is neither in the index nor in the snapshot
\* it writes; rows that reconciliation holds are not of a person being purged,
\* nor were they purged before.
Purging ==
    /\ \A p \in Persons :
          /\ lock = p => indexed \cap plan[p] = {}
          /\ lock = p /\ thread \in {"writing", "published"} =>
                keysIn[saveVersion + 1] \cap plan[p] = {}
          /\ lock = p /\ thread = "sweeping" => keysIn[pointer] \cap plan[p] = {}
          /\ deleter[p] \in {"acquiring", "queued", "running"} =>
                rows \cap KeysOf(p) = {}
    /\ purged \cap rows = {}
    /\ reconciling <=> rec # "idle"
    /\ rec # "read" => rows = {}

IndexInv ==
    /\ TypeOK /\ Locking /\ Writing /\ Numbering /\ Journaled /\ Purging
    /\ PurgedStaysOut /\ DestroyedUnderJournal
USE DEF dbVars, flagVars, coroVars, diskVars, threadVars, bounds, Owners, Versions

-----------------------------------------------------------------------------
(* Types. *)

LEMMA FaultsCount ==
    /\ \A n \in 0 .. MaxFaults : n < MaxFaults => n + 1 \in 0 .. MaxFaults
    /\ \A n \in 0 .. MaxSyncFaults : n < MaxSyncFaults => n + 1 \in 0 .. MaxSyncFaults
<1>1. MaxFaults \in Nat /\ MaxSyncFaults \in Nat
  OBVIOUS
<1> QED
  BY <1>1

\* Whoever resumes after the thread, its progress and plan keep their types.
LEMMA ResumeTyped ==
    ASSUME TypeOK, NEW o \in Owners, NEW next \in {"idle", "purged"}, Resume(o, next)
    PROVE  /\ saver' \in [Savers -> {"idle", "acquiring", "queued", "running"}]
           /\ deleter' \in [Persons -> {"idle", "journaled", "planned", "acquiring",
                                       "queued", "running", "purged", "unlinked"}]
           /\ plan' \in [Persons -> SUBSET Keys]
<1>1. CASE o \in Savers
  BY <1>1 DEF Resume, TypeOK
<1>2. CASE o \in Persons /\ o \notin Savers /\ next = "idle"
  BY <1>2 DEF Resume, TypeOK
<1>3. CASE o \in Persons /\ o \notin Savers /\ next = "purged"
  BY <1>3 DEF Resume, TypeOK
<1> QED
  BY <1>1, <1>2, <1>3

LEMMA TypeStep ==
    ASSUME TypeOK, Locking, Writing, [Next]_vars PROVE TypeOK'
<1> USE DEF TypeOK
<1>1. CASE Start
  <2>1. CASE pointer \in whole /\ indexed' = keysIn[pointer] /\ saveVersion' = pointer
             /\ UNCHANGED <<dirs, quarantined>>
    BY <1>1, <2>1 DEF Start
  <2>2. CASE indexed' = Searchable /\ saveVersion' = 0 /\ UNCHANGED <<dirs, quarantined>>
    BY <1>1, <2>2 DEF Start, Searchable
  <2>3. CASE /\ pointer \in dirs \ whole /\ dirs' = dirs \ {pointer}
             /\ quarantined' = quarantined \cup keysIn[pointer]
             /\ indexed' = Searchable /\ saveVersion' = 0
    BY <1>1, <2>3 DEF Start, Searchable
  <2> QED
    BY <1>1, <2>1, <2>2, <2>3 DEF Start
<1>2. CASE Crash
  <2>1. /\ writer' \in [Keys -> {"idle", "matched", "committed", "done"}]
        /\ expiry' \in [Keys -> {"idle", "removed", "done"}]
    BY <1>2 DEF Crash
  <2>2. /\ saver' \in [Savers -> {"idle", "acquiring", "queued", "running"}]
        /\ deleter' \in [Persons -> {"idle", "journaled", "planned", "acquiring",
                                    "queued", "running", "purged", "unlinked"}]
        /\ plan' \in [Persons -> SUBSET Keys]
    BY <1>2 DEF Crash
  <2>3. /\ faults' \in 0 .. MaxFaults /\ phase' = "down" /\ indexed' = {}
        /\ saveVersion' = 0 /\ lock' = None /\ thread' = "idle"
        /\ saving' = FALSE /\ reconciling' = FALSE /\ rec' = "idle" /\ rows' = {}
        /\ UNCHANGED <<dbVars, diskVars, lease, purged, toggles, autosaves, syncFaults>>
    BY <1>2, FaultsCount DEF Crash
  <2>4. saveVersion' \in 0 .. MaxVersion
    BY <2>3
  <2> QED
    BY <2>1, <2>2, <2>3, <2>4
<1>3. CASE LeaseExpires
  BY <1>3 DEF LeaseExpires
<1>4. CASE RecBegin \/ RecRead \/ RecApply \/ RecEnd \/ RecFails
  <2>1. CASE RecFails
    BY <2>1, FaultsCount DEF RecFails
  <2>2. CASE RecBegin \/ RecRead \/ RecApply \/ RecEnd
    BY <2>2 DEF RecBegin, RecRead, RecApply, RecEnd, Searchable
  <2> QED
    BY <1>4, <2>1, <2>2
<1>5. ASSUME NEW k \in Keys, RowStep(k) PROVE TypeOK'
  <2>1. CASE Match(k)
    BY <2>1 DEF Match
  <2>2. CASE CommitRow(k)
    BY <2>2 DEF CommitRow
  <2>3. CASE IndexRow(k)
    BY <2>3 DEF IndexRow
  <2>4. CASE Unindex(k)
    BY <2>4 DEF Unindex
  <2>5. CASE DeleteRow(k)
    BY <2>5 DEF DeleteRow
  <2> QED
    BY <1>5, <2>1, <2>2, <2>3, <2>4, <2>5 DEF RowStep
<1>6. ASSUME NEW p \in Persons, SetActive(p) PROVE TypeOK'
  BY <1>6 DEF SetActive
<1>7. ASSUME NEW s \in Savers, SaverStep(s) PROVE TypeOK'
  <2>1. CASE SaveRequest(s)
    BY <2>1 DEF SaveRequest
  <2>2. CASE SaveAdmitted(s)
    BY <2>2 DEF SaveAdmitted, LeaseGranted
  <2>3. CASE SaveSkipped(s)
    BY <2>3 DEF SaveSkipped
  <2>4. CASE SaveBegin(s)
    BY <2>4 DEF SaveBegin, WriteSnapshot
  <2> QED
    BY <1>7, <2>1, <2>2, <2>3, <2>4 DEF SaverStep
<1>8. ASSUME NEW p \in Persons, DeleteRequest(p) \/ DeletePlan(p)
      PROVE  TypeOK'
  <2>1. CASE DeleteRequest(p)
    BY <2>1 DEF DeleteRequest
  <2>2. CASE DeletePlan(p)
    BY <2>2 DEF DeletePlan
  <2> QED
    BY <1>8, <2>1, <2>2
<1>9. ASSUME NEW p \in Persons,
             PurgeAdmitted(p) \/ PurgeRefused(p) \/ PurgeQueued(p) \/ PurgeBegin(p)
      PROVE  TypeOK'
  <2>1. CASE PurgeAdmitted(p)
    BY <2>1 DEF PurgeAdmitted
  <2>2. CASE PurgeRefused(p)
    BY <2>2 DEF PurgeRefused, GiveUp
  <2>3. CASE PurgeQueued(p)
    BY <2>3 DEF PurgeQueued, LeaseGranted
  <2>4. CASE PurgeBegin(p)
    BY <2>4 DEF PurgeBegin, WriteSnapshot
  <2> QED
    BY <1>9, <2>1, <2>2, <2>3, <2>4
<1>10. ASSUME NEW p \in Persons, Sweep(p) \/ PurgeEnds(p) \/ SweepFails(p)
      PROVE  TypeOK'
  <2>1. CASE Sweep(p)
    BY <2>1 DEF Sweep
  <2>2. CASE PurgeEnds(p)
    BY <2>2, ResumeTyped DEF PurgeEnds, Release
  <2>3. CASE SweepFails(p)
    BY <2>3, ResumeTyped, FaultsCount DEF SweepFails, Release
  <2> QED
    BY <1>10, <2>1, <2>2, <2>3
<1>11. ASSUME NEW p \in Persons, Unlink(p) \/ DeleteCommit(p) \/ DeleteFails(p)
      PROVE  TypeOK'
  <2>1. CASE Unlink(p)
    BY <2>1, FaultsCount DEF Unlink
  <2>2. CASE DeleteCommit(p)
    BY <2>2, FaultsCount DEF DeleteCommit, GiveUp
  <2>3. CASE DeleteFails(p)
    BY <2>3, FaultsCount DEF DeleteFails, GiveUp
  <2> QED
    BY <1>11, <2>1, <2>2, <2>3
<1>12. ASSUME NEW o \in Owners, Publish(o) PROVE TypeOK'
  BY <1>12 DEF Publish, Writing
<1>13. ASSUME NEW o \in Owners, SaveFails(o) PROVE TypeOK'
  <2>1. faults' \in 0 .. MaxFaults /\ syncFaults' \in 0 .. MaxSyncFaults
    BY <1>13, FaultsCount DEF SaveFails
  <2> QED
    BY <1>13, <2>1, ResumeTyped DEF SaveFails, Release
<1>14. ASSUME NEW o \in Owners, FinishSave(o) PROVE TypeOK'
  <2>1. saveVersion + 1 \in 0 .. MaxVersion
    BY <1>14 DEF FinishSave, Writing
  <2> QED
    BY <1>14, <2>1, ResumeTyped DEF FinishSave, Release, Newest
<1>15. CASE UNCHANGED vars
  BY <1>15 DEF vars
<1> QED
  BY <1>1, <1>2, <1>3, <1>4, <1>5, <1>6, <1>7, <1>8, <1>9, <1>10, <1>11, <1>12, <1>13, <1>14, <1>15
     DEF Next, DeleteStep, ThreadStep

-----------------------------------------------------------------------------
(* The lock and what goes on under it. *)

LEMMA LockingStep ==
    ASSUME TypeOK, Locking, [Next]_vars PROVE Locking'
<1> USE DEF TypeOK, Locking
<1>1. CASE Start
  BY <1>1 DEF Start, Searchable
<1>2. CASE Crash
  BY <1>2 DEF Crash
<1>3. CASE LeaseExpires
  BY <1>3 DEF LeaseExpires
<1>4. CASE RecBegin \/ RecRead \/ RecApply \/ RecEnd \/ RecFails
  BY <1>4 DEF RecBegin, RecRead, RecApply, RecEnd, RecFails
<1>5. ASSUME NEW k \in Keys, RowStep(k) PROVE Locking'
  BY <1>5 DEF RowStep, Match, CommitRow, IndexRow, Unindex, DeleteRow
<1>6. ASSUME NEW p \in Persons, SetActive(p) PROVE Locking'
  BY <1>6 DEF SetActive
<1>7. ASSUME NEW s \in Savers, SaverStep(s) PROVE Locking'
  BY <1>7 DEF SaverStep, SaveRequest, SaveAdmitted, SaveSkipped, SaveBegin,
              LeaseGranted, WriteSnapshot
<1>8. ASSUME NEW p \in Persons, DeleteRequest(p) \/ DeletePlan(p)
      PROVE  Locking'
  BY <1>8 DEF DeleteRequest, DeletePlan
<1>9. ASSUME NEW p \in Persons,
             PurgeAdmitted(p) \/ PurgeRefused(p) \/ PurgeQueued(p) \/ PurgeBegin(p)
      PROVE  Locking'
  BY <1>9 DEF PurgeAdmitted, PurgeRefused, PurgeQueued, PurgeBegin,
              GiveUp, LeaseGranted, WriteSnapshot
<1>10. ASSUME NEW p \in Persons, Sweep(p) \/ PurgeEnds(p) \/ SweepFails(p)
      PROVE  Locking'
  BY <1>10 DEF Sweep, PurgeEnds, SweepFails, Release, Resume
<1>11. ASSUME NEW p \in Persons, Unlink(p) \/ DeleteCommit(p) \/ DeleteFails(p)
      PROVE  Locking'
  BY <1>11 DEF Unlink, DeleteCommit, DeleteFails, GiveUp
<1>12. ASSUME NEW o \in Owners, Publish(o) PROVE Locking'
  BY <1>12 DEF Publish
<1>13. ASSUME NEW o \in Owners, SaveFails(o) PROVE Locking'
  BY <1>13 DEF SaveFails, Release, Resume
<1>14. ASSUME NEW o \in Owners, FinishSave(o) PROVE Locking'
  BY <1>14 DEF FinishSave, Release, Resume, Newest
<1>15. CASE UNCHANGED vars
  BY <1>15 DEF vars
<1> QED
  BY <1>1, <1>2, <1>3, <1>4, <1>5, <1>6, <1>7, <1>8, <1>9, <1>10, <1>11, <1>12, <1>13, <1>14, <1>15
     DEF Next, DeleteStep, ThreadStep

LEMMA WritingStep ==
    ASSUME TypeOK, Locking, Writing, [Next]_vars PROVE Writing'
<1> USE DEF TypeOK, Locking, Writing
<1>1. CASE Start
  BY <1>1 DEF Start, Searchable
<1>2. CASE Crash
  BY <1>2 DEF Crash
<1>3. CASE LeaseExpires
  BY <1>3 DEF LeaseExpires
<1>4. CASE RecBegin \/ RecRead \/ RecApply \/ RecEnd \/ RecFails
  BY <1>4 DEF RecBegin, RecRead, RecApply, RecEnd, RecFails
<1>5. ASSUME NEW k \in Keys, RowStep(k) PROVE Writing'
  BY <1>5 DEF RowStep, Match, CommitRow, IndexRow, Unindex, DeleteRow
<1>6. ASSUME NEW p \in Persons, SetActive(p) PROVE Writing'
  BY <1>6 DEF SetActive
<1>7. ASSUME NEW s \in Savers, SaverStep(s) PROVE Writing'
  BY <1>7 DEF SaverStep, SaveRequest, SaveAdmitted, SaveSkipped, SaveBegin,
              LeaseGranted, WriteSnapshot
<1>8. ASSUME NEW p \in Persons, DeleteRequest(p) \/ DeletePlan(p)
      PROVE  Writing'
  BY <1>8 DEF DeleteRequest, DeletePlan
<1>9. ASSUME NEW p \in Persons,
             PurgeAdmitted(p) \/ PurgeRefused(p) \/ PurgeQueued(p) \/ PurgeBegin(p)
      PROVE  Writing'
  BY <1>9 DEF PurgeAdmitted, PurgeRefused, PurgeQueued, PurgeBegin,
              GiveUp, LeaseGranted, WriteSnapshot
<1>10. ASSUME NEW p \in Persons, Sweep(p) \/ PurgeEnds(p) \/ SweepFails(p)
      PROVE  Writing'
  BY <1>10 DEF Sweep, PurgeEnds, SweepFails, Release, Resume
<1>11. ASSUME NEW p \in Persons, Unlink(p) \/ DeleteCommit(p) \/ DeleteFails(p)
      PROVE  Writing'
  BY <1>11 DEF Unlink, DeleteCommit, DeleteFails, GiveUp
<1>12. ASSUME NEW o \in Owners, Publish(o) PROVE Writing'
  BY <1>12 DEF Publish
<1>13. ASSUME NEW o \in Owners, SaveFails(o) PROVE Writing'
  BY <1>13 DEF SaveFails, Release, Resume
<1>14. ASSUME NEW o \in Owners, FinishSave(o) PROVE Writing'
  BY <1>14 DEF FinishSave, Release, Resume, Newest
<1>15. CASE UNCHANGED vars
  BY <1>15 DEF vars
<1> QED
  BY <1>1, <1>2, <1>3, <1>4, <1>5, <1>6, <1>7, <1>8, <1>9, <1>10, <1>11, <1>12, <1>13, <1>14, <1>15
     DEF Next, DeleteStep, ThreadStep

-----------------------------------------------------------------------------
(* Snapshots. *)

\* Pruning by name keeps the highest version.
LEMMA NewestKeepsLast ==
    ASSUME NEW names \in SUBSET Versions, NEW last \in names, \A v \in names : v <= last
    PROVE  last \in Newest(names)
<1>1. {u \in names : u > last} = {}
  <2> SUFFICES ASSUME NEW u \in names, u > last PROVE FALSE
    OBVIOUS
  <2>1. u \in Nat /\ last \in Nat /\ u <= last
    OBVIOUS
  <2> QED
    BY <2>1
<1>2. Cardinality({u \in names : u > last}) = 0
  BY <1>1, FS_EmptySet
<1> QED
  BY <1>2 DEF Newest

numberVars == <<phase, saveVersion, thread, pointer, dirs, whole, syncFaults>>

LEMMA NumberingStep ==
    ASSUME TypeOK, Locking, Writing, Numbering, [Next]_vars PROVE Numbering'
<1> USE DEF TypeOK, Locking, Writing, Numbering
<1>1. CASE Start
  BY <1>1 DEF Start, Searchable
<1>2. CASE Crash
  BY <1>2 DEF Crash
<1>3. CASE LeaseExpires
  BY <1>3 DEF LeaseExpires
<1>4. CASE RecBegin \/ RecRead \/ RecApply \/ RecEnd \/ RecFails
  <2>1. (phase # "down" /\ phase' # "down") \/ phase' = phase
    BY <1>4 DEF RecBegin, RecRead, RecApply, RecEnd, RecFails
  <2>2. UNCHANGED <<saveVersion, thread, pointer, dirs, whole, syncFaults>>
    BY <1>4 DEF RecBegin, RecRead, RecApply, RecEnd, RecFails
  <2> QED
    BY <2>1, <2>2
<1>5. ASSUME NEW k \in Keys, RowStep(k) PROVE Numbering'
  <2>1. UNCHANGED numberVars
    BY <1>5 DEF RowStep, Match, CommitRow, IndexRow, Unindex, DeleteRow, numberVars
  <2> QED
    BY <2>1 DEF numberVars
<1>6. ASSUME NEW p \in Persons, SetActive(p) PROVE Numbering'
  <2>1. UNCHANGED numberVars
    BY <1>6 DEF SetActive, numberVars
  <2> QED
    BY <2>1 DEF numberVars
<1>7. ASSUME NEW s \in Savers, SaverStep(s) PROVE Numbering'
  <2>1. CASE SaveRequest(s) \/ SaveAdmitted(s) \/ SaveSkipped(s)
    <3>1. UNCHANGED numberVars
      BY <2>1 DEF SaveRequest, SaveAdmitted, SaveSkipped, numberVars
    <3> QED
      BY <3>1 DEF numberVars
  <2>2. CASE SaveBegin(s)
    BY <2>2 DEF SaveBegin, WriteSnapshot
  <2> QED
    BY <1>7, <2>1, <2>2 DEF SaverStep
<1>8. ASSUME NEW p \in Persons, DeleteRequest(p) \/ DeletePlan(p)
      PROVE  Numbering'
  <2>1. UNCHANGED numberVars
    BY <1>8 DEF DeleteRequest, DeletePlan, numberVars
  <2> QED
    BY <2>1 DEF numberVars
<1>9. ASSUME NEW p \in Persons,
             PurgeAdmitted(p) \/ PurgeRefused(p) \/ PurgeQueued(p) \/ PurgeBegin(p)
      PROVE  Numbering'
  <2>1. CASE PurgeAdmitted(p) \/ PurgeRefused(p) \/ PurgeQueued(p)
    <3>1. UNCHANGED numberVars
      BY <2>1 DEF PurgeAdmitted, PurgeRefused, PurgeQueued, numberVars
    <3> QED
      BY <3>1 DEF numberVars
  <2>2. CASE PurgeBegin(p)
    BY <2>2 DEF PurgeBegin, WriteSnapshot
  <2> QED
    BY <1>9, <2>1, <2>2
<1>10. ASSUME NEW p \in Persons, Sweep(p) \/ PurgeEnds(p) \/ SweepFails(p)
      PROVE  Numbering'
  <2>1. CASE Sweep(p)
    BY <2>1 DEF Sweep
  <2>2. CASE PurgeEnds(p)
    BY <2>2 DEF PurgeEnds, Release
  <2>3. CASE SweepFails(p)
    BY <2>3 DEF SweepFails, Release
  <2> QED
    BY <1>10, <2>1, <2>2, <2>3
<1>11. ASSUME NEW p \in Persons, Unlink(p) \/ DeleteCommit(p) \/ DeleteFails(p)
      PROVE  Numbering'
  <2>1. UNCHANGED numberVars
    BY <1>11 DEF Unlink, DeleteCommit, DeleteFails, GiveUp, numberVars
  <2> QED
    BY <2>1 DEF numberVars
<1>12. ASSUME NEW o \in Owners, Publish(o) PROVE Numbering'
  BY <1>12 DEF Publish
<1>13. ASSUME NEW o \in Owners, SaveFails(o) PROVE Numbering'
  BY <1>13 DEF SaveFails, Release
<1>14. ASSUME NEW o \in Owners, FinishSave(o) PROVE Numbering'
  <2> SUFFICES ASSUME syncFaults = 0 PROVE Numbering'
    BY <1>14 DEF FinishSave
  <2>1. /\ phase # "down" /\ phase' = phase
        /\ pointer = saveVersion + 1 /\ saveVersion' = pointer /\ pointer' = pointer
        /\ pointer \in whole /\ \A v \in dirs : v <= pointer
    BY <1>14 DEF FinishSave
  <2>2. pointer \in Newest(dirs)
    BY <2>1, NewestKeepsLast
  <2>3. dirs' = Newest(dirs) /\ whole' = whole \cap Newest(dirs) /\ Newest(dirs) \subseteq dirs
    BY <1>14 DEF FinishSave, Newest
  <2>4. thread' \in {"idle", "sweeping"}
    BY <1>14 DEF FinishSave, Release
  <2> QED
    BY <2>1, <2>2, <2>3, <2>4
<1>15. CASE UNCHANGED vars
  BY <1>15 DEF vars
<1> QED
  BY <1>1, <1>2, <1>3, <1>4, <1>5, <1>6, <1>7, <1>8, <1>9, <1>10, <1>11, <1>12, <1>13, <1>14, <1>15
     DEF Next, DeleteStep, ThreadStep

-----------------------------------------------------------------------------
(* Deletion. *)

LEMMA JournaledStep ==
    ASSUME TypeOK, Locking, Journaled, [Next]_vars PROVE Journaled'
<1> USE DEF TypeOK, Locking, Journaled, KeysOf
<1>1. CASE Start
  BY <1>1 DEF Start, Searchable
<1>2. CASE Crash
  BY <1>2 DEF Crash
<1>3. CASE LeaseExpires
  BY <1>3 DEF LeaseExpires
<1>4. CASE RecBegin \/ RecRead \/ RecApply \/ RecEnd \/ RecFails
  BY <1>4 DEF RecBegin, RecRead, RecApply, RecEnd, RecFails
<1>5. ASSUME NEW k \in Keys, RowStep(k) PROVE Journaled'
  BY <1>5 DEF RowStep, Match, CommitRow, IndexRow, Unindex, DeleteRow
<1>6. ASSUME NEW p \in Persons, SetActive(p) PROVE Journaled'
  BY <1>6 DEF SetActive
<1>7. ASSUME NEW s \in Savers, SaverStep(s) PROVE Journaled'
  BY <1>7 DEF SaverStep, SaveRequest, SaveAdmitted, SaveSkipped, SaveBegin,
              LeaseGranted, WriteSnapshot
<1>8. ASSUME NEW p \in Persons, DeleteRequest(p) \/ DeletePlan(p)
      PROVE  Journaled'
  BY <1>8 DEF DeleteRequest, DeletePlan
<1>9. ASSUME NEW p \in Persons,
             PurgeAdmitted(p) \/ PurgeRefused(p) \/ PurgeQueued(p) \/ PurgeBegin(p)
      PROVE  Journaled'
  BY <1>9 DEF PurgeAdmitted, PurgeRefused, PurgeQueued, PurgeBegin,
              GiveUp, LeaseGranted, WriteSnapshot
<1>10. ASSUME NEW p \in Persons, Sweep(p) \/ PurgeEnds(p) \/ SweepFails(p)
      PROVE  Journaled'
  BY <1>10 DEF Sweep, PurgeEnds, SweepFails, Release, Resume
<1>11. ASSUME NEW p \in Persons, Unlink(p) \/ DeleteCommit(p) \/ DeleteFails(p)
      PROVE  Journaled'
  BY <1>11 DEF Unlink, DeleteCommit, DeleteFails, GiveUp
<1>12. ASSUME NEW o \in Owners, Publish(o) PROVE Journaled'
  BY <1>12 DEF Publish
<1>13. ASSUME NEW o \in Owners, SaveFails(o) PROVE Journaled'
  BY <1>13 DEF SaveFails, Release, Resume
<1>14. ASSUME NEW o \in Owners, FinishSave(o) PROVE Journaled'
  BY <1>14 DEF FinishSave, Release, Resume, Newest
<1>15. CASE UNCHANGED vars
  BY <1>15 DEF vars
<1> QED
  BY <1>1, <1>2, <1>3, <1>4, <1>5, <1>6, <1>7, <1>8, <1>9, <1>10, <1>11, <1>12, <1>13, <1>14, <1>15
     DEF Next, DeleteStep, ThreadStep

LEMMA DestroyedStep ==
    ASSUME TypeOK, Locking, Journaled, DestroyedUnderJournal, [Next]_vars PROVE DestroyedUnderJournal'
<1> USE DEF TypeOK, Locking, Journaled, DestroyedUnderJournal, KeysOf
<1>1. CASE Start
  BY <1>1 DEF Start, Searchable
<1>2. CASE Crash
  BY <1>2 DEF Crash
<1>3. CASE LeaseExpires
  BY <1>3 DEF LeaseExpires
<1>4. CASE RecBegin \/ RecRead \/ RecApply \/ RecEnd \/ RecFails
  BY <1>4 DEF RecBegin, RecRead, RecApply, RecEnd, RecFails
<1>5. ASSUME NEW k \in Keys, RowStep(k) PROVE DestroyedUnderJournal'
  BY <1>5 DEF RowStep, Match, CommitRow, IndexRow, Unindex, DeleteRow
<1>6. ASSUME NEW p \in Persons, SetActive(p) PROVE DestroyedUnderJournal'
  BY <1>6 DEF SetActive
<1>7. ASSUME NEW s \in Savers, SaverStep(s) PROVE DestroyedUnderJournal'
  BY <1>7 DEF SaverStep, SaveRequest, SaveAdmitted, SaveSkipped, SaveBegin,
              LeaseGranted, WriteSnapshot
<1>8. ASSUME NEW p \in Persons, DeleteRequest(p) \/ DeletePlan(p)
      PROVE  DestroyedUnderJournal'
  BY <1>8 DEF DeleteRequest, DeletePlan
<1>9. ASSUME NEW p \in Persons,
             PurgeAdmitted(p) \/ PurgeRefused(p) \/ PurgeQueued(p) \/ PurgeBegin(p)
      PROVE  DestroyedUnderJournal'
  BY <1>9 DEF PurgeAdmitted, PurgeRefused, PurgeQueued, PurgeBegin,
              GiveUp, LeaseGranted, WriteSnapshot
<1>10. ASSUME NEW p \in Persons, Sweep(p) \/ PurgeEnds(p) \/ SweepFails(p)
      PROVE  DestroyedUnderJournal'
  BY <1>10 DEF Sweep, PurgeEnds, SweepFails, Release, Resume
<1>11. ASSUME NEW p \in Persons, Unlink(p) \/ DeleteCommit(p) \/ DeleteFails(p)
      PROVE  DestroyedUnderJournal'
  BY <1>11 DEF Unlink, DeleteCommit, DeleteFails, GiveUp
<1>12. ASSUME NEW o \in Owners, Publish(o) PROVE DestroyedUnderJournal'
  BY <1>12 DEF Publish
<1>13. ASSUME NEW o \in Owners, SaveFails(o) PROVE DestroyedUnderJournal'
  BY <1>13 DEF SaveFails, Release, Resume
<1>14. ASSUME NEW o \in Owners, FinishSave(o) PROVE DestroyedUnderJournal'
  BY <1>14 DEF FinishSave, Release, Resume, Newest
<1>15. CASE UNCHANGED vars
  BY <1>15 DEF vars
<1> QED
  BY <1>1, <1>2, <1>3, <1>4, <1>5, <1>6, <1>7, <1>8, <1>9, <1>10, <1>11, <1>12, <1>13, <1>14, <1>15
     DEF Next, DeleteStep, ThreadStep

\* Keys that may be searched are of active people, so of nobody who is being
\* deleted, and no key that was purged is one.
LEMMA SearchableIsActive ==
    ASSUME TypeOK, Journaled, DestroyedUnderJournal
    PROVE  /\ Searchable \cap purged = {}
           /\ \A p \in Persons : deleter[p] # "idle" => Searchable \cap KeysOf(p) = {}
  BY DEF TypeOK, Journaled, DestroyedUnderJournal, Searchable, KeysOf

LEMMA PurgingStep ==
    ASSUME TypeOK, Locking, Writing, Journaled, DestroyedUnderJournal, Purging,
           PurgedStaysOut, [Next]_vars PROVE Purging'
<1> USE DEF TypeOK, Locking, Writing, Journaled, Purging, PurgedStaysOut, KeysOf
<1>1. CASE Start
  BY <1>1 DEF Start, Searchable
<1>2. CASE Crash
  BY <1>2 DEF Crash
<1>3. CASE LeaseExpires
  BY <1>3 DEF LeaseExpires
<1>4. CASE RecBegin \/ RecRead \/ RecApply \/ RecEnd \/ RecFails
  <2>1. CASE RecRead
    BY <2>1, SearchableIsActive DEF RecRead
  <2>2. CASE RecBegin
    BY <2>2 DEF RecBegin
  <2>3. CASE RecApply
    BY <2>3 DEF RecApply
  <2>4. CASE RecFails
    BY <2>4 DEF RecFails
  <2>5. CASE RecEnd
    BY <2>5 DEF RecEnd
  <2> QED
    BY <1>4, <2>1, <2>2, <2>3, <2>4, <2>5
<1>5. ASSUME NEW k \in Keys, RowStep(k) PROVE Purging'
  <2>1. CASE Match(k)
    BY <2>1 DEF Match
  <2>2. CASE CommitRow(k)
    BY <2>2 DEF CommitRow
  <2>3. CASE IndexRow(k)
    BY <2>3 DEF IndexRow
  <2>4. CASE Unindex(k)
    BY <2>4 DEF Unindex
  <2>5. CASE DeleteRow(k)
    BY <2>5 DEF DeleteRow
  <2> QED
    BY <1>5, <2>1, <2>2, <2>3, <2>4, <2>5 DEF RowStep
<1>6. ASSUME NEW p \in Persons, SetActive(p) PROVE Purging'
  BY <1>6 DEF SetActive
<1>7. ASSUME NEW s \in Savers, SaverStep(s) PROVE Purging'
  <2>1. CASE SaveRequest(s)
    BY <2>1 DEF SaveRequest
  <2>2. CASE SaveAdmitted(s)
    BY <2>2 DEF SaveAdmitted, LeaseGranted
  <2>3. CASE SaveSkipped(s)
    BY <2>3 DEF SaveSkipped
  <2>4. CASE SaveBegin(s)
    BY <2>4 DEF SaveBegin, WriteSnapshot
  <2> QED
    BY <1>7, <2>1, <2>2, <2>3, <2>4 DEF SaverStep
<1>8. ASSUME NEW p \in Persons, DeleteRequest(p) \/ DeletePlan(p)
      PROVE  Purging'
  <2>1. CASE DeleteRequest(p)
    BY <2>1 DEF DeleteRequest
  <2>2. CASE DeletePlan(p)
    BY <2>2 DEF DeletePlan
  <2> QED
    BY <1>8, <2>1, <2>2
<1>9. ASSUME NEW p \in Persons,
             PurgeAdmitted(p) \/ PurgeRefused(p) \/ PurgeQueued(p) \/ PurgeBegin(p)
      PROVE  Purging'
  <2>1. CASE PurgeAdmitted(p)
    BY <2>1 DEF PurgeAdmitted
  <2>2. CASE PurgeRefused(p)
    BY <2>2 DEF PurgeRefused, GiveUp
  <2>3. CASE PurgeQueued(p)
    BY <2>3 DEF PurgeQueued, LeaseGranted
  <2>4. CASE PurgeBegin(p)
    BY <2>4 DEF PurgeBegin, WriteSnapshot
  <2> QED
    BY <1>9, <2>1, <2>2, <2>3, <2>4
<1>10. ASSUME NEW p \in Persons, Sweep(p) \/ PurgeEnds(p) \/ SweepFails(p)
      PROVE  Purging'
  <2>1. CASE Sweep(p)
    BY <2>1 DEF Sweep
  <2>2. CASE PurgeEnds(p)
    BY <2>2 DEF PurgeEnds, Release, Resume
  <2>3. CASE SweepFails(p)
    BY <2>3 DEF SweepFails, Release, Resume
  <2> QED
    BY <1>10, <2>1, <2>2, <2>3
<1>11. ASSUME NEW p \in Persons, Unlink(p) \/ DeleteCommit(p) \/ DeleteFails(p)
      PROVE  Purging'
  <2>1. CASE Unlink(p)
    BY <2>1 DEF Unlink
  <2>2. CASE DeleteCommit(p)
    BY <2>2 DEF DeleteCommit, GiveUp
  <2>3. CASE DeleteFails(p)
    BY <2>3 DEF DeleteFails, GiveUp
  <2> QED
    BY <1>11, <2>1, <2>2, <2>3
<1>12. ASSUME NEW o \in Owners, Publish(o) PROVE Purging'
  BY <1>12 DEF Publish
<1>13. ASSUME NEW o \in Owners, SaveFails(o) PROVE Purging'
  BY <1>13 DEF SaveFails, Release, Resume
<1>14. ASSUME NEW o \in Owners, FinishSave(o) PROVE Purging'
  BY <1>14 DEF FinishSave, Release, Resume, Newest
<1>15. CASE UNCHANGED vars
  BY <1>15 DEF vars
<1> QED
  BY <1>1, <1>2, <1>3, <1>4, <1>5, <1>6, <1>7, <1>8, <1>9, <1>10, <1>11, <1>12, <1>13, <1>14, <1>15
     DEF Next, DeleteStep, ThreadStep

LEMMA StaysOutStep ==
    ASSUME TypeOK, Locking, Writing, Journaled, DestroyedUnderJournal, Purging,
           PurgedStaysOut, [Next]_vars PROVE PurgedStaysOut'
<1> USE DEF TypeOK, Locking, Writing, Purging, PurgedStaysOut, HeldOnDisk
<1>1. CASE Start
  BY <1>1, SearchableIsActive DEF Start
<1>2. CASE Crash
  BY <1>2 DEF Crash
<1>3. CASE LeaseExpires
  BY <1>3 DEF LeaseExpires
<1>4. CASE RecBegin \/ RecRead \/ RecApply \/ RecEnd \/ RecFails
  BY <1>4 DEF RecBegin, RecRead, RecApply, RecEnd, RecFails
<1>5. ASSUME NEW k \in Keys, RowStep(k) PROVE PurgedStaysOut'
  BY <1>5 DEF RowStep, Match, CommitRow, IndexRow, Unindex, DeleteRow
<1>6. ASSUME NEW p \in Persons, SetActive(p) PROVE PurgedStaysOut'
  BY <1>6 DEF SetActive
<1>7. ASSUME NEW s \in Savers, SaverStep(s) PROVE PurgedStaysOut'
  BY <1>7 DEF SaverStep, SaveRequest, SaveAdmitted, SaveSkipped, SaveBegin,
              LeaseGranted, WriteSnapshot
<1>8. ASSUME NEW p \in Persons, DeleteRequest(p) \/ DeletePlan(p)
      PROVE  PurgedStaysOut'
  BY <1>8 DEF DeleteRequest, DeletePlan
<1>9. ASSUME NEW p \in Persons,
             PurgeAdmitted(p) \/ PurgeRefused(p) \/ PurgeQueued(p) \/ PurgeBegin(p)
      PROVE  PurgedStaysOut'
  BY <1>9 DEF PurgeAdmitted, PurgeRefused, PurgeQueued, PurgeBegin,
              GiveUp, LeaseGranted, WriteSnapshot
<1>10. ASSUME NEW p \in Persons, Sweep(p) \/ PurgeEnds(p) \/ SweepFails(p)
      PROVE  PurgedStaysOut'
  BY <1>10 DEF Sweep, PurgeEnds, SweepFails, Release, Resume
<1>11. ASSUME NEW p \in Persons, Unlink(p) \/ DeleteCommit(p) \/ DeleteFails(p)
      PROVE  PurgedStaysOut'
  BY <1>11 DEF Unlink, DeleteCommit, DeleteFails, GiveUp
<1>12. ASSUME NEW o \in Owners, Publish(o) PROVE PurgedStaysOut'
  BY <1>12 DEF Publish
<1>13. ASSUME NEW o \in Owners, SaveFails(o) PROVE PurgedStaysOut'
  BY <1>13 DEF SaveFails, Release, Resume
<1>14. ASSUME NEW o \in Owners, FinishSave(o) PROVE PurgedStaysOut'
  <2>1. /\ dirs' \subseteq dirs
        /\ UNCHANGED <<purged, indexed, quarantined, keysIn>>
    BY <1>14 DEF FinishSave, Newest
  <2> QED
    BY <2>1
<1>15. CASE UNCHANGED vars
  BY <1>15 DEF vars
<1> QED
  BY <1>1, <1>2, <1>3, <1>4, <1>5, <1>6, <1>7, <1>8, <1>9, <1>10, <1>11, <1>12, <1>13, <1>14, <1>15
     DEF Next, DeleteStep, ThreadStep

-----------------------------------------------------------------------------
(* Theorems. *)

LEMMA IndexInit == Init => IndexInv
<1> SUFFICES ASSUME Init PROVE IndexInv
  OBVIOUS
<1>1. TypeOK
  <2>1. /\ status \in [Persons -> {"active", "inactive", "gone"}]
        /\ noted \in [Persons -> SUBSET Keys] /\ plan \in [Persons -> SUBSET Keys]
        /\ keysIn \in [Versions -> SUBSET Keys]
    BY DEF Init
  <2>2. /\ writer \in [Keys -> {"idle", "matched", "committed", "done"}]
        /\ expiry \in [Keys -> {"idle", "removed", "done"}]
        /\ saver \in [Savers -> {"idle", "acquiring", "queued", "running"}]
        /\ deleter \in [Persons -> {"idle", "journaled", "planned", "acquiring",
                                    "queued", "running", "purged", "unlinked"}]
    BY DEF Init
  <2>3. /\ toggles \in 0 .. MaxToggles /\ autosaves \in 0 .. MaxAutosaves
        /\ faults \in 0 .. MaxFaults /\ syncFaults \in 0 .. MaxSyncFaults
        /\ saveVersion \in 0 .. MaxVersion /\ pointer \in 0 .. MaxVersion
    BY DEF Init
  <2>4. /\ stored \subseteq Keys /\ journal \subseteq Persons /\ photos \subseteq Persons
        /\ indexed \subseteq Keys /\ rows \subseteq Keys /\ dirs \subseteq Versions
        /\ whole \subseteq dirs /\ quarantined \subseteq Keys /\ purged \subseteq Keys
    BY DEF Init
  <2>5. /\ phase \in {"down", "starting", "up"} /\ rec \in {"idle", "begun", "read", "applied"}
        /\ thread \in {"idle", "writing", "published", "sweeping"}
        /\ saving \in BOOLEAN /\ reconciling \in BOOLEAN
        /\ lock \in Owners \cup {None} /\ lease \in Owners \cup {None}
    BY DEF Init
  <2> QED
    BY <2>1, <2>2, <2>3, <2>4, <2>5 DEF TypeOK
<1>2. Locking /\ Writing /\ Numbering /\ Journaled /\ Purging
  BY DEF Init, Locking, Writing, Numbering, Journaled, Purging
<1>3. PurgedStaysOut /\ DestroyedUnderJournal
  BY DEF Init, PurgedStaysOut, DestroyedUnderJournal
<1> QED
  BY <1>1, <1>2, <1>3 DEF IndexInv

LEMMA IndexSafe == Spec => []IndexInv
<1>1. IndexInv /\ [Next]_vars => IndexInv'
  BY TypeStep, LockingStep, WritingStep, NumberingStep, JournaledStep, PurgingStep,
     StaysOutStep, DestroyedStep
  DEF IndexInv
<1> QED
  BY IndexInit, <1>1, PTL DEF Spec

\* Every variable has its type, for every value of the constants.
THEOREM IndexTypes == Spec => []TypeOK
<1>1. IndexInv => TypeOK
  BY DEF IndexInv
<1> QED
  BY <1>1, IndexSafe, PTL

\* What a deletion purged comes back through no snapshot, reconciliation,
\* restart or other save (flat_faiss.purge, reconcile_once).
THEOREM PurgedKeysStayOut == Spec => []PurgedStaysOut
<1>1. IndexInv => PurgedStaysOut
  BY DEF IndexInv
<1> QED
  BY <1>1, IndexSafe, PTL

\* Nothing of a person is destroyed but under a committed journal
\* (known_face_lifecycle.permanently_delete).
THEOREM DestructionIsJournaled == Spec => []DestroyedUnderJournal
<1>1. IndexInv => DestroyedUnderJournal
  BY DEF IndexInv
<1> QED
  BY <1>1, IndexSafe, PTL

\* Until an fsync fails after the swap, CURRENT names a complete snapshot
\* (flat_faiss.save, load and _prune_snapshots).
THEOREM SnapshotsStayWhole == Spec => []CurrentIsWhole
<1>1. IndexInv => CurrentIsWhole
  BY DEF IndexInv, Numbering, CurrentIsWhole
<1> QED
  BY <1>1, IndexSafe, PTL
=============================================================================
