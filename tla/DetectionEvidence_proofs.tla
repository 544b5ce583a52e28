---------------------- MODULE DetectionEvidence_proofs ----------------------
(***************************************************************************)
(* What DetectionEvidence keeps of the rows themselves, for any number of  *)
(* frames, people, merges, retries and interruptions: a recorded frame's   *)
(* evidence stays whole, reconciliation selects frames that are over, what *)
(* may take a queued frame's row is known, and a half-open breaker is one  *)
(* failure from open.                                                      *)
(*                                                                         *)
(* The steps are first sorted by what they do to the rows, to the worker   *)
(* of a frame, to the queue, to reconciliation and to the breaker; each    *)
(* part of the invariant is then kept by every kind.                       *)
(***************************************************************************)
EXTENDS EvidenceLedger_proofs

USE EvidenceAssumption, ThresholdAssumption

\* merged_into_id has no chains left to follow, and nobody is merged with an
\* identity that is not committed yet.
Chains ==
    /\ \A i \in Identities : survivor[survivor[i]] = survivor[i]
    /\ \A i, j \in Identities : person[i] = "unborn" /\ survivor[j] = i => j = i
    /\ \A i \in Identities : person[i] = "unborn" => survivor[i] = i

\* The person in the face dict of a frame still to be written was committed,
\* and an open insert keeps its person from being deleted.
Faces ==
    \A f \in Frames :
        /\ worker[f] \in {"matched", "inserted", "observed", "direct"} \/ f \in Queued =>
              face[f] \in FaceDict
        /\ worker[f] = "inserted" => person[face[f].identity] # "gone"
        /\ worker[f] \in {"observed", "direct"} \/ f \in Queued =>
              person[face[f].identity] # "unborn"

\* The foreign key of embeddings: an existing row is of an existing person.
Owners ==
    \A f \in Frames : HasRow(f) => owner[f] \in Identities /\ person[owner[f]] = "live"

\* Reconciliation selects rows whose frames are done with, and once it has
\* read the disk none of them is queued.
Selection ==
    /\ \A f \in aged : worker[f] \in {"done", "lost"}
    /\ RowFrames \subseteq aged
    /\ cleaner \in {"filtered", "erasing"} => RowFrames \cap Queued = {}

\* An open breaker has a full set of failures.
OpenMeansFailed == circuit \in {"open", "half_open"} => failures >= FailureThreshold

EvidenceInv ==
    /\ SpoolInv
    /\ TypeOK
    /\ Chains /\ Faces /\ Owners
    /\ EvidenceWhole
    /\ Selection
    /\ OpenMeansFailed

-----------------------------------------------------------------------------
(* The kinds of steps.                                                      *)

personVars == <<person, survivor, emb, owner, recorded, sighting>>

\* A frame's identity transaction commits.
RowCommits(f) ==
    /\ worker[f] = "inserted"
    /\ emb' = [emb EXCEPT ![f] = "unlinked"]
    /\ owner' = [owner EXCEPT ![f] = face[f].identity]
    /\ person' = [person EXCEPT ![face[f].identity] = "live"]
    /\ UNCHANGED <<survivor, recorded, sighting>>

\* A frame's evidence is written, by its worker or from the queue.
EvidenceCommits(f) ==
    /\ worker[f] = "direct" \/ f \in Queued
    /\ Persistable(f) /\ Persist(f)

\* Rows and people are deleted, people only without open inserts of theirs.
RowsErased(erased, people) ==
    /\ EraseRows(erased, people)
    /\ \A i \in people : ~ReferencedByOpenInsert(i)
    /\ UNCHANGED <<survivor, recorded>>

DatabaseStep ==
    \/ UNCHANGED personVars
    \/ \E f \in Frames : RowCommits(f) \/ EvidenceCommits(f)
    \/ \E erased, people : RowsErased(erased, people)
    \/ \E i, j \in Identities : Merge(i, j)

LEMMA DatabaseSteps ==
    ASSUME SpoolInv, [Next]_vars PROVE DatabaseStep
<1> USE DEF dbVars, personVars
<1>1. ASSUME NEW f \in Frames, IdentityStep(f) PROVE DatabaseStep
  <2>1. CASE \E heard \in BOOLEAN : CommitObservation(f, heard)
    <3>1. RowCommits(f)
      BY <2>1 DEF CommitObservation, RowCommits
    <3> QED
      BY <3>1 DEF DatabaseStep
  <2>2. CASE \E i \in Identities : MatchIdentity(f, i) \/ CreateIdentity(f, i)
    BY <2>2 DEF MatchIdentity, CreateIdentity, DatabaseStep
  <2>3. CASE InsertObservation(f) \/ RollbackObservation(f)
    BY <2>3 DEF InsertObservation, RollbackObservation, DatabaseStep
  <2> QED
    BY <1>1, <2>1, <2>2, <2>3 DEF IdentityStep
<1>2. ASSUME NEW f \in Frames, WriteStep(f) PROVE DatabaseStep
  <2>1. CASE \E heard \in BOOLEAN : DirectCommit(f, heard)
    <3>1. EvidenceCommits(f)
      BY <2>1 DEF DirectCommit, EvidenceCommits
    <3> QED
      BY <3>1 DEF DatabaseStep
  <2>2. CASE DirectCompensate(f)
    <3>1. UNCHANGED personVars \/ RowsErased({f}, {})
      BY <2>2 DEF DirectCompensate, CompensateEmbedding, RowsErased
    <3> QED
      BY <3>1 DEF DatabaseStep
  <2>3. CASE DirectErase(f)
    <3>1. RowsErased({f}, {face[f].identity})
      BY <2>3 DEF DirectErase, CompensateIdentity, RowsErased
    <3> QED
      BY <3>1 DEF DatabaseStep
  <2>4. CASE \/ Discard(f) \/ Enqueue(f) \/ WriteDirectly(f) \/ DirectFail(f)
             \/ DirectPublish(f) \/ DirectAlert(f) \/ WorkerGivesUp(f)
    BY <2>4 DEF Discard, Enqueue, WriteDirectly, DirectFail, DirectPublish,
                DirectAlert, WorkerGivesUp, DatabaseStep
  <2> QED
    BY <1>2, <2>1, <2>2, <2>3, <2>4 DEF WriteStep
<1>3. ASSUME NEW f \in Frames, FlushSettles(f) \/ FlushRetain(f, TRUE) \/ FlushRetain(f, FALSE)
      PROVE  DatabaseStep
  <2>1. CASE FlushCommit(f) \/ FlushRetain(f, TRUE)
    <3>1. f \in Queued
      BY <2>1 DEF FlushCommit, FlushRetain, SpoolInv, FlushProgress
    <3>2. EvidenceCommits(f)
      BY <2>1, <3>1 DEF FlushCommit, FlushRetain, EvidenceCommits
    <3> QED
      BY <3>2 DEF DatabaseStep
  <2>2. CASE FlushReplay(f) \/ FlushInvalid(f) \/ FlushRetain(f, FALSE)
    BY <2>2 DEF FlushReplay, FlushInvalid, FlushRetain, DatabaseStep
  <2> QED
    BY <1>3, <2>1, <2>2 DEF FlushSettles
<1>4. CASE FlushCompensate
  <2>1. UNCHANGED personVars \/ RowsErased({current}, {})
    BY <1>4 DEF FlushCompensate, CompensateEmbedding, RowsErased
  <2> QED
    BY <2>1 DEF DatabaseStep
<1>5. CASE FlushErase
  <2>1. RowsErased({current}, {face[current].identity})
    BY <1>5 DEF FlushErase, CompensateIdentity, RowsErased
  <2> QED
    BY <2>1 DEF DatabaseStep
<1>6. CASE \/ FlushBegin \/ FlushCompensateFails \/ FlushQuarantine \/ FlushPublish
           \/ FlushAcknowledge \/ FlushAlert \/ FlushPostCommitFails \/ FlushCancelled
  BY <1>6 DEF FlushBegin, FlushCompensateFails, FlushQuarantine, FlushPublish,
              FlushAcknowledge, FlushAlert, FlushPostCommitFails, FlushCancelled,
              DatabaseStep
<1>7. CASE CleanerStep
  <2>1. CASE CleanerDelete
    <3>1. UNCHANGED personVars \/ RowsErased(RowFrames, {})
      BY <2>1 DEF CleanerDelete, RowsErased
    <3> QED
      BY <3>1 DEF DatabaseStep
  <2>2. CASE CleanerErase
    <3>1. RowsErased(RowFrames, doomed)
      BY <2>2 DEF CleanerErase, RowsErased
    <3> QED
      BY <3>1 DEF DatabaseStep
  <2>3. CASE CleanerSelect \/ CleanerReadSpool \/ CleanerFails
    BY <2>3 DEF CleanerSelect, CleanerReadSpool, CleanerFails, DatabaseStep
  <2> QED
    BY <1>7, <2>1, <2>2, <2>3 DEF CleanerStep
<1>8. ASSUME NEW k \in Identities, DeletePerson(k) PROVE DatabaseStep
  <2> DEFINE family == {i \in Identities : survivor[i] = k}
  <2>1. RowsErased({}, {i \in family : person[i] = "live"})
    BY <1>8 DEF DeletePerson, RowsErased
  <2> QED
    BY <2>1 DEF DatabaseStep
<1>9. CASE Crash \/ UNCHANGED vars \/ \E f \in Frames : GracePeriodEnds(f)
  BY <1>9 DEF Crash, GracePeriodEnds, vars, DatabaseStep
<1>10. CASE \E i, j \in Identities : Merge(i, j)
  BY <1>10 DEF DatabaseStep
<1>11. CASE FlushStep
  <2>1. ASSUME NEW f \in Frames, NEW committed \in BOOLEAN, FlushRetain(f, committed)
        PROVE  DatabaseStep
    BY <2>1, <1>3
  <2> QED
    BY <1>11, <2>1, <1>3, <1>4, <1>5, <1>6 DEF FlushStep
<1> QED
  BY <1>1, <1>2, <1>6, <1>7, <1>8, <1>9, <1>10, <1>11 DEF Next, PeopleStep

\* What may become of the worker of a frame and of its face dict.
WorkerMove(f) ==
    \/ worker'[f] = worker[f] /\ face'[f] = face[f]
    \/ /\ worker[f] = "idle" /\ worker'[f] = "matched"
       /\ face'[f] \in FaceDict
    \/ /\ worker[f] = "idle" /\ worker'[f] = "inserted"
       /\ face'[f] \in FaceDict /\ person[face'[f].identity] = "unborn" /\ person' = person
    \/ /\ worker[f] = "matched" /\ worker'[f] = "inserted"
       /\ face'[f] = face[f] /\ person[face[f].identity] = "live" /\ person' = person
    \/ /\ worker[f] = "inserted" /\ worker'[f] = "observed"
       /\ face'[f] = face[f] /\ RowCommits(f)
    \/ worker[f] = "observed" /\ worker'[f] = "direct" /\ face'[f] = face[f]
    \/ /\ worker[f] \notin {"done", "lost"} /\ face'[f] = face[f]
       /\ worker'[f] \in {"publishing", "alerting", "compensating", "erasing", "done", "lost"}

LEMMA WorkerSteps ==
    ASSUME SpoolInv, TypeOK, [Next]_vars, NEW f \in Frames PROVE WorkerMove(f)
<1> USE DEF workerVars, dbVars
<1>1. worker \in [Frames -> WorkerState] /\ face \in [Frames -> FaceDict \cup {None}]
  BY DEF TypeOK
<1>2. ASSUME NEW g \in Frames, IdentityStep(g) PROVE WorkerMove(f)
  <2>1. ASSUME NEW i \in Identities, MatchIdentity(g, i) \/ CreateIdentity(g, i)
        PROVE  WorkerMove(f)
    <3>1. [identity |-> i, created |-> TRUE] \in FaceDict
          /\ [identity |-> i, created |-> FALSE] \in FaceDict
      BY DEF FaceDict
    <3>2. CASE f # g
      BY <2>1, <3>2, <1>1 DEF MatchIdentity, CreateIdentity, WorkerMove
    <3>3. CASE f = g /\ MatchIdentity(f, i)
      BY <3>1, <3>3, <1>1 DEF MatchIdentity, WorkerMove
    <3>4. CASE f = g /\ CreateIdentity(f, i)
      <4>1. /\ worker[f] = "idle" /\ worker'[f] = "inserted"
            /\ person[i] = "unborn" /\ person' = person
            /\ face'[f] = [identity |-> i, created |-> TRUE]
        BY <3>4, <1>1 DEF CreateIdentity
      <4>2. face'[f].identity = i
        BY <4>1
      <4> QED
        BY <4>1, <4>2, <3>1 DEF WorkerMove
    <3> QED
      BY <2>1, <3>2, <3>3, <3>4
  <2>2. CASE InsertObservation(g) \/ RollbackObservation(g)
    BY <2>2, <1>1 DEF InsertObservation, RollbackObservation, WorkerMove
  <2>3. CASE \E heard \in BOOLEAN : CommitObservation(g, heard)
    BY <2>3, <1>1 DEF CommitObservation, RowCommits, WorkerMove
  <2> QED
    BY <1>2, <2>1, <2>2, <2>3 DEF IdentityStep
<1>3. ASSUME NEW g \in Frames, WriteStep(g) PROVE WorkerMove(f)
  BY <1>3, <1>1 DEF WriteStep, Discard, Enqueue, WriteDirectly, DirectCommit, DirectFail,
     DirectPublish, DirectAlert, DirectCompensate, DirectErase, WorkerGivesUp, WorkerMove
<1>4. CASE FlushStep \/ FlushCancelled
  <2>1. UNCHANGED workerVars
    BY <1>4 DEF FlushStep, FlushSettles, FlushBegin, FlushCommit, FlushReplay, FlushInvalid,
       FlushRetain, FlushCompensate, FlushErase, FlushCompensateFails, FlushQuarantine,
       FlushPublish, FlushAcknowledge, FlushAlert, FlushPostCommitFails, FlushCancelled
  <2> QED
    BY <2>1 DEF WorkerMove
<1>5. CASE CleanerStep
  BY <1>5 DEF CleanerStep, CleanerSelect, CleanerReadSpool, CleanerDelete, CleanerErase,
              CleanerFails, WorkerMove
<1>6. CASE PeopleStep
  BY <1>6 DEF PeopleStep, Merge, DeletePerson, WorkerMove
<1>7. CASE (\E g \in Frames : GracePeriodEnds(g)) \/ UNCHANGED vars
  BY <1>7 DEF GracePeriodEnds, vars, WorkerMove
<1>8. CASE Crash
  BY <1>8, <1>1 DEF Crash, WorkerMove
<1> QED
  BY <1>2, <1>3, <1>4, <1>5, <1>6, <1>7, <1>8 DEF Next

\* Only a frame that its worker has observed joins the queue.
LEMMA QueueSteps ==
    ASSUME SpoolInv, [Next]_vars, NEW f \in Queued', f \notin Queued
    PROVE  f \in Frames /\ worker[f] = "observed" /\ face' = face /\ UNCHANGED personVars
<1>1. ASSUME NEW g \in Frames, IdentityStep(g) \/ WorkerOnly(g) PROVE FALSE
  BY <1>1, IdentitySteps, WorkerOnlySteps
<1>2. ASSUME NEW g \in Frames, Enqueue(g)
      PROVE  f \in Frames /\ worker[f] = "observed" /\ face' = face /\ UNCHANGED personVars
  <2>1. f = g
    BY <1>2, EnqueueStep
  <2> QED
    BY <2>1, <1>2 DEF Enqueue, dbVars, personVars
<1>3. ASSUME NEW g \in Frames, NEW heard \in BOOLEAN, DirectCommit(g, heard) PROVE FALSE
  BY <1>3, DirectCommitStep
<1>4. ASSUME NEW g \in Frames, DirectPublish(g) \/ DirectAlert(g) PROVE FALSE
  BY <1>4, DirectNotices
<1>5. CASE FlushStep \/ FlushCancelled \/ Crash
  BY <1>5, FlushBeginStep, FlushCommitStep, FlushReplayStep, FlushRetainStep,
     FlushCompensateSteps, FlushQuarantineStep, FlushPublishStep, FlushAcknowledgeStep,
     FlushAlertStep, FlushPostCommitFailsStep, InterruptionSteps
     DEF FlushStep, FlushSettles
<1>6. CASE CleanerStep \/ PeopleStep \/ \E g \in Frames : GracePeriodEnds(g)
  BY <1>6, OtherSteps
<1>7. CASE UNCHANGED vars
  BY <1>7 DEF vars, spoolVars, Queued
<1>8. ASSUME NEW g \in Frames, WriteStep(g)
      PROVE  f \in Frames /\ worker[f] = "observed" /\ face' = face /\ UNCHANGED personVars
  BY <1>8, <1>1, <1>2, <1>3, <1>4 DEF WriteStep, WorkerOnly
<1> QED
  BY <1>1, <1>5, <1>6, <1>7, <1>8 DEF Next

\* What reconciliation remembers, and which embeddings have aged.
CleanerMove ==
    \/ UNCHANGED cleanVars
    \/ /\ cleaner' = "selected" /\ doomed' = doomed
       /\ rows' = {<<f, owner[f]>> : f \in Orphans}
    \/ CleanerReadSpool
    \/ /\ cleaner = "filtered" /\ cleaner' = "erasing"
       /\ rows' = rows /\ doomed' = CleanerDoomed
    \/ cleaner' = "idle" /\ rows' = {} /\ doomed' \in {doomed, {}}

LEMMA CleanerSteps ==
    ASSUME [Next]_vars
    PROVE  /\ CleanerMove
           /\ \/ aged' = aged
              \/ \E f \in Frames : aged' = aged \cup {f} /\ worker[f] \in {"done", "lost"}
           /\ mergeLog' \subseteq mergeLog \cup (Identities \X Identities)
<1> DEFINE Goal ==
              /\ CleanerMove
              /\ \/ aged' = aged
                 \/ \E f \in Frames : aged' = aged \cup {f} /\ worker[f] \in {"done", "lost"}
              /\ mergeLog' \subseteq mergeLog \cup (Identities \X Identities)
<1> SUFFICES Goal
  OBVIOUS
<1>0. UNCHANGED cleanVars /\ UNCHANGED <<aged, mergeLog>> => Goal
  BY DEF CleanerMove
<1> USE DEF dbVars
<1>1. ASSUME NEW f \in Frames, IdentityStep(f) PROVE Goal
  <2>1. UNCHANGED cleanVars /\ UNCHANGED <<aged, mergeLog>>
    BY <1>1 DEF IdentityStep, MatchIdentity, CreateIdentity, InsertObservation,
                CommitObservation, RollbackObservation
  <2> QED
    BY <2>1, <1>0
<1>2. ASSUME NEW f \in Frames, WriteStep(f) PROVE Goal
  <2>1. UNCHANGED cleanVars /\ UNCHANGED <<aged, mergeLog>>
    BY <1>2 DEF WriteStep, Discard, Enqueue, WriteDirectly, DirectCommit, Persist, DirectFail,
                DirectPublish, DirectAlert, DirectCompensate, DirectErase, WorkerGivesUp
  <2> QED
    BY <2>1, <1>0
<1>3. CASE FlushStep \/ FlushCancelled \/ UNCHANGED vars
  <2>1. UNCHANGED cleanVars /\ UNCHANGED <<aged, mergeLog>>
    BY <1>3 DEF FlushStep, FlushSettles, FlushBegin, FlushCommit, FlushReplay, FlushInvalid,
       FlushRetain, Persist, FlushCompensate, FlushErase, FlushCompensateFails,
       FlushQuarantine, FlushPublish, FlushAcknowledge, FlushAlert, FlushPostCommitFails,
       FlushCancelled, vars
  <2> QED
    BY <2>1, <1>0
<1>4. CASE CleanerStep
  BY <1>4 DEF CleanerStep, CleanerSelect, CleanerReadSpool, CleanerDelete, CleanerErase,
              CleanerFails, CleanerMove
<1>5. ASSUME NEW i \in Identities, NEW j \in Identities, Merge(i, j) PROVE Goal
  BY <1>5 DEF Merge, CleanerMove
<1>6. ASSUME NEW k \in Identities, DeletePerson(k) PROVE Goal
  BY <1>6 DEF DeletePerson, CleanerMove
<1>7. CASE Crash \/ \E f \in Frames : GracePeriodEnds(f)
  BY <1>7 DEF Crash, GracePeriodEnds, CleanerMove, cleanVars
<1> QED
  BY <1>1, <1>2, <1>3, <1>4, <1>5, <1>6, <1>7 DEF Next, PeopleStep

\* The breaker is only touched through its methods.
LEMMA BreakerSteps ==
    ASSUME [Next]_vars
    PROVE  UNCHANGED breakerVars \/ CanExecute \/ CallSucceeded \/ CallFailed \/ BreakerReset
<1>1. ASSUME NEW f \in Frames, IdentityStep(f) PROVE UNCHANGED breakerVars
  BY <1>1 DEF IdentityStep, MatchIdentity, CreateIdentity, InsertObservation,
              CommitObservation, RollbackObservation
<1>2. ASSUME NEW f \in Frames, WriteStep(f) PROVE UNCHANGED breakerVars
  BY <1>2 DEF WriteStep, Discard, Enqueue, WriteDirectly, DirectCommit, DirectFail,
              DirectPublish, DirectAlert, DirectCompensate, DirectErase, WorkerGivesUp
<1>3. CASE FlushStep
  BY <1>3 DEF FlushStep, FlushSettles, FlushBegin, FlushCommit, FlushReplay, FlushInvalid,
     FlushRetain, FlushCompensate, FlushErase, FlushCompensateFails, FlushQuarantine,
     FlushPublish, FlushAcknowledge, FlushAlert, FlushPostCommitFails
<1>4. CASE CleanerStep \/ PeopleStep
  BY <1>4 DEF CleanerStep, CleanerSelect, CleanerReadSpool, CleanerDelete, CleanerErase,
              CleanerFails, PeopleStep, Merge, DeletePerson
<1>5. CASE \/ FlushCancelled \/ Crash \/ UNCHANGED vars
           \/ \E f \in Frames : GracePeriodEnds(f)
  BY <1>5 DEF FlushCancelled, Crash, GracePeriodEnds, vars
<1> QED
  BY <1>1, <1>2, <1>3, <1>4, <1>5 DEF Next

\* The face dicts, the frame the flusher is at, and the interruptions.
LEMMA MemoryTypes ==
    ASSUME TypeOK, [Next]_vars
    PROVE  /\ face' \in [Frames -> FaceDict \cup {None}]
           /\ current' \in Frames \cup {None} /\ interruptions' \in 0 .. MaxInterruptions
<1> DEFINE Goal == /\ face' \in [Frames -> FaceDict \cup {None}]
                   /\ current' \in Frames \cup {None}
                   /\ interruptions' \in 0 .. MaxInterruptions
<1>0. /\ face \in [Frames -> FaceDict \cup {None}]
      /\ current \in Frames \cup {None} /\ interruptions \in 0 .. MaxInterruptions
  BY DEF TypeOK
<1> USE DEF flushVars, workerVars
<1>1. ASSUME NEW f \in Frames, IdentityStep(f) PROVE Goal
  <2>1. \A i \in Identities, b \in BOOLEAN : [identity |-> i, created |-> b] \in FaceDict
    BY DEF FaceDict
  <2>2. ASSUME NEW i \in Identities, MatchIdentity(f, i) \/ CreateIdentity(f, i) PROVE Goal
    <3>1. PICK b \in BOOLEAN : face' = [face EXCEPT ![f] = [identity |-> i, created |-> b]]
      BY <2>2 DEF MatchIdentity, CreateIdentity
    <3>2. face' \in [Frames -> FaceDict \cup {None}]
      BY <1>0, <2>1, <3>1
    <3> QED
      BY <1>0, <2>2, <3>2 DEF MatchIdentity, CreateIdentity
  <2>3. CASE \/ InsertObservation(f) \/ RollbackObservation(f)
             \/ \E heard \in BOOLEAN : CommitObservation(f, heard)
    BY <1>0, <2>3 DEF InsertObservation, CommitObservation, RollbackObservation
  <2> QED
    BY <1>1, <2>2, <2>3 DEF IdentityStep
<1>2. ASSUME NEW f \in Frames, WriteStep(f) PROVE Goal
  BY <1>0, <1>2 DEF WriteStep, Discard, Enqueue, WriteDirectly, DirectCommit, DirectFail,
              DirectPublish, DirectAlert, DirectCompensate, DirectErase, WorkerGivesUp
<1>3. CASE FlushStep
  BY <1>0, <1>3 DEF FlushStep, FlushSettles, FlushBegin, FlushCommit, FlushReplay,
     FlushInvalid, FlushRetain, FlushCompensate, FlushErase, FlushCompensateFails,
     FlushQuarantine, FlushPublish, FlushAcknowledge, FlushAlert, FlushPostCommitFails,
     NextFrame, StayOn
<1>4. CASE CleanerStep \/ PeopleStep
  BY <1>0, <1>4 DEF CleanerStep, CleanerSelect, CleanerReadSpool, CleanerDelete, CleanerErase,
              CleanerFails, PeopleStep, Merge, DeletePerson
<1>5. CASE \/ UNCHANGED vars \/ \E f \in Frames : GracePeriodEnds(f)
  BY <1>0, <1>5 DEF GracePeriodEnds, vars
<1>6. CASE FlushCancelled \/ Crash
  <2>1. interruptions' = interruptions + 1 /\ interruptions < MaxInterruptions
    BY <1>6 DEF FlushCancelled, Crash
  <2>2. interruptions' \in 0 .. MaxInterruptions
    BY <1>0, <2>1
  <2>3. face' = face /\ current' = None
    BY <1>6 DEF FlushCancelled, Crash, NextFrame
  <2> QED
    BY <1>0, <2>2, <2>3
<1> QED
  BY <1>1, <1>2, <1>3, <1>4, <1>5, <1>6 DEF Next

-----------------------------------------------------------------------------
(* Types.                                                                   *)

LEMMA ElementsAreFrames ==
    ASSUME TypeOK PROVE Queued \subseteq Frames
  BY DEF TypeOK, Queued, Elements

LEMMA DatabaseTypes ==
    ASSUME TypeOK, Chains, Faces, Owners, DatabaseStep
    PROVE  /\ person' \in [Identities -> {"unborn", "live", "gone"}]
           /\ survivor' \in [Identities -> Identities]
           /\ emb' \in [Frames -> {"none", "unlinked", "linked", "gone"}]
           /\ owner' \in [Frames -> Identities \cup {None}]
           /\ sighting' \in [Frames -> Identities \cup {None}]
<1> USE DEF TypeOK
<1>1. CASE UNCHANGED personVars
  BY <1>1 DEF personVars
<1>2. ASSUME NEW f \in Frames, RowCommits(f) PROVE face[f].identity \in Identities
  BY <1>2 DEF RowCommits, Faces, FaceDict
<1>3. CASE \E f \in Frames : RowCommits(f)
  <2>1. PICK f \in Frames : RowCommits(f)
    BY <1>3
  <2>2. person' \in [Identities -> {"unborn", "live", "gone"}]
    BY <2>1 DEF RowCommits
  <2>3. owner' \in [Frames -> Identities \cup {None}]
    BY <2>1, <1>2 DEF RowCommits
  <2>4. emb' \in [Frames -> {"none", "unlinked", "linked", "gone"}]
    BY <2>1 DEF RowCommits
  <2> QED
    BY <2>1, <2>2, <2>3, <2>4 DEF RowCommits
<1>4. ASSUME NEW f \in Frames, EvidenceCommits(f) PROVE survivor[face[f].identity] \in Identities
  BY <1>4 DEF EvidenceCommits, Faces, FaceDict
<1>5. CASE \E f \in Frames : EvidenceCommits(f)
  BY <1>5, <1>4 DEF EvidenceCommits, Persist, ResolveSurvivor
<1>6. CASE \E erased, people : RowsErased(erased, people)
  BY <1>6 DEF RowsErased, EraseRows
<1>7. CASE \E i, j \in Identities : Merge(i, j)
  BY <1>7 DEF Merge
<1> QED
  BY <1>1, <1>3, <1>5, <1>6, <1>7 DEF DatabaseStep

LEMMA CleanerTypes ==
    ASSUME TypeOK, Owners, CleanerMove
    PROVE  /\ cleaner' \in CleanerState
           /\ rows' \subseteq Frames \X Identities
           /\ doomed' \subseteq Identities
<1> USE DEF TypeOK
<1>1. ASSUME NEW f \in Orphans PROVE <<f, owner[f]>> \in Frames \X Identities
  BY DEF Orphans, Owners, HasRow
<1>2. CleanerDoomed \subseteq Identities
  BY DEF CleanerDoomed
<1> QED
  BY <1>1, <1>2 DEF CleanerMove, CleanerReadSpool, CleanerState, cleanVars

LEMMA BreakerTypes ==
    ASSUME BreakerTypeOK, OpenMeansFailed,
           UNCHANGED breakerVars \/ CanExecute \/ CallSucceeded \/ CallFailed \/ BreakerReset
    PROVE  BreakerTypeOK' /\ OpenMeansFailed'
<1> USE DEF BreakerTypeOK, OpenMeansFailed, CircuitState
<1>1. CASE UNCHANGED breakerVars \/ CanExecute \/ CallSucceeded \/ BreakerReset
  BY <1>1 DEF breakerVars, CanExecute, CallSucceeded, BreakerReset
<1>2. CASE CallFailed
  <2>1. /\ failures \in Nat /\ MaxFailures \in Nat /\ FailureThreshold \in Nat
        /\ failures <= MaxFailures /\ FailureThreshold <= MaxFailures
    OBVIOUS
  <2>2. failures' \in 0 .. MaxFailures /\ failures' >= failures
    BY <1>2, <2>1 DEF CallFailed
  <2>3. circuit' \in CircuitState
    BY <1>2 DEF CallFailed
  <2>4. failures + 1 >= FailureThreshold => failures' >= FailureThreshold
    BY <1>2, <2>1 DEF CallFailed
  <2> QED
    BY <1>2, <2>1, <2>2, <2>3, <2>4 DEF CallFailed
<1> QED
  BY <1>1, <1>2

LEMMA TypeStep ==
    ASSUME SpoolInv, TypeOK, Chains, Faces, Owners, OpenMeansFailed, [Next]_vars
    PROVE  TypeOK' /\ OpenMeansFailed'
<1>1. SpoolTypes'
  BY StepSimulates DEF SpoolInv
<1>2. aged' \subseteq Frames /\ mergeLog' \subseteq Identities \X Identities
  BY CleanerSteps DEF TypeOK
<1> QED
  BY <1>1, <1>2, DatabaseSteps, DatabaseTypes, CleanerSteps, CleanerTypes,
     BreakerSteps, BreakerTypes, MemoryTypes DEF TypeOK, SpoolTypes
-----------------------------------------------------------------------------
(* The parts of the invariant.                                              *)

LEMMA ChainsStep ==
    ASSUME TypeOK, Chains, Faces, DatabaseStep PROVE Chains'
<1> USE DEF TypeOK, Chains
<1>1. CASE UNCHANGED personVars
  BY <1>1 DEF personVars
<1>2. CASE \E f \in Frames : RowCommits(f)
  BY <1>2 DEF RowCommits
<1>3. CASE \E f \in Frames : EvidenceCommits(f)
  BY <1>3 DEF EvidenceCommits, Persist
<1>4. CASE \E erased, people : RowsErased(erased, people)
  BY <1>4 DEF RowsErased, EraseRows
<1>5. CASE \E i, j \in Identities : Merge(i, j)
  BY <1>5 DEF Merge
<1> QED
  BY <1>1, <1>2, <1>3, <1>4, <1>5 DEF DatabaseStep

\* No step makes a committed person unborn again.
LEMMA BornStaysBorn ==
    ASSUME TypeOK, DatabaseStep, NEW i \in Identities, person[i] # "unborn"
    PROVE  person'[i] # "unborn"
<1> USE DEF TypeOK
<1>1. CASE UNCHANGED personVars \/ \E j, k \in Identities : Merge(j, k)
  BY <1>1 DEF personVars, Merge
<1>2. CASE \E f \in Frames : RowCommits(f) \/ EvidenceCommits(f)
  BY <1>2 DEF RowCommits, EvidenceCommits, Persist
<1>3. CASE \E erased, people : RowsErased(erased, people)
  BY <1>3 DEF RowsErased, EraseRows
<1> QED
  BY <1>1, <1>2, <1>3 DEF DatabaseStep

\* A person with an open insert stays.
LEMMA InsertKeepsPerson ==
    ASSUME TypeOK, DatabaseStep, NEW f \in Frames, worker[f] = "inserted",
           face[f] \in FaceDict, person[face[f].identity] # "gone"
    PROVE  person'[face[f].identity] # "gone"
<1> USE DEF TypeOK
<1>1. face[f].identity \in Identities /\ ReferencedByOpenInsert(face[f].identity)
  BY DEF FaceDict, ReferencedByOpenInsert
<1>2. CASE \E erased, people : RowsErased(erased, people)
  BY <1>1, <1>2 DEF RowsErased, EraseRows
<1>3. CASE UNCHANGED personVars \/ \E i, j \in Identities : Merge(i, j)
  BY <1>3 DEF personVars, Merge
<1>4. CASE \E g \in Frames : RowCommits(g) \/ EvidenceCommits(g)
  BY <1>1, <1>4 DEF RowCommits, EvidenceCommits, Persist
<1> QED
  BY <1>2, <1>3, <1>4 DEF DatabaseStep

LEMMA FacesStep ==
    ASSUME SpoolInv, TypeOK, Faces, [Next]_vars PROVE Faces'
<1> SUFFICES ASSUME NEW f \in Frames
             PROVE  /\ worker'[f] \in {"matched", "inserted", "observed", "direct"}
                       \/ f \in Queued' => face'[f] \in FaceDict
                    /\ worker'[f] = "inserted" => person'[face'[f].identity] # "gone"
                    /\ worker'[f] \in {"observed", "direct"} \/ f \in Queued' =>
                          person'[face'[f].identity] # "unborn"
  BY DEF Faces
<1>1. DatabaseStep /\ WorkerMove(f)
  BY DatabaseSteps, WorkerSteps
<1>2. f \in Queued => worker[f] = "done"
  BY DEF SpoolInv, Ownership
<1>3. f \in Queued' => f \in Queued \/ (worker[f] = "observed" /\ face' = face)
  BY QueueSteps
<1>4. f \in Queued' => worker'[f] = "done"
  BY StepSimulates DEF SpoolInv, Ownership
<1>5. CASE face'[f] = face[f] /\ f \in Queued'
  <2>1. f \in Queued \/ worker[f] = "observed"
    BY <1>3, <1>5
  <2>2. face[f] \in FaceDict /\ person[face[f].identity] # "unborn"
    BY <2>1 DEF Faces
  <2>3. person'[face[f].identity] # "unborn"
    BY <1>1, <2>2, BornStaysBorn DEF FaceDict
  <2> QED
    BY <1>4, <1>5, <2>2, <2>3
<1>6. CASE worker[f] = "idle" /\ worker'[f] \in {"matched", "inserted"}
  <2>1. f \notin Queued'
    BY <1>2, <1>3, <1>6
  <2> QED
    BY <1>1, <1>6, <2>1 DEF WorkerMove
<1>7. CASE worker[f] = "matched" /\ worker'[f] = "inserted"
  BY <1>1, <1>4, <1>7 DEF WorkerMove, Faces
<1>8. CASE worker[f] = "inserted" /\ worker'[f] = "observed"
  <2>1. face'[f] = face[f] /\ face[f] \in FaceDict /\ RowCommits(f)
    BY <1>1, <1>8 DEF WorkerMove, Faces
  <2>2. person'[face[f].identity] = "live"
    BY <2>1 DEF RowCommits, TypeOK, FaceDict
  <2> QED
    BY <1>4, <1>8, <2>1, <2>2
<1>9. CASE /\ face'[f] = face[f] /\ f \notin Queued'
           /\ \/ worker'[f] = worker[f]
              \/ worker[f] = "observed" /\ worker'[f] = "direct"
  <2>1. CASE worker[f] \in {"matched", "inserted"}
    BY <1>1, <1>9, <2>1, InsertKeepsPerson DEF Faces
  <2>2. CASE worker[f] \in {"observed", "direct"}
    <3>1. face[f] \in FaceDict /\ person[face[f].identity] # "unborn"
      BY <2>2 DEF Faces
    <3>2. person'[face[f].identity] # "unborn"
      BY <1>1, <3>1, BornStaysBorn DEF FaceDict
    <3> QED
      BY <1>9, <2>2, <3>1, <3>2
  <2> QED
    BY <1>9, <2>1, <2>2
<1>10. CASE /\ worker'[f] \in {"publishing", "alerting", "compensating", "erasing", "done", "lost"}
            /\ f \notin Queued'
  BY <1>10
<1> QED
  BY <1>1, <1>4, <1>5, <1>6, <1>7, <1>8, <1>9, <1>10 DEF WorkerMove

LEMMA OwnersStep ==
    ASSUME TypeOK, Chains, Faces, Owners, DatabaseStep PROVE Owners'
<1> USE DEF TypeOK, Owners, HasRow
<1>1. CASE UNCHANGED personVars
  BY <1>1 DEF personVars
<1>2. ASSUME NEW f \in Frames, RowCommits(f) PROVE Owners'
  <2>1. face[f].identity \in Identities
    BY <1>2 DEF RowCommits, Faces, FaceDict
  <2> QED
    BY <1>2, <2>1 DEF RowCommits
<1>3. ASSUME NEW f \in Frames, EvidenceCommits(f) PROVE Owners'
  <2>1. face[f].identity \in Identities /\ person[face[f].identity] # "unborn"
    BY <1>3 DEF EvidenceCommits, Faces, FaceDict
  <2>2. ResolveSurvivor(f) \in Identities /\ person[ResolveSurvivor(f)] = "live"
    BY <1>3, <2>1 DEF EvidenceCommits, Persistable, Vanished, ResolveSurvivor, Chains
  <2> QED
    BY <1>3, <2>2 DEF EvidenceCommits, Persist
<1>4. CASE \E erased, people : RowsErased(erased, people)
  BY <1>4 DEF RowsErased, EraseRows
<1>5. CASE \E i, j \in Identities : Merge(i, j)
  BY <1>5 DEF Merge
<1> QED
  BY <1>1, <1>2, <1>3, <1>4, <1>5 DEF DatabaseStep

LEMMA WholeStep ==
    ASSUME SpoolInv, TypeOK, Chains, Faces, Owners, EvidenceWhole, DatabaseStep
    PROVE  EvidenceWhole'
<1> USE DEF TypeOK, EvidenceWhole
<1>1. CASE UNCHANGED personVars
  BY <1>1 DEF personVars
<1>2. ASSUME NEW f \in Frames, RowCommits(f) PROVE EvidenceWhole'
  <2>1. f \notin recorded /\ face[f].identity \in Identities
    BY <1>2 DEF RowCommits, Faces, FaceDict, SpoolInv, Ownership, Early
  <2> QED
    BY <1>2, <2>1 DEF RowCommits
<1>3. ASSUME NEW f \in Frames, EvidenceCommits(f) PROVE EvidenceWhole'
  <2>1. face[f].identity \in Identities /\ person[face[f].identity] # "unborn"
    BY <1>3 DEF EvidenceCommits, Faces, FaceDict
  <2>2. /\ ResolveSurvivor(f) \in Identities /\ person[ResolveSurvivor(f)] = "live"
        /\ survivor[ResolveSurvivor(f)] = ResolveSurvivor(f)
    BY <1>3, <2>1 DEF EvidenceCommits, Persistable, Vanished, ResolveSurvivor, Chains
  <2> QED
    BY <1>3, <2>2 DEF EvidenceCommits, Persist
<1>4. CASE \E erased, people : RowsErased(erased, people)
  BY <1>4 DEF RowsErased, EraseRows, HasRow
<1>5. CASE \E i, j \in Identities : Merge(i, j)
  BY <1>5 DEF Merge
<1> QED
  BY <1>1, <1>2, <1>3, <1>4, <1>5 DEF DatabaseStep

LEMMA SelectionStep ==
    ASSUME SpoolInv, TypeOK, Selection, [Next]_vars PROVE Selection'
<1> USE DEF TypeOK, Selection
<1>1. /\ CleanerMove
      /\ \/ aged' = aged
         \/ \E f \in Frames : aged' = aged \cup {f} /\ worker[f] \in {"done", "lost"}
  BY CleanerSteps
<1>2. \A f \in aged' : worker'[f] \in {"done", "lost"}
  <2> SUFFICES ASSUME NEW f \in aged' PROVE worker'[f] \in {"done", "lost"}
    OBVIOUS
  <2>1. f \in Frames /\ worker[f] \in {"done", "lost"}
    BY <1>1
  <2>2. WorkerMove(f)
    BY <2>1, WorkerSteps
  <2> QED
    BY <2>1, <2>2 DEF WorkerMove
<1>3. aged \subseteq aged'
  BY <1>1
<1>4. Queued' \cap aged \subseteq Queued
  BY QueueSteps
<1>5. CASE /\ rows' = rows
           /\ \/ cleaner' = cleaner
              \/ cleaner = "filtered" /\ cleaner' = "erasing"
  BY <1>2, <1>3, <1>4, <1>5 DEF RowFrames
<1>6. CASE rows' = {<<f, owner[f]>> : f \in Orphans} /\ cleaner' = "selected"
  <2>1. RowFrames' \subseteq Orphans /\ Orphans \subseteq aged
    BY <1>6 DEF RowFrames, Orphans
  <2> QED
    BY <1>2, <1>3, <1>6, <2>1
<1>7. CASE CleanerReadSpool
  <2>1. RowFrames' \subseteq RowFrames \ Queued
    BY <1>7 DEF CleanerReadSpool, RowFrames
  <2>2. Queued' = Queued
    BY <1>7 DEF CleanerReadSpool, spoolVars, Queued
  <2> QED
    BY <1>2, <1>3, <2>1, <2>2
<1>8. CASE rows' = {} /\ cleaner' = "idle"
  BY <1>2, <1>8 DEF RowFrames
<1>9. UNCHANGED cleanVars => rows' = rows /\ cleaner' = cleaner
  BY DEF cleanVars
<1> HIDE DEF TypeOK, Selection
<1> QED
  BY <1>1, <1>5, <1>6, <1>7, <1>8, <1>9 DEF CleanerMove

-----------------------------------------------------------------------------
LEMMA EvidenceInit == Init => EvidenceInv
<1> SUFFICES ASSUME Init PROVE EvidenceInv
  OBVIOUS
<1>1. SpoolInv
  BY InitSpool
<1>2. Queued = {}
  BY DEF Init, Queued, Elements
<1>3. BreakerTypeOK /\ OpenMeansFailed
  BY DEF Init, BreakerInit, BreakerTypeOK, OpenMeansFailed, CircuitState
<1>4. TypeOK
  BY <1>3 DEF Init, TypeOK, WorkerState, FlusherState, CleanerState
<1>5. Chains /\ Faces /\ Owners /\ EvidenceWhole /\ Selection
  BY <1>2 DEF Init, Chains, Faces, Owners, HasRow, EvidenceWhole, Selection, RowFrames
<1> QED
  BY <1>1, <1>3, <1>4, <1>5 DEF EvidenceInv

LEMMA EvidenceStep == EvidenceInv /\ [Next]_vars => EvidenceInv'
  BY StepSimulates, DatabaseSteps, TypeStep, ChainsStep, FacesStep, OwnersStep, WholeStep,
     SelectionStep DEF EvidenceInv

LEMMA EvidenceSafe == Spec => []EvidenceInv
  BY EvidenceInit, EvidenceStep, PTL DEF Spec

\* Every variable of the evidence path keeps its type, for any number of
\* frames, people and interruptions.
THEOREM EvidenceTypes == Spec => []TypeOK
<1>1. EvidenceInv => TypeOK
  BY DEF EvidenceInv
<1> QED
  BY <1>1, EvidenceSafe, PTL

\* A recorded frame's embedding stays linked and on the unmerged person its
\* sighting names, until that person is deleted with both (persist_detection,
\* merge_identities, permanently_delete, the two reconciling deletions).
THEOREM EvidenceStaysWhole == Spec => []EvidenceWhole
<1>1. EvidenceInv => EvidenceWhole
  BY DEF EvidenceInv
<1> QED
  BY <1>1, EvidenceSafe, PTL

\* A half-open breaker remembers a full set of failures, so the next failed
\* write opens it again (CircuitBreaker.can_execute).
THEOREM HalfOpenOnProbation == Spec => []HalfOpenIsOneFailureFromOpen
<1>1. EvidenceInv => HalfOpenIsOneFailureFromOpen
  BY DEF EvidenceInv, OpenMeansFailed, HalfOpenIsOneFailureFromOpen
<1> QED
  BY <1>1, EvidenceSafe, PTL

-----------------------------------------------------------------------------
(* Work on disk.                                                            *)

\* Once reconciliation has read the directory, the rows it deletes belong to
\* frames that are neither queued nor in a worker's hands: aging a row takes
\* longer than a worker keeps its frame (reconcile_orphan_camera_embeddings).
THEOREM ReconciliationSelectsFinishedFrames == Spec => []SelectedFramesAreOver
<1>1. EvidenceInv => SelectedFramesAreOver
  BY DEF EvidenceInv, Selection, SelectedFramesAreOver
<1> QED
  BY <1>1, EvidenceSafe, PTL

\* An open erasure has decided to delete the person that the embedding of f
\* belongs to, for another frame's sake.
Cascades(f) ==
    \/ cleaner = "erasing" /\ owner[f] \in doomed
    \/ flusher = "erasing" /\ owner[f] = face[current].identity
    \/ \E g \in Frames \ {f} : worker[g] = "erasing" /\ owner[f] = face[g].identity

\* What may take the embedding of a queued frame.
Takes(f) ==
    \/ flusher \in {"compensating", "erasing"} /\ current = f
    \/ DeletedWithPerson(f)
    \/ Cascades(f)

\* An existing row goes only if it is unlinked and erased, or its owner goes.
LEMMA ErasedWithOwner ==
    ASSUME NEW erased, NEW people, EraseRows(erased, people),
           NEW f \in Frames, f \notin erased, HasRow(f), ~HasRow(f)'
    PROVE  owner[f] \in people
  BY DEF EraseRows, HasRow

LEMMA QueuedRowsStep ==
    ASSUME EvidenceInv, [Next]_vars, NEW f \in Queued, HasRow(f), ~HasRow(f)'
    PROVE  Takes(f)
<1>1. /\ TypeOK /\ Owners /\ f \in Frames /\ worker[f] = "done"
      /\ cleaner \in {"filtered", "erasing"} => f \notin RowFrames
  BY ElementsAreFrames DEF EvidenceInv, Selection, SpoolInv, Ownership
<1>2. \A erased, people : EraseRows(erased, people) => f \in erased \/ owner[f] \in people
  BY <1>1, ErasedWithOwner
<1>3. emb' # emb
  BY DEF HasRow
<1>4. ASSUME NEW g \in Frames, IdentityStep(g) PROVE Takes(f)
  <2>1. emb' = [emb EXCEPT ![g] = "unlinked"]
    BY <1>3, <1>4 DEF IdentityStep, MatchIdentity, CreateIdentity, InsertObservation,
       CommitObservation, RollbackObservation, dbVars
  <2> QED
    BY <1>1, <2>1 DEF TypeOK, HasRow
<1>5. ASSUME NEW g \in Frames, WriteStep(g) PROVE Takes(f)
  <2>1. CASE DirectCompensate(g)
    <3>1. g # f /\ EraseRows({g}, {})
      BY <1>1, <1>3, <2>1 DEF DirectCompensate, CompensateEmbedding
    <3> QED
      BY <1>2, <3>1
  <2>2. CASE DirectErase(g)
    <3>1. g # f /\ worker[g] = "erasing" /\ EraseRows({g}, {face[g].identity})
      BY <1>1, <2>2 DEF DirectErase, CompensateIdentity
    <3> QED
      BY <1>2, <3>1 DEF Takes, Cascades
  <2>3. CASE \E heard \in BOOLEAN : DirectCommit(g, heard)
    BY <1>1, <2>3 DEF DirectCommit, Persist, TypeOK, HasRow
  <2>4. CASE \/ Discard(g) \/ Enqueue(g) \/ WriteDirectly(g) \/ DirectFail(g)
             \/ DirectPublish(g) \/ DirectAlert(g) \/ WorkerGivesUp(g)
    BY <1>3, <2>4 DEF Discard, Enqueue, WriteDirectly, DirectFail, DirectPublish,
                      DirectAlert, WorkerGivesUp, dbVars
  <2> QED
    BY <1>5, <2>1, <2>2, <2>3, <2>4 DEF WriteStep
<1>6. CASE FlushStep
  <2>1. CASE FlushCompensate
    <3>1. flusher = "compensating" /\ EraseRows({current}, {})
      BY <1>3, <2>1 DEF FlushCompensate, CompensateEmbedding
    <3> QED
      BY <1>2, <3>1 DEF Takes
  <2>2. CASE FlushErase
    <3>1. flusher = "erasing" /\ EraseRows({current}, {face[current].identity})
      BY <2>2 DEF FlushErase, CompensateIdentity
    <3> QED
      BY <1>2, <3>1 DEF Takes, Cascades
  <2>3. ASSUME NEW g \in Frames, FlushCommit(g) PROVE Takes(f)
    BY <1>1, <2>3 DEF FlushCommit, Persist, TypeOK, HasRow
  <2>4. ASSUME NEW g \in Frames, NEW committed \in BOOLEAN, FlushRetain(g, committed)
        PROVE  Takes(f)
    BY <1>1, <1>3, <2>4 DEF FlushRetain, Persist, TypeOK, HasRow, dbVars
  <2>5. CASE \/ FlushBegin \/ FlushCompensateFails \/ FlushQuarantine \/ FlushPublish
             \/ FlushAcknowledge \/ FlushAlert \/ FlushPostCommitFails
             \/ \E g \in Frames : FlushReplay(g) \/ FlushInvalid(g)
    BY <1>3, <2>5 DEF FlushBegin, FlushCompensateFails, FlushQuarantine, FlushPublish,
       FlushAcknowledge, FlushAlert, FlushPostCommitFails, FlushReplay, FlushInvalid, dbVars
  <2> QED
    BY <1>6, <2>1, <2>2, <2>3, <2>4, <2>5 DEF FlushStep, FlushSettles
<1>7. CASE CleanerStep
  <2>1. CASE CleanerDelete
    <3>1. f \notin RowFrames /\ EraseRows(RowFrames, {})
      BY <1>1, <1>3, <2>1 DEF CleanerDelete
    <3> QED
      BY <1>2, <3>1
  <2>2. CASE CleanerErase
    <3>1. cleaner = "erasing" /\ f \notin RowFrames /\ EraseRows(RowFrames, doomed)
      BY <1>1, <2>2 DEF CleanerErase
    <3> QED
      BY <1>2, <3>1 DEF Takes, Cascades
  <2>3. CASE CleanerSelect \/ CleanerReadSpool \/ CleanerFails
    BY <1>3, <2>3 DEF CleanerSelect, CleanerReadSpool, CleanerFails, dbVars
  <2> QED
    BY <1>7, <2>1, <2>2, <2>3 DEF CleanerStep
<1>8. ASSUME NEW k \in Identities, DeletePerson(k) PROVE Takes(f)
  <2> DEFINE family == {i \in Identities : survivor[i] = k}
             people == {i \in family : person[i] = "live"}
  <2>1. /\ k \in KnownPersons /\ person[k] = "live" /\ survivor[k] = k
        /\ EraseRows({}, people)
    BY <1>8 DEF DeletePerson
  <2>2. owner[f] \in people
    BY <1>2, <2>1
  <2>3. person'[k] = "gone"
    BY <2>1 DEF EraseRows
  <2> QED
    BY <2>1, <2>2, <2>3 DEF Takes, DeletedWithPerson
<1>9. CASE \/ FlushCancelled \/ Crash \/ UNCHANGED vars
           \/ \E g \in Frames : GracePeriodEnds(g)
           \/ \E i, j \in Identities : Merge(i, j)
  BY <1>3, <1>9 DEF FlushCancelled, Crash, GracePeriodEnds, Merge, vars, dbVars
<1> QED
  BY <1>4, <1>5, <1>6, <1>7, <1>8, <1>9 DEF Next, PeopleStep

\* The embedding of a queued frame goes when the writer compensates that very
\* frame, with the enrolled person an administrator deletes, or by the cascade
\* ErasureSparesOtherFrames reports: an erasure that had decided to delete the
\* row's person for another frame's sake.  Nothing else takes it; what
\* reconciliation selected never does.
THEOREM QueuedRowsAreTakenThreeWays ==
    Spec => [][\A f \in Queued : HasRow(f) /\ ~HasRow(f)' => Takes(f)]_vars
<1>1. EvidenceInv /\ [Next]_vars =>
        [\A f \in Queued : HasRow(f) /\ ~HasRow(f)' => Takes(f)]_vars
  BY QueuedRowsStep
<1> QED
  BY <1>1, EvidenceSafe, PTL DEF Spec
=============================================================================
