----------------------- MODULE EvidenceLedger_proofs -----------------------
(***************************************************************************)
(* DetectionEvidence implements EvidenceLedger, for any number of frames,  *)
(* people, retries and interruptions.  The invariant says which of the     *)
(* two writers - the frame's worker or the flusher - owns a frame, and     *)
(* what the owner's progress implies about its detection, its file and its *)
(* announcements.                                                          *)
(***************************************************************************)
EXTENDS DetectionEvidence, TLAPS

-----------------------------------------------------------------------------
(* What the operators on the durable queue do to the set of queued frames,  *)
(* for every queue without duplicates.                                      *)

Distinct(q) == \A i, j \in DOMAIN q : q[i] = q[j] => i = j

\* Removing a file of the queue removes exactly that frame and keeps the rest
\* in order, each once (detection_spool.acknowledge and quarantine).
LEMMA WithoutRemovesOne ==
    ASSUME NEW q \in Seq(Frames), Distinct(q), NEW f \in Elements(q)
    PROVE  /\ Without(q, f) \in Seq(Frames)
           /\ Distinct(Without(q, f))
           /\ Elements(Without(q, f)) = Elements(q) \ {f}
<1> DEFINE p == CHOOSE i \in DOMAIN q : q[i] = f
           r == [i \in 1 .. Len(q) - 1 |-> IF i < p THEN q[i] ELSE q[i + 1]]
<1>1. p \in DOMAIN q /\ q[p] = f
  BY DEF Elements
<1>2. DOMAIN q = 1 .. Len(q) /\ Len(q) \in Nat /\ p \in 1 .. Len(q)
  BY <1>1
<1> HIDE DEF p
<1>3. r \in Seq(Frames) /\ Len(r) = Len(q) - 1 /\ DOMAIN r = 1 .. Len(q) - 1
  <2>1. \A i \in 1 .. Len(q) - 1 : (IF i < p THEN q[i] ELSE q[i + 1]) \in Frames
    BY <1>2
  <2>2. Len(q) - 1 \in Nat
    BY <1>2
  <2> QED
    BY <2>1, <2>2
<1>4. Without(q, f) = r
  BY DEF Without, p
<1>5. Distinct(r)
  <2> DEFINE at(i) == IF i < p THEN i ELSE i + 1
  <2>1. \A i \in 1 .. Len(q) - 1 : at(i) \in 1 .. Len(q) /\ r[i] = q[at(i)]
    BY <1>2
  <2>2. \A i, j \in 1 .. Len(q) - 1 : i # j => at(i) # at(j)
    BY <1>2
  <2> HIDE DEF at, r
  <2> QED
    BY <1>2, <1>3, <2>1, <2>2 DEF Distinct
<1>6. Elements(r) = Elements(q) \ {f}
  <2>1. ASSUME NEW g \in Elements(r) PROVE g \in Elements(q) /\ g # f
    <3>1. PICK i \in 1 .. Len(q) - 1 : g = (IF i < p THEN q[i] ELSE q[i + 1])
      BY <2>1, <1>3 DEF Elements
    <3> QED
      BY <3>1, <1>1, <1>2 DEF Elements, Distinct
  <2>2. ASSUME NEW g \in Elements(q), g # f PROVE g \in Elements(r)
    <3>1. PICK i \in 1 .. Len(q) : g = q[i]
      BY <2>2, <1>2 DEF Elements
    <3>2. CASE i < p
      <4>1. i \in 1 .. Len(q) - 1
        BY <3>2, <1>2
      <4>2. r[i] = q[i]
        BY <4>1, <3>2
      <4> QED
        BY <4>1, <4>2, <3>1, <1>3 DEF Elements
    <3>3. CASE i > p
      <4>1. i - 1 \in 1 .. Len(q) - 1 /\ ~(i - 1 < p) /\ (i - 1) + 1 = i
        BY <3>3, <1>2
      <4>2. r[i - 1] = q[i]
        BY <4>1
      <4> QED
        BY <4>1, <4>2, <3>1, <1>3 DEF Elements
    <3>4. i # p
      BY <3>1, <2>2, <1>1
    <3> QED
      BY <3>2, <3>3, <3>4, <1>2
  <2> QED
    BY <2>1, <2>2
<1> QED
  BY <1>3, <1>4, <1>5, <1>6

\* A new file joins the queue (detection_spool.enqueue).
LEMMA AppendAddsOne ==
    ASSUME NEW q \in Seq(Frames), Distinct(q), NEW f \in Frames, f \notin Elements(q)
    PROVE  /\ Append(q, f) \in Seq(Frames)
           /\ Distinct(Append(q, f))
           /\ Elements(Append(q, f)) = Elements(q) \cup {f}
<1>1. /\ Len(q) \in Nat /\ DOMAIN q = 1 .. Len(q)
      /\ DOMAIN Append(q, f) = 1 .. Len(q) + 1
      /\ Append(q, f)[Len(q) + 1] = f
      /\ \A i \in 1 .. Len(q) : Append(q, f)[i] = q[i]
  OBVIOUS
<1>2. Distinct(Append(q, f))
  BY <1>1 DEF Distinct, Elements
<1>3. Elements(Append(q, f)) = Elements(q) \cup {f}
  BY <1>1 DEF Elements
<1> QED
  BY <1>2, <1>3

\* Moving a file behind the others keeps the same frames (os.utime).
LEMMA RotateKeepsAll ==
    ASSUME queue \in Seq(Frames), Distinct(queue), NEW f \in Frames, Rotate(f)
    PROVE  queue' \in Seq(Frames) /\ Distinct(queue') /\ Queued' = Queued
<1>1. CASE f \in Queued
  <2>1. /\ Without(queue, f) \in Seq(Frames) /\ Distinct(Without(queue, f))
        /\ Elements(Without(queue, f)) = Queued \ {f}
    BY <1>1, WithoutRemovesOne DEF Queued
  <2>2. /\ queue' = Append(Without(queue, f), f)
    BY <1>1 DEF Rotate
  <2>3. /\ Append(Without(queue, f), f) \in Seq(Frames)
        /\ Distinct(Append(Without(queue, f), f))
        /\ Elements(Append(Without(queue, f), f)) = (Queued \ {f}) \cup {f}
    BY <2>1, AppendAddsOne
  <2> QED
    BY <2>2, <2>3, <1>1 DEF Queued
<1>2. CASE f \notin Queued
  BY <1>2 DEF Rotate, Queued
<1> QED
  BY <1>1, <1>2

-----------------------------------------------------------------------------
(* The invariant.                                                           *)

Early == {"idle", "matched", "inserted", "observed", "direct"}

SpoolTypes ==
    /\ queue \in Seq(Frames)
    /\ quarantined \subseteq Frames
    /\ recorded \subseteq Frames
    /\ worker \in [Frames -> WorkerState]
    /\ flusher \in FlusherState
    /\ batch \subseteq Frames
    /\ published \in [Frames -> Nat]
    /\ alerted \in [Frames -> Nat]

\* A frame on disk, queued or set aside, is no longer its worker's; one set
\* aside is settled; a worker that has not written its frame finds no record.
Ownership ==
    \A f \in Frames :
        /\ f \in Queued \cup quarantined => worker[f] = "done"
        /\ f \in quarantined => f \notin Queued /\ f \notin recorded
        /\ worker[f] \in Early => f \notin recorded

\* Nothing is announced before the record exists; the worker has announced
\* nothing before it publishes and sent no alert before it alerts.
Notices ==
    \A f \in Frames :
        /\ f \notin recorded => published[f] = 0 /\ alerted[f] = 0
        /\ worker[f] = "publishing" =>
              f \in recorded /\ published[f] = 0 /\ alerted[f] = 0
        /\ worker[f] = "alerting" => f \in recorded /\ alerted[f] = 0

\* What the flusher holds, and what its progress says of the current frame.
FlushProgress ==
    /\ batch \subseteq Queued
    /\ flusher \in {"publishing", "ackFresh", "ackReplay", "compensating",
                    "erasing", "quarantining"} => current \in Queued \ batch
    /\ flusher = "alerting" =>
          /\ current \in Frames \ (Queued \cup quarantined)
          /\ worker[current] = "done"
    /\ flusher \in {"publishing", "ackFresh", "ackReplay", "alerting"} =>
          current \in recorded
    /\ flusher \in {"compensating", "erasing", "quarantining"} =>
          current \notin recorded
    /\ flusher = "publishing" => published[current] = 0 /\ alerted[current] = 0
    /\ flusher \in {"ackFresh", "alerting"} => alerted[current] = 0

SpoolInv ==
    /\ SpoolTypes
    /\ Distinct(queue)
    /\ Ownership
    /\ Notices
    /\ FlushProgress

spoolState == <<worker, queue, quarantined, flusher, batch, current, recorded,
                published, alerted>>

-----------------------------------------------------------------------------
LEMMA QueuedFrames == SpoolTypes => Queued \subseteq Frames
<1> SUFFICES ASSUME SpoolTypes, NEW f \in Queued PROVE f \in Frames
  OBVIOUS
<1>1. PICK i \in DOMAIN queue : f = queue[i]
  BY DEF Queued, Elements
<1> QED
  BY <1>1 DEF SpoolTypes

LEMMA InitSpool == Init => SpoolInv
<1> SUFFICES ASSUME Init PROVE SpoolInv
  OBVIOUS
<1>1. Queued = {}
  BY DEF Init, Queued, Elements
<1> QED
  BY <1>1 DEF Init, SpoolInv, SpoolTypes, Distinct, Ownership, Notices,
              FlushProgress, WorkerState, FlusherState, Early

\* Steps that leave workers, disk, flusher, records and notices alone.
LEMMA SpoolStutters ==
    ASSUME SpoolInv, UNCHANGED spoolState
    PROVE  SpoolInv' /\ Queued' = Queued
BY DEF spoolState, SpoolInv, SpoolTypes, Distinct, Ownership, Notices,
       FlushProgress, Queued, Elements

\* A worker moves on with its own frame, announcing nothing.
LEMMA WorkerMoves ==
    ASSUME SpoolInv, NEW f \in Frames, NEW t \in WorkerState,
           worker[f] # "done", t \notin {"publishing", "alerting"},
           t \in Early => worker[f] \in Early,
           worker' = [worker EXCEPT ![f] = t],
           UNCHANGED <<queue, quarantined, flusher, batch, current, recorded,
                       published, alerted>>
    PROVE  SpoolInv' /\ Queued' = Queued
<1>1. Queued' = Queued
  BY DEF Queued, Elements
<1>2. f \notin Queued \cup quarantined
  BY DEF SpoolInv, Ownership
<1>3. SpoolTypes' /\ Distinct(queue)'
  BY DEF SpoolInv, SpoolTypes, Distinct
<1>4. Ownership'
  BY <1>1, <1>2 DEF SpoolInv, SpoolTypes, Ownership
<1>5. Notices'
  BY DEF SpoolInv, SpoolTypes, Notices
<1>6. FlushProgress'
  BY <1>1 DEF SpoolInv, SpoolTypes, FlushProgress
<1> QED
  BY <1>1, <1>3, <1>4, <1>5, <1>6 DEF SpoolInv

\* Every step of a frame's identity transaction keeps the invariant.
LEMMA IdentitySteps ==
    ASSUME SpoolInv, NEW f \in Frames, IdentityStep(f)
    PROVE  SpoolInv' /\ Queued' = Queued
<1> USE DEF spoolVars, flushVars, noticeVars, workerVars, WorkerState, Early
<1>1. ASSUME NEW i \in Identities, MatchIdentity(f, i)
      PROVE  SpoolInv' /\ Queued' = Queued
  BY <1>1, WorkerMoves DEF MatchIdentity, dbVars
<1>2. ASSUME NEW i \in Identities, CreateIdentity(f, i)
      PROVE  SpoolInv' /\ Queued' = Queued
  BY <1>2, WorkerMoves DEF CreateIdentity, dbVars
<1>3. CASE InsertObservation(f)
  BY <1>3, WorkerMoves DEF InsertObservation, dbVars
<1>4. ASSUME NEW heard \in BOOLEAN, CommitObservation(f, heard)
      PROVE  SpoolInv' /\ Queued' = Queued
  BY <1>4, WorkerMoves DEF CommitObservation
<1>5. CASE RollbackObservation(f)
  BY <1>5, WorkerMoves DEF RollbackObservation, dbVars
<1> QED
  BY <1>1, <1>2, <1>3, <1>4, <1>5 DEF IdentityStep

\* The worker's steps after the identity transaction that neither record the
\* frame, nor queue it, nor announce it.
WorkerOnly(f) ==
    \/ Discard(f) \/ WriteDirectly(f) \/ DirectFail(f)
    \/ DirectCompensate(f) \/ DirectErase(f) \/ WorkerGivesUp(f)

LEMMA WorkerOnlySteps ==
    ASSUME SpoolInv, NEW f \in Frames, WorkerOnly(f)
    PROVE  SpoolInv' /\ Queued' = Queued
<1> USE DEF spoolVars, flushVars, noticeVars, workerVars, WorkerState, Early
<1>1. CASE Discard(f)
  BY <1>1, WorkerMoves DEF Discard, dbVars
<1>2. CASE WriteDirectly(f)
  BY <1>2, WorkerMoves DEF WriteDirectly, dbVars
<1>3. CASE DirectFail(f)
  BY <1>3, WorkerMoves DEF DirectFail, dbVars
<1>4. CASE DirectCompensate(f)
  BY <1>4, WorkerMoves DEF DirectCompensate
<1>5. CASE DirectErase(f)
  BY <1>5, WorkerMoves DEF DirectErase
<1>6. CASE WorkerGivesUp(f)
  BY <1>6, WorkerMoves DEF WorkerGivesUp, dbVars
<1> QED
  BY <1>1, <1>2, <1>3, <1>4, <1>5, <1>6 DEF WorkerOnly

\* A frame is queued by its worker, which has not recorded it.
LEMMA EnqueueStep ==
    ASSUME SpoolInv, NEW f \in Frames, Enqueue(f)
    PROVE  /\ SpoolInv'
           /\ Queued' = Queued \cup {f}
           /\ f \notin Queued \cup recorded \cup quarantined
<1> USE DEF spoolVars, flushVars, noticeVars, dbVars
<1>1. f \notin Queued \cup recorded \cup quarantined
  BY DEF SpoolInv, Ownership, Enqueue, Early
<1>2. /\ queue' \in Seq(Frames) /\ Distinct(queue')
      /\ Queued' = Queued \cup {f}
  BY <1>1, AppendAddsOne DEF SpoolInv, SpoolTypes, Queued, Enqueue
<1>3. SpoolTypes'
  BY <1>2 DEF SpoolInv, SpoolTypes, Enqueue, WorkerState
<1>4. Ownership'
  BY <1>1, <1>2 DEF SpoolInv, SpoolTypes, Ownership, Enqueue, Early
<1>5. Notices'
  BY <1>2 DEF SpoolInv, SpoolTypes, Notices, Enqueue
<1>6. FlushProgress'
  BY <1>1, <1>2 DEF SpoolInv, SpoolTypes, FlushProgress, Enqueue
<1> QED
  BY <1>1, <1>2, <1>3, <1>4, <1>5, <1>6 DEF SpoolInv, Distinct

\* The direct write records a frame that is neither recorded nor on disk.
LEMMA DirectCommitStep ==
    ASSUME SpoolInv, NEW f \in Frames, NEW heard \in BOOLEAN, DirectCommit(f, heard)
    PROVE  /\ SpoolInv'
           /\ Queued' = Queued
           /\ f \notin recorded \cup quarantined
<1> USE DEF spoolVars, flushVars, noticeVars, DirectCommit, Persist
<1>1. f \notin Queued \cup recorded \cup quarantined
  BY DEF SpoolInv, Ownership, Early
<1>2. Queued' = Queued
  BY DEF Queued, Elements
<1>3. SpoolTypes' /\ Distinct(queue)'
  BY DEF SpoolInv, SpoolTypes, WorkerState, Distinct
<1>4. Ownership'
  BY <1>1, <1>2 DEF SpoolInv, SpoolTypes, Ownership, Early
<1>5. Notices'
  BY <1>1 DEF SpoolInv, SpoolTypes, Notices
<1>6. FlushProgress'
  BY <1>1, <1>2 DEF SpoolInv, SpoolTypes, FlushProgress
<1> QED
  BY <1>1, <1>2, <1>3, <1>4, <1>5, <1>6 DEF SpoolInv

\* The worker's announcements come first and once.
LEMMA DirectNotices ==
    ASSUME SpoolInv, NEW f \in Frames, DirectPublish(f) \/ DirectAlert(f)
    PROVE  /\ SpoolInv'
           /\ Queued' = Queued
           /\ f \in recorded
           /\ DirectPublish(f) => published[f] = 0
           /\ DirectAlert(f) => alerted[f] = 0
<1> USE DEF spoolVars, flushVars, dbVars, DirectPublish, DirectAlert
<1>1. /\ f \in recorded /\ f \notin Queued \cup quarantined
      /\ DirectPublish(f) => published[f] = 0 /\ alerted[f] = 0
      /\ DirectAlert(f) => alerted[f] = 0
  BY DEF SpoolInv, Ownership, Notices
<1>2. Queued' = Queued
  BY DEF Queued, Elements
<1>3. SpoolTypes' /\ Distinct(queue)'
  <2>1. published[f] + 1 \in Nat /\ alerted[f] + 1 \in Nat
    BY DEF SpoolInv, SpoolTypes
  <2>2. CASE DirectPublish(f)
    BY <2>1, <2>2 DEF SpoolInv, SpoolTypes, WorkerState, Distinct
  <2>3. CASE DirectAlert(f)
    BY <2>1, <2>3 DEF SpoolInv, SpoolTypes, WorkerState, Distinct
  <2> QED
    BY <2>2, <2>3
<1>4. Ownership'
  BY <1>1, <1>2 DEF SpoolInv, SpoolTypes, Ownership, Early
<1>5. Notices'
  BY <1>1 DEF SpoolInv, SpoolTypes, Notices
<1>6. FlushProgress'
  <2>1. flusher \in {"publishing", "ackFresh", "alerting"} =>
           current \in Frames /\ current # f
    BY <1>1, QueuedFrames DEF SpoolInv, FlushProgress
  <2>2. flusher \in {"publishing", "ackFresh", "alerting"} =>
           published'[current] = published[current] /\ alerted'[current] = alerted[current]
    BY <2>1 DEF SpoolInv, SpoolTypes
  <2>3. flusher = "alerting" => worker'[current] = "done"
    BY <2>1 DEF SpoolInv, SpoolTypes, FlushProgress
  <2> QED
    BY <1>2, <2>2, <2>3 DEF SpoolInv, FlushProgress
<1> QED
  BY <1>1, <1>2, <1>3, <1>4, <1>5, <1>6 DEF SpoolInv

-----------------------------------------------------------------------------
LEMMA FlushBeginStep ==
    ASSUME SpoolInv, FlushBegin
    PROVE  SpoolInv' /\ Queued' = Queued
<1> USE DEF spoolVars, workerVars, dbVars, noticeVars, FlushBegin
<1>1. Queued' = Queued
  BY DEF Queued, Elements
<1>2. Oldest \subseteq Queued
  BY DEF Oldest, Queued, Elements
<1>3. SpoolTypes' /\ Distinct(queue)'
  BY <1>2, QueuedFrames DEF SpoolInv, SpoolTypes, Distinct, FlusherState
<1>4. Ownership' /\ Notices'
  BY <1>1 DEF SpoolInv, SpoolTypes, Ownership, Notices
<1>5. FlushProgress'
  BY <1>1, <1>2 DEF SpoolInv, FlushProgress
<1> QED
  BY <1>1, <1>3, <1>4, <1>5 DEF SpoolInv

\* The batch writer records a queued frame that was not recorded.
LEMMA FlushCommitStep ==
    ASSUME SpoolInv, NEW f \in Frames, FlushCommit(f)
    PROVE  /\ SpoolInv'
           /\ Queued' = Queued
           /\ f \notin recorded \cup quarantined
<1> USE DEF spoolVars, workerVars, noticeVars, FlushCommit, Persist, StayOn,
            Persistable, AlreadyRecorded
<1>1. f \in Queued /\ f \notin recorded \cup quarantined /\ worker[f] = "done"
  BY DEF SpoolInv, Ownership, FlushProgress
<1>2. Queued' = Queued
  BY DEF Queued, Elements
<1>3. SpoolTypes' /\ Distinct(queue)'
  BY DEF SpoolInv, SpoolTypes, Distinct, FlusherState
<1>4. Ownership'
  BY <1>1, <1>2 DEF SpoolInv, SpoolTypes, Ownership, Early
<1>5. Notices'
  BY <1>1 DEF SpoolInv, SpoolTypes, Notices
<1>6. FlushProgress'
  BY <1>1, <1>2 DEF SpoolInv, FlushProgress, Notices
<1> QED
  BY <1>1, <1>2, <1>3, <1>4, <1>5, <1>6 DEF SpoolInv

LEMMA FlushReplayStep ==
    ASSUME SpoolInv, NEW f \in Frames, FlushReplay(f) \/ FlushInvalid(f)
    PROVE  SpoolInv' /\ Queued' = Queued
<1> USE DEF spoolVars, workerVars, dbVars, noticeVars, FlushReplay,
            FlushInvalid, StayOn, AlreadyRecorded
<1>1. f \in Queued
  BY DEF SpoolInv, FlushProgress
<1>2. Queued' = Queued
  BY DEF Queued, Elements
<1>3. SpoolTypes' /\ Distinct(queue)'
  BY DEF SpoolInv, SpoolTypes, Distinct, FlusherState
<1>4. Ownership' /\ Notices'
  BY <1>2 DEF SpoolInv, Ownership, Notices
<1>5. FlushProgress'
  BY <1>1, <1>2 DEF SpoolInv, FlushProgress
<1> QED
  BY <1>2, <1>3, <1>4, <1>5 DEF SpoolInv

\* A failed write keeps the frame on disk; its commit may have taken effect.
LEMMA FlushRetainStep ==
    ASSUME SpoolInv, NEW f \in Frames, NEW committed \in BOOLEAN,
           FlushRetain(f, committed)
    PROVE  /\ SpoolInv'
           /\ Queued' = Queued
           /\ \/ recorded' = recorded
              \/ recorded' = recorded \cup {f} /\ f \notin recorded \cup quarantined
<1> USE DEF workerVars, dbVars, noticeVars, FlushRetain, NextFrame
<1>1. f \in Queued /\ f \notin quarantined /\ worker[f] = "done"
  BY DEF SpoolInv, Ownership, FlushProgress
<1>2. queue' \in Seq(Frames) /\ Distinct(queue)' /\ Queued' = Queued
  BY RotateKeepsAll DEF SpoolInv, SpoolTypes, Distinct
<1>3. \/ recorded' = recorded
      \/ recorded' = recorded \cup {f} /\ f \notin recorded \cup quarantined
  BY <1>1 DEF Persist, Persistable, AlreadyRecorded
<1>4. SpoolTypes'
  BY <1>2, <1>3 DEF SpoolInv, SpoolTypes, FlusherState
<1>5. Ownership'
  BY <1>1, <1>2, <1>3 DEF SpoolInv, Ownership, Early
<1>6. Notices'
  BY <1>3 DEF SpoolInv, Notices
<1>7. FlushProgress'
  BY <1>2, <1>3 DEF SpoolInv, FlushProgress
<1> QED
  BY <1>2, <1>3, <1>4, <1>5, <1>6, <1>7 DEF SpoolInv

LEMMA FlushCompensateSteps ==
    ASSUME SpoolInv, FlushCompensate \/ FlushErase \/ FlushCompensateFails
    PROVE  SpoolInv' /\ Queued' = Queued
<1> USE DEF spoolVars, workerVars, dbVars, noticeVars, FlushCompensate,
            FlushErase, FlushCompensateFails
<1>1. Queued' = Queued
  BY DEF Queued, Elements
<1>2. SpoolTypes' /\ Distinct(queue)'
  BY DEF SpoolInv, SpoolTypes, Distinct, FlusherState
<1>3. Ownership' /\ Notices'
  BY <1>1 DEF SpoolInv, Ownership, Notices
<1>4. FlushProgress'
  BY <1>1 DEF SpoolInv, FlushProgress
<1> QED
  BY <1>1, <1>2, <1>3, <1>4 DEF SpoolInv

\* Only a queued frame without a record is set aside.
LEMMA FlushQuarantineStep ==
    ASSUME SpoolInv, FlushQuarantine
    PROVE  /\ SpoolInv'
           /\ current \in Queued \ recorded
           /\ Queued' = Queued \ {current}
           /\ quarantined' = quarantined \cup {current}
<1> USE DEF workerVars, dbVars, noticeVars, FlushQuarantine, NextFrame
<1>1. current \in Queued \ recorded /\ current \notin batch
  BY DEF SpoolInv, FlushProgress
<1>2. queue' \in Seq(Frames) /\ Distinct(queue)' /\ Queued' = Queued \ {current}
  BY <1>1, WithoutRemovesOne DEF SpoolInv, SpoolTypes, Distinct, Queued
<1>3. SpoolTypes'
  BY <1>1, <1>2, QueuedFrames DEF SpoolInv, SpoolTypes, FlusherState
<1>4. Ownership'
  BY <1>1, <1>2 DEF SpoolInv, Ownership
<1>5. Notices'
  BY DEF SpoolInv, Notices
<1>6. FlushProgress'
  BY <1>1, <1>2 DEF SpoolInv, FlushProgress
<1> QED
  BY <1>1, <1>2, <1>3, <1>4, <1>5, <1>6 DEF SpoolInv

LEMMA FlushPublishStep ==
    ASSUME SpoolInv, FlushPublish
    PROVE  /\ SpoolInv'
           /\ Queued' = Queued
           /\ current \in Frames \cap recorded
           /\ published[current] = 0
<1> USE DEF spoolVars, workerVars, dbVars, FlushPublish
<1>1. /\ current \in Frames \cap recorded /\ current \in Queued \ batch
      /\ worker[current] = "done"
      /\ published[current] = 0 /\ alerted[current] = 0
  BY QueuedFrames DEF SpoolInv, FlushProgress, Ownership
<1>2. Queued' = Queued
  BY DEF Queued, Elements
<1>3. SpoolTypes' /\ Distinct(queue)'
  BY <1>1 DEF SpoolInv, SpoolTypes, Distinct, FlusherState
<1>4. Ownership'
  BY <1>2 DEF SpoolInv, Ownership
<1>5. Notices'
  BY <1>1 DEF SpoolInv, SpoolTypes, Notices
<1>6. FlushProgress'
  BY <1>1, <1>2 DEF SpoolInv, FlushProgress
<1> QED
  BY <1>1, <1>2, <1>3, <1>4, <1>5, <1>6 DEF SpoolInv

\* A file is removed only after its frame's record was committed.
LEMMA FlushAcknowledgeStep ==
    ASSUME SpoolInv, FlushAcknowledge
    PROVE  /\ SpoolInv'
           /\ current \in Queued \cap recorded
           /\ Queued' = Queued \ {current}
<1> USE DEF workerVars, dbVars, noticeVars, FlushAcknowledge, NextFrame
<1>1. /\ current \in Queued \cap recorded /\ current \notin batch
      /\ worker[current] = "done" /\ current \in Frames \ quarantined
  BY QueuedFrames DEF SpoolInv, FlushProgress, Ownership
<1>2. queue' \in Seq(Frames) /\ Distinct(queue)' /\ Queued' = Queued \ {current}
  BY <1>1, WithoutRemovesOne DEF SpoolInv, SpoolTypes, Distinct, Queued
<1>3. SpoolTypes'
  BY <1>1, <1>2 DEF SpoolInv, SpoolTypes, FlusherState
<1>4. Ownership'
  BY <1>1, <1>2 DEF SpoolInv, Ownership
<1>5. Notices'
  BY DEF SpoolInv, Notices
<1>6. FlushProgress'
  BY <1>1, <1>2 DEF SpoolInv, FlushProgress
<1> QED
  BY <1>1, <1>2, <1>3, <1>4, <1>5, <1>6 DEF SpoolInv

LEMMA FlushAlertStep ==
    ASSUME SpoolInv, FlushAlert
    PROVE  /\ SpoolInv'
           /\ Queued' = Queued
           /\ current \in Frames \cap recorded
           /\ alerted[current] = 0
<1> USE DEF spoolVars, workerVars, dbVars, FlushAlert, NextFrame
<1>1. /\ current \in Frames \cap recorded /\ current \notin Queued
      /\ worker[current] = "done" /\ alerted[current] = 0
  BY DEF SpoolInv, FlushProgress
<1>2. Queued' = Queued
  BY DEF Queued, Elements
<1>3. SpoolTypes' /\ Distinct(queue)'
  BY <1>1 DEF SpoolInv, SpoolTypes, Distinct, FlusherState
<1>4. Ownership'
  BY <1>2 DEF SpoolInv, Ownership
<1>5. Notices'
  BY <1>1 DEF SpoolInv, SpoolTypes, Notices
<1>6. FlushProgress'
  BY <1>1, <1>2 DEF SpoolInv, FlushProgress
<1> QED
  BY <1>1, <1>2, <1>3, <1>4, <1>5, <1>6 DEF SpoolInv

LEMMA FlushPostCommitFailsStep ==
    ASSUME SpoolInv, FlushPostCommitFails
    PROVE  SpoolInv' /\ Queued' = Queued
<1> USE DEF workerVars, dbVars, noticeVars, FlushPostCommitFails, NextFrame
<1>1. current \in Frames
  BY QueuedFrames DEF SpoolInv, FlushProgress
<1>2. queue' \in Seq(Frames) /\ Distinct(queue)' /\ Queued' = Queued
  BY <1>1, RotateKeepsAll DEF SpoolInv, SpoolTypes, Distinct
<1>3. SpoolTypes'
  BY <1>2 DEF SpoolInv, SpoolTypes, FlusherState
<1>4. Ownership' /\ Notices'
  BY <1>2 DEF SpoolInv, Ownership, Notices
<1>5. FlushProgress'
  BY <1>2 DEF SpoolInv, FlushProgress
<1> QED
  BY <1>2, <1>3, <1>4, <1>5 DEF SpoolInv

\* A cancelled flush and a crash forget what is in memory, nothing else.
LEMMA InterruptionSteps ==
    ASSUME SpoolInv, FlushCancelled \/ Crash
    PROVE  SpoolInv' /\ Queued' = Queued
<1> USE DEF spoolVars, dbVars, noticeVars, workerVars, FlushCancelled, Crash,
            NextFrame
<1>1. Queued' = Queued
  BY DEF Queued, Elements
<1>2. /\ flusher' = "idle" /\ batch' = {}
      /\ worker' \in [Frames -> WorkerState]
      /\ \A f \in Frames : \/ worker'[f] = worker[f]
                           \/ worker[f] # "done" /\ worker'[f] = "lost"
  <2>1. CASE FlushCancelled
    BY <2>1 DEF SpoolInv, SpoolTypes
  <2>2. CASE Crash
    BY <2>2 DEF SpoolInv, SpoolTypes, WorkerState
  <2> QED
    BY <2>1, <2>2
<1>3. SpoolTypes' /\ Distinct(queue)'
  BY <1>2 DEF SpoolInv, SpoolTypes, Distinct, FlusherState
<1>4. Ownership' /\ Notices'
  BY <1>1, <1>2 DEF SpoolInv, Ownership, Notices, Early
<1>5. FlushProgress'
  BY <1>2 DEF FlushProgress
<1> QED
  BY <1>1, <1>3, <1>4, <1>5 DEF SpoolInv

\* Reconciliation, merges, deletions of people and the passing of time stay
\* clear of workers, disk, flusher, records and notices.
LEMMA OtherSteps ==
    ASSUME SpoolInv,
           \/ CleanerStep \/ PeopleStep
           \/ \E f \in Frames : GracePeriodEnds(f)
    PROVE  SpoolInv' /\ Queued' = Queued /\ UNCHANGED spoolState
<1>1. UNCHANGED spoolState
  BY DEF CleanerStep, PeopleStep, GracePeriodEnds, CleanerSelect,
         CleanerReadSpool, CleanerDelete, CleanerErase, CleanerFails, Merge,
         DeletePerson, dbVars, workerVars, spoolVars, flushVars, noticeVars,
         spoolState
<1> QED
  BY <1>1, SpoolStutters

-----------------------------------------------------------------------------
\* Each step of the path is a step of the ledger, or none.
LEMMA StepSimulates ==
    ASSUME SpoolInv, [Next]_vars
    PROVE  SpoolInv' /\ [Ledger!LedgerNext]_(Ledger!ledgerVars)
<1> USE DEF Ledger!ledgerVars
<1>0. CASE UNCHANGED vars
  <2>1. UNCHANGED spoolState
    BY <1>0 DEF vars, dbVars, workerVars, spoolVars, flushVars, noticeVars, spoolState
  <2> QED
    BY <2>1, SpoolStutters DEF spoolState
<1>1. ASSUME NEW f \in Frames, IdentityStep(f) \/ WorkerOnly(f)
      PROVE  SpoolInv' /\ UNCHANGED Ledger!ledgerVars
  <2>1. SpoolInv' /\ Queued' = Queued
    BY <1>1, IdentitySteps, WorkerOnlySteps
  <2>2. UNCHANGED <<recorded, quarantined, published, alerted>>
    BY <1>1 DEF IdentityStep, WorkerOnly, MatchIdentity, CreateIdentity,
        InsertObservation, CommitObservation, RollbackObservation, Discard,
        WriteDirectly, DirectFail, DirectCompensate, DirectErase, WorkerGivesUp,
        dbVars, spoolVars, noticeVars
  <2> QED
    BY <2>1, <2>2
<1>2. ASSUME NEW f \in Frames, Enqueue(f)
      PROVE  SpoolInv' /\ Ledger!Accept(f)
  BY <1>2, EnqueueStep DEF Ledger!Accept, Enqueue, dbVars, noticeVars
<1>3. ASSUME NEW f \in Frames, NEW heard \in BOOLEAN, DirectCommit(f, heard)
      PROVE  SpoolInv' /\ Ledger!RecordEvidence(f)
  BY <1>3, DirectCommitStep
     DEF Ledger!RecordEvidence, DirectCommit, Persist, spoolVars, noticeVars
<1>4. ASSUME NEW f \in Frames, DirectPublish(f)
      PROVE  SpoolInv' /\ Ledger!Announce(f)
  <2>1. published[f] + 1 = 1
    BY <1>4, DirectNotices
  <2>2. published' = [published EXCEPT ![f] = 1]
    BY <2>1, <1>4 DEF DirectPublish
  <2> QED
    BY <2>2, <1>4, DirectNotices DEF Ledger!Announce, DirectPublish, dbVars, spoolVars
<1>5. ASSUME NEW f \in Frames, DirectAlert(f)
      PROVE  SpoolInv' /\ Ledger!Alert(f)
  <2>1. alerted[f] + 1 = 1
    BY <1>5, DirectNotices
  <2>2. alerted' = [alerted EXCEPT ![f] = 1]
    BY <2>1, <1>5 DEF DirectAlert
  <2> QED
    BY <2>2, <1>5, DirectNotices DEF Ledger!Alert, DirectAlert, dbVars, spoolVars
<1>6. ASSUME \/ FlushBegin \/ FlushCompensate \/ FlushErase
             \/ FlushCompensateFails \/ FlushPostCommitFails
             \/ FlushCancelled \/ Crash
             \/ \E f \in Frames : FlushReplay(f) \/ FlushInvalid(f)
      PROVE  SpoolInv' /\ UNCHANGED Ledger!ledgerVars
  <2>1. SpoolInv' /\ Queued' = Queued
    BY <1>6, FlushBeginStep, FlushCompensateSteps, FlushPostCommitFailsStep,
       InterruptionSteps, FlushReplayStep
  <2>2. UNCHANGED <<recorded, quarantined, published, alerted>>
    BY <1>6 DEF FlushBegin, FlushCompensate, FlushErase, FlushCompensateFails,
        FlushPostCommitFails, FlushCancelled, Crash, FlushReplay, FlushInvalid,
        dbVars, spoolVars, noticeVars
  <2> QED
    BY <2>1, <2>2
<1>7. ASSUME NEW f \in Frames, FlushCommit(f)
      PROVE  SpoolInv' /\ Ledger!RecordEvidence(f)
  BY <1>7, FlushCommitStep
     DEF Ledger!RecordEvidence, FlushCommit, Persist, spoolVars, noticeVars
<1>8. ASSUME NEW f \in Frames, NEW committed \in BOOLEAN, FlushRetain(f, committed)
      PROVE  SpoolInv' /\ (Ledger!RecordEvidence(f) \/ UNCHANGED Ledger!ledgerVars)
  BY <1>8, FlushRetainStep DEF Ledger!RecordEvidence, FlushRetain, noticeVars
<1>9. ASSUME FlushQuarantine
      PROVE  SpoolInv' /\ current \in Frames /\ Ledger!SetAside(current)
  BY <1>9, FlushQuarantineStep, QueuedFrames
     DEF Ledger!SetAside, FlushQuarantine, dbVars, noticeVars, SpoolInv
<1>10. ASSUME FlushPublish
       PROVE  SpoolInv' /\ current \in Frames /\ Ledger!Announce(current)
  <2>1. published[current] + 1 = 1
    BY <1>10, FlushPublishStep
  <2>2. published' = [published EXCEPT ![current] = 1]
    BY <2>1, <1>10 DEF FlushPublish
  <2> QED
    BY <2>2, <1>10, FlushPublishStep DEF Ledger!Announce, FlushPublish, dbVars, spoolVars
<1>11. ASSUME FlushAcknowledge
       PROVE  SpoolInv' /\ current \in Frames /\ Ledger!Settle(current)
  BY <1>11, FlushAcknowledgeStep, QueuedFrames
     DEF Ledger!Settle, FlushAcknowledge, dbVars, noticeVars, SpoolInv
<1>12. ASSUME FlushAlert
       PROVE  SpoolInv' /\ current \in Frames /\ Ledger!Alert(current)
  <2>1. alerted[current] + 1 = 1
    BY <1>12, FlushAlertStep
  <2>2. alerted' = [alerted EXCEPT ![current] = 1]
    BY <2>1, <1>12 DEF FlushAlert
  <2> QED
    BY <2>2, <1>12, FlushAlertStep DEF Ledger!Alert, FlushAlert, dbVars, spoolVars
<1>13. ASSUME \/ CleanerStep \/ PeopleStep
              \/ \E f \in Frames : GracePeriodEnds(f)
       PROVE  SpoolInv' /\ UNCHANGED Ledger!ledgerVars
  BY <1>13, OtherSteps DEF spoolState
<1>14. CASE \E f \in Frames : WriteStep(f)
  <2>1. PICK f \in Frames : WriteStep(f)
    BY <1>14
  <2>2. WorkerOnly(f) => SpoolInv' /\ UNCHANGED Ledger!ledgerVars
    BY <1>1
  <2> QED
    BY <2>1, <2>2, <1>2, <1>3, <1>4, <1>5
       DEF WriteStep, WorkerOnly, Ledger!LedgerNext
<1>15. CASE FlushStep \/ FlushCancelled
  BY <1>15, <1>6, <1>7, <1>8, <1>9, <1>10, <1>11, <1>12
     DEF FlushStep, FlushSettles, Ledger!LedgerNext
<1> QED
  BY <1>0, <1>1, <1>6, <1>13, <1>14, <1>15 DEF Next

\* Workers, disk and flusher stay consistent, for every
\* set of frames and every number of interruptions.
THEOREM SpoolConsistent == Spec => []SpoolInv
<1>1. Init => SpoolInv
  BY InitSpool
<1>2. SpoolInv /\ [Next]_vars => SpoolInv'
  BY StepSimulates
<1> QED
  BY <1>1, <1>2, PTL DEF Spec

\* The evidence path implements its ledger: nothing accepted is lost, nothing
\* is recorded twice or both recorded and set aside, and each announcement
\* follows its record and is made at most once.
THEOREM EvidencePathKeepsLedger == Spec => LedgerSpec
<1>1. Init => Ledger!LedgerInit
  <2>1. Init => Queued = {}
    BY DEF Init, Queued, Elements
  <2> QED
    BY <2>1 DEF Init, Ledger!LedgerInit
<1>2. SpoolInv /\ [Next]_vars => [Ledger!LedgerNext]_(Ledger!ledgerVars)
  BY StepSimulates
<1> QED
  BY <1>1, <1>2, SpoolConsistent, PTL DEF Spec, LedgerSpec, Ledger!LedgerSpec

-----------------------------------------------------------------------------
(* What the ledger means for whoever relies on the evidence.                *)

\* A frame is not both recorded and set aside, and each channel hears of it
\* at most once, after it is recorded.
LedgerPromises ==
    /\ recorded \cap quarantined = {}
    /\ \A f \in Frames :
           /\ published[f] \in {0, 1} /\ alerted[f] \in {0, 1}
           /\ published[f] + alerted[f] > 0 => f \in recorded

\* A queued frame leaves the queue for the record or for quarantine, and stays
\* there.
AcceptedIsSettled ==
    [][/\ Queued \subseteq Queued' \cup recorded' \cup quarantined'
       /\ recorded \subseteq recorded' /\ quarantined \subseteq quarantined']_vars

LEMMA PromisesOfStep ==
    ASSUME SpoolTypes, LedgerPromises, [Ledger!LedgerNext]_(Ledger!ledgerVars)
    PROVE  /\ LedgerPromises'
           /\ Queued \subseteq Queued' \cup recorded' \cup quarantined'
           /\ recorded \subseteq recorded' /\ quarantined \subseteq quarantined'
<1> USE DEF LedgerPromises
<1>1. CASE UNCHANGED Ledger!ledgerVars
  BY <1>1 DEF Ledger!ledgerVars
<1>2. ASSUME NEW f \in Frames, \/ Ledger!Accept(f) \/ Ledger!RecordEvidence(f)
                               \/ Ledger!Settle(f) \/ Ledger!SetAside(f)
      PROVE  /\ LedgerPromises'
             /\ Queued \subseteq Queued' \cup recorded' \cup quarantined'
             /\ recorded \subseteq recorded' /\ quarantined \subseteq quarantined'
  BY <1>2 DEF Ledger!Accept, Ledger!RecordEvidence, Ledger!Settle, Ledger!SetAside
<1>3. ASSUME NEW f \in Frames, Ledger!Announce(f) \/ Ledger!Alert(f)
      PROVE  /\ LedgerPromises'
             /\ UNCHANGED <<Queued, recorded, quarantined>>
  BY <1>3 DEF Ledger!Announce, Ledger!Alert, SpoolTypes
<1> QED
  BY <1>1, <1>2, <1>3 DEF Ledger!LedgerNext

\* Evidence is not contradicted and announcements are neither early nor doubled,
\* through crashes, replays and unheard commits (BatchDatabaseWriter._flush_internal).
THEOREM EvidencePromises == Spec => []LedgerPromises
<1>1. Init => LedgerPromises
  BY DEF Init, LedgerPromises
<1>2. SpoolInv /\ LedgerPromises /\ [Next]_vars => LedgerPromises'
  BY StepSimulates, PromisesOfStep DEF SpoolInv
<1> QED
  BY <1>1, <1>2, SpoolConsistent, PTL DEF Spec

\* No accepted frame is lost: what leaves the spool is recorded or set aside,
\* for good (detection_spool.py, acknowledge and quarantine).
THEOREM AcceptedFramesAreSettled == Spec => AcceptedIsSettled
<1>1. SpoolInv /\ LedgerPromises /\ [Next]_vars =>
          [/\ Queued \subseteq Queued' \cup recorded' \cup quarantined'
           /\ recorded \subseteq recorded' /\ quarantined \subseteq quarantined']_vars
  BY StepSimulates, PromisesOfStep DEF SpoolInv
<1> QED
  BY <1>1, SpoolConsistent, EvidencePromises, PTL DEF Spec, AcceptedIsSettled
=============================================================================
