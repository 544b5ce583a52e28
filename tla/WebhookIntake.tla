--------------------------- MODULE WebhookIntake ---------------------------
(***************************************************************************)
(* The camera webhook in front of IngestQueue: keys that recognise a       *)
(* repeated event, the reservation held until the queue has accepted, and  *)
(* the feedback record a sender may poll (backend/routes/webhook.py,       *)
(* core/processing_feedback.py, services/queue_worker.py).                 *)
(*                                                                         *)
(* All of it runs on one event loop (WORKERS=1).  A handler is split at    *)
(* its only awaits, the calls of processing_queue.add().                   *)
(***************************************************************************)
EXTENDS IngestQueue

CONSTANTS
    Requests,       \* webhook requests, retries included
    Events,         \* job keys: what the sender calls the event
    EventOf,        \* the event of each request
    ImagesOf,       \* the images of each request, in order
    PipelineOf,     \* the pipeline each request is sent to
    WantsFeedback,  \* requests with processing_feedback and one image
    MaxEvents,      \* MAX_EVENTS: feedback records kept
    MaxExpired      \* bound: keys and records that expire

ASSUME IntakeAssumption ==
    /\ EventOf \in [Requests -> Events]
    /\ ImagesOf \in [Requests -> Seq(Images)]
    \* each image belongs to one request, once
    /\ \A q, r \in Requests : \A i \in DOMAIN ImagesOf[q], j \in DOMAIN ImagesOf[r] :
           ImagesOf[q][i] = ImagesOf[r][j] => q = r /\ i = j
    /\ PipelineOf \in [Requests -> Pipelines]
    /\ WantsFeedback \subseteq {r \in Requests : Len(ImagesOf[r]) = 1}
    /\ MaxEvents \in Nat /\ MaxExpired \in Nat

VARIABLES
    answer,     \* of each request: "unsent", "adding", then its answer
    offered,    \* images of each request the queue was asked to take
    queued,     \* those it took
    seen,       \* _dedup_seen, unexpired
    pending,    \* _dedup_pending
    record,     \* processing_feedback._events: "none", "pending", "settled"
    reported,   \* images whose outcome was reported
    expired     \* the keys and records that expired, by kind and event

keyVars == <<seen, pending, record>>
intakeVars == <<answer, offered, queued, keyVars, reported, expired>>
allVars == <<vars, intakeVars>>

Answers == {"processing", "pending", "duplicate", "capacity", "empty", "full",
            "accepted", "error"}

IntakeTypeOK ==
    /\ TypeOK
    /\ answer \in [Requests -> {"unsent", "adding"} \cup Answers]
    /\ \A r \in Requests : offered[r] \in 0 .. Len(ImagesOf[r])
    /\ queued \in [Requests -> SUBSET Images]
    /\ seen \subseteq Events /\ pending \subseteq Events
    /\ record \in [Events -> {"none", "pending", "settled"}]
    /\ Cardinality({e \in Events : record[e] # "none"}) <= MaxEvents
    /\ reported \subseteq Images
    /\ expired \subseteq {"key", "record"} \X Events

IntakeInit ==
    /\ Init
    /\ answer = [r \in Requests |-> "unsent"]
    /\ offered = [r \in Requests |-> 0]
    /\ queued = [r \in Requests |-> {}]
    /\ seen = {} /\ pending = {}
    /\ record = [e \in Events |-> "none"]
    /\ reported = {}
    /\ expired = {}

-----------------------------------------------------------------------------
(* The head of the handler, up to the first add(). *)

Known(r) == r \in WantsFeedback /\ record[EventOf[r]] # "none"

Answer(r, a) == answer' = [answer EXCEPT ![r] = a]

\* The feedback of the event is on record: 202 or 200 with its status.
AnswerProcessing(r) ==
    /\ answer[r] = "unsent" /\ Known(r)
    /\ Answer(r, "processing")
    /\ UNCHANGED <<vars, offered, queued, keyVars, reported, expired>>

\* Another request of the event is being added: 429.
AnswerPending(r) ==
    /\ answer[r] = "unsent" /\ ~Known(r)
    /\ EventOf[r] \in pending
    /\ Answer(r, "pending")
    /\ UNCHANGED <<vars, offered, queued, keyVars, reported, expired>>

\* Seeded fault: the reservation is not looked at.
AnswerDuplicateEarly(r) ==
    /\ answer[r] = "unsent" /\ ~Known(r)
    /\ EventOf[r] \in seen
    /\ Answer(r, "duplicate")
    /\ UNCHANGED <<vars, offered, queued, keyVars, reported, expired>>

AnswerDuplicate(r) ==
    /\ answer[r] = "unsent" /\ ~Known(r)
    /\ EventOf[r] \in seen \ pending
    /\ Answer(r, "duplicate")
    /\ UNCHANGED <<vars, offered, queued, keyVars, reported, expired>>

New(r) == answer[r] = "unsent" /\ ~Known(r) /\ EventOf[r] \notin seen \cup pending

NoRecordFree == Cardinality({e \in Events : record[e] # "none"}) >= MaxEvents

\* The key was recorded and reserved, and both are given back: 429.
RefuseCapacity(r) ==
    /\ New(r) /\ r \in WantsFeedback /\ NoRecordFree
    /\ Answer(r, "capacity")
    /\ UNCHANGED <<vars, offered, queued, keyVars, reported, expired>>

\* An event without images is remembered.
AnswerEmpty(r) ==
    /\ New(r) /\ ImagesOf[r] = <<>>
    /\ Answer(r, "empty")
    /\ seen' = seen \cup {EventOf[r]}
    /\ UNCHANGED <<vars, offered, queued, pending, record, reported, expired>>

\* Seeded fault: capacity is not looked at.
ReserveUnbounded(r) ==
    /\ New(r) /\ ImagesOf[r] # <<>>
    /\ Answer(r, "adding")
    /\ seen' = seen \cup {EventOf[r]} /\ pending' = pending \cup {EventOf[r]}
    /\ record' = IF r \in WantsFeedback
                 THEN [record EXCEPT ![EventOf[r]] = "pending"] ELSE record
    /\ UNCHANGED <<vars, offered, queued, reported, expired>>

Reserve(r) ==
    /\ New(r) /\ ImagesOf[r] # <<>>
    /\ r \in WantsFeedback => ~NoRecordFree
    /\ Answer(r, "adding")
    /\ seen' = seen \cup {EventOf[r]} /\ pending' = pending \cup {EventOf[r]}
    /\ record' = IF r \in WantsFeedback
                 THEN [record EXCEPT ![EventOf[r]] = "pending"] ELSE record
    /\ UNCHANGED <<vars, offered, queued, reported, expired>>

-----------------------------------------------------------------------------
(* The loop over the images, and the `finally' of the handler. *)

\* add() of the next image; False when it is refused or its batch is dropped.
Offer(r) ==
    /\ answer[r] = "adding" /\ offered[r] < Len(ImagesOf[r])
    /\ offered' = [offered EXCEPT ![r] = @ + 1]
    /\ LET m == ImagesOf[r][offered[r] + 1]
       IN  /\ AddRefused(m) \/ Add(m, PipelineOf[r])
           /\ queued' = IF m \in refused' \cup dropped' THEN queued
                        ELSE [queued EXCEPT ![r] = @ \cup {m}]
    /\ UNCHANGED <<answer, keyVars, reported, expired>>

\* Seeded fault: the event becomes retryable when any image was refused.
FinallyIfDropped(r) ==
    /\ pending' = pending \ {EventOf[r]}
    /\ IF Cardinality(queued[r]) < Len(ImagesOf[r])
       THEN /\ seen' = seen \ {EventOf[r]}
            /\ record' = IF r \in WantsFeedback
                         THEN [record EXCEPT ![EventOf[r]] = "none"] ELSE record
       ELSE UNCHANGED <<seen, record>>

\* Seeded fault: only the reservation is given back.
FinallyKeepsKey(r) ==
    /\ pending' = pending \ {EventOf[r]}
    /\ IF queued[r] = {}
       THEN /\ record' = IF r \in WantsFeedback
                         THEN [record EXCEPT ![EventOf[r]] = "none"] ELSE record
            /\ UNCHANGED seen
       ELSE UNCHANGED <<seen, record>>

\* "Rejected/failed requests must remain retryable with the same event ID."
Finally(r) ==
    /\ pending' = pending \ {EventOf[r]}
    /\ IF queued[r] = {}
       THEN /\ seen' = seen \ {EventOf[r]}
            /\ record' = IF r \in WantsFeedback
                         THEN [record EXCEPT ![EventOf[r]] = "none"] ELSE record
       ELSE UNCHANGED <<seen, record>>

\* 503 when the queue took nothing, else 202.
EndRequest(r) ==
    /\ answer[r] = "adding" /\ offered[r] = Len(ImagesOf[r])
    /\ Answer(r, IF queued[r] = {} THEN "full" ELSE "accepted")
    /\ Finally(r)
    /\ UNCHANGED <<vars, offered, queued, reported, expired>>

\* An exception, or the client hangs up, between two images.
Interrupt(r) ==
    /\ answer[r] = "adding" /\ offered[r] < Len(ImagesOf[r])
    /\ Answer(r, "error")
    /\ Finally(r)
    /\ UNCHANGED <<vars, offered, queued, reported, expired>>

-----------------------------------------------------------------------------
(* Time, and the workers' reports. *)

Expire(kind, e) ==
    /\ Cardinality(expired) < MaxExpired /\ <<kind, e>> \notin expired
    /\ expired' = expired \cup {<<kind, e>>}
    /\ UNCHANGED <<vars, answer, offered, queued, pending, reported>>

ForgetKey(e) ==
    /\ e \in seen /\ Expire("key", e)
    /\ seen' = seen \ {e} /\ UNCHANGED record

ForgetRecord(e) ==
    /\ record[e] # "none" /\ Expire("record", e)
    /\ record' = [record EXCEPT ![e] = "none"] /\ UNCHANGED seen

SenderOf(m) == CHOOSE r \in Requests : \E i \in DOMAIN ImagesOf[r] : ImagesOf[r][i] = m
Polled(m) == SenderOf(m) \in WantsFeedback

\* Seeded fault: some outcomes, a failed decode say, are not reported.
ReportSome(w, m) ==
    /\ step[w] = "running" /\ m \in inHand[w] \ reported /\ Polled(m)
    /\ reported' = reported \cup {m}
    /\ LET e == EventOf[SenderOf(m)]
       IN  record' \in {record, [record EXCEPT ![e] = "settled"]}
    /\ UNCHANGED <<vars, answer, offered, queued, seen, pending, expired>>

\* _process_queued_item: whatever became of the image, its record is settled,
\* when there still is one.
Report(w, m) ==
    /\ step[w] = "running" /\ m \in inHand[w] \ reported /\ Polled(m)
    /\ reported' = reported \cup {m}
    /\ LET e == EventOf[SenderOf(m)]
       IN  record' = IF record[e] = "none" THEN record
                     ELSE [record EXCEPT ![e] = "settled"]
    /\ UNCHANGED <<vars, answer, offered, queued, seen, pending, expired>>

\* A batch ends when all its images have.
QueueStep(w) ==
    /\ step[w] = "running" => \A m \in inHand[w] : Polled(m) => m \in reported
    /\ WorkerStep(w)
    /\ UNCHANGED intakeVars

FlushStep(p) == (BufferAges(p) \/ Flush(p)) /\ UNCHANGED intakeVars

Handle(r) ==
    \/ AnswerProcessing(r) \/ AnswerPending(r) \/ AnswerDuplicate(r)
    \/ RefuseCapacity(r) \/ AnswerEmpty(r) \/ Reserve(r)
    \/ Offer(r) \/ EndRequest(r) \/ Interrupt(r)

IntakeNext ==
    \/ \E r \in Requests : Handle(r)
    \/ \E e \in Events : ForgetKey(e) \/ ForgetRecord(e)
    \/ \E p \in Pipelines : FlushStep(p)
    \/ \E w \in Workers : QueueStep(w) \/ \E m \in Images : Report(w, m)

IntakeSpec == IntakeInit /\ [][IntakeNext]_allVars

\* Of a started handler the loop runs the rest; the flusher and the workers
\* are loops too, and queue.get() serves waiting workers in turn.
IntakeFairness ==
    /\ \A r \in Requests : WF_allVars(Offer(r) \/ EndRequest(r))
    /\ \A p \in Pipelines : WF_allVars(FlushStep(p))
    /\ WF_allVars(\E w \in Workers : step[w] = "waiting" /\ QueueStep(w))
    /\ \A w \in Workers :
           /\ WF_allVars(step[w] = "running" /\ QueueStep(w))
           /\ SF_allVars(step[w] = "ready" /\ QueueStep(w))
           /\ WF_allVars(\E m \in Images : Report(w, m))

FairIntakeSpec == IntakeSpec /\ IntakeFairness

-----------------------------------------------------------------------------
Same(r) == {q \in Requests : EventOf[q] = EventOf[r]}

\* A sender told "duplicate" may forget the event: some request of it got an
\* image into the queue, or had none.
DuplicateMeansAccepted ==
    \A r \in Requests : answer[r] = "duplicate" =>
        \E q \in Same(r) : queued[q] # {} \/ answer[q] = "empty"

\* webhook.py:640, "Rejected/failed requests must remain retryable with the
\* same event ID": a key or a record is held only for an event of which
\* something was accepted or a request is at work.
RefusedIsRetryable ==
    \A e \in seen \cup {e \in Events : record[e] # "none"} :
        \E q \in Requests : /\ EventOf[q] = e
                            /\ queued[q] # {} \/ answer[q] \in {"adding", "empty"}

\* Until its key expires an event is queued by one request only, whatever is
\* retried, refused, interrupted or accepted in part.
QueuedOnce ==
    \A e \in Events : <<"key", e>> \notin expired =>
        Cardinality({q \in Requests : EventOf[q] = e /\ queued[q] # {}}) <= 1

\* What a sender polls as "pending" is on its way: no request is left waiting
\* for a result that nobody computes.
PendingIsUnderWay ==
    \A e \in Events : record[e] = "pending" =>
        \E q \in WantsFeedback :
            /\ EventOf[q] = e
            /\ \/ answer[q] = "adding"
               \/ (queued[q] \cap (Buffered \cup InBatches \cup Held)) \ reported # {}

\* Whatever was accepted ends: every handler answers, buffers that never fill
\* are flushed by their age, every batch is processed, and no sender polls
\* "pending" for ever.
AcceptedImagesHandled ==
    <>[](/\ \A r \in Requests : answer[r] # "adding"
         /\ Buffered \cup InBatches \cup Held = {}
         /\ \A e \in Events : record[e] # "pending")
=============================================================================
