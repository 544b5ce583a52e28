------------------------ MODULE WebhookIntake_proofs ------------------------
(***************************************************************************)
(* Proofs about WebhookIntake, for any number of requests, events and      *)
(* images.  The intake is a client of IngestQueue that only adds, so what  *)
(* is proved of the queue holds behind the webhook.  Keys, reservations    *)
(* and feedback records are then related to the requests that hold them.   *)
(***************************************************************************)
EXTENDS WebhookIntake, IngestQueue_proofs

USE IntakeAssumption

Adding == {r \in Requests : answer[r] = "adding"}
Recorded == {e \in Events : record[e] # "none"}

\* A request at work, or of which the queue took something.
Busy(r) == answer[r] = "adding" \/ queued[r] # {}

Types ==
    /\ answer \in [Requests -> {"unsent", "adding"} \cup Answers]
    /\ offered \in [Requests -> Nat]
    /\ \A r \in Requests : offered[r] <= Len(ImagesOf[r])
    /\ queued \in [Requests -> SUBSET Images]
    /\ seen \subseteq Events /\ pending \subseteq Events
    /\ record \in [Events -> {"none", "pending", "settled"}]
    /\ reported \subseteq Images
    /\ expired \subseteq {"key", "record"} \X Events

Bounded == IsFiniteSet(Recorded) /\ Cardinality(Recorded) <= MaxEvents

\* What the queue took of a request are images of that request.
Own ==
    /\ \A r \in Requests : \A m \in queued[r] : \E i \in DOMAIN ImagesOf[r] : m = ImagesOf[r][i]
    /\ \A r \in Requests : answer[r] = "unsent" => queued[r] = {}

\* _dedup_pending is the events being added, each by one request.
Reservations ==
    /\ pending = {EventOf[r] : r \in Adding}
    /\ \A q, r \in Adding : EventOf[q] = EventOf[r] => q = r

\* A key or a record is held for some request of the event.
Kept ==
    /\ \A e \in seen : \E q \in Requests : EventOf[q] = e /\ (Busy(q) \/ answer[q] = "empty")
    /\ \A e \in Recorded : \E q \in WantsFeedback : EventOf[q] = e /\ Busy(q)

\* Until it expires, the key of a busy request is held, by that one only.
Once ==
    /\ \A q \in Requests : (Busy(q) /\ <<"key", EventOf[q]>> \notin expired) => EventOf[q] \in seen
    /\ \A q, r \in Requests :
           (/\ Busy(q) /\ Busy(r) /\ EventOf[q] = EventOf[r]
            /\ <<"key", EventOf[q]>> \notin expired) => q = r

ReportsAreOfTaken == reported \subseteq Held \cup handled

\* PendingIsUnderWay, with the request at work before its image is accepted.
Awaits(q) ==
    \/ answer[q] = "adding" /\ queued[q] = {}
    \/ (queued[q] \cap Inside) \ reported # {}
UnderWay ==
    \A e \in Events : record[e] = "pending" => \E q \in WantsFeedback : EventOf[q] = e /\ Awaits(q)

KeysInv ==
    /\ Types /\ Bounded /\ Own
    /\ Reservations /\ Kept
    /\ DuplicateMeansAccepted
    /\ Once
    /\ ReportsAreOfTaken /\ UnderWay

IntakeInv == QueueInv /\ KeysInv

-----------------------------------------------------------------------------
(* The queue behind the webhook is IngestQueue.                             *)

LEMMA OffersAreImages ==
    ASSUME Types, NEW r \in Requests, offered[r] < Len(ImagesOf[r])
    PROVE  /\ offered[r] + 1 \in DOMAIN ImagesOf[r]
           /\ ImagesOf[r][offered[r] + 1] \in Images
  BY DEF Types

LEMMA QueueSide ==
    ASSUME Types, [IntakeNext]_allVars
    PROVE  [Next]_vars
<1>1. CASE UNCHANGED allVars
  BY <1>1 DEF allVars
<1>2. ASSUME NEW r \in Requests, Handle(r) PROVE [Next]_vars
  <2>1. CASE Offer(r)
    <3> DEFINE m == ImagesOf[r][offered[r] + 1]
    <3>1. m \in Images /\ (AddRefused(m) \/ Add(m, PipelineOf[r]))
      BY <2>1, OffersAreImages DEF Offer
    <3>2. PipelineOf[r] \in Pipelines
      OBVIOUS
    <3> HIDE DEF m
    <3> QED
      BY <3>1, <3>2 DEF Next
  <2>2. ~Offer(r) => UNCHANGED vars
    BY <1>2 DEF Handle, AnswerProcessing, AnswerPending, AnswerDuplicate, RefuseCapacity,
       AnswerEmpty, Reserve, EndRequest, Interrupt
  <2> QED
    BY <2>1, <2>2
<1>3. ASSUME NEW e \in Events, ForgetKey(e) \/ ForgetRecord(e) PROVE UNCHANGED vars
  BY <1>3 DEF ForgetKey, ForgetRecord, Expire
<1>4. ASSUME NEW p \in Pipelines, FlushStep(p) PROVE Next
  BY <1>4 DEF FlushStep, Next
<1>5. ASSUME NEW w \in Workers, QueueStep(w) PROVE Next
  BY <1>5 DEF QueueStep, Next
<1>6. ASSUME NEW w \in Workers, NEW m \in Images, Report(w, m) PROVE UNCHANGED vars
  BY <1>6 DEF Report
<1> QED
  BY <1>1, <1>2, <1>3, <1>4, <1>5, <1>6 DEF IntakeNext

LEMMA TypesInit == IntakeInit => Types
  BY DEF IntakeInit, Types

LEMMA TypesKept == Types /\ [IntakeNext]_allVars => Types'
<1> SUFFICES ASSUME Types, [IntakeNext]_allVars PROVE Types'
  OBVIOUS
<1>1. CASE UNCHANGED allVars
  BY <1>1 DEF allVars, intakeVars, keyVars, Types
<1>2. ASSUME NEW r \in Requests, Handle(r) PROVE Types'
  <2>1. CASE Offer(r)
    <3>1. /\ ImagesOf[r][offered[r] + 1] \in Images
          /\ offered' = [offered EXCEPT ![r] = @ + 1] /\ offered[r] < Len(ImagesOf[r])
          /\ UNCHANGED <<answer, seen, pending, record, reported, expired>>
      BY <2>1, OffersAreImages DEF Offer, keyVars
    <3>2. queued' \in [Requests -> SUBSET Images]
      BY <2>1, <3>1 DEF Offer, Types
    <3>3. /\ offered' \in [Requests -> Nat]
          /\ \A q \in Requests : offered'[q] <= Len(ImagesOf[q])
      BY <3>1 DEF Types
    <3> QED
      BY <3>1, <3>2, <3>3 DEF Types
  <2>2. CASE Reserve(r)
    BY <2>2 DEF Reserve, Answer, Types
  <2>3. CASE EndRequest(r) \/ Interrupt(r)
    <3>1. /\ answer' \in [Requests -> {"unsent", "adding"} \cup Answers]
          /\ UNCHANGED <<offered, queued, reported, expired>>
          /\ Finally(r)
      BY <2>3 DEF EndRequest, Interrupt, Answer, Types, Answers
    <3>2. seen' \subseteq seen /\ pending' \subseteq pending
      BY <3>1 DEF Finally
    <3>3. record' \in [Events -> {"none", "pending", "settled"}]
      <4>1. record' = record \/ record' = [record EXCEPT ![EventOf[r]] = "none"]
        BY <3>1 DEF Finally
      <4> QED
        BY <4>1 DEF Types
    <3> QED
      BY <3>1, <3>2, <3>3 DEF Types
  <2>4. CASE AnswerProcessing(r) \/ AnswerPending(r) \/ AnswerDuplicate(r) \/ RefuseCapacity(r)
    BY <2>4 DEF AnswerProcessing, AnswerPending, AnswerDuplicate, RefuseCapacity, Answer, Types,
       Answers, keyVars
  <2>5. CASE AnswerEmpty(r)
    BY <2>5 DEF AnswerEmpty, Answer, Types, Answers
  <2> QED
    BY <1>2, <2>1, <2>2, <2>3, <2>4, <2>5 DEF Handle
<1>3. ASSUME NEW e \in Events, ForgetKey(e) \/ ForgetRecord(e) PROVE Types'
  <2>1. /\ expired' \subseteq {"key", "record"} \X Events
        /\ UNCHANGED <<answer, offered, queued, pending, reported>>
    BY <1>3 DEF ForgetKey, ForgetRecord, Expire, Types
  <2>2. seen' \subseteq seen /\ record' \in [Events -> {"none", "pending", "settled"}]
    BY <1>3 DEF ForgetKey, ForgetRecord, Types
  <2> QED
    BY <2>1, <2>2 DEF Types
<1>4. ASSUME NEW p \in Pipelines, FlushStep(p) PROVE Types'
  BY <1>4 DEF FlushStep, intakeVars, keyVars, Types
<1>5. ASSUME NEW w \in Workers, QueueStep(w) PROVE Types'
  BY <1>5 DEF QueueStep, intakeVars, keyVars, Types
<1>6. ASSUME NEW w \in Workers, NEW m \in Images, Report(w, m) PROVE Types'
  BY <1>6 DEF Report, Types
<1> QED
  BY <1>1, <1>2, <1>3, <1>4, <1>5, <1>6 DEF IntakeNext

\* The webhook and its workers drive the queue as IngestQueue says: every
\* step of the intake is a step of the queue or leaves it alone.
THEOREM IntakeDrivesTheQueue == IntakeSpec => Spec
<1>1. IntakeInit => Init
  BY DEF IntakeInit
<1>2. Types /\ [IntakeNext]_allVars => [Next]_vars
  BY QueueSide
<1> QED
  BY <1>1, <1>2, TypesInit, TypesKept, PTL DEF IntakeSpec, Spec

\* So the count is exact, nothing accepted is dropped and the totals add up
\* whatever the webhook and the workers do (ProcessingQueue.add, get and
\* flush_batches).
THEOREM QueueBehindTheWebhook ==
    IntakeSpec => [](PendingExact /\ AcceptedNeverDropped /\ TotalsAddUp)
<1>1. QueueInv => PendingExact /\ AcceptedNeverDropped /\ TotalsAddUp
  BY DEF QueueInv
<1> QED
  BY <1>1, IntakeDrivesTheQueue, QueueSafe, PTL

-----------------------------------------------------------------------------
(* The head of the handler.                                                 *)

\* A request is answered without entering the queue; only the event of an
\* empty one is remembered.
LEMMA AnswerStep ==
    ASSUME IntakeInv, NEW r \in Requests, NEW a \in Answers,
           answer[r] = "unsent", answer' = [answer EXCEPT ![r] = a],
           UNCHANGED <<vars, offered, queued, pending, record, reported, expired>>,
           \/ UNCHANGED seen
           \/ a = "empty" /\ seen' = seen \cup {EventOf[r]},
           a = "duplicate" => EventOf[r] \in seen \ pending,
           Types'
    PROVE  KeysInv'
<1> USE DEF IntakeInv, KeysInv
<1>1. /\ answer'[r] = a /\ a # "adding" /\ a # "unsent"
      /\ \A q \in Requests \ {r} : answer'[q] = answer[q]
      /\ EventOf[r] \in Events
  BY DEF Types, Answers
<1>2. Adding' = Adding /\ \A q \in Requests : Busy(q)' <=> Busy(q)
  BY <1>1 DEF Adding, Busy
<1>3. Bounded'
  BY DEF Bounded, Recorded
<1>4. Own'
  BY <1>1 DEF Own
<1>5. Reservations'
  BY <1>2 DEF Reservations
<1>6. Kept'
  BY <1>1, <1>2 DEF Kept, Recorded
<1>7. DuplicateMeansAccepted'
  <2> SUFFICES ASSUME NEW q \in Requests, answer'[q] = "duplicate"
               PROVE  \E s \in Same(q) : queued[s] # {} \/ answer'[s] = "empty"
    BY DEF DuplicateMeansAccepted
  <2>1. \E s \in Same(q) : queued[s] # {} \/ answer[s] = "empty"
    <3>1. CASE q = r
      <4>1. EventOf[r] \in seen \ pending
        BY <1>1, <3>1
      <4>2. PICK s \in Requests : EventOf[s] = EventOf[r] /\ (Busy(s) \/ answer[s] = "empty")
        BY <4>1 DEF Kept
      <4>3. s \notin Adding
        BY <4>1, <4>2 DEF Reservations
      <4> QED
        BY <3>1, <4>2, <4>3 DEF Adding, Busy, Same
    <3>2. CASE q # r
      BY <1>1, <3>2 DEF DuplicateMeansAccepted
    <3> QED
      BY <3>1, <3>2
  <2> QED
    BY <1>1, <2>1 DEF Same
<1>8. Once'
  BY <1>2 DEF Once
<1>9. ReportsAreOfTaken'
  BY DEF ReportsAreOfTaken, Held, vars, fates
<1>10. UnderWay'
  <2>1. Inside' = Inside
    BY DEF Inside, Buffered, InBatches, Held, vars
  <2>2. \A q \in Requests : Awaits(q) => Awaits(q)'
    BY <1>1, <2>1 DEF Awaits
  <2> QED
    BY <2>2 DEF UnderWay
<1> QED
  BY <1>3, <1>4, <1>5, <1>6, <1>7, <1>8, <1>9, <1>10

\* Nobody is busy with the event of a new request, unless its key expired.
LEMMA ReserveStep ==
    ASSUME IntakeInv, NEW r \in Requests, Reserve(r), Types'
    PROVE  KeysInv'
<1> USE DEF IntakeInv, KeysInv
<1> DEFINE e == EventOf[r]
<1>1. /\ answer[r] = "unsent" /\ answer' = [answer EXCEPT ![r] = "adding"]
      /\ e \in Events /\ e \notin seen /\ e \notin pending
      /\ seen' = seen \cup {e} /\ pending' = pending \cup {e}
      /\ UNCHANGED <<vars, offered, queued, reported, expired>>
  BY DEF Reserve, New, Answer
<1>2. /\ answer'[r] = "adding" /\ \A q \in Requests \ {r} : answer'[q] = answer[q]
      /\ r \notin Adding /\ Adding' = Adding \cup {r}
      /\ queued[r] = {}
  BY <1>1 DEF Types, Adding, Own
<1>3. /\ ~Busy(r) /\ Busy(r)'
      /\ \A q \in Requests \ {r} : Busy(q)' <=> Busy(q)
  BY <1>1, <1>2 DEF Busy
<1>4. \/ r \notin WantsFeedback /\ record' = record
      \/ r \in WantsFeedback /\ record[e] = "none" /\ record' = [record EXCEPT ![e] = "pending"]
  BY DEF Reserve, New, Known
<1>5. Bounded'
  <2>1. CASE record' = record
    BY <2>1 DEF Bounded, Recorded
  <2>2. CASE r \in WantsFeedback /\ record[e] = "none"
             /\ record' = [record EXCEPT ![e] = "pending"]
    <3>1. Recorded' = Recorded \cup {e} /\ e \notin Recorded
      BY <1>1, <2>2 DEF Recorded, Types
    <3>2. Cardinality(Recorded) < MaxEvents /\ Cardinality(Recorded) \in Nat
      <4>1. ~(Cardinality(Recorded) >= MaxEvents)
        BY <2>2 DEF Reserve, NoRecordFree, Recorded
      <4>2. Cardinality(Recorded) \in Nat /\ MaxEvents \in Nat
        BY FS_CardinalityType DEF Bounded
      <4> QED
        BY <4>1, <4>2
    <3>3. IsFiniteSet(Recorded') /\ Cardinality(Recorded') = Cardinality(Recorded) + 1
      BY <3>1, FS_AddElement DEF Bounded
    <3> QED
      BY <3>2, <3>3 DEF Bounded
  <2> QED
    BY <1>4, <2>1, <2>2
<1>6. Own'
  BY <1>1, <1>2 DEF Own
<1>7. Reservations'
  BY <1>1, <1>2 DEF Reservations, Adding
<1>8. Kept'
  <2>1. \A f \in seen' : \E q \in Requests : EventOf[q] = f /\ (Busy(q)' \/ answer'[q] = "empty")
    BY <1>1, <1>2, <1>3 DEF Kept
  <2>2. \A f \in Recorded' : \E q \in WantsFeedback : EventOf[q] = f /\ Busy(q)'
    <3> SUFFICES ASSUME NEW f \in Recorded'
                 PROVE  \E q \in WantsFeedback : EventOf[q] = f /\ Busy(q)'
      OBVIOUS
    <3>1. f \in Recorded \/ (f = e /\ r \in WantsFeedback)
      BY <1>4 DEF Recorded, Types
    <3> QED
      BY <1>3, <3>1 DEF Kept
  <2> QED
    BY <2>1, <2>2 DEF Kept
<1>9. DuplicateMeansAccepted'
  <2> SUFFICES ASSUME NEW q \in Requests, answer'[q] = "duplicate"
               PROVE  \E s \in Same(q) : queued[s] # {} \/ answer'[s] = "empty"
    BY <1>1 DEF DuplicateMeansAccepted
  <2>1. PICK s \in Same(q) : queued[s] # {} \/ answer[s] = "empty"
    BY <1>2 DEF DuplicateMeansAccepted
  <2> QED
    BY <1>1, <1>2, <2>1 DEF Same
<1>10. Once'
  <2>1. \A q \in Requests : (Busy(q)' /\ <<"key", EventOf[q]>> \notin expired) => EventOf[q] \in seen'
    BY <1>1, <1>3 DEF Once
  <2>2. \A q \in Requests : (EventOf[q] = e /\ <<"key", e>> \notin expired) => ~Busy(q)
    BY <1>1 DEF Once
  <2>3. \A q, s \in Requests : (/\ Busy(q)' /\ Busy(s)' /\ EventOf[q] = EventOf[s]
                                /\ <<"key", EventOf[q]>> \notin expired) => q = s
    BY <1>3, <2>2 DEF Once
  <2> QED
    BY <1>1, <2>1, <2>3 DEF Once
<1>11. ReportsAreOfTaken'
  BY <1>1 DEF ReportsAreOfTaken, Held, vars, fates
<1>12. UnderWay'
  <2>1. Inside' = Inside
    BY <1>1 DEF Inside, Buffered, InBatches, Held, vars
  <2>2. /\ \A q \in Requests : Awaits(q) => Awaits(q)'
        /\ Awaits(r)'
    BY <1>1, <1>2, <2>1 DEF Awaits
  <2>3. \A f \in Events : record'[f] = "pending" => (record[f] = "pending" \/ (f = e /\ r \in WantsFeedback))
    BY <1>4 DEF Types
  <2> QED
    BY <2>2, <2>3 DEF UnderWay
<1> QED
  BY <1>5, <1>6, <1>7, <1>8, <1>9, <1>10, <1>11, <1>12

-----------------------------------------------------------------------------
(* The loop over the images, and the end of the handler.                    *)

\* An accepted image is inside the queue, and no worker reported it yet.
LEMMA OfferStep ==
    ASSUME IntakeInv, NEW r \in Requests, Offer(r), QueueInv', Types'
    PROVE  KeysInv'
<1> USE DEF IntakeInv, KeysInv
<1> DEFINE i == offered[r] + 1
           m == ImagesOf[r][i]
<1>1. /\ i \in DOMAIN ImagesOf[r] /\ m \in Images
      /\ answer[r] = "adding"
      /\ UNCHANGED <<answer, seen, pending, record, reported, expired>>
  BY OffersAreImages DEF Offer, keyVars
<1>2. /\ Held' = Held /\ handled' = handled
      /\ \/ queued' = queued /\ Inside' = Inside
         \/ /\ queued' = [queued EXCEPT ![r] = @ \cup {m}]
            /\ Inside' = Inside \cup {m} /\ m \notin reported
  <2>1. CASE AddRefused(m)
    <3>1. m \in refused' /\ inHand' = inHand /\ handled' = handled
      BY <2>1 DEF AddRefused
    <3>2. Inside' = Inside
      BY <1>1, <2>1, AddRefusedStep
    <3>3. queued' = queued
      BY <3>1 DEF Offer
    <3> QED
      BY <3>1, <3>2, <3>3 DEF Held
  <2>2. CASE Add(m, PipelineOf[r])
    <3>1. /\ m \notin Seen /\ refused' = refused /\ inHand' = inHand /\ handled' = handled
      BY <2>2 DEF Add
    <3>2. PipelineOf[r] \in Pipelines
      OBVIOUS
    <3>3. Inside' = Inside \cup {m}
      BY <1>1, <2>2, <3>2, AddStep
    <3>4. m \notin refused' \cup dropped' /\ m \notin reported
      BY <3>1 DEF Seen, QueueInv, AcceptedNeverDropped, ReportsAreOfTaken
    <3>5. queued' = [queued EXCEPT ![r] = @ \cup {m}]
      BY <3>4 DEF Offer
    <3> QED
      BY <3>1, <3>3, <3>4, <3>5 DEF Held
  <2> QED
    BY <2>1, <2>2 DEF Offer
<1> HIDE DEF m
<1>3. /\ \A q \in Requests : queued[q] \subseteq queued'[q] /\ queued'[q] \subseteq queued[q] \cup {m}
      /\ \A q \in Requests \ {r} : queued'[q] = queued[q]
      /\ Inside \subseteq Inside'
      /\ queued'[r] # queued[r] => (m \in queued'[r] /\ m \in Inside' /\ m \notin reported)
  <2>1. CASE queued' = queued /\ Inside' = Inside
    BY <2>1
  <2>2. CASE queued' = [queued EXCEPT ![r] = @ \cup {m}] /\ Inside' = Inside \cup {m}
             /\ m \notin reported
    <3>1. queued'[r] = queued[r] \cup {m} /\ \A q \in Requests \ {r} : queued'[q] = queued[q]
      BY <2>2 DEF Types
    <3> QED
      BY <2>2, <3>1
  <2> QED
    BY <1>2, <2>1, <2>2
<1>4. \A q \in Requests : Busy(q)' <=> Busy(q)
  BY <1>1, <1>3 DEF Busy
<1>5. Bounded' /\ Reservations'
  BY <1>1 DEF Bounded, Recorded, Reservations, Adding
<1>6. Own'
  <2>1. \A q \in Requests : \A x \in queued'[q] : \E j \in DOMAIN ImagesOf[q] : x = ImagesOf[q][j]
    <3> SUFFICES ASSUME NEW q \in Requests, NEW x \in queued'[q]
                 PROVE  \E j \in DOMAIN ImagesOf[q] : x = ImagesOf[q][j]
      OBVIOUS
    <3>1. x \in queued[q] \/ (q = r /\ x = m)
      BY <1>3
    <3> QED
      BY <1>1, <3>1 DEF Own, m
  <2>2. \A q \in Requests : answer'[q] = "unsent" => queued'[q] = {}
    BY <1>1, <1>3 DEF Own
  <2> QED
    BY <2>1, <2>2 DEF Own
<1>7. Kept'
  BY <1>1, <1>4 DEF Kept, Recorded
<1>8. DuplicateMeansAccepted'
  <2> SUFFICES ASSUME NEW q \in Requests, answer'[q] = "duplicate"
               PROVE  \E s \in Same(q) : queued'[s] # {} \/ answer'[s] = "empty"
    BY DEF DuplicateMeansAccepted, Same
  <2>1. PICK s \in Same(q) : queued[s] # {} \/ answer[s] = "empty"
    BY <1>1 DEF DuplicateMeansAccepted
  <2> QED
    BY <1>1, <1>3, <2>1 DEF Same
<1>9. Once'
  BY <1>1, <1>4 DEF Once
<1>10. ReportsAreOfTaken'
  BY <1>1, <1>2 DEF ReportsAreOfTaken
<1>11. UnderWay'
  <2>1. \A q \in Requests : Awaits(q) => Awaits(q)'
    BY <1>1, <1>3 DEF Awaits
  <2> QED
    BY <1>1, <2>1 DEF UnderWay
<1> QED
  BY <1>5, <1>6, <1>7, <1>8, <1>9, <1>10, <1>11

\* The reservation is given back; the key and the record with it, unless the
\* queue took something.
LEMMA EndStep ==
    ASSUME IntakeInv, NEW r \in Requests, NEW a \in {"full", "accepted", "error"},
           answer[r] = "adding", answer' = [answer EXCEPT ![r] = a], Finally(r),
           UNCHANGED <<vars, offered, queued, reported, expired>>, Types'
    PROVE  KeysInv'
<1> USE DEF IntakeInv, KeysInv
<1> DEFINE e == EventOf[r]
<1>1. /\ answer'[r] = a /\ \A q \in Requests \ {r} : answer'[q] = answer[q]
      /\ a \notin {"adding", "unsent", "duplicate"}
      /\ e \in Events /\ pending' = pending \ {e}
      /\ Adding' = Adding \ {r} /\ r \in Adding
  BY DEF Types, Finally, Adding
<1>2. /\ Busy(r) /\ (Busy(r)' <=> queued[r] # {})
      /\ \A q \in Requests \ {r} : Busy(q)' <=> Busy(q)
  BY <1>1 DEF Busy
<1>3. \/ queued[r] # {} /\ UNCHANGED <<seen, record>>
      \/ /\ queued[r] = {} /\ seen' = seen \ {e}
         /\ record' = IF r \in WantsFeedback THEN [record EXCEPT ![e] = "none"] ELSE record
  BY DEF Finally
<1>4. /\ seen' \subseteq seen /\ Recorded' \subseteq Recorded
      /\ \A f \in Events : record'[f] # "none" => record'[f] = record[f]
      /\ queued[r] = {} => (e \notin seen' /\ (r \in WantsFeedback => record'[e] = "none"))
  <2>1. CASE queued[r] # {} /\ UNCHANGED <<seen, record>>
    BY <2>1 DEF Recorded
  <2>2. CASE queued[r] = {} /\ seen' = seen \ {e} /\ r \in WantsFeedback
             /\ record' = [record EXCEPT ![e] = "none"]
    BY <1>1, <2>2 DEF Recorded, Types
  <2>3. CASE queued[r] = {} /\ seen' = seen \ {e} /\ r \notin WantsFeedback /\ record' = record
    BY <2>3 DEF Recorded
  <2> QED
    BY <1>3, <2>1, <2>2, <2>3
<1>5. Bounded'
  <2>1. IsFiniteSet(Recorded') /\ Cardinality(Recorded') <= Cardinality(Recorded)
    BY <1>4, FS_Subset DEF Bounded
  <2>2. Cardinality(Recorded') \in Nat /\ Cardinality(Recorded) \in Nat /\ MaxEvents \in Nat
    BY <2>1, FS_CardinalityType DEF Bounded
  <2> QED
    BY <2>1, <2>2 DEF Bounded
<1>6. Own'
  BY <1>1 DEF Own
<1>7. Reservations'
  BY <1>1 DEF Reservations, Adding
<1>8. Kept'
  <2>1. \A f \in seen' : \E q \in Requests : EventOf[q] = f /\ (Busy(q)' \/ answer'[q] = "empty")
    <3> SUFFICES ASSUME NEW f \in seen'
                 PROVE  \E q \in Requests : EventOf[q] = f /\ (Busy(q)' \/ answer'[q] = "empty")
      OBVIOUS
    <3>1. PICK q \in Requests : EventOf[q] = f /\ (Busy(q) \/ answer[q] = "empty")
      BY <1>4 DEF Kept
    <3>2. q = r => queued[r] # {}
      BY <1>4, <3>1
    <3> QED
      BY <1>1, <1>2, <3>1, <3>2
  <2>2. \A f \in Recorded' : \E q \in WantsFeedback : EventOf[q] = f /\ Busy(q)'
    <3> SUFFICES ASSUME NEW f \in Recorded'
                 PROVE  \E q \in WantsFeedback : EventOf[q] = f /\ Busy(q)'
      OBVIOUS
    <3>1. PICK q \in WantsFeedback : EventOf[q] = f /\ Busy(q)
      BY <1>4 DEF Kept
    <3>2. q = r => queued[r] # {}
      BY <1>4, <3>1 DEF Recorded
    <3> QED
      BY <1>2, <3>1, <3>2
  <2> QED
    BY <2>1, <2>2 DEF Kept
<1>9. DuplicateMeansAccepted'
  <2> SUFFICES ASSUME NEW q \in Requests, answer'[q] = "duplicate"
               PROVE  \E s \in Same(q) : queued[s] # {} \/ answer'[s] = "empty"
    BY DEF DuplicateMeansAccepted, Same
  <2>1. PICK s \in Same(q) : queued[s] # {} \/ answer[s] = "empty"
    BY <1>1 DEF DuplicateMeansAccepted
  <2> QED
    BY <1>1, <2>1 DEF Same
<1>10. Once'
  <2>1. ASSUME NEW q \in Requests, Busy(q)', <<"key", EventOf[q]>> \notin expired
        PROVE  EventOf[q] \in seen'
    <3>1. Busy(q) /\ EventOf[q] \in seen
      BY <1>2, <2>1 DEF Once
    <3>2. EventOf[q] = e => q = r
      BY <1>2, <2>1, <3>1 DEF Once
    <3> QED
      BY <1>2, <1>3, <2>1, <3>1, <3>2
  <2>2. \A q \in Requests : Busy(q)' => Busy(q)
    BY <1>2
  <2> QED
    BY <2>1, <2>2 DEF Once
<1>11. ReportsAreOfTaken'
  BY DEF ReportsAreOfTaken, Held, vars, fates
<1>12. UnderWay'
  <2>1. Inside' = Inside
    BY DEF Inside, Buffered, InBatches, Held, vars
  <2>2. \A q \in Requests : (Awaits(q) /\ (q = r => queued[r] # {})) => Awaits(q)'
    BY <1>1, <2>1 DEF Awaits
  <2> SUFFICES ASSUME NEW f \in Events, record'[f] = "pending"
               PROVE  \E q \in WantsFeedback : EventOf[q] = f /\ Awaits(q)'
    BY DEF UnderWay
  <2>3. PICK q \in WantsFeedback : EventOf[q] = f /\ Awaits(q)
    BY <1>4 DEF UnderWay
  <2>4. q = r => queued[r] # {}
    BY <1>4, <2>3
  <2> QED
    BY <2>2, <2>3, <2>4
<1> QED
  BY <1>5, <1>6, <1>7, <1>8, <1>9, <1>10, <1>11, <1>12

-----------------------------------------------------------------------------
(* Time, the workers' reports and the queue.                                *)

LEMMA ForgetStep ==
    ASSUME IntakeInv, NEW e \in Events, ForgetKey(e) \/ ForgetRecord(e), Types'
    PROVE  KeysInv'
<1> USE DEF IntakeInv, KeysInv
<1>1. /\ UNCHANGED <<vars, answer, offered, queued, pending, reported>>
      /\ expired \subseteq expired'
      /\ seen' \subseteq seen
      /\ \A f \in Events : record'[f] # "none" => record'[f] = record[f]
  <2>1. CASE ForgetKey(e)
    BY <2>1 DEF ForgetKey, Expire
  <2>2. CASE ForgetRecord(e)
    BY <2>2 DEF ForgetRecord, Expire, Types
  <2> QED
    BY <2>1, <2>2
<1>2. \A f \in seen \ seen' : <<"key", f>> \in expired'
  BY DEF ForgetKey, ForgetRecord, Expire
<1>3. \A q \in Requests : Busy(q)' <=> Busy(q)
  BY <1>1 DEF Busy
<1>4. Recorded' \subseteq Recorded
  BY <1>1 DEF Recorded
<1>5. Bounded'
  <2>1. IsFiniteSet(Recorded') /\ Cardinality(Recorded') <= Cardinality(Recorded)
    BY <1>4, FS_Subset DEF Bounded
  <2>2. Cardinality(Recorded') \in Nat /\ Cardinality(Recorded) \in Nat /\ MaxEvents \in Nat
    BY <2>1, FS_CardinalityType DEF Bounded
  <2> QED
    BY <2>1, <2>2 DEF Bounded
<1>6. Own' /\ Reservations'
  BY <1>1 DEF Own, Reservations, Adding
<1>7. Kept'
  <2>1. \A f \in seen' : \E q \in Requests : EventOf[q] = f /\ (Busy(q)' \/ answer'[q] = "empty")
    BY <1>1, <1>3 DEF Kept
  <2>2. \A f \in Recorded' : \E q \in WantsFeedback : EventOf[q] = f /\ Busy(q)'
    BY <1>3, <1>4 DEF Kept
  <2> QED
    BY <2>1, <2>2 DEF Kept
<1>8. DuplicateMeansAccepted'
  BY <1>1 DEF DuplicateMeansAccepted, Same
<1>9. Once'
  <2>1. \A q \in Requests : (Busy(q)' /\ <<"key", EventOf[q]>> \notin expired') => EventOf[q] \in seen'
    BY <1>1, <1>2, <1>3 DEF Once
  <2>2. \A q, r \in Requests : (/\ Busy(q)' /\ Busy(r)' /\ EventOf[q] = EventOf[r]
                                /\ <<"key", EventOf[q]>> \notin expired') => q = r
    BY <1>1, <1>3 DEF Once
  <2> QED
    BY <2>1, <2>2 DEF Once
<1>10. ReportsAreOfTaken'
  BY <1>1 DEF ReportsAreOfTaken, Held, vars, fates
<1>11. UnderWay'
  <2>1. Inside' = Inside
    BY <1>1 DEF Inside, Buffered, InBatches, Held, vars
  <2>2. \A q \in Requests : Awaits(q)' <=> Awaits(q)
    BY <1>1, <2>1 DEF Awaits
  <2>3. \A f \in Events : record'[f] = "pending" => record[f] = "pending"
    BY <1>1
  <2> QED
    BY <2>2, <2>3 DEF UnderWay
<1> QED
  BY <1>5, <1>6, <1>7, <1>8, <1>9, <1>10, <1>11

\* An image has one sender.
LEMMA OneSender ==
    ASSUME Own, NEW q \in Requests, NEW m \in queued[q]
    PROVE  SenderOf(m) = q
<1>1. PICK i \in DOMAIN ImagesOf[q] : ImagesOf[q][i] = m
  BY DEF Own
<1>2. \A r \in Requests : (\E j \in DOMAIN ImagesOf[r] : ImagesOf[r][j] = m) => r = q
  BY <1>1
<1>3. \E r \in Requests : \E j \in DOMAIN ImagesOf[r] : ImagesOf[r][j] = m
  BY <1>1
<1> QED
  BY <1>2, <1>3 DEF SenderOf

\* The queue moves images: what was reported stays taken, what a sender waits
\* for stays inside until it is reported.
LEMMA QueueMoves ==
    ASSUME IntakeInv, UNCHANGED intakeVars,
           Held \cup handled \subseteq Held' \cup handled',
           \A q \in WantsFeedback : \A m \in queued[q] :
               (m \in Inside /\ m \notin reported) => m \in Inside',
           Types'
    PROVE  KeysInv'
<1> USE DEF IntakeInv, KeysInv
<1>1. UNCHANGED <<answer, offered, queued, seen, pending, record, reported, expired>>
  BY DEF intakeVars, keyVars
<1>2. Adding' = Adding /\ Recorded' = Recorded /\ \A q \in Requests : Busy(q)' <=> Busy(q)
  BY <1>1 DEF Adding, Recorded, Busy
<1>3. Bounded' /\ Own' /\ Reservations'
  BY <1>1, <1>2 DEF Bounded, Own, Reservations
<1>4. Kept' /\ Once'
  <2>1. Kept'
    BY <1>1, <1>2 DEF Kept
  <2>2. Once'
    BY <1>1, <1>2 DEF Once
  <2> QED
    BY <2>1, <2>2
<1>5. DuplicateMeansAccepted'
  BY <1>1 DEF DuplicateMeansAccepted, Same
<1>6. ReportsAreOfTaken'
  BY <1>1 DEF ReportsAreOfTaken
<1>7. UnderWay'
  <2>1. \A q \in WantsFeedback : Awaits(q) => Awaits(q)'
    BY <1>1 DEF Awaits
  <2> QED
    BY <1>1, <2>1 DEF UnderWay
<1> QED
  BY <1>3, <1>4, <1>5, <1>6, <1>7

LEMMA FlusherStep ==
    ASSUME IntakeInv, NEW p \in Pipelines, FlushStep(p), Types'
    PROVE  KeysInv'
<1>1. UNCHANGED intakeVars /\ (BufferAges(p) \/ Flush(p))
  BY DEF FlushStep
<1>2. Inside' = Inside
  BY <1>1, AgeStep, FlushBufferStep DEF IntakeInv
<1>3. inHand' = inHand /\ handled' = handled
  BY <1>1 DEF BufferAges, Flush, fates
<1>4. Held' = Held
  BY <1>3 DEF Held
<1> QED
  BY <1>1, <1>2, <1>3, <1>4, QueueMoves

LEMMA WorkerQueueStep ==
    ASSUME IntakeInv, NEW w \in Workers, QueueStep(w), Types'
    PROVE  KeysInv'
<1> USE DEF IntakeInv, KeysInv
<1>1. UNCHANGED intakeVars
  BY DEF QueueStep
<1>2. CASE Get(w)
  <2>1. Inside' = Inside
    BY <1>2, GetStep
  <2>2. inHand[w] = {} /\ inHand' = [inHand EXCEPT ![w] = Head(queue)] /\ handled' = handled
    BY <1>2 DEF Get, QueueInv, Hands, fates
  <2>3. Held \subseteq Held'
    BY <2>2 DEF Held, QueueInv, TypeOK
  <2> QED
    BY <1>1, <2>1, <2>2, <2>3, QueueMoves
<1>3. CASE AcquireSemaphore(w)
  <2>1. Inside' = Inside
    BY <1>3, AcquireStep
  <2>2. inHand' = inHand /\ handled' = handled
    BY <1>3 DEF AcquireSemaphore, fates
  <2>3. Held' = Held
    BY <2>2 DEF Held
  <2> QED
    BY <1>1, <2>1, <2>2, <2>3, QueueMoves
<1>4. ASSUME NEW successful \in SUBSET inHand[w], Finish(w, successful) PROVE KeysInv'
  <2>1. Inside' = Inside \ inHand[w]
    BY <1>4, FinishStep
  <2>2. /\ step[w] = "running" /\ inHand' = [inHand EXCEPT ![w] = {}]
        /\ handled' = handled \cup inHand[w]
    BY <1>4 DEF Finish
  <2>3. Held \subseteq Held' \cup inHand[w]
    BY <2>2 DEF Held, QueueInv, TypeOK
  <2>4. \A m \in inHand[w] : Polled(m) => m \in reported
    BY <2>2 DEF QueueStep
  <2>5. ASSUME NEW q \in WantsFeedback, NEW m \in queued[q], m \in Inside, m \notin reported
        PROVE  m \in Inside'
    <3>1. Polled(m)
      BY OneSender DEF Polled
    <3> QED
      BY <2>1, <2>4, <2>5, <3>1
  <2> QED
    BY <1>1, <2>2, <2>3, <2>5, QueueMoves
<1> QED
  BY <1>2, <1>3, <1>4 DEF QueueStep, WorkerStep

\* The record of the image's sender is settled, so nobody waits for it.
LEMMA ReportStep ==
    ASSUME IntakeInv, NEW w \in Workers, NEW m \in Images, Report(w, m), Types'
    PROVE  KeysInv'
<1> USE DEF IntakeInv, KeysInv
<1> DEFINE e == EventOf[SenderOf(m)]
<1>1. /\ m \in inHand[w] /\ reported' = reported \cup {m}
      /\ record' = IF record[e] = "none" THEN record ELSE [record EXCEPT ![e] = "settled"]
      /\ UNCHANGED <<vars, answer, offered, queued, seen, pending, expired>>
  BY DEF Report
<1>2. /\ \A f \in Events : record'[f] = "none" <=> record[f] = "none"
      /\ \A f \in Events : record'[f] = "pending" => (record[f] = "pending" /\ f # e)
  <2> HIDE DEF e
  <2> QED
    BY <1>1 DEF Types
<1>3. Recorded' = Recorded
  BY <1>2 DEF Recorded
<1>4. Bounded' /\ Own' /\ Reservations' /\ Once'
  BY <1>1, <1>3 DEF Bounded, Own, Reservations, Adding, Once, Busy
<1>5. Kept'
  <2>1. \A q \in Requests : Busy(q)' <=> Busy(q)
    BY <1>1 DEF Busy
  <2> QED
    BY <1>1, <1>3, <2>1 DEF Kept
<1>6. DuplicateMeansAccepted'
  BY <1>1 DEF DuplicateMeansAccepted, Same
<1>7. ReportsAreOfTaken'
  <2>1. Held' = Held /\ handled' = handled /\ m \in Held
    BY <1>1 DEF Held, vars, fates
  <2> QED
    BY <1>1, <2>1 DEF ReportsAreOfTaken
<1>8. UnderWay'
  <2>1. Inside' = Inside
    BY <1>1 DEF Inside, Buffered, InBatches, Held, vars
  <2> SUFFICES ASSUME NEW f \in Events, record'[f] = "pending"
               PROVE  \E q \in WantsFeedback : EventOf[q] = f /\ Awaits(q)'
    BY DEF UnderWay
  <2>2. PICK q \in WantsFeedback : EventOf[q] = f /\ Awaits(q)
    BY <1>2 DEF UnderWay
  <2>3. m \notin queued[q]
    <3>1. m \in queued[q] => SenderOf(m) = q
      BY OneSender
    <3> QED
      BY <1>2, <2>2, <3>1
  <2>4. Awaits(q)'
    BY <1>1, <2>1, <2>2, <2>3 DEF Awaits
  <2> QED
    BY <2>2, <2>4
<1> QED
  BY <1>4, <1>5, <1>6, <1>7, <1>8

-----------------------------------------------------------------------------
(* Theorems.                                                                *)

LEMMA IntakeInvInit == IntakeInit => IntakeInv
<1> SUFFICES ASSUME IntakeInit PROVE IntakeInv
  OBVIOUS
<1>1. QueueInv /\ Types
  BY QueueInit, TypesInit DEF IntakeInit
<1>2. /\ Adding = {} /\ Recorded = {} /\ seen = {} /\ pending = {} /\ reported = {}
      /\ \A r \in Requests : queued[r] = {} /\ answer[r] = "unsent"
      /\ \A e \in Events : record[e] = "none"
  BY DEF IntakeInit, Adding, Recorded
<1>3. Bounded
  <2>1. IsFiniteSet({}) /\ Cardinality({}) = 0 /\ MaxEvents \in Nat
    BY FS_EmptySet
  <2> QED
    BY <1>2, <2>1 DEF Bounded
<1>4. Own /\ Reservations /\ Kept /\ DuplicateMeansAccepted /\ Once
  BY <1>2 DEF Own, Reservations, Kept, DuplicateMeansAccepted, Once, Busy
<1>5. ReportsAreOfTaken /\ UnderWay
  BY <1>2 DEF ReportsAreOfTaken, UnderWay
<1> QED
  BY <1>1, <1>3, <1>4, <1>5 DEF IntakeInv, KeysInv

LEMMA HandleStep ==
    ASSUME IntakeInv, NEW r \in Requests, Handle(r), QueueInv', Types'
    PROVE  KeysInv'
<1>1. CASE AnswerProcessing(r) \/ AnswerPending(r) \/ AnswerDuplicate(r)
           \/ RefuseCapacity(r) \/ AnswerEmpty(r)
  <2>1. PICK a \in Answers :
            /\ answer[r] = "unsent" /\ answer' = [answer EXCEPT ![r] = a]
            /\ UNCHANGED <<vars, offered, queued, pending, record, reported, expired>>
            /\ \/ UNCHANGED seen
               \/ a = "empty" /\ seen' = seen \cup {EventOf[r]}
            /\ a = "duplicate" => EventOf[r] \in seen \ pending
    BY <1>1 DEF AnswerProcessing, AnswerPending, AnswerDuplicate, RefuseCapacity, AnswerEmpty,
       New, Answer, Answers, keyVars
  <2> QED
    BY <2>1, AnswerStep
<1>2. CASE EndRequest(r) \/ Interrupt(r)
  <2>1. PICK a \in {"full", "accepted", "error"} :
            /\ answer[r] = "adding" /\ answer' = [answer EXCEPT ![r] = a]
            /\ Finally(r)
            /\ UNCHANGED <<vars, offered, queued, reported, expired>>
    BY <1>2 DEF EndRequest, Interrupt, Answer
  <2> QED
    BY <2>1, EndStep
<1> QED
  BY <1>1, <1>2, ReserveStep, OfferStep DEF Handle

LEMMA IntakeInvKept == IntakeInv /\ [IntakeNext]_allVars => IntakeInv'
<1> SUFFICES ASSUME IntakeInv, [IntakeNext]_allVars PROVE IntakeInv'
  OBVIOUS
<1>1. Types' /\ [Next]_vars
  BY TypesKept, QueueSide DEF IntakeInv, KeysInv
<1>2. QueueInv'
  BY <1>1, QueueKept DEF IntakeInv
<1>3. KeysInv'
  <2>1. CASE UNCHANGED allVars
    <3>1. UNCHANGED intakeVars /\ Held' = Held /\ Inside' = Inside /\ handled' = handled
      BY <2>1 DEF allVars, vars, fates, Held, Inside, Buffered, InBatches
    <3> QED
      BY <1>1, <3>1, QueueMoves
  <2>2. CASE IntakeNext
    BY <1>1, <1>2, <2>2, HandleStep, ForgetStep, FlusherStep, WorkerQueueStep, ReportStep
       DEF IntakeNext
  <2> QED
    BY <2>1, <2>2
<1> QED
  BY <1>2, <1>3 DEF IntakeInv

LEMMA IntakeSafe == IntakeSpec => []IntakeInv
  BY IntakeInvInit, IntakeInvKept, PTL DEF IntakeSpec

\* The variables of the intake keep their types, and at most MAX_EVENTS
\* feedback records are kept (processing_feedback.py, reserve).
THEOREM IntakeTypes == IntakeSpec => []IntakeTypeOK
<1>1. IntakeInv => IntakeTypeOK
  BY DEF IntakeInv, QueueInv, KeysInv, Types, Bounded, Recorded, IntakeTypeOK
<1> QED
  BY <1>1, IntakeSafe, PTL

\* "duplicate" is answered only for an event of which something was accepted,
\* or that had no image (webhook.py, _dedup_seen).
THEOREM DuplicatesWereAccepted == IntakeSpec => []DuplicateMeansAccepted
<1>1. IntakeInv => DuplicateMeansAccepted
  BY DEF IntakeInv, KeysInv
<1> QED
  BY <1>1, IntakeSafe, PTL

\* "Rejected/failed requests must remain retryable with the same event ID"
\* (webhook.py:640).
THEOREM RefusalsAreRetryable == IntakeSpec => []RefusedIsRetryable
<1>1. ASSUME IntakeInv PROVE RefusedIsRetryable
  <2> SUFFICES ASSUME NEW e \in seen \cup Recorded
               PROVE  \E q \in Requests : /\ EventOf[q] = e
                                          /\ queued[q] # {} \/ answer[q] \in {"adding", "empty"}
    BY DEF RefusedIsRetryable, Recorded
  <2>1. PICK q \in Requests : EventOf[q] = e /\ (Busy(q) \/ answer[q] = "empty")
    BY <1>1 DEF IntakeInv, KeysInv, Kept
  <2> QED
    BY <2>1 DEF Busy
<1> QED
  BY <1>1, IntakeSafe, PTL

\* No retry queues an event twice before its key expires (webhook.py,
\* _dedup_pending and the `finally' of the handler).
THEOREM EventsAreQueuedOnce == IntakeSpec => []QueuedOnce
<1>1. ASSUME IntakeInv PROVE QueuedOnce
  <2> SUFFICES ASSUME NEW e \in Events, <<"key", e>> \notin expired
               PROVE  Cardinality({q \in Requests : EventOf[q] = e /\ queued[q] # {}}) <= 1
    BY DEF QueuedOnce
  <2> DEFINE S == {q \in Requests : EventOf[q] = e /\ queued[q] # {}}
  <2>1. \A q, r \in S : q = r
    BY <1>1 DEF IntakeInv, KeysInv, Once, Busy
  <2> HIDE DEF S
  <2>2. S = {} \/ \E q \in S : S = {q}
    BY <2>1
  <2>3. Cardinality(S) \in {0, 1}
    <3>1. CASE S = {}
      BY <3>1, FS_EmptySet
    <3>2. ASSUME NEW q \in S, S = {q} PROVE Cardinality(S) = 1
      BY <3>2, FS_Singleton
    <3> QED
      BY <2>2, <3>1, <3>2
  <2> QED
    BY <2>3 DEF S
<1> QED
  BY <1>1, IntakeSafe, PTL

\* A record says "pending" only while its image is being added, or is inside
\* the queue and will be reported (processing_feedback.py, queue_worker.py).
THEOREM PendingMeansUnderWay == IntakeSpec => []PendingIsUnderWay
<1>1. ASSUME IntakeInv PROVE PendingIsUnderWay
  <2>1. UnderWay
    BY <1>1 DEF IntakeInv, KeysInv
  <2> QED
    BY <2>1 DEF UnderWay, Awaits, Inside, PendingIsUnderWay
<1> QED
  BY <1>1, IntakeSafe, PTL
=============================================================================
