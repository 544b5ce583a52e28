---------------------------- MODULE IngestQueue ----------------------------
(***************************************************************************)
(* The in-memory queue between the camera webhook and the recognition      *)
(* workers (backend/core/processing_queue.py, services/queue_worker.py).   *)
(* Accepted images are buffered per pipeline; a full or old buffer becomes *)
(* one batch of an asyncio queue; a worker takes a batch, gives back its   *)
(* share of the backpressure count, and processes it under a semaphore.    *)
(*                                                                         *)
(* add() and flush_batches() run under _batch_lock and never suspend while *)
(* they hold it, so each is one step.  Nobody ever waits for the lock, so  *)
(* get(), which takes a batch first and the lock second, is one step too.  *)
(***************************************************************************)
EXTENDS Naturals, Sequences, FiniteSets

CONSTANTS
    Images,         \* images offered by the webhook, each offered once
    Pipelines,      \* pipeline ids
    Workers,        \* QUEUE_WORKERS
    MaxSize,        \* MAX_QUEUE_SIZE: images, and batches of the queue
    BatchSize,      \* PIPELINE_BATCH_SIZE
    MaxConcurrent   \* MAX_CONCURRENT_REQUESTS

ASSUME QueueAssumption ==
    /\ IsFiniteSet(Images)
    /\ MaxSize \in Nat \ {0}
    /\ BatchSize \in Nat \ {0}
    /\ MaxConcurrent \in Nat \ {0}

VARIABLES
    buffer,             \* pipeline_batches: images of each pipeline
    old,                \* pipelines whose buffer passed batch_timeout
    queue,              \* asyncio.Queue of batches
    pending_items,      \* images buffered or queued, by count
    step,               \* progress of each worker
    inHand,             \* the batch each worker holds
    total_received, total_processed, total_skipped, processing_count,
    refused,            \* images add() answered False
    dropped,            \* images lost to a full asyncio queue
    handled             \* images whose processing ended

accounts == <<pending_items, total_received, total_processed, total_skipped,
              processing_count>>
fates == <<refused, dropped, handled>>
vars == <<buffer, old, queue, step, inHand, accounts, fates>>

InBatches == UNION {queue[i] : i \in DOMAIN queue}
Buffered == UNION {buffer[p] : p \in Pipelines}
Held == UNION {inHand[w] : w \in Workers}

Seen == InBatches \cup Buffered \cup Held \cup refused \cup dropped \cup handled

TypeOK ==
    /\ buffer \in [Pipelines -> SUBSET Images]
    /\ old \subseteq Pipelines
    /\ queue \in Seq((SUBSET Images) \ {{}})
    /\ step \in [Workers -> {"waiting", "ready", "running"}]
    /\ inHand \in [Workers -> SUBSET Images]
    /\ pending_items \in Nat
    /\ total_received \in Nat /\ total_processed \in Nat
    /\ total_skipped \in Nat /\ processing_count \in Nat
    /\ refused \subseteq Images /\ dropped \subseteq Images
    /\ handled \subseteq Images

Init ==
    /\ buffer = [p \in Pipelines |-> {}]
    /\ old = {}
    /\ queue = <<>>
    /\ step = [w \in Workers |-> "waiting"]
    /\ inHand = [w \in Workers |-> {}]
    /\ pending_items = 0
    /\ total_received = 0 /\ total_processed = 0
    /\ total_skipped = 0 /\ processing_count = 0
    /\ refused = {} /\ dropped = {} /\ handled = {}

-----------------------------------------------------------------------------
\* Seeded fault: one image too many.
FullLate == pending_items > MaxSize

\* The bound of add(): images counted, not batches.
Full == pending_items >= MaxSize

\* put_nowait of one batch, with `counted` images in pending_items by now;
\* asyncio.QueueFull drops the batch and takes it off the count.
Put(batch, counted, skipped) ==
    IF Len(queue) < MaxSize
    THEN /\ queue' = Append(queue, batch)
         /\ pending_items' = counted
         /\ total_skipped' = skipped
         /\ UNCHANGED dropped
    ELSE /\ UNCHANGED queue
         /\ pending_items' = counted - Cardinality(batch)
         /\ total_skipped' = skipped + Cardinality(batch)
         /\ dropped' = dropped \cup batch

AddRefused(m) ==
    /\ m \notin Seen
    /\ Full
    /\ refused' = refused \cup {m}
    /\ total_skipped' = total_skipped + 1
    /\ UNCHANGED <<buffer, old, queue, step, inHand, pending_items,
                   total_received, total_processed, processing_count,
                   dropped, handled>>

\* The image joins its buffer, which is flushed when full or old.  The buffer
\* of a first image starts its clock now, so it is not old.
Add(m, p) ==
    /\ m \notin Seen
    /\ ~Full
    /\ total_received' = total_received + 1
    /\ LET batch == buffer[p] \cup {m}
       IN  IF Cardinality(batch) >= BatchSize \/ p \in old
           THEN /\ Put(batch, pending_items + 1, total_skipped)
                /\ buffer' = [buffer EXCEPT ![p] = {}]
                /\ old' = old \ {p}
           ELSE /\ buffer' = [buffer EXCEPT ![p] = batch]
                /\ pending_items' = pending_items + 1
                /\ UNCHANGED <<old, queue, total_skipped, dropped>>
    /\ UNCHANGED <<step, inHand, total_processed, processing_count, refused,
                   handled>>

BufferAges(p) ==
    /\ buffer[p] # {} /\ p \notin old
    /\ old' = old \cup {p}
    /\ UNCHANGED <<buffer, queue, step, inHand, accounts, fates>>

\* Seeded fault: flush_batches waits for full buffers.
FlushFullOnly(p) ==
    /\ Cardinality(buffer[p]) >= BatchSize
    /\ Put(buffer[p], pending_items, total_skipped)
    /\ buffer' = [buffer EXCEPT ![p] = {}]
    /\ old' = old \ {p}
    /\ UNCHANGED <<step, inHand, total_received, total_processed,
                   processing_count, refused, handled>>

\* flush_batches, once for each old buffer it finds under the lock: the
\* periodic flusher may see the others old only at its next turn.
Flush(p) ==
    /\ p \in old /\ buffer[p] # {}
    /\ Put(buffer[p], pending_items, total_skipped)
    /\ buffer' = [buffer EXCEPT ![p] = {}]
    /\ old' = old \ {p}
    /\ UNCHANGED <<step, inHand, total_received, total_processed,
                   processing_count, refused, handled>>

-----------------------------------------------------------------------------
\* Seeded fault: a batch is given back as one item.
GetCountsOne(w) ==
    /\ step[w] = "waiting"
    /\ queue # <<>>
    /\ inHand' = [inHand EXCEPT ![w] = Head(queue)]
    /\ queue' = Tail(queue)
    /\ pending_items' = IF pending_items >= 1 THEN pending_items - 1 ELSE 0
    /\ step' = [step EXCEPT ![w] = "ready"]
    /\ UNCHANGED <<buffer, old, total_received, total_processed, total_skipped,
                   processing_count, fates>>

\* get(): a batch leaves the queue and its images the count, which never goes
\* below zero.
Get(w) ==
    /\ step[w] = "waiting"
    /\ queue # <<>>
    /\ inHand' = [inHand EXCEPT ![w] = Head(queue)]
    /\ queue' = Tail(queue)
    /\ LET n == Cardinality(Head(queue))
       IN  pending_items' = IF pending_items >= n THEN pending_items - n ELSE 0
    /\ step' = [step EXCEPT ![w] = "ready"]
    /\ UNCHANGED <<buffer, old, total_received, total_processed, total_skipped,
                   processing_count, fates>>

AcquireSemaphore(w) ==
    /\ step[w] = "ready"
    /\ Cardinality({v \in Workers : step[v] = "running"}) < MaxConcurrent
    /\ step' = [step EXCEPT ![w] = "running"]
    /\ processing_count' = processing_count + 1
    /\ UNCHANGED <<buffer, old, queue, inHand, pending_items, total_received,
                   total_processed, total_skipped, fates>>

\* Seeded fault: the images of the batch that failed are not counted.
FinishForgetsFailed(w, successful) ==
    /\ step[w] = "running"
    /\ successful \subseteq inHand[w]
    /\ total_processed' = total_processed + Cardinality(successful)
    /\ processing_count' = processing_count - 1
    /\ handled' = handled \cup inHand[w]
    /\ inHand' = [inHand EXCEPT ![w] = {}]
    /\ step' = [step EXCEPT ![w] = "waiting"]
    /\ UNCHANGED <<buffer, old, queue, pending_items, total_received,
                   total_skipped, refused, dropped>>

\* gather(return_exceptions=True): any part of the batch may succeed.
Finish(w, successful) ==
    /\ step[w] = "running"
    /\ successful \subseteq inHand[w]
    /\ total_processed' = total_processed + Cardinality(successful)
    /\ total_skipped' = total_skipped + Cardinality(inHand[w] \ successful)
    /\ processing_count' = processing_count - 1
    /\ handled' = handled \cup inHand[w]
    /\ inHand' = [inHand EXCEPT ![w] = {}]
    /\ step' = [step EXCEPT ![w] = "waiting"]
    /\ UNCHANGED <<buffer, old, queue, pending_items, total_received, refused,
                   dropped>>

WorkerStep(w) ==
    \/ Get(w) \/ AcquireSemaphore(w)
    \/ \E successful \in SUBSET inHand[w] : Finish(w, successful)

Next ==
    \/ \E m \in Images : AddRefused(m) \/ \E p \in Pipelines : Add(m, p)
    \/ \E p \in Pipelines : BufferAges(p) \/ Flush(p)
    \/ \E w \in Workers : WorkerStep(w)

Spec == Init /\ [][Next]_vars

-----------------------------------------------------------------------------
\* The backpressure count is exact: the images buffered or queued.  No path
\* leaks or counts twice, so the clamp at zero in get() never hides a mistake.
PendingExact == pending_items = Cardinality(Buffered \cup InBatches)

\* processing_queue.py:106: an image add() answered True for is never dropped
\* at flush time, because the bound on images is at least as strict as the
\* bound on batches.
AcceptedNeverDropped == dropped = {}

\* Every image received is in the queue, in a worker's hands, or in the
\* totals; total_skipped also counts the refused ones, which total_received
\* does not.
TotalsAddUp ==
    /\ total_received + Cardinality(refused) =
           Cardinality(Buffered \cup InBatches \cup Held)
           + total_processed + total_skipped
    /\ processing_count = Cardinality({w \in Workers : step[w] = "running"})
=============================================================================
