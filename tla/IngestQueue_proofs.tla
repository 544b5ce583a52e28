------------------------- MODULE IngestQueue_proofs -------------------------
(***************************************************************************)
(* Proofs about IngestQueue, for any number of images, pipelines and       *)
(* workers and any sizes.  An image is in one place at a time (Apart), so  *)
(* the sets can be counted; the backpressure count is exact, so the bound  *)
(* on images bounds the batches, and no batch meets a full queue.          *)
(***************************************************************************)
EXTENDS IngestQueue, FiniteSetTheorems, TLAPS

USE QueueAssumption

\* An image is in one buffer, one batch of the queue or one worker's hands.
Apart ==
    /\ \A p, q \in Pipelines : p # q => buffer[p] \cap buffer[q] = {}
    /\ \A i, j \in DOMAIN queue : i # j => queue[i] \cap queue[j] = {}
    /\ \A v, w \in Workers : v # w => inHand[v] \cap inHand[w] = {}
    /\ Buffered \cap InBatches = {}
    /\ (Buffered \cup InBatches) \cap Held = {}

\* A waiting worker holds nothing, and finitely many are past the semaphore.
Hands ==
    /\ \A w \in Workers : step[w] = "waiting" => inHand[w] = {}
    /\ IsFiniteSet({w \in Workers : step[w] = "running"})

QueueInv ==
    /\ TypeOK
    /\ Apart
    /\ Hands
    /\ PendingExact /\ pending_items <= MaxSize
    /\ AcceptedNeverDropped
    /\ TotalsAddUp

-----------------------------------------------------------------------------
(* Counting.                                                                *)

LEMMA ImagesAreFinite ==
    ASSUME NEW S \in SUBSET Images
    PROVE  IsFiniteSet(S) /\ Cardinality(S) \in Nat
  BY FS_Subset, FS_CardinalityType

LEMMA CountOneMore ==
    ASSUME NEW S \in SUBSET Images, NEW m \in Images, m \notin S
    PROVE  Cardinality(S \cup {m}) = Cardinality(S) + 1
  BY ImagesAreFinite, FS_AddElement

LEMMA CountFewer ==
    ASSUME NEW S \in SUBSET Images, NEW T \in SUBSET S
    PROVE  /\ Cardinality(T) <= Cardinality(S)
           /\ Cardinality(S \ T) = Cardinality(S) - Cardinality(T)
           /\ T # {} => Cardinality(T) > 0
<1>1. IsFiniteSet(S) /\ IsFiniteSet(T) /\ Cardinality(S) \in Nat /\ Cardinality(T) \in Nat
  BY ImagesAreFinite
<1>2. Cardinality(T) <= Cardinality(S)
  BY <1>1, FS_Subset
<1>3. Cardinality(S \ T) = Cardinality(S) - Cardinality(S \cap T)
  BY <1>1, FS_Difference
<1>4. S \cap T = T
  OBVIOUS
<1>5. T # {} => Cardinality(T) # 0
  BY <1>1, FS_EmptySet
<1> QED
  BY <1>1, <1>2, <1>3, <1>4, <1>5

-----------------------------------------------------------------------------
(* Sequences of batches.                                                    *)

Batches == (SUBSET Images) \ {{}}
ImagesIn(q) == UNION {q[i] : i \in DOMAIN q}
Disjoint(q) == \A i, j \in DOMAIN q : i # j => q[i] \cap q[j] = {}

\* put_nowait: the images of the batch join, and the batches stay apart.
LEMMA BatchJoins ==
    ASSUME NEW q \in Seq(Batches), Disjoint(q),
           NEW batch \in Batches, batch \cap ImagesIn(q) = {}
    PROVE  /\ Append(q, batch) \in Seq(Batches)
           /\ Disjoint(Append(q, batch))
           /\ ImagesIn(Append(q, batch)) = ImagesIn(q) \cup batch
<1>1. /\ Len(q) \in Nat /\ DOMAIN q = 1 .. Len(q)
      /\ DOMAIN Append(q, batch) = 1 .. Len(q) + 1
      /\ Append(q, batch)[Len(q) + 1] = batch
      /\ \A i \in 1 .. Len(q) : Append(q, batch)[i] = q[i]
  OBVIOUS
<1>2. \A i \in 1 .. Len(q) : q[i] \cap batch = {}
  BY <1>1 DEF ImagesIn
<1>3. Disjoint(Append(q, batch))
  BY <1>1, <1>2 DEF Disjoint
<1>4. ImagesIn(Append(q, batch)) = ImagesIn(q) \cup batch
  <2>1. ImagesIn(Append(q, batch)) \subseteq ImagesIn(q) \cup batch
    BY <1>1 DEF ImagesIn
  <2>2. ImagesIn(q) \subseteq ImagesIn(Append(q, batch))
    BY <1>1 DEF ImagesIn
  <2>3. batch \subseteq ImagesIn(Append(q, batch))
    <3>1. Len(q) + 1 \in DOMAIN Append(q, batch)
      BY <1>1
    <3> QED
      BY <1>1, <3>1 DEF ImagesIn
  <2> QED
    BY <2>1, <2>2, <2>3
<1> QED
  BY <1>3, <1>4

\* queue.get(): the images of the first batch leave.
LEMMA BatchLeaves ==
    ASSUME NEW q \in Seq(Batches), Disjoint(q), q # <<>>
    PROVE  /\ Tail(q) \in Seq(Batches)
           /\ Disjoint(Tail(q))
           /\ Head(q) \in Batches /\ Head(q) \subseteq ImagesIn(q)
           /\ ImagesIn(Tail(q)) = ImagesIn(q) \ Head(q)
<1>1. /\ Len(q) \in Nat \ {0} /\ DOMAIN q = 1 .. Len(q)
      /\ DOMAIN Tail(q) = 1 .. Len(q) - 1
      /\ \A i \in 1 .. Len(q) - 1 : Tail(q)[i] = q[i + 1]
      /\ Head(q) = q[1] /\ 1 \in DOMAIN q
      /\ Tail(q) \in Seq(Batches)
  OBVIOUS
<1>2. Head(q) \in Batches /\ Head(q) \subseteq ImagesIn(q)
  BY <1>1 DEF ImagesIn
<1>3. Disjoint(Tail(q))
  BY <1>1 DEF Disjoint
<1>4. ImagesIn(Tail(q)) \subseteq ImagesIn(q) \ Head(q)
  <2> SUFFICES ASSUME NEW i \in 1 .. Len(q) - 1, NEW m \in q[i + 1]
               PROVE  m \in ImagesIn(q) \ Head(q)
    BY <1>1 DEF ImagesIn
  <2>1. i + 1 \in DOMAIN q /\ i + 1 # 1
    BY <1>1
  <2> QED
    BY <1>1, <2>1 DEF ImagesIn, Disjoint
<1>5. ImagesIn(q) \ Head(q) \subseteq ImagesIn(Tail(q))
  <2> SUFFICES ASSUME NEW i \in DOMAIN q, NEW m \in q[i], m \notin Head(q)
               PROVE  m \in ImagesIn(Tail(q))
    BY DEF ImagesIn
  <2>1. i - 1 \in DOMAIN Tail(q) /\ Tail(q)[i - 1] = q[i]
    BY <1>1
  <2> QED
    BY <2>1 DEF ImagesIn
<1> QED
  BY <1>1, <1>2, <1>3, <1>4, <1>5

\* There are no more batches than images in them.
LEMMA BatchesAreFewer ==
    ASSUME NEW q \in Seq(Batches), Disjoint(q)
    PROVE  /\ ImagesIn(q) \in SUBSET Images
           /\ Len(q) <= Cardinality(ImagesIn(q))
<1> DEFINE first == [i \in 1 .. Len(q) |-> CHOOSE m \in q[i] : TRUE]
<1>1. Len(q) \in Nat /\ DOMAIN q = 1 .. Len(q)
  OBVIOUS
<1>2. ASSUME NEW i \in 1 .. Len(q) PROVE first[i] \in q[i] /\ q[i] \subseteq ImagesIn(q)
  <2>1. q[i] \in Batches
    BY <1>1
  <2>2. \E m \in q[i] : TRUE
    BY <2>1 DEF Batches
  <2> QED
    BY <1>1, <2>2 DEF ImagesIn
<1>3. ImagesIn(q) \in SUBSET Images
  BY <1>1 DEF ImagesIn, Batches
<1>4. first \in Injection(1 .. Len(q), ImagesIn(q))
  <2>1. first \in [1 .. Len(q) -> ImagesIn(q)]
    BY <1>2
  <2>2. ASSUME NEW i \in 1 .. Len(q), NEW j \in 1 .. Len(q), first[i] = first[j] PROVE i = j
    BY <1>1, <1>2, <2>2 DEF Disjoint
  <2> HIDE DEF first
  <2> QED
    BY <2>1, <2>2 DEF Injection, IsInjective
<1>5. Cardinality(1 .. Len(q)) <= Cardinality(ImagesIn(q))
  BY <1>3, <1>4, ImagesAreFinite, FS_Injection
<1>6. Cardinality(1 .. Len(q)) = Len(q)
  <2>1. Len(q) \in Int /\ 1 \in Int /\ (1 > Len(q) => Len(q) = 0)
    BY <1>1
  <2> QED
    BY <1>1, <2>1, FS_Interval
<1> QED
  BY <1>3, <1>5, <1>6

-----------------------------------------------------------------------------
(* Where the images are.                                                    *)

Counted == Buffered \cup InBatches
Inside == Buffered \cup InBatches \cup Held

\* The places hold images, a queue's batches fit their images, and whoever
\* puts a batch finds room while less than MaxSize images are queued.
LEMMA Places ==
    ASSUME QueueInv
    PROVE  /\ Buffered \in SUBSET Images /\ InBatches \in SUBSET Images
           /\ Held \in SUBSET Images
           /\ Counted \in SUBSET Images /\ Inside \in SUBSET Images
           /\ InBatches = ImagesIn(queue) /\ queue \in Seq(Batches) /\ Disjoint(queue)
           /\ Len(queue) <= Cardinality(InBatches)
           /\ pending_items = Cardinality(Counted)
<1>1. queue \in Seq(Batches) /\ Disjoint(queue) /\ InBatches = ImagesIn(queue)
  BY DEF QueueInv, TypeOK, Apart, Batches, Disjoint, InBatches, ImagesIn
<1>2. InBatches \in SUBSET Images /\ Len(queue) <= Cardinality(InBatches)
  BY <1>1, BatchesAreFewer
<1>3. Buffered \in SUBSET Images
  BY DEF QueueInv, TypeOK, Buffered
<1>4. Held \in SUBSET Images
  BY DEF QueueInv, TypeOK, Held
<1>5. pending_items = Cardinality(Counted)
  BY DEF QueueInv, PendingExact, Counted
<1> QED
  BY <1>1, <1>2, <1>3, <1>4, <1>5 DEF Counted, Inside

\* A buffer is replaced.
LEMMA BufferChanges ==
    ASSUME TypeOK, Apart, NEW p \in Pipelines, NEW B \in SUBSET Images,
           B \cap Buffered \subseteq buffer[p], buffer' = [buffer EXCEPT ![p] = B]
    PROVE  /\ Buffered' = (Buffered \ buffer[p]) \cup B
           /\ buffer[p] \subseteq Buffered
           /\ buffer' \in [Pipelines -> SUBSET Images]
           /\ \A q, r \in Pipelines : q # r => buffer'[q] \cap buffer'[r] = {}
<1> USE DEF TypeOK
<1>1. buffer'[p] = B /\ \A q \in Pipelines \ {p} : buffer'[q] = buffer[q]
  OBVIOUS
<1>2. \A q \in Pipelines : buffer[q] \subseteq Buffered
  BY DEF Buffered
<1>3. \A q \in Pipelines \ {p} : buffer[q] \cap B = {} /\ buffer[q] \cap buffer[p] = {}
  BY <1>2 DEF Apart
<1>4. Buffered' = (Buffered \ buffer[p]) \cup B
  <2>1. ASSUME NEW x \in Buffered' PROVE x \in (Buffered \ buffer[p]) \cup B
    <3>1. PICK q \in Pipelines : x \in buffer'[q]
      BY <2>1 DEF Buffered
    <3> QED
      BY <1>1, <1>2, <1>3, <3>1
  <2>2. ASSUME NEW x \in (Buffered \ buffer[p]) \cup B PROVE x \in Buffered'
    <3>1. CASE x \in B
      BY <1>1, <3>1 DEF Buffered
    <3>2. CASE x \in Buffered \ buffer[p]
      BY <1>1, <3>2 DEF Buffered
    <3> QED
      BY <2>2, <3>1, <3>2
  <2> QED
    BY <2>1, <2>2
<1>5. \A q, r \in Pipelines : q # r => buffer'[q] \cap buffer'[r] = {}
  BY <1>1, <1>3 DEF Apart
<1> QED
  BY <1>2, <1>4, <1>5

\* A worker's hands take a batch or are emptied.
LEMMA HandChanges ==
    ASSUME TypeOK, Apart, NEW w \in Workers, NEW B \in SUBSET Images,
           B \cap Held = {}, inHand' = [inHand EXCEPT ![w] = B]
    PROVE  /\ Held' = (Held \ inHand[w]) \cup B
           /\ inHand[w] \subseteq Held
           /\ inHand' \in [Workers -> SUBSET Images]
           /\ \A u, v \in Workers : u # v => inHand'[u] \cap inHand'[v] = {}
<1> USE DEF TypeOK
<1>1. inHand'[w] = B /\ \A v \in Workers \ {w} : inHand'[v] = inHand[v]
  OBVIOUS
<1>2. \A v \in Workers : inHand[v] \subseteq Held
  BY DEF Held
<1>3. \A v \in Workers \ {w} : inHand[v] \cap B = {} /\ inHand[v] \cap inHand[w] = {}
  BY <1>2 DEF Apart
<1>4. Held' = (Held \ inHand[w]) \cup B
  <2>1. ASSUME NEW x \in Held' PROVE x \in (Held \ inHand[w]) \cup B
    <3>1. PICK v \in Workers : x \in inHand'[v]
      BY <2>1 DEF Held
    <3> QED
      BY <1>1, <1>2, <1>3, <3>1
  <2>2. ASSUME NEW x \in (Held \ inHand[w]) \cup B PROVE x \in Held'
    <3>1. CASE x \in B
      BY <1>1, <3>1 DEF Held
    <3>2. CASE x \in Held \ inHand[w]
      BY <1>1, <3>2 DEF Held
    <3> QED
      BY <2>2, <3>1, <3>2
  <2> QED
    BY <2>1, <2>2
<1>5. \A u, v \in Workers : u # v => inHand'[u] \cap inHand'[v] = {}
  BY <1>1, <1>3 DEF Apart
<1> QED
  BY <1>2, <1>4, <1>5

-----------------------------------------------------------------------------
(* The steps.                                                               *)

\* A buffer, with the image just added if any, becomes a batch: there is room.
LEMMA PutStep ==
    ASSUME QueueInv, NEW p \in Pipelines, NEW more \in SUBSET Images,
           more \cap Inside = {}, buffer[p] \cup more # {},
           NEW counted, NEW skipped, Put(buffer[p] \cup more, counted, skipped),
           Cardinality(InBatches) < MaxSize,
           buffer' = [buffer EXCEPT ![p] = {}], UNCHANGED <<inHand, step>>
    PROVE  /\ queue' \in Seq(Batches)
           /\ buffer' \in [Pipelines -> SUBSET Images]
           /\ Apart'
           /\ Counted' = Counted \cup more /\ Inside' = Inside \cup more
           /\ pending_items' = counted /\ total_skipped' = skipped /\ dropped' = dropped
<1>1. /\ Len(queue) < MaxSize
      /\ buffer[p] \cup more \in Batches
      /\ (buffer[p] \cup more) \cap InBatches = {}
  <2>1. Len(queue) \in Nat /\ Cardinality(InBatches) \in Nat
    BY Places, ImagesAreFinite
  <2>2. buffer[p] \subseteq Buffered /\ buffer[p] \subseteq Images
    BY DEF Buffered, QueueInv, TypeOK
  <2> QED
    BY <2>1, <2>2, Places DEF Batches, Inside, QueueInv, Apart
<1>2. /\ queue' = Append(queue, buffer[p] \cup more)
      /\ pending_items' = counted /\ total_skipped' = skipped /\ dropped' = dropped
  BY <1>1 DEF Put
<1>3. /\ queue' \in Seq(Batches) /\ Disjoint(queue')
      /\ ImagesIn(queue') = InBatches \cup buffer[p] \cup more
  <2> DEFINE batch == buffer[p] \cup more
  <2>1. /\ queue \in Seq(Batches) /\ Disjoint(queue) /\ InBatches = ImagesIn(queue)
        /\ batch \in Batches /\ batch \cap ImagesIn(queue) = {}
    BY <1>1, Places
  <2>2. /\ queue' = Append(queue, batch)
        /\ ImagesIn(queue) \cup batch = InBatches \cup buffer[p] \cup more
    BY <1>2, <2>1
  <2> HIDE DEF batch
  <2>3. /\ Append(queue, batch) \in Seq(Batches)
        /\ Disjoint(Append(queue, batch))
        /\ ImagesIn(Append(queue, batch)) = ImagesIn(queue) \cup batch
    BY <2>1, BatchJoins
  <2> QED
    BY <2>2, <2>3
<1>4. /\ Buffered' = Buffered \ buffer[p] /\ buffer[p] \subseteq Buffered
      /\ buffer' \in [Pipelines -> SUBSET Images]
      /\ \A q, r \in Pipelines : q # r => buffer'[q] \cap buffer'[r] = {}
  <2>1. TypeOK /\ Apart /\ {} \in SUBSET Images /\ {} \cap Buffered \subseteq buffer[p]
    BY DEF QueueInv
  <2>2. (Buffered \ buffer[p]) \cup {} = Buffered \ buffer[p]
    OBVIOUS
  <2> QED
    BY <2>1, <2>2, BufferChanges
<1>5. Held' = Held
  BY DEF Held
<1>6. InBatches' = InBatches \cup buffer[p] \cup more
  BY <1>3 DEF InBatches, ImagesIn
<1>7. Apart'
  BY <1>3, <1>4, <1>5, <1>6 DEF Apart, Disjoint, QueueInv, Inside
<1> QED
  BY <1>2, <1>3, <1>4, <1>5, <1>6, <1>7 DEF Counted, Inside

LEMMA AddRefusedStep ==
    ASSUME QueueInv, NEW m \in Images, AddRefused(m) PROVE QueueInv' /\ Inside' = Inside
<1>1. UNCHANGED <<buffer, queue, step, inHand, pending_items, dropped, total_received,
                  total_processed, processing_count>>
  BY DEF AddRefused
<1>2. UNCHANGED <<Buffered, InBatches, Held>>
  BY <1>1 DEF Buffered, InBatches, Held
<1>3. /\ Cardinality(refused') = Cardinality(refused) + 1
      /\ total_skipped' = total_skipped + 1 /\ refused' \subseteq Images
  BY CountOneMore DEF AddRefused, Seen, QueueInv, TypeOK
<1>4. TypeOK'
  BY <1>1, <1>3 DEF QueueInv, TypeOK, AddRefused
<1>5. TotalsAddUp'
  <2>1. /\ Cardinality(refused) \in Nat /\ Cardinality(Inside) \in Nat
        /\ total_received \in Nat /\ total_processed \in Nat /\ total_skipped \in Nat
    BY Places, ImagesAreFinite DEF QueueInv, TypeOK
  <2> QED
    BY <1>1, <1>2, <1>3, <2>1 DEF QueueInv, TotalsAddUp, Inside
<1>6. Apart' /\ Hands' /\ PendingExact' /\ AcceptedNeverDropped'
  BY <1>1, <1>2 DEF QueueInv, Apart, Hands, PendingExact, AcceptedNeverDropped
<1> QED
  BY <1>1, <1>2, <1>4, <1>5, <1>6 DEF QueueInv, Inside

\* The image is counted once, whether it waits in its buffer or is flushed.
LEMMA AddStep ==
    ASSUME QueueInv, NEW m \in Images, NEW p \in Pipelines, Add(m, p)
    PROVE  QueueInv' /\ Inside' = Inside \cup {m}
<1>1. /\ m \notin Inside /\ m \notin Counted
      /\ pending_items < MaxSize
  BY Places DEF Add, Seen, Full, Inside, QueueInv, TypeOK, Counted
<1>2. /\ UNCHANGED <<step, inHand, total_processed, processing_count, refused, handled>>
      /\ total_received' = total_received + 1
  BY DEF Add
<1>3. /\ queue' \in Seq(Batches)
      /\ buffer' \in [Pipelines -> SUBSET Images]
      /\ old' \subseteq Pipelines
      /\ Apart'
      /\ Counted' = Counted \cup {m} /\ Inside' = Inside \cup {m}
      /\ pending_items' = pending_items + 1 /\ UNCHANGED <<total_skipped, dropped>>
  <2>1. CASE Cardinality(buffer[p] \cup {m}) >= BatchSize \/ p \in old
    <3>1. Cardinality(InBatches) < MaxSize
      <4>1. Cardinality(InBatches) <= Cardinality(Counted)
        BY Places, CountFewer DEF Counted
      <4> QED
        BY <1>1, <4>1, Places, ImagesAreFinite
    <3>2. /\ Put(buffer[p] \cup {m}, pending_items + 1, total_skipped)
          /\ buffer' = [buffer EXCEPT ![p] = {}]
          /\ old' \subseteq Pipelines
      BY <2>1 DEF Add, QueueInv, TypeOK
    <3> QED
      BY <1>1, <1>2, <3>1, <3>2, PutStep
  <2>2. CASE ~(Cardinality(buffer[p] \cup {m}) >= BatchSize \/ p \in old)
    <3>1. /\ buffer' = [buffer EXCEPT ![p] = buffer[p] \cup {m}]
          /\ pending_items' = pending_items + 1
          /\ UNCHANGED <<old, queue, total_skipped, dropped>>
      BY <2>2 DEF Add
    <3>2. /\ Buffered' = Buffered \cup {m}
          /\ buffer' \in [Pipelines -> SUBSET Images]
          /\ \A q, r \in Pipelines : q # r => buffer'[q] \cap buffer'[r] = {}
      <4>1. /\ buffer[p] \cup {m} \in SUBSET Images
            /\ (buffer[p] \cup {m}) \cap Buffered \subseteq buffer[p]
        BY <1>1 DEF QueueInv, TypeOK, Inside
      <4>2. TypeOK /\ Apart
        BY DEF QueueInv
      <4>3. /\ Buffered' = (Buffered \ buffer[p]) \cup (buffer[p] \cup {m})
            /\ buffer[p] \subseteq Buffered
            /\ buffer' \in [Pipelines -> SUBSET Images]
            /\ \A q, r \in Pipelines : q # r => buffer'[q] \cap buffer'[r] = {}
        BY <3>1, <4>1, <4>2, BufferChanges
      <4> QED
        BY <4>3
    <3>3. Held' = Held /\ InBatches' = InBatches
      BY <1>2, <3>1 DEF Held, InBatches
    <3>4. Apart'
      BY <1>1, <1>2, <3>1, <3>2, <3>3 DEF Apart, QueueInv, Inside
    <3> QED
      BY <3>1, <3>2, <3>3, <3>4, Places DEF Counted, Inside, QueueInv, TypeOK
  <2> QED
    BY <2>1, <2>2
<1>4. /\ Cardinality(Counted') = Cardinality(Counted) + 1
      /\ Cardinality(Inside') = Cardinality(Inside) + 1
  BY <1>1, <1>3, Places, CountOneMore
<1>5. /\ Cardinality(Counted) \in Nat /\ Cardinality(Inside) \in Nat
      /\ Cardinality(refused) \in Nat /\ MaxSize \in Nat
      /\ pending_items \in Nat /\ total_received \in Nat
      /\ total_processed \in Nat /\ total_skipped \in Nat
  BY Places, ImagesAreFinite DEF QueueInv, TypeOK
<1>6. TypeOK'
  BY <1>2, <1>3, <1>5 DEF QueueInv, TypeOK, Batches
<1>7. PendingExact' /\ pending_items' <= MaxSize /\ AcceptedNeverDropped'
  BY <1>1, <1>3, <1>4, <1>5, Places DEF PendingExact, Counted, QueueInv, AcceptedNeverDropped
<1>8. TotalsAddUp'
  <2>1. total_received' + Cardinality(refused') =
           Cardinality(Inside') + total_processed' + total_skipped'
    <3>1. total_received + Cardinality(refused) =
             Cardinality(Inside) + total_processed + total_skipped
      BY DEF QueueInv, TotalsAddUp, Inside
    <3>2. /\ total_received' = total_received + 1
          /\ UNCHANGED <<total_processed, total_skipped, refused>>
      BY <1>2, <1>3
    <3> QED
      BY <1>4, <1>5, <3>1, <3>2
  <2>2. processing_count' = Cardinality({v \in Workers : step'[v] = "running"})
    BY <1>2 DEF QueueInv, TotalsAddUp
  <2> QED
    BY <2>1, <2>2 DEF TotalsAddUp, Inside
<1>9. Hands'
  BY <1>2 DEF QueueInv, Hands
<1> QED
  BY <1>3, <1>6, <1>7, <1>8, <1>9 DEF QueueInv

LEMMA NothingMoves ==
    ASSUME QueueInv, old' \subseteq Pipelines,
           UNCHANGED <<buffer, queue, step, inHand, accounts, fates>>
    PROVE  QueueInv' /\ Inside' = Inside
<1>1. UNCHANGED <<Buffered, InBatches, Held>>
  BY DEF Buffered, InBatches, Held
<1>2. /\ UNCHANGED <<pending_items, total_received, total_processed, total_skipped>>
      /\ UNCHANGED <<processing_count, refused, dropped, handled>>
  BY DEF accounts, fates
<1>3. TypeOK'
  BY <1>2 DEF QueueInv, TypeOK
<1>4. Apart' /\ Hands'
  BY <1>1 DEF QueueInv, Apart, Hands
<1>5. PendingExact' /\ pending_items' <= MaxSize /\ AcceptedNeverDropped'
  BY <1>1, <1>2 DEF QueueInv, PendingExact, AcceptedNeverDropped
<1>6. TotalsAddUp'
  BY <1>1, <1>2 DEF QueueInv, TotalsAddUp
<1> QED
  BY <1>1, <1>3, <1>4, <1>5, <1>6 DEF QueueInv, Inside

LEMMA AgeStep ==
    ASSUME QueueInv, NEW p \in Pipelines, BufferAges(p)
    PROVE  QueueInv' /\ Inside' = Inside
  BY NothingMoves DEF BufferAges, QueueInv, TypeOK

LEMMA FlushBufferStep ==
    ASSUME QueueInv, NEW p \in Pipelines, Flush(p)
    PROVE  QueueInv' /\ Inside' = Inside
<1>1. /\ UNCHANGED <<step, inHand, total_received, total_processed, processing_count, refused,
                     handled>>
      /\ old' \subseteq Pipelines
  BY DEF Flush, QueueInv, TypeOK
<1>2. Cardinality(InBatches) < MaxSize
  <2>1. /\ InBatches \subseteq Counted \ buffer[p] /\ buffer[p] \in SUBSET Counted
        /\ buffer[p] # {} /\ Counted \ buffer[p] \in SUBSET Images
    BY Places DEF Counted, Buffered, QueueInv, Apart, Flush
  <2>2. /\ Cardinality(InBatches) <= Cardinality(Counted \ buffer[p])
        /\ Cardinality(Counted \ buffer[p]) = Cardinality(Counted) - Cardinality(buffer[p])
        /\ Cardinality(buffer[p]) > 0
    BY <2>1, Places, CountFewer
  <2>3. /\ Cardinality(Counted) <= MaxSize /\ MaxSize \in Nat
        /\ Cardinality(Counted) \in Nat /\ Cardinality(buffer[p]) \in Nat
        /\ Cardinality(InBatches) \in Nat
    <3>1. buffer[p] \in SUBSET Images
      BY DEF QueueInv, TypeOK
    <3> QED
      BY <3>1, Places, ImagesAreFinite DEF QueueInv
  <2> QED
    BY <2>2, <2>3
<1>3. /\ queue' \in Seq(Batches)
      /\ buffer' \in [Pipelines -> SUBSET Images]
      /\ Apart'
      /\ Counted' = Counted /\ Inside' = Inside
      /\ UNCHANGED <<pending_items, total_skipped, dropped>>
  <2>1. buffer[p] \cup {} = buffer[p]
    OBVIOUS
  <2>2. /\ {} \in SUBSET Images /\ {} \cap Inside = {}
        /\ Put(buffer[p] \cup {}, pending_items, total_skipped) /\ buffer[p] \cup {} # {}
        /\ buffer' = [buffer EXCEPT ![p] = {}]
    BY <2>1 DEF Flush
  <2>3. /\ queue' \in Seq(Batches)
        /\ buffer' \in [Pipelines -> SUBSET Images]
        /\ Apart'
        /\ Counted' = Counted \cup {} /\ Inside' = Inside \cup {}
        /\ UNCHANGED <<pending_items, total_skipped, dropped>>
    BY <1>1, <1>2, <2>2, PutStep
  <2> QED
    BY <2>3
<1>4. TypeOK'
  BY <1>1, <1>3 DEF QueueInv, TypeOK, Batches
<1>5. PendingExact' /\ pending_items' <= MaxSize /\ AcceptedNeverDropped'
  BY <1>3 DEF PendingExact, Counted, QueueInv, AcceptedNeverDropped
<1>6. TotalsAddUp' /\ Hands'
  BY <1>1, <1>3 DEF QueueInv, TotalsAddUp, Inside, Hands
<1> QED
  BY <1>3, <1>4, <1>5, <1>6 DEF QueueInv

LEMMA GetStep ==
    ASSUME QueueInv, NEW w \in Workers, Get(w)
    PROVE  QueueInv' /\ Inside' = Inside
<1>1. /\ step[w] = "waiting" /\ queue # <<>> /\ inHand[w] = {}
      /\ inHand' = [inHand EXCEPT ![w] = Head(queue)] /\ queue' = Tail(queue)
      /\ step' = [step EXCEPT ![w] = "ready"]
      /\ pending_items' = IF pending_items >= Cardinality(Head(queue))
                          THEN pending_items - Cardinality(Head(queue)) ELSE 0
      /\ UNCHANGED <<buffer, old, total_received, total_processed, total_skipped,
                     processing_count, fates>>
  BY DEF Get, QueueInv, Hands
<1>2. /\ queue' \in Seq(Batches) /\ Disjoint(queue')
      /\ Head(queue) \in SUBSET Images /\ Head(queue) \subseteq InBatches
      /\ InBatches' = InBatches \ Head(queue)
  <2>1. /\ Tail(queue) \in Seq(Batches) /\ Disjoint(Tail(queue))
        /\ Head(queue) \in Batches /\ Head(queue) \subseteq ImagesIn(queue)
        /\ ImagesIn(Tail(queue)) = ImagesIn(queue) \ Head(queue)
    BY <1>1, Places, BatchLeaves
  <2>2. InBatches' = ImagesIn(Tail(queue))
    BY <1>1 DEF InBatches, ImagesIn
  <2> QED
    BY <1>1, <2>1, <2>2, Places DEF Batches
<1>3. /\ Held' = Held \cup Head(queue)
      /\ inHand' \in [Workers -> SUBSET Images]
      /\ \A u, v \in Workers : u # v => inHand'[u] \cap inHand'[v] = {}
  <2>1. TypeOK /\ Apart /\ Head(queue) \cap Held = {}
    BY <1>2 DEF QueueInv, Apart
  <2>2. Held' = (Held \ inHand[w]) \cup Head(queue)
    BY <1>1, <1>2, <2>1, HandChanges
  <2> QED
    BY <1>1, <1>2, <2>1, <2>2, HandChanges
<1>4. Buffered' = Buffered
  BY <1>1 DEF Buffered
<1>5. Counted' = Counted \ Head(queue) /\ Head(queue) \in SUBSET Counted
  BY <1>2, <1>4, Places DEF Counted, QueueInv, Apart
<1>6. /\ Cardinality(Counted') = Cardinality(Counted) - Cardinality(Head(queue))
      /\ Cardinality(Head(queue)) <= Cardinality(Counted)
      /\ Cardinality(Head(queue)) \in Nat /\ Cardinality(Counted) \in Nat
  BY <1>2, <1>5, Places, CountFewer, ImagesAreFinite
<1>7. /\ pending_items' = Cardinality(Counted') /\ pending_items' \in Nat
      /\ pending_items' <= pending_items
  BY <1>1, <1>6, Places
<1>8. Apart'
  BY <1>1, <1>2, <1>3, <1>4 DEF Apart, QueueInv, Disjoint
<1>9. Inside' = Inside
  BY <1>2, <1>3, <1>4 DEF Inside
<1>10. TypeOK'
  BY <1>1, <1>2, <1>3, <1>7 DEF QueueInv, TypeOK, Batches, fates
<1>11. {v \in Workers : step'[v] = "running"} = {v \in Workers : step[v] = "running"}
  BY <1>1 DEF QueueInv, TypeOK
<1>12. Hands'
  BY <1>1, <1>11 DEF QueueInv, TypeOK, Hands
<1>13. TotalsAddUp' /\ AcceptedNeverDropped'
  BY <1>1, <1>9, <1>11 DEF QueueInv, TotalsAddUp, Inside, AcceptedNeverDropped, fates
<1>14. PendingExact' /\ pending_items' <= MaxSize
  BY <1>7 DEF PendingExact, Counted, QueueInv, TypeOK
<1> QED
  BY <1>8, <1>9, <1>10, <1>12, <1>13, <1>14 DEF QueueInv

LEMMA AcquireStep ==
    ASSUME QueueInv, NEW w \in Workers, AcquireSemaphore(w)
    PROVE  QueueInv' /\ Inside' = Inside
<1> DEFINE running == {v \in Workers : step[v] = "running"}
<1>1. /\ step[w] = "ready" /\ step' = [step EXCEPT ![w] = "running"]
      /\ processing_count' = processing_count + 1
      /\ UNCHANGED <<buffer, old, queue, inHand, pending_items, total_received, total_processed,
                     total_skipped, fates>>
  BY DEF AcquireSemaphore
<1>2. UNCHANGED <<Buffered, InBatches, Held>>
  BY <1>1 DEF Buffered, InBatches, Held, QueueInv, TypeOK
<1>3. running' = running \cup {w} /\ w \notin running
  BY <1>1 DEF QueueInv, TypeOK
<1>4. IsFiniteSet(running') /\ Cardinality(running') = Cardinality(running) + 1
  BY <1>3, FS_AddElement DEF QueueInv, Hands
<1>5. TypeOK'
  BY <1>1 DEF QueueInv, TypeOK, fates
<1>6. Hands'
  BY <1>1, <1>4 DEF QueueInv, TypeOK, Hands
<1>7. Apart' /\ PendingExact' /\ pending_items' <= MaxSize /\ AcceptedNeverDropped'
  BY <1>1, <1>2 DEF QueueInv, Apart, PendingExact, AcceptedNeverDropped, fates
<1>8. TotalsAddUp'
  BY <1>1, <1>2, <1>4 DEF QueueInv, TotalsAddUp, fates
<1> QED
  BY <1>2, <1>5, <1>6, <1>7, <1>8 DEF QueueInv, Inside

LEMMA FinishStep ==
    ASSUME QueueInv, NEW w \in Workers, NEW successful \in SUBSET inHand[w],
           Finish(w, successful)
    PROVE  QueueInv' /\ Inside' = Inside \ inHand[w]
<1> DEFINE running == {v \in Workers : step[v] = "running"}
<1>1. /\ step[w] = "running" /\ step' = [step EXCEPT ![w] = "waiting"]
      /\ inHand' = [inHand EXCEPT ![w] = {}]
      /\ processing_count' = processing_count - 1
      /\ total_processed' = total_processed + Cardinality(successful)
      /\ total_skipped' = total_skipped + Cardinality(inHand[w] \ successful)
      /\ handled' = handled \cup inHand[w]
      /\ UNCHANGED <<buffer, old, queue, pending_items, total_received, refused, dropped>>
  BY DEF Finish
<1>2. /\ Held' = Held \ inHand[w] /\ inHand[w] \subseteq Held
      /\ inHand' \in [Workers -> SUBSET Images]
      /\ \A u, v \in Workers : u # v => inHand'[u] \cap inHand'[v] = {}
  <2>1. TypeOK /\ Apart /\ {} \in SUBSET Images /\ {} \cap Held = {}
    BY DEF QueueInv
  <2>2. (Held \ inHand[w]) \cup {} = Held \ inHand[w]
    OBVIOUS
  <2> QED
    BY <1>1, <2>1, <2>2, HandChanges
<1>3. UNCHANGED <<Buffered, InBatches>>
  BY <1>1 DEF Buffered, InBatches, QueueInv, TypeOK
<1>4. running' = running \ {w} /\ w \in running
  BY <1>1 DEF QueueInv, TypeOK
<1>5. /\ IsFiniteSet(running') /\ Cardinality(running') = Cardinality(running) - 1
      /\ Cardinality(running) = processing_count /\ Cardinality(running') \in Nat
  BY <1>4, FS_RemoveElement, FS_CardinalityType DEF QueueInv, Hands, TotalsAddUp
<1>6. inHand[w] \in SUBSET Images /\ inHand[w] \in SUBSET Inside /\ Inside' = Inside \ inHand[w]
  BY <1>2, <1>3, Places DEF Inside, QueueInv, Apart
<1>7. /\ Cardinality(Inside') = Cardinality(Inside) - Cardinality(inHand[w])
      /\ Cardinality(inHand[w] \ successful) = Cardinality(inHand[w]) - Cardinality(successful)
      /\ Cardinality(inHand[w]) \in Nat /\ Cardinality(successful) \in Nat
      /\ Cardinality(inHand[w] \ successful) \in Nat
      /\ Cardinality(Inside) \in Nat /\ Cardinality(refused) \in Nat
  <2>1. /\ successful \in SUBSET Images /\ inHand[w] \ successful \in SUBSET Images
        /\ refused \in SUBSET Images
    BY <1>6 DEF QueueInv, TypeOK
  <2> QED
    BY <1>6, <2>1, Places, CountFewer, ImagesAreFinite
<1>8. TypeOK'
  <2>1. total_processed' \in Nat /\ total_skipped' \in Nat /\ processing_count' \in Nat
    BY <1>1, <1>5, <1>7 DEF QueueInv, TypeOK
  <2> QED
    BY <1>1, <1>2, <1>6, <2>1 DEF QueueInv, TypeOK
<1>9. Hands'
  BY <1>1, <1>2, <1>5 DEF QueueInv, TypeOK, Hands
<1>10. Apart'
  BY <1>1, <1>2, <1>3 DEF QueueInv, Apart
<1>11. PendingExact' /\ pending_items' <= MaxSize /\ AcceptedNeverDropped'
  BY <1>1, <1>3 DEF QueueInv, PendingExact, AcceptedNeverDropped
<1>12. TotalsAddUp'
  <2>1. total_received \in Nat /\ total_processed \in Nat /\ total_skipped \in Nat
    BY DEF QueueInv, TypeOK
  <2>2. total_received' + Cardinality(refused') =
           Cardinality(Inside') + total_processed' + total_skipped'
    BY <1>1, <1>7, <2>1 DEF QueueInv, TotalsAddUp, Inside
  <2> QED
    BY <1>1, <1>5, <2>2 DEF TotalsAddUp, Inside
<1> QED
  BY <1>6, <1>8, <1>9, <1>10, <1>11, <1>12 DEF QueueInv

-----------------------------------------------------------------------------
(* Theorems.                                                                *)

LEMMA QueueInit == Init => QueueInv
<1> SUFFICES ASSUME Init PROVE QueueInv
  OBVIOUS
<1>1. Buffered = {} /\ InBatches = {} /\ Held = {}
  BY DEF Init, Buffered, InBatches, Held
<1>2. {w \in Workers : step[w] = "running"} = {}
  BY DEF Init
<1>3. Cardinality({}) = 0 /\ IsFiniteSet({})
  BY FS_EmptySet
<1>4. TypeOK
  BY DEF Init, TypeOK
<1>5. Apart /\ AcceptedNeverDropped
  BY <1>1 DEF Init, Apart, AcceptedNeverDropped
<1>6. Hands
  BY <1>2, <1>3 DEF Init, Hands
<1>7. PendingExact /\ pending_items <= MaxSize
  BY <1>1, <1>3 DEF Init, PendingExact
<1>8. TotalsAddUp
  <2>1. /\ Cardinality(Buffered \cup InBatches \cup Held) = 0 /\ Cardinality(refused) = 0
    BY <1>1, <1>3 DEF Init
  <2>2. Cardinality({w \in Workers : step[w] = "running"}) = 0
    BY <1>2, <1>3
  <2>3. total_received = 0 /\ total_processed = 0 /\ total_skipped = 0 /\ processing_count = 0
    BY DEF Init
  <2> QED
    BY <2>1, <2>2, <2>3 DEF TotalsAddUp
<1> QED
  BY <1>4, <1>5, <1>6, <1>7, <1>8 DEF QueueInv

LEMMA QueueKept == QueueInv /\ [Next]_vars => QueueInv'
<1> SUFFICES ASSUME QueueInv, [Next]_vars PROVE QueueInv'
  OBVIOUS
<1>1. CASE UNCHANGED vars
  BY <1>1, NothingMoves DEF vars, QueueInv, TypeOK
<1>2. ASSUME NEW w \in Workers, WorkerStep(w) PROVE QueueInv'
  BY <1>2, GetStep, AcquireStep, FinishStep DEF WorkerStep
<1> QED
  BY <1>1, <1>2, AddRefusedStep, AddStep, AgeStep, FlushBufferStep DEF Next

LEMMA QueueSafe == Spec => []QueueInv
  BY QueueInit, QueueKept, PTL DEF Spec

\* The variables of the queue keep their types.
THEOREM QueueTypes == Spec => []TypeOK
<1>1. QueueInv => TypeOK
  BY DEF QueueInv
<1> QED
  BY <1>1, QueueSafe, PTL

\* The backpressure count is exact, so the clamp at zero in get() never acts
\* (ProcessingQueue.add, get, flush_batches).
THEOREM BackpressureIsExact == Spec => []PendingExact
<1>1. QueueInv => PendingExact
  BY DEF QueueInv
<1> QED
  BY <1>1, QueueSafe, PTL

\* The asyncio queue is never full when a batch is put: what add() accepted is
\* not dropped at flush time (processing_queue.py:106).
THEOREM AcceptedImagesStay == Spec => []AcceptedNeverDropped
<1>1. QueueInv => AcceptedNeverDropped
  BY DEF QueueInv
<1> QED
  BY <1>1, QueueSafe, PTL

\* The totals of get_stats account for every image, and the running count is
\* the number of batches past the semaphore.
THEOREM TotalsAreExact == Spec => []TotalsAddUp
<1>1. QueueInv => TotalsAddUp
  BY DEF QueueInv
<1> QED
  BY <1>1, QueueSafe, PTL
=============================================================================
