----------------------- MODULE IngestionClientProofs -----------------------
(***************************************************************************)
(* For every set of items, number of overlapping flushes, batch size and   *)
(* retry setting: the safety properties of IngestionClient, and that it    *)
(* implements BoundedDelivery.                                             *)
(***************************************************************************)
EXTENDS IngestionClient, EventBroadcaster, SequenceFilterLemmas, FiniteSetTheorems

\* The batch in flight and the later ones split the items of a flush.
LEMMA BatchElements ==
  ASSUME TypeOK, NEW f \in Flushes
  PROVE  /\ Batch(f) \in Seq(Items) /\ LaterBatches(f) \in Seq(Items)
         /\ Range(inFlight[f]) = Range(Batch(f)) \cup Range(LaterBatches(f))
         /\ NoRepeats(inFlight[f]) =>
              /\ NoRepeats(Batch(f)) /\ NoRepeats(LaterBatches(f))
              /\ Range(Batch(f)) \cap Range(LaterBatches(f)) = {}
<1> DEFINE s == inFlight[f]
           n == IF Len(s) <= MaxBatchSize THEN Len(s) ELSE MaxBatchSize
<1>1. s \in Seq(Items) /\ Len(s) \in Nat /\ MaxBatchSize \in Nat
  BY IngestionAssumption DEF TypeOK
<1>2. n \in 0 .. Len(s)
  BY <1>1
<1>3. Batch(f) = SubSeq(s, 1, n)
  BY DEF Batch
<1>4. LaterBatches(f) = SubSeq(s, n + 1, Len(s))
  <2>1. CASE Len(s) <= MaxBatchSize
    <3>1. SubSeq(s, MaxBatchSize + 1, Len(s)) = << >>
      <4>1. MaxBatchSize + 1 \in Int /\ Len(s) \in Int /\ Len(s) < MaxBatchSize + 1
        BY <1>1, <2>1
      <4> HIDE DEF s
      <4> QED BY <4>1, SubSeqEmpty
    <3>2. n = Len(s)
      BY <2>1
    <3>3. SubSeq(s, n + 1, Len(s)) = << >>
      <4>1. n + 1 \in Int /\ Len(s) \in Int /\ Len(s) < n + 1
        BY <1>1, <3>2
      <4> HIDE DEF n, s
      <4> QED BY <4>1, SubSeqEmpty
    <3>4. LaterBatches(f) = SubSeq(s, MaxBatchSize + 1, Len(s))
      BY DEF LaterBatches
    <3> QED BY <3>1, <3>3, <3>4
  <2>2. CASE Len(s) > MaxBatchSize
    <3>1. n = MaxBatchSize
      BY <1>1, <2>2
    <3> QED BY <3>1 DEF LaterBatches
  <2>3. Len(s) <= MaxBatchSize \/ Len(s) > MaxBatchSize
    BY <1>1
  <2> HIDE DEF n, s
  <2> QED BY <2>1, <2>2, <2>3
<1> HIDE DEF n
<1> QED BY <1>1, <1>2, <1>3, <1>4, CutElements

\* What a flush takes, as sets: the pending items and the due retries.
LEMMA FlushTakes ==
  ASSUME TypeOK, OneHolder, AttemptStages, NEW f \in Flushes,
         NEW pending \in Seq(Items), NoRepeats(pending),
         Range(pending) \cap Range(retryBuffer) = {},
         \A i \in Range(pending) : attemptCount[i] = 0,
         BeginFlush(f, pending)
  PROVE  /\ pendingBatch' = << >>
         /\ retryBuffer' \in Seq(Items) /\ NoRepeats(retryBuffer')
         /\ Range(retryBuffer') = Range(retryBuffer) \ Due
         /\ inFlight' \in [Flushes -> Seq(Items)]
         /\ \A g \in Flushes \ {f} : inFlight'[g] = inFlight[g]
         /\ NoRepeats(inFlight'[f])
         /\ Range(inFlight'[f]) = Range(pending) \cup (Range(retryBuffer) \cap Due)
         /\ Range(inFlight[f]) = {}
<1> DEFINE due == KeepIn(retryBuffer, Due)
           items == pending \o due
           retrying == {i \in Range(items) : attemptCount[i] > 0}
<1>1. retryBuffer \in Seq(Items) /\ inFlight \in [Flushes -> Seq(Items)]
  BY DEF TypeOK
<1>2. /\ due \in Seq(Items) /\ NoRepeats(due)
      /\ Range(due) = Range(retryBuffer) \cap Due
  BY <1>1, KeepInProperties DEF OneHolder
<1>3. /\ items \in Seq(Items) /\ NoRepeats(items)
      /\ Range(items) = Range(pending) \cup (Range(retryBuffer) \cap Due)
  BY <1>2, ConcatElements
<1>4. retrying = Range(retryBuffer) \cap Due
  BY <1>3 DEF AttemptStages
<1>5. /\ retryBuffer' = KeepIn(retryBuffer, Items \ retrying)
      /\ inFlight' = [inFlight EXCEPT ![f] = items]
      /\ pendingBatch' = << >>
      /\ inFlight[f] = << >>
  BY DEF BeginFlush, ItemsToSend, Idle
<1> HIDE DEF items, retrying
<1>6. /\ retryBuffer' \in Seq(Items) /\ NoRepeats(retryBuffer')
      /\ Range(retryBuffer') = Range(retryBuffer) \cap (Items \ retrying)
  BY <1>1, <1>5, KeepInProperties DEF OneHolder
<1>7. Range(retryBuffer) \subseteq Items
  BY <1>1 DEF Range
<1>8. Range(inFlight[f]) = {}
  BY <1>5 DEF Range
<1> QED BY <1>1, <1>3, <1>4, <1>5, <1>6, <1>7, <1>8

---------------------------------------------------------------------------
LEMMA InitIInv == Init => IInv
<1> SUFFICES ASSUME Init PROVE IInv
  OBVIOUS
<1>1. Range(<< >>) = {} /\ NoRepeats(<< >>)
  BY DEF Range, NoRepeats
<1>2. AttemptLimit > 0
  BY IngestionAssumption DEF AttemptLimit
<1>3. TypeOK
  <2>1. << >> \in Seq(Items) /\ 0 \in Nat
    OBVIOUS
  <2>2. FALSE \in BOOLEAN /\ {} \subseteq Items
    OBVIOUS
  <2> QED BY <2>1, <2>2, Zenon DEF Init, TypeOK
<1>4. Buffered = {} /\ InFlightItems = {}
  BY <1>1 DEF Init, Buffered, InFlightItems
<1>5. NoItemLost
  BY <1>4 DEF Init, NoItemLost
<1>6. OneHolder
  BY <1>1, <1>4 DEF Init, OneHolder
<1>7. AttemptStages
  BY <1>1, <1>2, <1>4 DEF Init, AttemptStages
<1>8. CopiesPerAttempt
  <2>1. \A i \in Items : copies[i] = 0 /\ attemptCount[i] = 0
    BY DEF Init
  <2>2. \A f \in Flushes : Range(inFlight[f]) = {} /\ ~accepted[f]
    BY <1>1 DEF Init
  <2>3. confirmed = {}
    BY DEF Init
  <2>4. \A i \in Items \ (InFlightItems \cup confirmed) : copies[i] <= attemptCount[i]
    BY <2>1
  <2> QED BY <2>2, <2>3, <2>4, Zenon DEF CopiesPerAttempt
<1>9. DiscardsCounted
  BY FS_EmptySet DEF Init, DiscardsCounted
<1> QED BY <1>3, <1>5, <1>6, <1>7, <1>8, <1>9 DEF IInv

---------------------------------------------------------------------------
LEMMA LimitIsPositive == AttemptLimit \in Nat /\ AttemptLimit > 0
  BY IngestionAssumption DEF AttemptLimit

\* Steps that move no item: the timer is started or stopped, time passes.
LEMMA SamePlacement ==
  ASSUME IInv,
         UNCHANGED <<pendingBatch, retryBuffer, attemptCount, inFlight, accepted,
                     totalDiscardedCount, enqueued, confirmed, discarded, copies>>,
         retryWait' \in [Items -> Nat], age' \in [Flushes -> Nat],
         flushTimer' \in BOOLEAN
  PROVE  IInv'
<1> USE DEF IInv
<1>1. TypeOK'
  BY DEF TypeOK
<1>2. /\ Buffered' = Buffered /\ InFlightItems' = InFlightItems
      /\ \A f \in Flushes : Batch(f)' = Batch(f) /\ Idle(f)' = Idle(f)
  BY DEF Buffered, InFlightItems, Batch, Idle
<1>3. NoItemLost'
  BY <1>2 DEF NoItemLost
<1>4. OneHolder'
  BY <1>2 DEF OneHolder
<1>5. AttemptStages'
  BY <1>2 DEF AttemptStages
<1>6. CopiesPerAttempt'
  BY <1>2 DEF CopiesPerAttempt
<1>7. DiscardsCounted'
  BY DEF DiscardsCounted
<1> QED BY <1>1, <1>3, <1>4, <1>5, <1>6, <1>7

\* An item that is not enqueued is nowhere.
LEMMA NewItemIsNowhere ==
  ASSUME IInv, NEW i \in Items, i \notin enqueued
  PROVE  /\ i \notin Buffered \cup InFlightItems \cup confirmed \cup discarded
         /\ attemptCount[i] = 0 /\ copies[i] <= attemptCount[i]
  BY DEF IInv, NoItemLost, AttemptStages, CopiesPerAttempt

LEMMA PushStep ==
  ASSUME IInv, NEW i \in Items, Push(i)
  PROVE  IInv'
<1> USE DEF IInv
<1>1. /\ pendingBatch' \in Seq(Items) /\ NoRepeats(pendingBatch')
      /\ Range(pendingBatch') = Range(pendingBatch) \cup {i}
  <2>1. i \notin Range(pendingBatch)
    BY NewItemIsNowhere DEF Push, Buffered
  <2>2. pendingBatch \in Seq(Items) /\ NoRepeats(pendingBatch)
    BY DEF TypeOK, OneHolder
  <2>3. pendingBatch' = Append(pendingBatch, i)
    BY DEF Push
  <2> QED BY <2>1, <2>2, <2>3, AppendElements
<1>2. /\ UNCHANGED <<retryBuffer, attemptCount, retryWait, age, inFlight, accepted,
                     flushTimer, totalDiscardedCount, confirmed, discarded, copies>>
      /\ enqueued' = enqueued \cup {i} /\ i \notin enqueued
  BY DEF Push, timing
<1>3. /\ Buffered' = Buffered \cup {i} /\ InFlightItems' = InFlightItems
      /\ \A f \in Flushes : Batch(f)' = Batch(f) /\ Idle(f)' = Idle(f)
  BY <1>1, <1>2 DEF Buffered, InFlightItems, Batch, Idle
<1>4. /\ i \notin Buffered \cup InFlightItems \cup confirmed \cup discarded
      /\ attemptCount[i] = 0
  BY <1>2, NewItemIsNowhere
<1>5. TypeOK'
  BY <1>1, <1>2 DEF TypeOK
<1>6. NoItemLost'
  BY <1>2, <1>3 DEF NoItemLost
<1>7. OneHolder'
  BY <1>1, <1>2, <1>3, <1>4 DEF OneHolder, Buffered
<1>8. AttemptStages'
  BY <1>1, <1>2, <1>3, <1>4, LimitIsPositive DEF AttemptStages
<1>9. CopiesPerAttempt'
  BY <1>2, <1>3 DEF CopiesPerAttempt
<1>10. DiscardsCounted'
  BY <1>2 DEF DiscardsCounted
<1> QED BY <1>5, <1>6, <1>7, <1>8, <1>9, <1>10

\* A flush begins with the pending items and the new ones in `extra`.
LEMMA BeginFlushStep ==
  ASSUME IInv, NEW f \in Flushes, NEW extra \in SUBSET Items,
         NEW pending \in Seq(Items), NoRepeats(pending),
         Range(pending) = Range(pendingBatch) \cup extra,
         extra \cap enqueued = {}, enqueued' = enqueued \cup extra,
         BeginFlush(f, pending),
         UNCHANGED <<attemptCount, retryWait, age, accepted, flushTimer,
                     totalDiscardedCount, confirmed, discarded, copies>>
  PROVE  IInv'
<1> USE DEF IInv
<1> DEFINE taken == Range(pending) \cup (Range(retryBuffer) \cap Due)
<1>1. \A i \in extra : /\ i \notin Buffered \cup InFlightItems \cup confirmed \cup discarded
                       /\ attemptCount[i] = 0 /\ copies[i] <= attemptCount[i]
  BY NewItemIsNowhere
<1>2. Range(pending) \cap Range(retryBuffer) = {}
  BY <1>1 DEF OneHolder, Buffered
<1>3. \A i \in Range(pending) : attemptCount[i] = 0
  BY <1>1 DEF AttemptStages
<1>4. /\ pendingBatch' = << >>
      /\ retryBuffer' \in Seq(Items) /\ NoRepeats(retryBuffer')
      /\ Range(retryBuffer') = Range(retryBuffer) \ Due
      /\ inFlight' \in [Flushes -> Seq(Items)]
      /\ \A g \in Flushes \ {f} : inFlight'[g] = inFlight[g]
      /\ NoRepeats(inFlight'[f])
      /\ Range(inFlight'[f]) = taken
      /\ Range(inFlight[f]) = {}
  BY <1>2, <1>3, FlushTakes
<1>5. Range(pendingBatch') = {} /\ NoRepeats(pendingBatch') /\ pendingBatch' \in Seq(Items)
  BY <1>4 DEF Range, NoRepeats
<1>6. Buffered' = Range(retryBuffer) \ Due
  BY <1>4, <1>5 DEF Buffered
<1>7. InFlightItems' = InFlightItems \cup taken
  <2>1. \A g \in Flushes \ {f} : Range(inFlight'[g]) = Range(inFlight[g])
    BY <1>4
  <2>2. Range(inFlight'[f]) = taken /\ Range(inFlight[f]) = {}
    BY <1>4
  <2> HIDE DEF taken
  <2> QED BY <2>1, <2>2 DEF InFlightItems
<1>8. taken \cap (InFlightItems \cup confirmed \cup discarded) = {}
  BY <1>1 DEF OneHolder, Buffered
<1>9. taken \cap Buffered' = {}
  BY <1>2, <1>6 DEF OneHolder, Buffered
<1>10. taken \cup Buffered' = Buffered \cup extra
  BY <1>6 DEF Buffered
<1> HIDE DEF taken
<1>11. ~accepted[f] /\ \A g \in Flushes \ {f} : Batch(g)' = Batch(g) /\ Idle(g)' = Idle(g)
  BY <1>4 DEF CopiesPerAttempt, Batch, Idle, BeginFlush
<1>12. TypeOK'
  <2>1. enqueued' \subseteq Items
    BY DEF TypeOK
  <2>2. /\ confirmed' \subseteq Items /\ discarded' \subseteq Items
        /\ attemptCount' \in [Items -> Nat] /\ retryWait' \in [Items -> Nat]
        /\ copies' \in [Items -> Nat] /\ age' \in [Flushes -> Nat]
        /\ totalDiscardedCount' \in Nat
    BY DEF TypeOK
  <2>3. accepted' \in [Flushes -> BOOLEAN] /\ flushTimer' \in BOOLEAN
    BY Zenon DEF TypeOK
  <2> QED BY <1>4, <1>5, <2>1, <2>2, <2>3, Zenon DEF TypeOK
<1>13. NoItemLost'
  BY <1>7, <1>10 DEF NoItemLost
<1>14. OneHolder'
  <2>1. \A g \in Flushes : NoRepeats(inFlight'[g])
    BY <1>4 DEF OneHolder
  <2>2. ASSUME NEW g \in Flushes, NEW h \in Flushes, g # h
        PROVE  Range(inFlight'[g]) \cap Range(inFlight'[h]) = {}
    <3>1. \A k \in Flushes : Range(inFlight[k]) \cap taken = {}
      BY <1>8 DEF InFlightItems
    <3>2. CASE g = f \/ h = f
      BY <1>4, <2>2, <3>1, <3>2
    <3>3. CASE g # f /\ h # f
      BY <1>4, <2>2, <3>3 DEF OneHolder
    <3> QED BY <3>2, <3>3
  <2>3. /\ Range(pendingBatch') \cap Range(retryBuffer') = {}
        /\ Buffered' \cap InFlightItems' = {}
        /\ (Buffered' \cup InFlightItems') \cap (confirmed' \cup discarded') = {}
        /\ confirmed' \cap discarded' = {}
    BY <1>5, <1>6, <1>7, <1>8, <1>9 DEF OneHolder, Buffered
  <2> QED BY <1>4, <1>5, <2>1, <2>2, <2>3 DEF OneHolder
<1>15. AttemptStages'
  <2>1. \A i \in Buffered \cup extra : attemptCount[i] < AttemptLimit
    BY <1>1, LimitIsPositive DEF AttemptStages
  <2> QED BY <1>4, <1>5, <1>7, <1>10, <2>1 DEF AttemptStages
<1>16. CopiesPerAttempt'
  <2>1. \A i \in taken : copies[i] <= attemptCount[i]
    <3>1. taken \subseteq Items
      BY <1>4, <1>12 DEF TypeOK, Range
    <3> QED BY <1>8, <3>1 DEF CopiesPerAttempt
  <2>2. \A i \in Items \ (InFlightItems' \cup confirmed') : copies'[i] <= attemptCount'[i]
    BY <1>7 DEF CopiesPerAttempt
  <2>3. ASSUME NEW g \in Flushes, NEW i \in Range(inFlight'[g])
        PROVE  copies'[i] <= attemptCount'[i]
                  + IF accepted'[g] /\ i \in Range(Batch(g)') THEN 1 ELSE 0
    <3>1. CASE g = f
      <4>1. i \in taken /\ ~accepted'[g]
        BY <1>4, <1>11, <2>3, <3>1
      <4>2. attemptCount[i] + 0 = attemptCount[i]
        <5>1. i \in Items
          BY <1>12, <2>3 DEF TypeOK, Range
        <5> QED BY <5>1 DEF TypeOK
      <4> QED BY <2>1, <4>1, <4>2
    <3>2. CASE g # f
      BY <1>4, <1>11, <3>2, <2>3 DEF CopiesPerAttempt
    <3> QED BY <3>1, <3>2
  <2>4. ASSUME NEW g \in Flushes, accepted'[g]
        PROVE  ~Idle(g)' /\ \A i \in Range(Batch(g)') : copies'[i] >= 1
    BY <1>11, <2>4 DEF CopiesPerAttempt
  <2>5. \A i \in confirmed' : copies'[i] \in 1 .. attemptCount'[i] + 1
    BY DEF CopiesPerAttempt
  <2> QED BY <2>2, <2>3, <2>4, <2>5 DEF CopiesPerAttempt
<1>17. DiscardsCounted'
  BY DEF DiscardsCounted
<1> QED BY <1>12, <1>13, <1>14, <1>15, <1>16, <1>17

\* The history of copies when the API ingests the batch of flush f.
LEMMA ApiAcceptsStep ==
  ASSUME IInv, NEW f \in Flushes, ApiAccepts(f)
  PROVE  IInv'
<1> USE DEF IInv
<1>1. /\ ~Idle(f) /\ ~accepted[f]
      /\ accepted' = [accepted EXCEPT ![f] = TRUE]
      /\ copies' = [i \in Items |->
                      copies[i] + IF i \in Range(Batch(f)) THEN 1 ELSE 0]
      /\ UNCHANGED <<pendingBatch, retryBuffer, attemptCount, retryWait, age, inFlight,
                     flushTimer, totalDiscardedCount, enqueued, confirmed, discarded>>
  BY DEF ApiAccepts, timing
<1>2. /\ Buffered' = Buffered /\ InFlightItems' = InFlightItems
      /\ \A g \in Flushes : Batch(g)' = Batch(g) /\ Idle(g)' = Idle(g)
  BY <1>1 DEF Buffered, InFlightItems, Batch, Idle
<1>3. Range(Batch(f)) \subseteq Range(inFlight[f])
  BY BatchElements
<1>4. Range(inFlight[f]) \subseteq InFlightItems /\ Range(inFlight[f]) \subseteq Items
  BY DEF InFlightItems, TypeOK, Range
<1>5. TypeOK'
  <2>1. copies' \in [Items -> Nat]
    BY <1>1 DEF TypeOK
  <2>2. accepted' \in [Flushes -> BOOLEAN]
    BY <1>1, Zenon DEF TypeOK
  <2> QED BY <1>1, <2>1, <2>2, Zenon DEF TypeOK
<1>6. NoItemLost' /\ OneHolder' /\ AttemptStages' /\ DiscardsCounted'
  BY <1>1, <1>2 DEF NoItemLost, OneHolder, AttemptStages, DiscardsCounted
<1>7. CopiesPerAttempt'
  <2>1. \A i \in Items : i \notin Range(Batch(f)) => copies'[i] = copies[i]
    BY <1>1 DEF TypeOK
  <2>2. \A i \in Range(Batch(f)) : copies'[i] = copies[i] + 1
    BY <1>1, <1>3, <1>4
  <2>3. \A g \in Flushes \ {f} : accepted'[g] = accepted[g]
    BY <1>1 DEF TypeOK
  <2>4. accepted'[f]
    BY <1>1 DEF TypeOK
  <2>5. \A i \in Items \ (InFlightItems' \cup confirmed') : copies'[i] <= attemptCount'[i]
    BY <1>1, <1>2, <1>3, <1>4, <2>1 DEF CopiesPerAttempt
  <2>6. \A i \in confirmed' : copies'[i] \in 1 .. attemptCount'[i] + 1
    <3>1. \A i \in confirmed : i \in Items /\ i \notin Range(Batch(f))
      BY <1>3, <1>4 DEF OneHolder, TypeOK
    <3> QED BY <1>1, <2>1, <3>1 DEF CopiesPerAttempt
  <2>7. ASSUME NEW g \in Flushes, NEW i \in Range(inFlight'[g])
        PROVE  copies'[i] <= attemptCount'[i]
                  + IF accepted'[g] /\ i \in Range(Batch(g)') THEN 1 ELSE 0
    <3>1. i \in Range(inFlight[g]) /\ i \in Items
      BY <1>1, <2>7 DEF TypeOK, Range
    <3>2. CASE g = f /\ i \in Range(Batch(f))
      <4>1. copies[i] <= attemptCount[i] + 0
        BY <1>1, <3>1, <3>2 DEF CopiesPerAttempt
      <4>2. copies[i] \in Nat /\ attemptCount[i] \in Nat
        BY <3>1 DEF TypeOK
      <4>3. copies'[i] <= attemptCount[i] + 1
        BY <2>2, <3>2, <4>1, <4>2
      <4> QED BY <1>1, <1>2, <2>4, <3>2, <4>3
    <3>3. CASE g = f /\ i \notin Range(Batch(f))
      <4>1. copies[i] <= attemptCount[i] + 0
        BY <3>1, <3>3 DEF CopiesPerAttempt
      <4> QED BY <1>1, <1>2, <2>1, <3>1, <3>3, <4>1
    <3>4. CASE g # f
      <4>1. i \notin Range(Batch(f))
        BY <1>3, <3>1, <3>4 DEF OneHolder
      <4> QED BY <1>1, <1>2, <2>1, <2>3, <3>1, <3>4, <4>1 DEF CopiesPerAttempt
    <3> QED BY <3>2, <3>3, <3>4
  <2>8. ASSUME NEW g \in Flushes, accepted'[g]
        PROVE  ~Idle(g)' /\ \A i \in Range(Batch(g)') : copies'[i] >= 1
    <3>1. CASE g = f
      <4>1. \A i \in Range(Batch(f)) : copies[i] \in Nat
        BY <1>3, <1>4 DEF TypeOK
      <4> QED BY <1>1, <1>2, <2>2, <3>1, <4>1
    <3>2. CASE g # f
      <4>1. accepted[g] /\ ~Idle(g) /\ \A i \in Range(Batch(g)) : copies[i] >= 1
        BY <2>3, <2>8, <3>2 DEF CopiesPerAttempt
      <4>2. \A i \in Range(Batch(g)) : i \in Items /\ i \notin Range(Batch(f))
        <5>1. Range(Batch(g)) \subseteq Range(inFlight[g])
          BY BatchElements
        <5>2. Range(inFlight[g]) \subseteq Items
          BY DEF TypeOK, Range
        <5> QED BY <1>3, <3>2, <5>1, <5>2 DEF OneHolder
      <4> QED BY <1>2, <2>1, <4>1, <4>2
    <3> QED BY <3>1, <3>2
  <2> QED BY <2>5, <2>6, <2>7, <2>8 DEF CopiesPerAttempt
<1> QED BY <1>5, <1>6, <1>7

\* What NextBatch does to the flushes, as sets.
LEMMA NextBatchPlaces ==
  ASSUME IInv, NEW f \in Flushes, ~Idle(f), NextBatch(f)
  PROVE  /\ inFlight' \in [Flushes -> Seq(Items)]
         /\ age' \in [Flushes -> Nat]
         /\ accepted' = [accepted EXCEPT ![f] = FALSE]
         /\ accepted' \in [Flushes -> BOOLEAN]
         /\ \A g \in Flushes : NoRepeats(inFlight'[g])
         /\ \A g \in Flushes \ {f} : /\ inFlight'[g] = inFlight[g]
                                      /\ Batch(g)' = Batch(g) /\ Idle(g)' = Idle(g)
         /\ Range(inFlight'[f]) = Range(inFlight[f]) \ Range(Batch(f))
         /\ InFlightItems' = InFlightItems \ Range(Batch(f))
         /\ Range(Batch(f)) \subseteq InFlightItems
         /\ Range(Batch(f)) \subseteq Items
         /\ NoRepeats(Batch(f)) /\ Batch(f) \in Seq(Items)
<1> USE DEF IInv
<1>1. /\ inFlight' = [inFlight EXCEPT ![f] = LaterBatches(f)]
      /\ accepted' = [accepted EXCEPT ![f] = FALSE]
      /\ age' = [age EXCEPT ![f] = IF LaterBatches(f) = << >> THEN 0 ELSE @]
  BY DEF NextBatch
<1>2. /\ Batch(f) \in Seq(Items) /\ LaterBatches(f) \in Seq(Items)
      /\ Range(inFlight[f]) = Range(Batch(f)) \cup Range(LaterBatches(f))
      /\ NoRepeats(Batch(f)) /\ NoRepeats(LaterBatches(f))
      /\ Range(Batch(f)) \cap Range(LaterBatches(f)) = {}
  BY BatchElements DEF OneHolder
<1>3. inFlight' \in [Flushes -> Seq(Items)] /\ inFlight'[f] = LaterBatches(f)
  BY <1>1, <1>2 DEF TypeOK
<1>4. \A g \in Flushes \ {f} : inFlight'[g] = inFlight[g]
  BY <1>1 DEF TypeOK
<1>5. \A g \in Flushes \ {f} : Batch(g)' = Batch(g) /\ Idle(g)' = Idle(g)
  BY <1>4 DEF Batch, Idle
<1>6. \A g \in Flushes : NoRepeats(inFlight'[g])
  BY <1>2, <1>3, <1>4 DEF OneHolder
<1>7. Range(inFlight'[f]) = Range(inFlight[f]) \ Range(Batch(f))
  BY <1>2, <1>3
<1>8. Range(Batch(f)) \subseteq InFlightItems
  BY <1>2 DEF InFlightItems
<1>9. InFlightItems' = InFlightItems \ Range(Batch(f))
  <2>1. \A g \in Flushes \ {f} : Range(inFlight[g]) \cap Range(Batch(f)) = {}
    BY <1>2 DEF OneHolder
  <2> QED BY <1>4, <1>7, <2>1 DEF InFlightItems
<1>10. Range(Batch(f)) \subseteq Items
  BY <1>2 DEF Range
<1>11. accepted' \in [Flushes -> BOOLEAN]
  BY <1>1, Zenon DEF TypeOK
<1>12. age' \in [Flushes -> Nat]
  BY <1>1 DEF TypeOK
<1> QED BY <1>1, <1>2, <1>3, <1>4, <1>5, <1>6, <1>7, <1>8, <1>9, <1>10, <1>11, <1>12

LEMMA BatchSucceedsStep ==
  ASSUME IInv, NEW f \in Flushes, BatchSucceeds(f)
  PROVE  IInv'
<1> USE DEF IInv
<1> DEFINE batch == Range(Batch(f))
<1>1. /\ ~Idle(f) /\ accepted[f] /\ NextBatch(f)
      /\ confirmed' = confirmed \cup batch
      /\ UNCHANGED <<pendingBatch, retryBuffer, attemptCount, retryWait, flushTimer,
                     totalDiscardedCount, enqueued, discarded, copies>>
  BY DEF BatchSucceeds
<1>2. /\ inFlight' \in [Flushes -> Seq(Items)]
      /\ age' \in [Flushes -> Nat]
      /\ accepted' = [accepted EXCEPT ![f] = FALSE]
      /\ accepted' \in [Flushes -> BOOLEAN]
      /\ \A g \in Flushes : NoRepeats(inFlight'[g])
      /\ \A g \in Flushes \ {f} : /\ inFlight'[g] = inFlight[g]
                                   /\ Batch(g)' = Batch(g) /\ Idle(g)' = Idle(g)
      /\ Range(inFlight'[f]) = Range(inFlight[f]) \ batch
      /\ InFlightItems' = InFlightItems \ batch
      /\ batch \subseteq InFlightItems
      /\ batch \subseteq Items
  BY <1>1, NextBatchPlaces
<1>3. \A i \in batch : copies[i] \in 1 .. attemptCount[i] + 1
  <2>1. \A i \in batch : i \in Range(inFlight[f])
    BY BatchElements
  <2>2. \A i \in batch : copies[i] >= 1 /\ copies[i] <= attemptCount[i] + 1
    BY <1>1, <2>1 DEF CopiesPerAttempt
  <2> QED BY <1>2, <2>2 DEF TypeOK
<1> HIDE DEF batch
<1>4. Buffered' = Buffered
  BY <1>1 DEF Buffered
<1>5. TypeOK'
  <2>1. /\ confirmed' \subseteq Items /\ discarded' \subseteq Items /\ enqueued' \subseteq Items
        /\ attemptCount' \in [Items -> Nat] /\ retryWait' \in [Items -> Nat]
        /\ copies' \in [Items -> Nat] /\ totalDiscardedCount' \in Nat
        /\ pendingBatch' \in Seq(Items) /\ retryBuffer' \in Seq(Items)
    BY <1>1, <1>2 DEF TypeOK
  <2>2. flushTimer' \in BOOLEAN
    BY <1>1, Zenon DEF TypeOK
  <2> QED BY <1>2, <2>1, <2>2, Zenon DEF TypeOK
<1>6. NoItemLost'
  BY <1>1, <1>2, <1>4 DEF NoItemLost
<1>7. OneHolder'
  <2>1. \A g, h \in Flushes : g # h => Range(inFlight'[g]) \cap Range(inFlight'[h]) = {}
    BY <1>2 DEF OneHolder
  <2>2. /\ Buffered \cap InFlightItems' = {}
        /\ (Buffered \cup InFlightItems') \cap (confirmed' \cup discarded) = {}
        /\ confirmed' \cap discarded = {}
    BY <1>1, <1>2 DEF OneHolder
  <2> QED BY <1>1, <1>2, <1>4, <2>1, <2>2 DEF OneHolder
<1>8. AttemptStages'
  BY <1>1, <1>2, <1>4 DEF AttemptStages
<1>9. CopiesPerAttempt'
  <2>1. \A i \in Items \ (InFlightItems' \cup confirmed') : copies'[i] <= attemptCount'[i]
    BY <1>1, <1>2 DEF CopiesPerAttempt
  <2>2. \A i \in confirmed' : copies'[i] \in 1 .. attemptCount'[i] + 1
    BY <1>1, <1>3 DEF CopiesPerAttempt
  <2>3. ASSUME NEW g \in Flushes, NEW i \in Range(inFlight'[g])
        PROVE  copies'[i] <= attemptCount'[i]
                  + IF accepted'[g] /\ i \in Range(Batch(g)') THEN 1 ELSE 0
    <3>1. CASE g = f
      <4>1. i \in Range(inFlight[f]) /\ i \notin batch /\ ~accepted'[g]
        BY <1>2, <2>3, <3>1 DEF TypeOK
      <4>2. copies[i] <= attemptCount[i] + 0
        BY <4>1 DEF CopiesPerAttempt, batch
      <4> QED BY <1>1, <4>1, <4>2
    <3>2. CASE g # f
      <4>1. accepted'[g] = accepted[g]
        BY <1>2, <3>2 DEF TypeOK
      <4> QED BY <1>1, <1>2, <2>3, <3>2, <4>1 DEF CopiesPerAttempt
    <3> QED BY <3>1, <3>2
  <2>4. ASSUME NEW g \in Flushes, accepted'[g]
        PROVE  ~Idle(g)' /\ \A i \in Range(Batch(g)') : copies'[i] >= 1
    <3>1. g # f /\ accepted[g]
      BY <1>2, <2>4 DEF TypeOK
    <3> QED BY <1>1, <1>2, <3>1 DEF CopiesPerAttempt
  <2> QED BY <2>1, <2>2, <2>3, <2>4 DEF CopiesPerAttempt
<1>10. DiscardsCounted'
  BY <1>1 DEF DiscardsCounted
<1> QED BY <1>5, <1>6, <1>7, <1>8, <1>9, <1>10

\* The backoff of a reachable attempt count, and what is left of it.
LEMMA BackoffType ==
  ASSUME NEW k \in Nat, k < AttemptLimit, NEW e \in Nat
  PROVE  Remaining(ComputeIngestionBackoff(k), e) \in Nat
<1>1. k \in 0 .. MaxRetries
  BY IngestionAssumption DEF AttemptLimit
<1>2. ComputeIngestionBackoff(k) \in Nat
  BY <1>1, IngestionAssumption DEF ComputeIngestionBackoff
<1> HIDE DEF ComputeIngestionBackoff
<1> QED BY <1>2 DEF Remaining

LEMMA BatchFailsStep ==
  ASSUME IInv, NEW f \in Flushes, BatchFails(f)
  PROVE  IInv'
<1> USE DEF IInv
<1> DEFINE batch == Range(Batch(f))
           gone == Exhausted(f)
<1>1. /\ ~Idle(f) /\ NextBatch(f)
      /\ totalDiscardedCount' = totalDiscardedCount + Cardinality(gone)
      /\ discarded' = discarded \cup gone
      /\ retryBuffer' = retryBuffer \o KeepIn(Batch(f), Items \ gone)
      /\ attemptCount' = [i \in Items |->
                            attemptCount[i] + IF i \in batch THEN 1 ELSE 0]
      /\ UNCHANGED <<pendingBatch, flushTimer, enqueued, confirmed, copies>>
  BY DEF BatchFails, MayReject
<1>2. /\ inFlight' \in [Flushes -> Seq(Items)]
      /\ age' \in [Flushes -> Nat]
      /\ accepted' = [accepted EXCEPT ![f] = FALSE]
      /\ accepted' \in [Flushes -> BOOLEAN]
      /\ \A g \in Flushes : NoRepeats(inFlight'[g])
      /\ \A g \in Flushes \ {f} : /\ inFlight'[g] = inFlight[g]
                                   /\ Batch(g)' = Batch(g) /\ Idle(g)' = Idle(g)
      /\ Range(inFlight'[f]) = Range(inFlight[f]) \ batch
      /\ InFlightItems' = InFlightItems \ batch
      /\ batch \subseteq InFlightItems
      /\ batch \subseteq Items
      /\ NoRepeats(Batch(f)) /\ Batch(f) \in Seq(Items)
  BY <1>1, NextBatchPlaces
<1>3. \A i \in batch : attemptCount[i] \in Nat /\ attemptCount[i] < AttemptLimit
  BY <1>2 DEF AttemptStages, TypeOK
<1>4. gone \subseteq batch /\ \A i \in batch : i \in gone <=> attemptCount[i] + 1 = AttemptLimit
  BY <1>3, IngestionAssumption DEF Exhausted, AttemptLimit
<1>5. \A i \in batch : i \notin Buffered \cup confirmed \cup discarded
  BY <1>2 DEF OneHolder
<1>6. \A i \in batch : copies[i] <= attemptCount[i] + 1
  <2>1. \A i \in batch : i \in Range(inFlight[f])
    BY BatchElements
  <2>2. \A i \in batch : copies[i] \in Nat
    BY <1>2 DEF TypeOK
  <2> QED BY <1>3, <2>1, <2>2 DEF CopiesPerAttempt
<1>7. IsFiniteSet(batch)
  BY <1>2, RangeIsFinite
<1> DEFINE again == KeepIn(Batch(f), Items \ gone)
<1>8. again \in Seq(Items) /\ NoRepeats(again) /\ Range(again) = batch \ gone
  BY <1>2, KeepInProperties
<1> HIDE DEF batch, gone, again
<1>9. /\ retryBuffer' \in Seq(Items) /\ NoRepeats(retryBuffer')
      /\ Range(retryBuffer') = Range(retryBuffer) \cup (batch \ gone)
  <2>1. retryBuffer \in Seq(Items) /\ NoRepeats(retryBuffer)
    BY DEF TypeOK, OneHolder
  <2>2. Range(retryBuffer) \cap Range(again) = {}
    BY <1>5, <1>8 DEF Buffered
  <2>3. retryBuffer' = retryBuffer \o again
    BY <1>1 DEF again, gone
  <2> QED BY <1>8, <2>1, <2>2, <2>3, ConcatElements
<1>10. Buffered' = Buffered \cup (batch \ gone)
  BY <1>1, <1>9 DEF Buffered
<1>11. \A i \in Items : attemptCount'[i] = IF i \in batch THEN attemptCount[i] + 1 ELSE attemptCount[i]
  BY <1>1 DEF TypeOK
<1>12. TypeOK'
  <2>1. retryWait' \in [Items -> Nat]
    <3>1. retryWait' = [i \in Items |->
                         IF i \in batch \ gone
                         THEN Remaining(ComputeIngestionBackoff(attemptCount[i]), age[f])
                         ELSE retryWait[i]]
      BY DEF BatchFails, MayReject, batch, gone
    <3>2. \A i \in batch \ gone :
             Remaining(ComputeIngestionBackoff(attemptCount[i]), age[f]) \in Nat
      BY <1>3, BackoffType DEF TypeOK
    <3> QED BY <3>1, <3>2 DEF TypeOK
  <2>2. attemptCount' \in [Items -> Nat]
    BY <1>1 DEF TypeOK
  <2>3. totalDiscardedCount' \in Nat
    <3>1. Cardinality(gone) \in Nat
      BY <1>4, <1>7, FS_Subset, FS_CardinalityType
    <3>2. totalDiscardedCount' = totalDiscardedCount + Cardinality(gone)
      BY <1>1 DEF gone
    <3> QED BY <3>1, <3>2 DEF TypeOK
  <2>4. /\ confirmed' \subseteq Items /\ discarded' \subseteq Items /\ enqueued' \subseteq Items
        /\ copies' \in [Items -> Nat] /\ pendingBatch' \in Seq(Items)
    BY <1>1, <1>2, <1>4 DEF TypeOK
  <2>5. flushTimer' \in BOOLEAN
    BY <1>1, Zenon DEF TypeOK
  <2> QED BY <1>2, <1>9, <2>1, <2>2, <2>3, <2>4, <2>5, Zenon DEF TypeOK
<1>13. NoItemLost'
  BY <1>1, <1>2, <1>4, <1>10 DEF NoItemLost
<1>14. OneHolder'
  <2>1. \A g, h \in Flushes : g # h => Range(inFlight'[g]) \cap Range(inFlight'[h]) = {}
    BY <1>2 DEF OneHolder
  <2>2. Range(pendingBatch) \cap Range(retryBuffer') = {}
    BY <1>5, <1>9 DEF OneHolder, Buffered
  <2>3. /\ Buffered' \cap InFlightItems' = {}
        /\ (Buffered' \cup InFlightItems') \cap (confirmed \cup discarded') = {}
        /\ confirmed \cap discarded' = {}
    BY <1>1, <1>2, <1>4, <1>5, <1>10 DEF OneHolder
  <2> QED BY <1>1, <1>2, <1>9, <2>1, <2>2, <2>3 DEF OneHolder
<1>15. AttemptStages'
  <2>1. \A i \in Items : attemptCount[i] \in Nat
    BY DEF TypeOK
  <2>2. \A i \in (Items \ enqueued') \cup Range(pendingBatch') : attemptCount'[i] = 0
    <3>1. \A i \in Range(pendingBatch) : i \in Items /\ i \notin batch
      BY <1>5 DEF Buffered, TypeOK, Range
    <3>2. \A i \in Items \ enqueued : i \notin batch
      BY <1>2 DEF NoItemLost
    <3> QED BY <1>1, <1>11, <3>1, <3>2 DEF AttemptStages
  <2>3. \A i \in Range(retryBuffer') : attemptCount'[i] > 0
    <3>1. \A i \in Range(retryBuffer) : i \in Items
      BY DEF TypeOK, Range
    <3>2. \A i \in Range(retryBuffer) : attemptCount'[i] > 0
      BY <1>11, <2>1, <3>1 DEF AttemptStages
    <3>3. \A i \in batch \ gone : attemptCount'[i] > 0
      <4>1. \A i \in batch : attemptCount'[i] = attemptCount[i] + 1
        BY <1>2, <1>11, Zenon
      <4> QED BY <1>3, <4>1
    <3>4. Range(retryBuffer') = Range(retryBuffer) \cup (batch \ gone)
      BY <1>9
    <3> QED BY <3>2, <3>3, <3>4, Zenon
  <2>4. \A i \in Buffered' \cup InFlightItems' \cup confirmed' : attemptCount'[i] < AttemptLimit
    <3>1. \A i \in Buffered \cup InFlightItems \cup confirmed : i \in Items
      BY DEF TypeOK, Range, Buffered, InFlightItems
    <3>2. \A i \in batch \ gone : attemptCount[i] + 1 < AttemptLimit
      BY <1>3, <1>4, LimitIsPositive
    <3>3. \A i \in Buffered \cup (InFlightItems \ batch) \cup confirmed : i \notin batch
      BY <1>5
    <3> QED BY <1>1, <1>2, <1>10, <1>11, <3>1, <3>2, <3>3 DEF AttemptStages
  <2>5. \A i \in discarded' : attemptCount'[i] = AttemptLimit
    <3>1. \A i \in discarded : i \in Items /\ i \notin batch
      BY <1>5 DEF TypeOK
    <3> QED BY <1>1, <1>2, <1>4, <1>11, <3>1 DEF AttemptStages
  <2> QED BY <2>2, <2>3, <2>4, <2>5 DEF AttemptStages
<1>16. CopiesPerAttempt'
  <2>1. ASSUME NEW i \in Items \ (InFlightItems' \cup confirmed')
        PROVE  copies'[i] <= attemptCount'[i]
    <3>1. CASE i \in batch
      BY <1>1, <1>6, <1>11, <3>1
    <3>2. CASE i \notin batch
      BY <1>1, <1>2, <1>11, <3>2 DEF CopiesPerAttempt
    <3> QED BY <3>1, <3>2
  <2>2. \A i \in confirmed' : copies'[i] \in 1 .. attemptCount'[i] + 1
    <3>1. \A i \in confirmed : i \in Items /\ i \notin batch
      BY <1>5 DEF TypeOK
    <3> QED BY <1>1, <1>11, <3>1 DEF CopiesPerAttempt
  <2>3. ASSUME NEW g \in Flushes, NEW i \in Range(inFlight'[g])
        PROVE  copies'[i] <= attemptCount'[i]
                  + IF accepted'[g] /\ i \in Range(Batch(g)') THEN 1 ELSE 0
    <3>1. i \in Items /\ i \notin batch /\ i \in Range(inFlight[g])
      <4>1. i \in InFlightItems'
        BY <2>3 DEF InFlightItems
      <4>2. i \in Range(inFlight[g])
        BY <1>2, <2>3
      <4> QED BY <1>2, <4>1, <4>2 DEF TypeOK, Range
    <3>2. attemptCount'[i] = attemptCount[i] /\ copies'[i] = copies[i]
      BY <1>1, <1>11, <3>1
    <3>3. CASE g = f
      <4>1. ~accepted'[g]
        BY <1>2, <3>3 DEF TypeOK
      <4>2. copies[i] <= attemptCount[i] + 0
        BY <3>1, <3>3 DEF CopiesPerAttempt, batch
      <4> QED BY <3>2, <4>1, <4>2
    <3>4. CASE g # f
      <4>1. accepted'[g] = accepted[g]
        BY <1>2, <3>4 DEF TypeOK
      <4> QED BY <1>2, <3>1, <3>2, <3>4, <4>1 DEF CopiesPerAttempt
    <3> QED BY <3>3, <3>4
  <2>4. ASSUME NEW g \in Flushes, accepted'[g]
        PROVE  ~Idle(g)' /\ \A i \in Range(Batch(g)') : copies'[i] >= 1
    <3>1. g # f /\ accepted[g]
      BY <1>2, <2>4 DEF TypeOK
    <3> QED BY <1>1, <1>2, <3>1 DEF CopiesPerAttempt
  <2> QED BY <2>1, <2>2, <2>3, <2>4 DEF CopiesPerAttempt
<1>17. DiscardsCounted'
  <2>1. IsFiniteSet(gone)
    BY <1>4, <1>7, FS_Subset
  <2>2. discarded \cap gone = {}
    BY <1>4, <1>5
  <2>3. /\ IsFiniteSet(discarded \cup gone)
        /\ Cardinality(discarded \cup gone) = Cardinality(discarded) + Cardinality(gone)
                                               - Cardinality(discarded \cap gone)
    BY <2>1, FS_Union DEF DiscardsCounted
  <2>4. Cardinality(discarded \cap gone) = 0
    BY <2>2, FS_EmptySet
  <2>5. Cardinality(discarded) \in Nat /\ Cardinality(gone) \in Nat
    BY <2>1, FS_CardinalityType DEF DiscardsCounted
  <2>6. totalDiscardedCount' = totalDiscardedCount + Cardinality(gone)
    BY <1>1 DEF gone
  <2> QED BY <1>1, <2>3, <2>4, <2>5, <2>6 DEF DiscardsCounted, gone
<1> QED BY <1>12, <1>13, <1>14, <1>15, <1>16, <1>17

\* Every step of the client preserves the invariant.
LEMMA StepIInv == IInv /\ [Next]_vars => IInv'
<1> SUFFICES ASSUME IInv, [Next]_vars PROVE IInv'
  OBVIOUS
<1>1. CASE UNCHANGED vars
  <2>1. retryWait' \in [Items -> Nat] /\ age' \in [Flushes -> Nat]
    BY <1>1 DEF vars, timing, IInv, TypeOK
  <2>2. flushTimer' \in BOOLEAN
    BY <1>1, Zenon DEF vars, IInv, TypeOK
  <2> QED BY <1>1, <2>1, <2>2, SamePlacement DEF vars, history
<1>2. CASE StartPeriodicFlush \/ StopPeriodicFlush
  <2>1. retryWait' \in [Items -> Nat] /\ age' \in [Flushes -> Nat]
    BY <1>2 DEF StartPeriodicFlush, StopPeriodicFlush, timing, IInv, TypeOK
  <2>2. flushTimer' \in BOOLEAN
    BY <1>2, Zenon DEF StartPeriodicFlush, StopPeriodicFlush
  <2> QED BY <1>2, <2>1, <2>2, SamePlacement
          DEF StartPeriodicFlush, StopPeriodicFlush, history
<1>3. CASE \E i \in Items : Push(i)
  BY <1>3, PushStep
<1>4. CASE \E i \in Items, f \in Flushes : PushAndFlush(i, f)
  <2>1. PICK i \in Items, f \in Flushes : PushAndFlush(i, f)
    BY <1>4
  <2>2. /\ i \notin enqueued /\ enqueued' = enqueued \cup {i}
        /\ BeginFlush(f, Append(pendingBatch, i))
        /\ UNCHANGED <<attemptCount, retryWait, age, accepted, flushTimer,
                       totalDiscardedCount, confirmed, discarded, copies>>
    BY <2>1 DEF PushAndFlush, timing
  <2>3. i \notin Range(pendingBatch)
    BY <2>2, NewItemIsNowhere DEF Buffered
  <2>4. pendingBatch \in Seq(Items) /\ NoRepeats(pendingBatch)
    BY DEF IInv, TypeOK, OneHolder
  <2>5. /\ Append(pendingBatch, i) \in Seq(Items)
        /\ NoRepeats(Append(pendingBatch, i))
        /\ Range(Append(pendingBatch, i)) = Range(pendingBatch) \cup {i}
    BY <2>3, <2>4, AppendElements
  <2>6. {i} \in SUBSET Items /\ {i} \cap enqueued = {}
    BY <2>2
  <2> QED BY <2>2, <2>5, <2>6, BeginFlushStep
<1>5. CASE \E f \in Flushes : PeriodicFlush(f)
  <2>1. PICK f \in Flushes : PeriodicFlush(f)
    BY <1>5
  <2>2. /\ BeginFlush(f, pendingBatch) /\ enqueued' = enqueued
        /\ UNCHANGED <<attemptCount, retryWait, age, accepted, flushTimer,
                       totalDiscardedCount, confirmed, discarded, copies>>
    BY <2>1 DEF PeriodicFlush, timing, history
  <2>3. pendingBatch \in Seq(Items) /\ NoRepeats(pendingBatch)
    BY DEF IInv, TypeOK, OneHolder
  <2>4. /\ {} \in SUBSET Items /\ {} \cap enqueued = {}
        /\ enqueued' = enqueued \cup {} /\ Range(pendingBatch) = Range(pendingBatch) \cup {}
    BY <2>2
  <2> QED BY <2>2, <2>3, <2>4, BeginFlushStep
<1>6. CASE \E f \in Flushes : ApiAccepts(f)
  BY <1>6, ApiAcceptsStep
<1>7. CASE \E f \in Flushes : BatchSucceeds(f)
  BY <1>7, BatchSucceedsStep
<1>8. CASE \E f \in Flushes : BatchFails(f)
  BY <1>8, BatchFailsStep
<1>9. CASE Tick
  <2>1. retryWait' \in [Items -> Nat]
    BY <1>9 DEF Tick, IInv, TypeOK
  <2>2. age' \in [Flushes -> Nat]
    BY <1>9 DEF Tick, IInv, TypeOK
  <2>3. flushTimer' \in BOOLEAN
    BY <1>9, Zenon DEF Tick, IInv, TypeOK
  <2> QED BY <1>9, <2>1, <2>2, <2>3, SamePlacement DEF Tick, history
<1> QED BY <1>1, <1>2, <1>3, <1>4, <1>5, <1>6, <1>7, <1>8, <1>9 DEF Next

\* The conjunction of named invariants is preserved by every step.
THEOREM InductiveInvariant == Spec => []IInv
<1> QED BY InitIInv, StepIInv, PTL DEF Spec

\* Type correctness of the client, for every size and setting.
THEOREM TypeCorrect == Spec => []TypeOK
<1>1. IInv => TypeOK
  BY DEF IInv
<1> QED BY <1>1, InductiveInvariant, PTL

\* No item is lost, whatever flushes overlap and whatever requests fail.
THEOREM ItemsAreNeverLost == Spec => []NoItemLost
<1>1. IInv => NoItemLost
  BY DEF IInv
<1> QED BY <1>1, InductiveInvariant, PTL

\* An item is in one place only, and a settled item in no buffer.
THEOREM ItemsHaveOneHolder == Spec => []OneHolder
<1>1. IInv => OneHolder
  BY DEF IInv
<1> QED BY <1>1, InductiveInvariant, PTL

\* Duplicates are bounded by the number of attempts.
THEOREM DuplicationIsBounded == Spec => []BoundedDuplication
<1>1. IInv => BoundedDuplication
  <2> SUFFICES ASSUME IInv PROVE BoundedDuplication
    OBVIOUS
  <2> USE DEF IInv
  <2>1. \A i \in Items : copies[i] \in Nat /\ attemptCount[i] \in Nat
    BY DEF TypeOK
  <2>2. ASSUME NEW i \in Items PROVE copies[i] <= AttemptLimit
    <3>1. CASE i \in confirmed
      BY <2>1, <3>1, LimitIsPositive DEF CopiesPerAttempt, AttemptStages
    <3>2. CASE i \in InFlightItems
      <4>1. PICK f \in Flushes : i \in Range(inFlight[f])
        BY <3>2 DEF InFlightItems
      <4>2. copies[i] <= attemptCount[i] + 1
        BY <2>1, <4>1 DEF CopiesPerAttempt
      <4> QED BY <2>1, <3>2, <4>2, LimitIsPositive DEF AttemptStages
    <3>3. CASE i \notin InFlightItems \cup confirmed
      <4>1. copies[i] <= attemptCount[i]
        BY <3>3 DEF CopiesPerAttempt
      <4>2. attemptCount[i] <= AttemptLimit
        <5>1. CASE i \in enqueued
          BY <3>3, <5>1, <2>1, LimitIsPositive DEF NoItemLost, AttemptStages
        <5>2. CASE i \notin enqueued
          BY <5>2, LimitIsPositive DEF AttemptStages
        <5> QED BY <5>1, <5>2
      <4> QED BY <2>1, <4>1, <4>2, LimitIsPositive
    <3> QED BY <3>1, <3>2, <3>3
  <2>3. \A i \in confirmed : copies[i] >= 1
    BY <2>1 DEF CopiesPerAttempt, TypeOK
  <2> QED BY <2>2, <2>3 DEF BoundedDuplication
<1> QED BY <1>1, InductiveInvariant, PTL

\* An item is discarded exactly at its failure number AttemptLimit, so after one
\* retry fewer than MaxRetries (DiscardsFollowRetries is what the comments say).
THEOREM DiscardsAreAtLimit == Spec => []DiscardedAtLimit
<1>1. IInv => DiscardedAtLimit
  <2> SUFFICES ASSUME IInv PROVE DiscardedAtLimit
    OBVIOUS
  <2> USE DEF IInv
  <2>1. \A i \in discarded : attemptCount[i] = AttemptLimit
    BY DEF AttemptStages
  <2>2. ASSUME NEW i \in Items, attemptCount[i] = AttemptLimit PROVE i \in discarded
    <3>1. i \in enqueued
      BY <2>2, LimitIsPositive DEF AttemptStages
    <3>2. i \notin Buffered \cup InFlightItems \cup confirmed
      BY <2>2, LimitIsPositive DEF AttemptStages
    <3> QED BY <3>1, <3>2 DEF NoItemLost
  <2> QED BY <2>1, <2>2 DEF DiscardedAtLimit, DiscardsCounted
<1> QED BY <1>1, InductiveInvariant, PTL

---------------------------------------------------------------------------
\* What the ingestion status (ingestion-status.ts:42) says when this is one of
\* the two clients and `other` is the status of the other one.
LossIsReported ==
    discarded # {} =>
        \A other \in BufferStatuses :
            /\ ComputeIngestionHealth(GetBufferStatus, other) = "unhealthy"
            /\ ComputeIngestionHealth(other, GetBufferStatus) = "unhealthy"

\* No alarm without a loss, no "healthy" while an item waits for its retry.
DelayIsReported ==
    discarded = {} =>
        \A other \in BufferStatuses :
            ComputeIngestionHealth(GetBufferStatus, other) =
                IF other.totalDiscardedCount > 0 THEN "unhealthy"
                ELSE IF retryBuffer # << >> \/ other.retryInProgressCount > 0
                THEN "degraded" ELSE "healthy"

\* A client that has given up an item makes ingestion unhealthy, whatever the
\* other client reports, from then on; without a loss the status is that of the
\* other client, or degraded while an item waits in the retry buffer.
THEOREM StatusIsTruthful == Spec => [](LossIsReported /\ DelayIsReported)
<1>1. IInv => LossIsReported /\ DelayIsReported
  <2> SUFFICES ASSUME IInv, NEW other \in BufferStatuses
               PROVE  /\ discarded # {} =>
                           /\ ComputeIngestionHealth(GetBufferStatus, other) = "unhealthy"
                           /\ ComputeIngestionHealth(other, GetBufferStatus) = "unhealthy"
                      /\ discarded = {} =>
                           ComputeIngestionHealth(GetBufferStatus, other) =
                             IF other.totalDiscardedCount > 0 THEN "unhealthy"
                             ELSE IF retryBuffer # << >> \/ other.retryInProgressCount > 0
                             THEN "degraded" ELSE "healthy"
    BY DEF LossIsReported, DelayIsReported
  <2>1. /\ totalDiscardedCount \in Nat
        /\ totalDiscardedCount = 0 <=> discarded = {}
    BY FS_EmptySet DEF IInv, TypeOK, DiscardsCounted
  <2>2. Len(retryBuffer) \in Nat /\ (Len(retryBuffer) = 0 <=> retryBuffer = << >>)
    BY DEF IInv, TypeOK
  <2>3. other.totalDiscardedCount \in Nat /\ other.retryInProgressCount \in Nat
    BY DEF BufferStatuses
  <2> QED BY <2>1, <2>2, <2>3 DEF ComputeIngestionHealth, GetBufferStatus
<1> QED BY <1>1, InductiveInvariant, PTL

---------------------------------------------------------------------------
\* In terms of the history, which the invariant ties to the buffers.
SettledStatus ==
  [i \in Items |-> IF i \in confirmed THEN "confirmed"
                   ELSE IF i \in discarded THEN "discarded"
                   ELSE IF i \in enqueued THEN "held"
                   ELSE "new"]

LEMMA StatusFromHistory == IInv => DeliveryStatus = SettledStatus
<1> SUFFICES ASSUME IInv PROVE DeliveryStatus = SettledStatus
  OBVIOUS
<1>1. /\ enqueued = Buffered \cup InFlightItems \cup confirmed \cup discarded
      /\ (Buffered \cup InFlightItems) \cap (confirmed \cup discarded) = {}
  BY DEF IInv, NoItemLost, OneHolder
<1> QED BY <1>1 DEF DeliveryStatus, SettledStatus

LEMMA InitImplements == Init => Promise!Init
<1> SUFFICES ASSUME Init PROVE Promise!Init
  OBVIOUS
<1>1. DeliveryStatus = SettledStatus
  BY InitIInv, StatusFromHistory
<1>2. confirmed = {} /\ discarded = {} /\ enqueued = {}
  BY DEF Init
<1>3. SettledStatus = [i \in Items |-> "new"]
  BY <1>2 DEF SettledStatus
<1> QED BY <1>1, <1>3 DEF Init, Promise!Init

LEMMA StepImplements ==
  IInv /\ IInv' /\ [Next]_vars => [Promise!Next]_(Promise!deliveryVars)
<1> SUFFICES ASSUME IInv, IInv', [Next]_vars
             PROVE  Promise!Next \/ UNCHANGED Promise!deliveryVars
  OBVIOUS
<1>1. DeliveryStatus = SettledStatus
  BY StatusFromHistory
<1>2. DeliveryStatus' = SettledStatus'
  <2>1. (IInv => DeliveryStatus = SettledStatus)'
    BY StatusFromHistory, PTL
  <2> QED BY <2>1
<1>3. ASSUME UNCHANGED <<enqueued, confirmed, discarded, attemptCount, copies>>
      PROVE  UNCHANGED Promise!deliveryVars
  <2>1. SettledStatus' = SettledStatus
    BY <1>3 DEF SettledStatus
  <2> QED BY <1>1, <1>2, <1>3, <2>1 DEF Promise!deliveryVars
<1>4. ASSUME NEW i \in Items, i \notin enqueued, enqueued' = enqueued \cup {i},
             UNCHANGED <<confirmed, discarded, attemptCount, copies>>
      PROVE  Promise!Accept(i)
  <2>1. i \notin confirmed /\ i \notin discarded
    BY <1>4, NewItemIsNowhere
  <2>2. SettledStatus[i] = "new"
    BY <1>4, <2>1 DEF SettledStatus
  <2>3. SettledStatus' = [SettledStatus EXCEPT ![i] = "held"]
    BY <1>4, <2>1 DEF SettledStatus
  <2> QED BY <1>1, <1>2, <1>4, <2>2, <2>3 DEF Promise!Accept
<1>5. ASSUME NEW f \in Flushes
      PROVE  /\ Range(Batch(f)) \in SUBSET Items
             /\ \A i \in Range(Batch(f)) : SettledStatus[i] = "held"
             /\ \A i \in Range(Batch(f)) :
                   copies[i] <= attemptCount[i] + IF accepted[f] THEN 1 ELSE 0
             /\ accepted[f] => \A i \in Range(Batch(f)) : copies[i] > 0
  <2>1. Range(Batch(f)) \subseteq Range(inFlight[f])
    BY BatchElements DEF IInv
  <2>2. Range(inFlight[f]) \subseteq InFlightItems /\ Range(inFlight[f]) \subseteq Items
    BY DEF IInv, TypeOK, InFlightItems, Range
  <2>3. \A i \in Range(Batch(f)) : i \in enqueued /\ i \notin confirmed \cup discarded
    BY <2>1, <2>2 DEF IInv, NoItemLost, OneHolder
  <2>4. \A i \in Range(Batch(f)) : SettledStatus[i] = "held"
    BY <2>1, <2>2, <2>3 DEF SettledStatus
  <2>5. \A i \in Range(Batch(f)) :
           copies[i] <= attemptCount[i] + IF accepted[f] THEN 1 ELSE 0
    BY <2>1 DEF IInv, CopiesPerAttempt
  <2>6. accepted[f] => \A i \in Range(Batch(f)) : copies[i] > 0
    BY <2>1, <2>2 DEF IInv, CopiesPerAttempt, TypeOK
  <2> QED BY <2>1, <2>2, <2>4, <2>5, <2>6
<1>6. CASE UNCHANGED vars
  BY <1>3, <1>6 DEF vars, history
<1>7. CASE StartPeriodicFlush \/ StopPeriodicFlush \/ Tick
  BY <1>3, <1>7 DEF StartPeriodicFlush, StopPeriodicFlush, Tick, history
<1>8. CASE \E i \in Items : Push(i)
  <2>1. PICK i \in Items : Push(i)
    BY <1>8
  <2>2. Promise!Accept(i)
    BY <1>4, <2>1 DEF Push
  <2> QED BY <2>2 DEF Promise!Next
<1>9. CASE \E i \in Items, f \in Flushes : PushAndFlush(i, f)
  <2>1. PICK i \in Items, f \in Flushes : PushAndFlush(i, f)
    BY <1>9
  <2>2. Promise!Accept(i)
    BY <1>4, <2>1 DEF PushAndFlush
  <2> QED BY <2>2 DEF Promise!Next
<1>10. CASE \E f \in Flushes : PeriodicFlush(f)
  BY <1>3, <1>10 DEF PeriodicFlush, history
<1>11. CASE \E f \in Flushes : ApiAccepts(f)
  <2>1. PICK f \in Flushes : ApiAccepts(f)
    BY <1>11
  <2>2. /\ ~accepted[f]
        /\ copies' = [i \in Items |-> copies[i] + IF i \in Range(Batch(f)) THEN 1 ELSE 0]
        /\ UNCHANGED <<attemptCount, enqueued, confirmed, discarded>>
    BY <2>1 DEF ApiAccepts
  <2>3. SettledStatus' = SettledStatus
    BY <2>2 DEF SettledStatus
  <2>4. \A i \in Range(Batch(f)) : copies[i] <= attemptCount[i]
    <3>1. \A i \in Range(Batch(f)) : copies[i] <= attemptCount[i] + 0
      BY <1>5, <2>2
    <3>2. \A i \in Range(Batch(f)) : attemptCount[i] \in Nat
      BY <1>5 DEF IInv, TypeOK
    <3> QED BY <3>1, <3>2
  <2>5. Promise!Arrive(Range(Batch(f)))
    BY <1>1, <1>2, <1>5, <2>2, <2>3, <2>4 DEF Promise!Arrive
  <2> QED BY <1>5, <2>5 DEF Promise!Next
<1>12. CASE \E f \in Flushes : BatchSucceeds(f)
  <2>1. PICK f \in Flushes : BatchSucceeds(f)
    BY <1>12
  <2>2. /\ accepted[f] /\ confirmed' = confirmed \cup Range(Batch(f))
        /\ UNCHANGED <<attemptCount, enqueued, discarded, copies>>
    BY <2>1 DEF BatchSucceeds
  <2>3. SettledStatus' = [i \in Items |-> IF i \in Range(Batch(f)) THEN "confirmed"
                                          ELSE SettledStatus[i]]
    BY <2>2 DEF SettledStatus
  <2>4. Promise!Acknowledge(Range(Batch(f)))
    BY <1>1, <1>2, <1>5, <2>2, <2>3 DEF Promise!Acknowledge
  <2> QED BY <1>5, <2>4 DEF Promise!Next
<1>13. CASE \E f \in Flushes : BatchFails(f)
  <2>1. PICK f \in Flushes : BatchFails(f)
    BY <1>13
  <2>2. /\ discarded' = discarded \cup Exhausted(f)
        /\ attemptCount' = [i \in Items |->
                              attemptCount[i] + IF i \in Range(Batch(f)) THEN 1 ELSE 0]
        /\ UNCHANGED <<enqueued, confirmed, copies>>
    BY <2>1 DEF BatchFails, MayReject
  <2>3. \A i \in Items : i \in Exhausted(f)
           <=> i \in Range(Batch(f)) /\ attemptCount[i] + 1 >= AttemptLimit
    <3>1. attemptCount \in [Items -> Nat]
      BY DEF IInv, TypeOK
    <3>2. \A n \in Nat : n + 1 >= MaxRetries <=> n + 1 >= AttemptLimit
      BY IngestionAssumption DEF AttemptLimit
    <3> QED  BY <3>1, <3>2 DEF Exhausted
  <2>4. \A i \in Range(Batch(f)) : i \notin confirmed
    BY <1>5 DEF SettledStatus
  <2>5. SettledStatus' =
          [i \in Items |-> IF i \in Range(Batch(f)) /\ attemptCount[i] + 1 >= AttemptLimit
                           THEN "discarded" ELSE SettledStatus[i]]
    <3>1. \A i \in Items : i \in discarded'
                            <=> i \in discarded \/ i \in Exhausted(f)
      BY <2>2
    <3> QED BY <2>2, <2>3, <2>4, <3>1 DEF SettledStatus
  <2>6. Promise!Fail(Range(Batch(f)))
    BY <1>1, <1>2, <1>5, <2>2, <2>5 DEF Promise!Fail
  <2> QED BY <1>5, <2>6 DEF Promise!Next
<1> QED BY <1>6, <1>7, <1>8, <1>9, <1>10, <1>11, <1>12, <1>13 DEF Next

\* The client implements the abstract promise: each of its steps is a step of
\* BoundedDelivery or leaves status, failures and copies alone.
THEOREM Implementation == Spec => ImplementsBoundedDelivery
<1>1. Init => Promise!Init
  BY InitImplements
<1>2. IInv /\ IInv' /\ [Next]_vars => [Promise!Next]_(Promise!deliveryVars)
  BY StepImplements
<1>3. Spec => Init /\ [][Next]_vars
  BY DEF Spec
<1> QED BY <1>1, <1>2, <1>3, InductiveInvariant, PTL
        DEF ImplementsBoundedDelivery, Promise!Spec
===========================================================================
