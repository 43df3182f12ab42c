-------------------------- MODULE IngestionClient --------------------------
(***************************************************************************)
(* The buffered delivery of the two Dynatrace ingestion clients.           *)
(* DynatraceLogIngestionClient (dynatrace-ingestion/log-client.ts) and     *)
(* DynatraceMetricsIngestionClient (metrics-client.ts) are the same        *)
(* machine over different payloads, so an item here is a log entry or a    *)
(* metric.                                                                 *)
(*                                                                         *)
(* JavaScript runs one handler at a time, but flush() awaits the API once  *)
(* per batch and nothing prevents a second flush (a full batch, the        *)
(* periodic timer) from starting while an earlier one waits.  Flushes is   *)
(* the set of flush() calls that can be suspended at the same time.  A     *)
(* flush holds its items in a local variable, outside both buffers.        *)
(*                                                                         *)
(* Time is relative: retryWait counts down what is left of the backoff of  *)
(* an item in the retry buffer, and age counts up since a flush captured   *)
(* `now`, because the code computes the next retry from that instant and   *)
(* not from the failure.                                                   *)
(***************************************************************************)
EXTENDS Integers, FiniteSets, SequenceFilter

CONSTANTS
    Items,              \* payloads the agent may push; item ids are unique
    Flushes,            \* flush() calls that may be suspended at once
    MaxBatchSize,       \* batchConfig.maxBatchSize
    MaxRetries,         \* retryConfig.maxRetries
    InitialBackoff,     \* retryConfig.initialBackoffSeconds
    BackoffMultiplier,  \* retryConfig.backoffMultiplier
    MaxBackoff          \* retryConfig.maxBackoffSeconds

\* What validateConfig (config.ts:206-234) guarantees, for integer settings; of
\* MaxBackoff it checks nothing, and a negative one has the effect of 0.
\* The powers are natural numbers; only those of a reachable attempt count.
ASSUME IngestionAssumption ==
    /\ MaxBatchSize \in Nat \ {0}
    /\ MaxRetries \in Nat
    /\ InitialBackoff \in Nat \ {0}
    /\ BackoffMultiplier \in Nat \ {0}
    /\ MaxBackoff \in Nat
    /\ \A k \in 0 .. MaxRetries : InitialBackoff * BackoffMultiplier^k \in Nat

VARIABLES
    pendingBatch,         \* items not yet attempted, in push order
    retryBuffer,          \* items waiting for a retry, in failure order
    attemptCount,         \* failed attempts of each item
    retryWait,            \* seconds until nextRetryTimestamp, 0 when due
    inFlight,             \* itemsToSend of each flush from the current batch on
    age,                  \* seconds since the flush captured `now`
    accepted,             \* the API has ingested the request of this flush
    flushTimer,           \* the periodic flush timer is running
    totalDiscardedCount,  \* the counter that getBufferStatus reports
    \* history, which the code does not keep
    enqueued,             \* items pushed so far
    confirmed,            \* items whose batch was answered with a 2xx
    discarded,            \* items given up
    copies                \* times the API ingested each item

timing == <<retryWait, age>>
history == <<enqueued, confirmed, discarded, copies>>
vars == <<pendingBatch, retryBuffer, attemptCount, retryWait, inFlight, age,
          accepted, flushTimer, totalDiscardedCount, history>>

---------------------------------------------------------------------------
\* computeIngestionBackoff: seconds to wait after `attempt` earlier failures.
ComputeIngestionBackoff(attempt) ==
    LET delay == InitialBackoff * BackoffMultiplier^attempt
    IN  IF delay <= MaxBackoff THEN delay ELSE MaxBackoff

\* What is left of `delay` when it was counted from `elapsed` seconds ago.
Remaining(delay, elapsed) == IF elapsed <= delay THEN delay - elapsed ELSE 0

Idle(f) == inFlight[f] = << >>

\* The batch flush f is sending, and what it sends after that.
Batch(f) ==
    SubSeq(inFlight[f], 1,
           IF Len(inFlight[f]) <= MaxBatchSize THEN Len(inFlight[f])
                                               ELSE MaxBatchSize)
\* Faults: the next batch starts one item late, or one item early.
LaterBatchesSkip(f) == SubSeq(inFlight[f], MaxBatchSize + 2, Len(inFlight[f]))
LaterBatchesOverlap(f) == SubSeq(inFlight[f], MaxBatchSize, Len(inFlight[f]))

LaterBatches(f) == SubSeq(inFlight[f], MaxBatchSize + 1, Len(inFlight[f]))

\* nextRetryTimestamp <= now
Due == {i \in Items : retryWait[i] = 0}

\* Fault: retries are taken along with new items only.
ItemsToSendWithPending(pending) ==
    IF pending = << >> THEN << >> ELSE pending \o KeepIn(retryBuffer, Due)

\* The items a flush takes: the whole pending batch, then the due retries.
ItemsToSend(pending) == pending \o KeepIn(retryBuffer, Due)

\* Faults: the count before the failure is compared, and for being above the
\* limit (more retries than even the comments allow); and one attempt too few.
ExhaustedLate(f) ==
    {i \in Range(Batch(f)) : attemptCount[i] > MaxRetries}
ExhaustedEarly(f) ==
    {i \in Range(Batch(f)) : attemptCount[i] + 2 >= MaxRetries}

\* The items of a failed batch that are given up: newAttemptCount >= maxRetries,
\* the first attempt counted among the retries.
Exhausted(f) ==
    {i \in Range(Batch(f)) : attemptCount[i] + 1 >= MaxRetries}

\* Without what a suspended flush holds.
GetBufferStatus ==
    [bufferedItemCount |-> Len(pendingBatch) + Len(retryBuffer),
     retryInProgressCount |-> Len(retryBuffer),
     totalDiscardedCount |-> totalDiscardedCount]

---------------------------------------------------------------------------
Init ==
    /\ pendingBatch = << >>
    /\ retryBuffer = << >>
    /\ attemptCount = [i \in Items |-> 0]
    /\ retryWait = [i \in Items |-> 0]
    /\ inFlight = [f \in Flushes |-> << >>]
    /\ age = [f \in Flushes |-> 0]
    /\ accepted = [f \in Flushes |-> FALSE]
    /\ flushTimer = FALSE
    /\ totalDiscardedCount = 0
    /\ enqueued = {}
    /\ confirmed = {}
    /\ discarded = {}
    /\ copies = [i \in Items |-> 0]

StartPeriodicFlush ==
    /\ ~flushTimer
    /\ flushTimer' = TRUE
    /\ UNCHANGED <<pendingBatch, retryBuffer, attemptCount, timing, inFlight,
                   accepted, totalDiscardedCount, history>>

StopPeriodicFlush ==
    /\ flushTimer
    /\ flushTimer' = FALSE
    /\ UNCHANGED <<pendingBatch, retryBuffer, attemptCount, timing, inFlight,
                   accepted, totalDiscardedCount, history>>

\* The part of flush() before its first await: take the whole pending batch
\* and the due retries, remove the latter from the retry buffer by id, and
\* issue the first request.
BeginFlush(f, pending) ==
    LET itemsToSend == ItemsToSend(pending)
        retrying == {i \in Range(itemsToSend) : attemptCount[i] > 0}
    IN  /\ Idle(f)
        /\ itemsToSend # << >>
        /\ pendingBatch' = << >>
        /\ retryBuffer' = KeepIn(retryBuffer, Items \ retrying)
        /\ inFlight' = [inFlight EXCEPT ![f] = itemsToSend]

\* push*Log / push*Metric, leaving the batch below maxBatchSize.
Push(i) ==
    /\ i \notin enqueued
    /\ Len(pendingBatch) + 1 < MaxBatchSize
    /\ enqueued' = enqueued \cup {i}
    /\ pendingBatch' = Append(pendingBatch, i)
    /\ UNCHANGED <<retryBuffer, attemptCount, timing, inFlight, accepted,
                   flushTimer, totalDiscardedCount, confirmed, discarded, copies>>

\* push*Log / push*Metric that fills the batch: the flush starts in the same step.
PushAndFlush(i, f) ==
    /\ i \notin enqueued
    /\ Len(pendingBatch) + 1 >= MaxBatchSize
    /\ enqueued' = enqueued \cup {i}
    /\ BeginFlush(f, Append(pendingBatch, i))
    /\ UNCHANGED <<attemptCount, timing, accepted, flushTimer,
                   totalDiscardedCount, confirmed, discarded, copies>>

\* The callback of setInterval.  A flush with nothing to send returns at once.
PeriodicFlush(f) ==
    /\ flushTimer
    /\ BeginFlush(f, pendingBatch)
    /\ UNCHANGED <<attemptCount, timing, accepted, flushTimer,
                   totalDiscardedCount, history>>

\* The API ingests the request in flight; its answer may still be lost or late.
ApiAccepts(f) ==
    /\ ~Idle(f)
    /\ ~accepted[f]
    /\ accepted' = [accepted EXCEPT ![f] = TRUE]
    /\ copies' = [i \in Items |->
                    copies[i] + IF i \in Range(Batch(f)) THEN 1 ELSE 0]
    /\ UNCHANGED <<pendingBatch, retryBuffer, attemptCount, timing, inFlight,
                   flushTimer, totalDiscardedCount, enqueued, confirmed, discarded>>

\* The loop goes on to the next batch; after the last one flush() returns.
NextBatch(f) ==
    /\ inFlight' = [inFlight EXCEPT ![f] = LaterBatches(f)]
    /\ accepted' = [accepted EXCEPT ![f] = FALSE]
    /\ age' = [age EXCEPT ![f] = IF LaterBatches(f) = << >> THEN 0 ELSE @]

\* sendToApi resolves: the request was ingested and answered in time.
BatchSucceeds(f) ==
    /\ ~Idle(f)
    /\ accepted[f]
    /\ confirmed' = confirmed \cup Range(Batch(f))
    /\ NextBatch(f)
    /\ UNCHANGED <<pendingBatch, retryBuffer, attemptCount, retryWait, flushTimer,
                   totalDiscardedCount, enqueued, discarded, copies>>

\* Fault: the request has no timeout, so it ends only with an answer.
AnsweredOnly(f) == accepted[f]

\* sendToApi may reject at any time: network error, error status, or the request
\* timeout, which also fires when the API has ingested the batch already.
MayReject(f) == ~Idle(f)

BatchFails(f) ==
    /\ MayReject(f)
    /\ totalDiscardedCount' = totalDiscardedCount + Cardinality(Exhausted(f))
    /\ discarded' = discarded \cup Exhausted(f)
    /\ retryBuffer' = retryBuffer \o KeepIn(Batch(f), Items \ Exhausted(f))
    /\ attemptCount' = [i \in Items |->
                          attemptCount[i] + IF i \in Range(Batch(f)) THEN 1 ELSE 0]
    /\ retryWait' = [i \in Items |->
                       IF i \in Range(Batch(f)) \ Exhausted(f)
                       THEN Remaining(ComputeIngestionBackoff(attemptCount[i]), age[f])
                       ELSE retryWait[i]]
    /\ NextBatch(f)
    /\ UNCHANGED <<pendingBatch, flushTimer, enqueued, confirmed, copies>>

\* One second passes.  An age above the largest backoff makes no difference.
Tick ==
    /\ retryWait' = [i \in Items |->
                       IF i \in Range(retryBuffer) /\ retryWait[i] > 0
                       THEN retryWait[i] - 1 ELSE retryWait[i]]
    /\ age' = [f \in Flushes |->
                 IF ~Idle(f) /\ age[f] < MaxBackoff THEN age[f] + 1 ELSE age[f]]
    /\ UNCHANGED <<pendingBatch, retryBuffer, attemptCount, inFlight, accepted,
                   flushTimer, totalDiscardedCount, history>>

Next ==
    \/ StartPeriodicFlush
    \/ StopPeriodicFlush
    \/ \E i \in Items : Push(i)
    \/ \E i \in Items, f \in Flushes : PushAndFlush(i, f)
    \/ \E f \in Flushes : PeriodicFlush(f)
    \/ \E f \in Flushes : ApiAccepts(f)
    \/ \E f \in Flushes : BatchSucceeds(f)
    \/ \E f \in Flushes : BatchFails(f)
    \/ Tick

Spec == Init /\ [][Next]_vars

\* The interval timer fires while it runs, every request is answered or timed
\* out by its AbortController, and time passes.
Fairness ==
    /\ WF_vars(\E f \in Flushes : PeriodicFlush(f))
    /\ \A f \in Flushes : WF_vars(BatchSucceeds(f) \/ BatchFails(f))
    /\ WF_vars(Tick)

FairSpec == Spec /\ Fairness

---------------------------------------------------------------------------
InFlightItems == UNION {Range(inFlight[f]) : f \in Flushes}

Buffered == Range(pendingBatch) \cup Range(retryBuffer)

\* Attempts an item gets before it is given up; one even with maxRetries = 0.
AttemptLimit == IF MaxRetries = 0 THEN 1 ELSE MaxRetries

\* Type invariant of the two buffers, the suspended flushes and the history.
TypeOK ==
    /\ pendingBatch \in Seq(Items)
    /\ retryBuffer \in Seq(Items)
    /\ attemptCount \in [Items -> Nat]
    /\ retryWait \in [Items -> Nat]
    /\ inFlight \in [Flushes -> Seq(Items)]
    /\ age \in [Flushes -> Nat]
    /\ accepted \in [Flushes -> BOOLEAN]
    /\ flushTimer \in BOOLEAN
    /\ totalDiscardedCount \in Nat
    /\ enqueued \subseteq Items
    /\ confirmed \subseteq Items
    /\ discarded \subseteq Items
    /\ copies \in [Items -> Nat]

\* Every pushed item is in a buffer, held by a suspended flush, acknowledged
\* or deliberately discarded: the splice, filter and re-buffer steps of
\* overlapping flushes never drop one.
NoItemLost ==
    enqueued = Buffered \cup InFlightItems \cup confirmed \cup discarded

\* An item has one holder: no overlap of flush() calls puts it in two buffers,
\* twice in one, or leaves a settled item where it would be sent again.
OneHolder ==
    /\ NoRepeats(pendingBatch) /\ NoRepeats(retryBuffer)
    /\ \A f \in Flushes : NoRepeats(inFlight[f])
    /\ \A f, g \in Flushes :
          f # g => Range(inFlight[f]) \cap Range(inFlight[g]) = {}
    /\ Range(pendingBatch) \cap Range(retryBuffer) = {}
    /\ Buffered \cap InFlightItems = {}
    /\ (Buffered \cup InFlightItems) \cap (confirmed \cup discarded) = {}
    /\ confirmed \cap discarded = {}

\* The API ingests an item at most AttemptLimit times (a timeout after
\* ingestion leads to a duplicate), and at least once before it counts as
\* delivered.
BoundedDuplication ==
    /\ \A i \in Items : copies[i] <= AttemptLimit
    /\ \A i \in confirmed : copies[i] >= 1

\* log-client.ts:54: "Retries with exponential backoff (5 retries). Discards
\* buffered data after retry exhaustion."  An item that is discarded has then
\* failed more than MaxRetries times: at first, and at every retry.  The code
\* does not keep to it: it discards at the failure number MaxRetries, so one
\* retry fewer is made and the longest backoff is never waited for.
DiscardsFollowRetries == \A i \in discarded : attemptCount[i] > MaxRetries

\* What the code keeps to instead: an item is discarded at failure number
\* MaxRetries (at the first one, if MaxRetries is 0), which is after one retry
\* fewer than documented, and totalDiscardedCount counts exactly those items.
DiscardedAtLimit ==
    /\ \A i \in discarded : attemptCount[i] = AttemptLimit
    /\ \A i \in Items : attemptCount[i] = AttemptLimit => i \in discarded
    /\ totalDiscardedCount = Cardinality(discarded)

\* While the timer keeps running every item is eventually acknowledged or
\* discarded: none waits forever in the retry buffer or behind a hung request.
EventuallySettled ==
    <>[]flushTimer =>
        \A i \in Items : i \in enqueued ~> i \in confirmed \cup discarded

\* Every push returns: the flush that it may have to wait for (log-client.ts:105)
\* ends, whatever is pushed meanwhile, whether or not the API answers, and also
\* after the timer was stopped.  A broadcast to both clients waits for the push
\* to the first one before it turns to the second (event-broadcaster.ts:101).
PushesReturn == \A f \in Flushes : ~Idle(f) ~> Idle(f)

---------------------------------------------------------------------------
\* Strengthening of the properties above to an inductive invariant.

\* The attempt count tells where an item can be: none failed before the first
\* flush, at least one in the retry buffer, the limit only when given up.
AttemptStages ==
    /\ \A i \in (Items \ enqueued) \cup Range(pendingBatch) : attemptCount[i] = 0
    /\ \A i \in Range(retryBuffer) : attemptCount[i] > 0
    /\ \A i \in Buffered \cup InFlightItems \cup confirmed :
          attemptCount[i] < AttemptLimit
    /\ \A i \in discarded : attemptCount[i] = AttemptLimit

\* At most one copy arrived per failed attempt, and one for the attempt that
\* is being answered or was acknowledged.
CopiesPerAttempt ==
    /\ \A i \in Items \ (InFlightItems \cup confirmed) : copies[i] <= attemptCount[i]
    /\ \A i \in confirmed : copies[i] \in 1 .. attemptCount[i] + 1
    /\ \A f \in Flushes : \A i \in Range(inFlight[f]) :
          copies[i] <= attemptCount[i]
                         + IF accepted[f] /\ i \in Range(Batch(f)) THEN 1 ELSE 0
    /\ \A f \in Flushes : accepted[f] =>
          ~Idle(f) /\ \A i \in Range(Batch(f)) : copies[i] >= 1

DiscardsCounted ==
    IsFiniteSet(discarded) /\ totalDiscardedCount = Cardinality(discarded)

IInv ==
    /\ TypeOK
    /\ NoItemLost
    /\ OneHolder
    /\ AttemptStages
    /\ CopiesPerAttempt
    /\ DiscardsCounted

---------------------------------------------------------------------------
\* The promise of the client, and what each item's state is in its terms.
DeliveryStatus ==
    [i \in Items |-> IF i \in Buffered \cup InFlightItems THEN "held"
                     ELSE IF i \in confirmed THEN "confirmed"
                     ELSE IF i \in discarded THEN "discarded"
                     ELSE "new"]

Promise == INSTANCE BoundedDelivery WITH
              Limit <- AttemptLimit,
              status <- DeliveryStatus,
              failures <- attemptCount

\* The client implements bounded at-least-once delivery: see BoundedDelivery.
ImplementsBoundedDelivery == Promise!Spec
===========================================================================
