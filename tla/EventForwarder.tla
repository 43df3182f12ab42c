--------------------------- MODULE EventForwarder ---------------------------
(***************************************************************************)
(* createEventForwarder (tetragon/event-forwarder.ts).  Every access event *)
(* makes one call of forward(); the calls share one buffer and one         *)
(* overflow flag and interleave at every await.  A call is named by its    *)
(* event.                                                                  *)
(*                                                                         *)
(* forwardFn is the caller's: an attempt either resolves in time (the      *)
(* event has arrived), or is rejected by an error or by the two-second     *)
(* timeout, and then the event may have arrived nevertheless.  A forwarder *)
(* without forwardFn rejects every attempt.  The warning event has no      *)
(* timeout.                                                                *)
(***************************************************************************)
EXTENDS EventBuffer, FiniteSets, Functions

CONSTANTS
    MaxRetries,     \* MAX_RETRIES: attempts after the first one failed
    MaxConcurrent   \* bound of the model: calls suspended at the same time

ASSUME ForwarderAssumption == MaxRetries \in Nat \ {0} /\ MaxConcurrent \in Nat \ {0}

VARIABLES
    pendingOverflowWarning,
    pc,         \* where each call is suspended
    tries,      \* retry attempts of each call
    toDrain,    \* what is left of the snapshot each call is draining
    \* history, which the code does not keep
    arrived,    \* events that reached forwardFn's receiver
    evicted,    \* events the full buffer gave up
    wiped,      \* events a completed drain cleared without having sent them
    unreported, \* an eviction happened since a warning was last emitted
    overlapped  \* two calls have been suspended at the same time

callVars == <<pc, tries, toDrain>>
history == <<arrived, evicted, wiped, unreported, overlapped>>
vars == <<bufferVars, pendingOverflowWarning, callVars, history>>

Active == {c \in Events : pc[c] \notin {"idle", "done"}}

---------------------------------------------------------------------------
Init ==
    /\ BufferInit
    /\ pendingOverflowWarning = FALSE
    /\ pc = [c \in Events |-> "idle"]
    /\ tries = [c \in Events |-> 0]
    /\ toDrain = [c \in Events |-> << >>]
    /\ arrived = {}
    /\ evicted = {}
    /\ wiped = {}
    /\ unreported = FALSE
    /\ overlapped = FALSE

\* forward(event) up to the first await: the first attempt is under way.
Forward(c) ==
    /\ pc[c] = "idle"
    /\ Cardinality(Active) < MaxConcurrent
    /\ pc' = [pc EXCEPT ![c] = "first"]
    /\ overlapped' = (overlapped \/ Active # {})
    /\ UNCHANGED <<bufferVars, pendingOverflowWarning, tries, toDrain,
                   arrived, evicted, wiped, unreported>>

\* drainBuffer up to its first await: the snapshot is taken here.
StartDrain(c) ==
    /\ toDrain' = [toDrain EXCEPT ![c] = GetAll]
    /\ pc' = [pc EXCEPT ![c] = IF size = 0 THEN "done" ELSE "drain"]

\* The event is through: warn about an overflow first, then drain.
AfterSuccess(c) ==
    \/ /\ pendingOverflowWarning
       /\ pc' = [pc EXCEPT ![c] = "warn"]
       /\ unreported' = FALSE
       /\ UNCHANGED toDrain
    \/ /\ ~pendingOverflowWarning
       /\ StartDrain(c)
       /\ UNCHANGED unreported

\* The first attempt, or a retry, resolves in time.
AttemptSucceeds(c) ==
    /\ pc[c] \in {"first", "retry"}
    /\ arrived' = arrived \cup {c}
    /\ AfterSuccess(c)
    /\ UNCHANGED <<bufferVars, pendingOverflowWarning, tries, evicted, wiped, overlapped>>

\* The event of a rejected attempt arrived late, or not at all.
MayArrive(e) == arrived' \in {arrived, arrived \cup {e}}

\* Fault: an overflow leaves no mark for the next success.
FlagUntouched == pendingOverflowWarning' = pendingOverflowWarning

\* The call buffers its event and notes whether that overwrote another one.
FlagOverflow == pendingOverflowWarning' = (pendingOverflowWarning \/ IsFull)

\* The first attempt is rejected: buffer the event and retry at once.
FirstAttemptFails(c) ==
    /\ pc[c] = "first"
    /\ MayArrive(c)
    /\ Add(c)
    /\ FlagOverflow
    /\ evicted' = IF IsFull THEN evicted \cup {buffer[head]} ELSE evicted
    /\ unreported' = (unreported \/ IsFull)
    /\ pc' = [pc EXCEPT ![c] = "retry"]
    /\ tries' = [tries EXCEPT ![c] = 1]
    /\ UNCHANGED <<toDrain, wiped, overlapped>>

\* A retry is rejected: sleep for the fixed interval, or give up and leave the
\* event in the buffer.
RetryFails(c) ==
    /\ pc[c] = "retry"
    /\ MayArrive(c)
    /\ \/ /\ tries[c] < MaxRetries
          /\ pc' = [pc EXCEPT ![c] = "sleep"]
          /\ UNCHANGED pendingOverflowWarning
       \/ /\ tries[c] = MaxRetries
          /\ pc' = [pc EXCEPT ![c] = "done"]
          /\ pendingOverflowWarning' = (pendingOverflowWarning \/ overflowCount > 0)
    /\ UNCHANGED <<bufferVars, tries, toDrain, evicted, wiped,
                   unreported, overlapped>>

\* Fault: the retries are not counted.
WakeUpUncounted(c) ==
    /\ pc[c] = "sleep"
    /\ pc' = [pc EXCEPT ![c] = "retry"]
    /\ UNCHANGED <<bufferVars, pendingOverflowWarning, tries, toDrain, history>>

\* The ten-second interval is over: the next retry is under way.
WakeUp(c) ==
    /\ pc[c] = "sleep"
    /\ pc' = [pc EXCEPT ![c] = "retry"]
    /\ tries' = [tries EXCEPT ![c] = @ + 1]
    /\ UNCHANGED <<bufferVars, pendingOverflowWarning, toDrain, history>>

\* The warning was sent or its failure swallowed: only now is the flag reset.
WarningSettles(c) ==
    /\ pc[c] = "warn"
    /\ pendingOverflowWarning' = FALSE
    /\ StartDrain(c)
    /\ UNCHANGED <<bufferVars, tries, history>>

\* One drained event is through; after the last one the buffer is cleared.
DrainSucceeds(c) ==
    /\ pc[c] = "drain"
    /\ arrived' = arrived \cup {Head(toDrain[c])}
    /\ toDrain' = [toDrain EXCEPT ![c] = Tail(@)]
    /\ \/ /\ Len(toDrain[c]) > 1
          /\ UNCHANGED <<pc, bufferVars, wiped>>
       \/ /\ Len(toDrain[c]) = 1
          /\ pc' = [pc EXCEPT ![c] = "done"]
          /\ Clear
          /\ wiped' = wiped \cup (Range(GetAll) \ arrived')
    /\ UNCHANGED <<pendingOverflowWarning, tries, evicted, unreported, overlapped>>

\* Fault: the buffer is cleared although draining stopped half way.
DrainFailsClearing(c) ==
    /\ pc[c] = "drain"
    /\ MayArrive(Head(toDrain[c]))
    /\ toDrain' = [toDrain EXCEPT ![c] = << >>]
    /\ pc' = [pc EXCEPT ![c] = "done"]
    /\ Clear
    /\ UNCHANGED <<pendingOverflowWarning, tries, evicted, wiped,
                   unreported, overlapped>>

\* Draining stops at the first rejected event and keeps the whole buffer.
DrainFails(c) ==
    /\ pc[c] = "drain"
    /\ MayArrive(Head(toDrain[c]))
    /\ toDrain' = [toDrain EXCEPT ![c] = << >>]
    /\ pc' = [pc EXCEPT ![c] = "done"]
    /\ UNCHANGED <<bufferVars, pendingOverflowWarning, tries, evicted, wiped,
                   unreported, overlapped>>

Settle(c) ==
    \/ AttemptSucceeds(c)
    \/ FirstAttemptFails(c)
    \/ RetryFails(c)
    \/ DrainSucceeds(c)
    \/ DrainFails(c)

\* All events have been forwarded: nothing is left to do.
Finished ==
    /\ \A c \in Events : pc[c] = "done"
    /\ UNCHANGED vars

Next ==
    \/ \E c \in Events : Forward(c) \/ Settle(c) \/ WakeUp(c) \/ WarningSettles(c)
    \/ Finished

\* withTimeout settles every attempt and timers fire.  Nothing bounds the
\* warning, so WarningSettles has no fairness.
Fairness == \A c \in Events : WF_vars(Settle(c)) /\ WF_vars(WakeUp(c))

Spec == Init /\ [][Next]_vars
FairSpec == Spec /\ Fairness

---------------------------------------------------------------------------
\* Type invariant: the buffer, and a snapshot in every draining call.
TypeOK ==
    /\ BufferTypeOK
    /\ pendingOverflowWarning \in BOOLEAN
    /\ pc \in [Events -> {"idle", "first", "warn", "drain", "retry", "sleep", "done"}]
    /\ tries \in [Events -> 0 .. MaxRetries]
    /\ toDrain \in [Events -> Seq(Events)]
    /\ \A c \in Events : pc[c] = "drain" <=> toDrain[c] # << >>
    /\ arrived \subseteq Events
    /\ evicted \subseteq Events
    /\ wiped \subseteq Events
    /\ unreported \in BOOLEAN
    /\ overlapped \in BOOLEAN

\* The events a finished call has neither got through nor left in the buffer.
Lost == {c \in Events : pc[c] = "done"} \ (arrived \cup Range(GetAll) \cup evicted)

\* As long as calls do not overlap, an event that never arrived is still in the
\* buffer unless the full buffer gave it up: partial drains lose nothing.
SequentialCallsLoseNothing == ~overlapped => Lost = {}

\* Whatever overlaps, the only other way to lose an event is a drain that
\* completes and clears the buffer while the event waits there unsent: no
\* exhausted retry, half-finished drain or overflow elsewhere loses one.
OnlyClearLosesEvents == Lost \subseteq wiped

\* As long as calls do not overlap, an eviction that has not been warned about
\* keeps the flag set, so the next success reports it (event-forwarder.ts:6).
SequentialOverflowIsReported ==
    ~overlapped => (unreported => pendingOverflowWarning)

\* Every call of forward() returns, unless forwardFn never settles the
\* overflow warning, which is sent without a timeout.
ForwardReturns ==
    \A c \in Events :
        pc[c] = "first" ~> (pc[c] = "done" \/ [](pc[c] = "warn"))

\* What the comment in the handler says: when all retries are exhausted the
\* event remains in the buffer (event-forwarder.ts:186).
ExhaustedEventStaysBuffered == Lost = {}


---------------------------------------------------------------------------
\* Strengthening to an inductive invariant.

\* The event of a call that is past its first attempt is somewhere.
EventsAreAccountedFor ==
    \A c \in Events : pc[c] \notin {"idle", "first"} =>
        c \in arrived \cup Range(GetAll) \cup evicted \cup wiped

\* As long as calls do not overlap, the one that drains or warns finds the
\* buffer and the flag as it left them.
CallsTakeTurns ==
    ~overlapped =>
        /\ \A c, d \in Active : c = d
        /\ wiped = {}
        /\ unreported => pendingOverflowWarning
        /\ \A c \in Events :
              /\ pc[c] = "warn" => ~unreported
              /\ pc[c] = "drain" => Range(GetAll) \subseteq arrived \cup Range(toDrain[c])

IInv ==
    /\ TypeOK
    /\ GetAll \in Seq(Events)
    /\ \A c \in Events : pc[c] = "sleep" => tries[c] < MaxRetries
    /\ EventsAreAccountedFor
    /\ CallsTakeTurns

===========================================================================
