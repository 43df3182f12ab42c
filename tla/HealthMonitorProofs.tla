------------------------- MODULE HealthMonitorProofs -------------------------
(***************************************************************************)
(* Proofs about HealthMonitor, for any set of components, any number of    *)
(* retries and any bound on the overlap: IInv is inductive, and with it    *)
(* the safety properties of the module hold.                               *)
(***************************************************************************)
EXTENDS HealthMonitor, TLAPS

\* Starting the scheduler changes nothing the invariant is about.
LEMMA StartPreserves ==
    ASSUME IInv, Start
    PROVE  IInv'
<1> USE MonitorAssumption DEF recoveryVars, timerVars
<1>0. TypeOK /\ OverlapBounded /\ RetriesBounded /\ DegradedMeansExhausted
      /\ EscalationsCounted /\ TimersBelongToOutages /\ OutageIsAlerted
  BY DEF IInv
<1>1. TypeOK'
  BY <1>0 DEF TypeOK, Start
<1>2. OverlapBounded'
  BY <1>0 DEF OverlapBounded, Overlap, Start
<1>3. RetriesBounded'
  BY <1>0 DEF RetriesBounded, PendingRetries, Start
<1>4. DegradedMeansExhausted'
  BY <1>0 DEF DegradedMeansExhausted, Start
<1>5. EscalationsCounted'
  BY <1>0 DEF EscalationsCounted, Start
<1>6. TimersBelongToOutages'
  BY <1>0 DEF TimersBelongToOutages, Start
<1>7. OutageIsAlerted'
  BY <1>0 DEF OutageIsAlerted, Start
<1> QED  BY <1>1, <1>2, <1>3, <1>4, <1>5, <1>6, <1>7 DEF IInv

\* stop() closes every episode and clears every remembered timer.
LEMMA StopPreserves ==
    ASSUME IInv, Stop
    PROVE  IInv'
<1> USE MonitorAssumption DEF recoveryVars, timerVars
<1>0. TypeOK /\ OverlapBounded /\ RetriesBounded /\ DegradedMeansExhausted
      /\ EscalationsCounted /\ TimersBelongToOutages /\ OutageIsAlerted
  BY DEF IInv
<1>1. TypeOK'
  BY <1>0 DEF TypeOK, Stop
<1>2. OverlapBounded'
  BY <1>0 DEF TypeOK, OverlapBounded, Overlap, Stop
<1>3. RetriesBounded'
  BY <1>0 DEF TypeOK, RetriesBounded, PendingRetries, Stop
<1>4. DegradedMeansExhausted'
  BY <1>0 DEF DegradedMeansExhausted, Stop
<1>5. EscalationsCounted'
  BY <1>0 DEF EscalationsCounted, Stop
<1>6. TimersBelongToOutages'
  BY <1>0 DEF TimersBelongToOutages, Stop
<1>7. OutageIsAlerted'
  BY <1>0 DEF OutageIsAlerted, Stop
<1> QED  BY <1>1, <1>2, <1>3, <1>4, <1>5, <1>6, <1>7 DEF IInv

\* The guard leaves room for one more check of every component.
LEMMA CheckAllComponentsPreserves ==
    ASSUME IInv, CheckAllComponents
    PROVE  IInv'
<1> USE MonitorAssumption DEF recoveryVars, timerVars
<1>0. TypeOK /\ OverlapBounded /\ RetriesBounded /\ DegradedMeansExhausted
      /\ EscalationsCounted /\ TimersBelongToOutages /\ OutageIsAlerted
  BY DEF IInv
<1>1. TypeOK'
  <2>1. /\ orphanTimers' \in [Components -> Nat]
        /\ checking' \in [Components -> Nat]
        /\ retrying' \in [Components -> Nat]
        /\ retryCount' \in [Components -> Nat]
    BY <1>0 DEF TypeOK, CheckAllComponents
  <2>2. ASSUME NEW d \in Components
        PROVE  /\ orphanTimers'[d] <= MaxOverlap
               /\ checking'[d] <= MaxOverlap
               /\ retrying'[d] <= MaxOverlap
    BY <1>0, <2>1 DEF TypeOK, Overlap, CheckAllComponents
  <2>3. ASSUME NEW d \in Components
        PROVE  retryCount'[d] <= RecoveryMaxRetries - 1 + MaxOverlap
    BY <1>0, <2>1 DEF RetriesBounded, PendingRetries, CheckAllComponents
  <2>4. /\ orphanTimers' \in [Components -> 0 .. MaxOverlap]
        /\ checking' \in [Components -> 0 .. MaxOverlap]
        /\ retrying' \in [Components -> 0 .. MaxOverlap]
        /\ retryCount' \in [Components -> 0 .. RecoveryMaxRetries - 1 + MaxOverlap]
    BY <2>1, <2>2, <2>3
  <2>5. /\ status' \in [Components -> {"healthy", "unhealthy", "degraded"}]
        /\ escalations' \in [Components -> Nat]
    BY <1>0 DEF TypeOK, CheckAllComponents
  <2>6. /\ recovering' \subseteq Components /\ alertSent' \subseteq Components
        /\ escalationAlertSent' \subseteq Components
        /\ retryTimer' \subseteq Components /\ alertTimer' \subseteq Components
        /\ scheduler' \in BOOLEAN /\ stopped' \in BOOLEAN
    BY <1>0 DEF TypeOK, CheckAllComponents
  <2> QED  BY <2>4, <2>5, <2>6 DEF TypeOK
<1>2. OverlapBounded'
  BY <1>0 DEF TypeOK, OverlapBounded, CheckAllComponents, Overlap
<1>3. RetriesBounded'
  BY <1>0 DEF RetriesBounded, PendingRetries, CheckAllComponents
<1>4. DegradedMeansExhausted'
  BY <1>0 DEF DegradedMeansExhausted, CheckAllComponents
<1>5. EscalationsCounted'
  BY <1>0 DEF EscalationsCounted, CheckAllComponents
<1>6. TimersBelongToOutages'
  BY <1>0 DEF TimersBelongToOutages, CheckAllComponents
<1>7. OutageIsAlerted'
  BY <1>0 DEF OutageIsAlerted, CheckAllComponents
<1> QED  BY <1>1, <1>2, <1>3, <1>4, <1>5, <1>6, <1>7 DEF IInv

\* A successful check closes the episode, if there is one.
LEMMA CheckSucceedsPreserves ==
    ASSUME IInv, NEW c \in Components, CheckSucceeds(c)
    PROVE  IInv'
<1> USE MonitorAssumption DEF recoveryVars, timerVars
<1>0. TypeOK /\ OverlapBounded /\ RetriesBounded /\ DegradedMeansExhausted
      /\ EscalationsCounted /\ TimersBelongToOutages /\ OutageIsAlerted
  BY DEF IInv
<1>1. TypeOK'
  BY <1>0 DEF TypeOK, CheckSucceeds, Healthy, CloseEpisode
<1>2. OverlapBounded'
  BY <1>0 DEF TypeOK, OverlapBounded, Overlap, CheckSucceeds, CloseEpisode
<1>3. RetriesBounded'
  BY <1>0 DEF TypeOK, RetriesBounded, PendingRetries, CheckSucceeds, Healthy,
         CloseEpisode
<1>4. DegradedMeansExhausted'
  BY <1>0 DEF DegradedMeansExhausted, CheckSucceeds, Healthy, CloseEpisode
<1>5. EscalationsCounted'
  BY <1>0 DEF EscalationsCounted, CheckSucceeds, Healthy, CloseEpisode
<1>6. TimersBelongToOutages'
  BY <1>0 DEF TimersBelongToOutages, CheckSucceeds, Healthy, CloseEpisode
<1>7. OutageIsAlerted'
  BY <1>0 DEF OutageIsAlerted, CheckSucceeds, Healthy, CloseEpisode
<1> QED  BY <1>1, <1>2, <1>3, <1>4, <1>5, <1>6, <1>7 DEF IInv

\* A failed check opens an episode unless one is open already; it becomes a
\* pending retry, so the overlap stays what it was.
LEMMA CheckFailsPreserves ==
    ASSUME IInv, NEW c \in Components, CheckFails(c)
    PROVE  IInv'
<1> USE MonitorAssumption DEF recoveryVars, timerVars
<1>0. TypeOK /\ OverlapBounded /\ RetriesBounded /\ DegradedMeansExhausted
      /\ EscalationsCounted /\ TimersBelongToOutages /\ OutageIsAlerted
  BY DEF IInv
<1>1. TypeOK'
  <2>1. /\ orphanTimers' \in [Components -> Nat]
        /\ checking' \in [Components -> Nat]
        /\ retrying' \in [Components -> Nat]
        /\ retryCount' \in [Components -> Nat]
    BY <1>0 DEF TypeOK, CheckFails, StaysDegraded, OpenEpisode, ScheduleTimer
  <2>2. ASSUME NEW d \in Components
        PROVE  /\ orphanTimers'[d] <= MaxOverlap
               /\ checking'[d] <= MaxOverlap
               /\ retrying'[d] <= MaxOverlap
    BY <1>0, <2>1 DEF TypeOK, OverlapBounded, Overlap, CheckFails, StaysDegraded,
           OpenEpisode, ScheduleTimer
  <2>3. ASSUME NEW d \in Components
        PROVE  retryCount'[d] <= RecoveryMaxRetries - 1 + MaxOverlap
    BY <1>0, <2>1 DEF RetriesBounded, PendingRetries, CheckFails, StaysDegraded,
           OpenEpisode, ScheduleTimer
  <2>4. /\ orphanTimers' \in [Components -> 0 .. MaxOverlap]
        /\ checking' \in [Components -> 0 .. MaxOverlap]
        /\ retrying' \in [Components -> 0 .. MaxOverlap]
        /\ retryCount' \in [Components -> 0 .. RecoveryMaxRetries - 1 + MaxOverlap]
    BY <2>1, <2>2, <2>3
  <2>5. /\ status' \in [Components -> {"healthy", "unhealthy", "degraded"}]
        /\ escalations' \in [Components -> Nat]
    BY <1>0 DEF TypeOK, CheckFails, StaysDegraded, OpenEpisode
  <2>6. /\ recovering' \subseteq Components /\ alertSent' \subseteq Components
        /\ escalationAlertSent' \subseteq Components
        /\ retryTimer' \subseteq Components /\ alertTimer' \subseteq Components
        /\ scheduler' \in BOOLEAN /\ stopped' \in BOOLEAN
    BY <1>0 DEF TypeOK, CheckFails, StaysDegraded, OpenEpisode, ScheduleTimer
  <2> QED  BY <2>4, <2>5, <2>6 DEF TypeOK
<1>2. OverlapBounded'
  BY <1>0 DEF TypeOK, OverlapBounded, Overlap, CheckFails, StaysDegraded,
         OpenEpisode, ScheduleTimer
<1>3. RetriesBounded'
  BY <1>0 DEF OverlapBounded, Overlap, TypeOK, RetriesBounded, PendingRetries,
         CheckFails, StaysDegraded, OpenEpisode, ScheduleTimer
<1>4. DegradedMeansExhausted'
  BY <1>0 DEF TypeOK, DegradedMeansExhausted, CheckFails, StaysDegraded, OpenEpisode
<1>5. EscalationsCounted'
  BY <1>0 DEF TypeOK, EscalationsCounted, CheckFails, StaysDegraded, OpenEpisode
<1>6. TimersBelongToOutages'
  BY <1>0 DEF TypeOK, TimersBelongToOutages, CheckFails, StaysDegraded,
         OpenEpisode, ScheduleTimer
<1>7. OutageIsAlerted'
  BY <1>0 DEF OutageIsAlerted, CheckFails, StaysDegraded, OpenEpisode
<1> QED  BY <1>1, <1>2, <1>3, <1>4, <1>5, <1>6, <1>7 DEF IInv

\* A successful recovery check closes whatever episode is open now.
LEMMA RetrySucceedsPreserves ==
    ASSUME IInv, NEW c \in Components, RetrySucceeds(c)
    PROVE  IInv'
<1> USE MonitorAssumption DEF recoveryVars, timerVars
<1>0. TypeOK /\ OverlapBounded /\ RetriesBounded /\ DegradedMeansExhausted
      /\ EscalationsCounted /\ TimersBelongToOutages /\ OutageIsAlerted
  BY DEF IInv
<1>1. TypeOK'
  BY <1>0 DEF TypeOK, RetrySucceeds, Healthy, CloseEpisode
<1>2. OverlapBounded'
  BY <1>0 DEF TypeOK, OverlapBounded, Overlap, RetrySucceeds, CloseEpisode
<1>3. RetriesBounded'
  BY <1>0 DEF TypeOK, RetriesBounded, PendingRetries, RetrySucceeds, Healthy,
         CloseEpisode
<1>4. DegradedMeansExhausted'
  BY <1>0 DEF DegradedMeansExhausted, RetrySucceeds, Healthy, CloseEpisode
<1>5. EscalationsCounted'
  BY <1>0 DEF EscalationsCounted, RetrySucceeds, Healthy, CloseEpisode
<1>6. TimersBelongToOutages'
  BY <1>0 DEF TimersBelongToOutages, RetrySucceeds, Healthy, CloseEpisode
<1>7. OutageIsAlerted'
  BY <1>0 DEF OutageIsAlerted, RetrySucceeds, Healthy, CloseEpisode
<1> QED  BY <1>1, <1>2, <1>3, <1>4, <1>5, <1>6, <1>7 DEF IInv

\* A failed recovery check becomes a pending retry only below the limit; at the
\* limit it marks the component degraded and escalates once.
LEMMA RetryFailsPreserves ==
    ASSUME IInv, NEW c \in Components, RetryFails(c)
    PROVE  IInv'
<1> USE MonitorAssumption DEF recoveryVars, timerVars
<1>0. TypeOK /\ OverlapBounded /\ RetriesBounded /\ DegradedMeansExhausted
      /\ EscalationsCounted /\ TimersBelongToOutages /\ OutageIsAlerted
  BY DEF IInv
<1>1. TypeOK'
  <2>1. /\ orphanTimers' \in [Components -> Nat]
        /\ checking' \in [Components -> Nat]
        /\ retrying' \in [Components -> Nat]
        /\ retryCount' \in [Components -> Nat]
    BY <1>0 DEF TypeOK, RetryFails, Exhausted, ScheduleTimer
  <2>2. ASSUME NEW d \in Components
        PROVE  /\ orphanTimers'[d] <= MaxOverlap
               /\ checking'[d] <= MaxOverlap
               /\ retrying'[d] <= MaxOverlap
    BY <1>0, <2>1 DEF TypeOK, OverlapBounded, Overlap, RetryFails, Exhausted,
           ScheduleTimer
  <2>3. ASSUME NEW d \in Components
        PROVE  retryCount'[d] <= RecoveryMaxRetries - 1 + MaxOverlap
    BY <1>0, <2>1 DEF RetriesBounded, PendingRetries, RetryFails, Exhausted,
           ScheduleTimer
  <2>4. /\ orphanTimers' \in [Components -> 0 .. MaxOverlap]
        /\ checking' \in [Components -> 0 .. MaxOverlap]
        /\ retrying' \in [Components -> 0 .. MaxOverlap]
        /\ retryCount' \in [Components -> 0 .. RecoveryMaxRetries - 1 + MaxOverlap]
    BY <2>1, <2>2, <2>3
  <2>5. /\ status' \in [Components -> {"healthy", "unhealthy", "degraded"}]
        /\ escalations' \in [Components -> Nat]
    BY <1>0 DEF TypeOK, RetryFails, Exhausted, Escalate
  <2>6. /\ recovering' \subseteq Components /\ alertSent' \subseteq Components
        /\ escalationAlertSent' \subseteq Components
        /\ retryTimer' \subseteq Components /\ alertTimer' \subseteq Components
        /\ scheduler' \in BOOLEAN /\ stopped' \in BOOLEAN
    BY <1>0 DEF TypeOK, RetryFails, Exhausted, Escalate, ScheduleTimer
  <2> QED  BY <2>4, <2>5, <2>6 DEF TypeOK
<1>2. OverlapBounded'
  BY <1>0 DEF TypeOK, OverlapBounded, Overlap, RetryFails, Exhausted, ScheduleTimer
<1>3. RetriesBounded'
  BY <1>0 DEF OverlapBounded, Overlap, TypeOK, RetriesBounded, PendingRetries,
         RetryFails, Exhausted, ScheduleTimer, RetriesUsedUp
<1>4. DegradedMeansExhausted'
  BY <1>0 DEF TypeOK, DegradedMeansExhausted, RetryFails, Exhausted, Escalate,
         RetriesUsedUp
<1>5. EscalationsCounted'
  BY <1>0 DEF TypeOK, EscalationsCounted, RetryFails, Exhausted, Escalate
<1>6. TimersBelongToOutages'
  BY <1>0 DEF TypeOK, TimersBelongToOutages, RetryFails, Exhausted, ScheduleTimer
<1>7. OutageIsAlerted'
  BY <1>0 DEF OutageIsAlerted, RetryFails, Exhausted
<1> QED  BY <1>1, <1>2, <1>3, <1>4, <1>5, <1>6, <1>7 DEF IInv

\* A retry is counted when its timer fires and so stops being pending.
LEMMA RetryTimerFiresPreserves ==
    ASSUME IInv, NEW c \in Components, RetryTimerFires(c)
    PROVE  IInv'
<1> USE MonitorAssumption DEF recoveryVars, timerVars
<1>0. TypeOK /\ OverlapBounded /\ RetriesBounded /\ DegradedMeansExhausted
      /\ EscalationsCounted /\ TimersBelongToOutages /\ OutageIsAlerted
  BY DEF IInv
<1>1. TypeOK'
  <2>1. /\ orphanTimers' \in [Components -> Nat]
        /\ checking' \in [Components -> Nat]
        /\ retrying' \in [Components -> Nat]
        /\ retryCount' \in [Components -> Nat]
    BY <1>0 DEF TypeOK, RetryTimerFires, RunRetry
  <2>2. ASSUME NEW d \in Components
        PROVE  /\ orphanTimers'[d] <= MaxOverlap
               /\ checking'[d] <= MaxOverlap
               /\ retrying'[d] <= MaxOverlap
    BY <1>0, <2>1 DEF TypeOK, OverlapBounded, Overlap, RetryTimerFires, RunRetry
  <2>3. ASSUME NEW d \in Components
        PROVE  retryCount'[d] <= RecoveryMaxRetries - 1 + MaxOverlap
    BY <1>0, <2>1 DEF TypeOK, RetriesBounded, PendingRetries, RetryTimerFires,
           RunRetry
  <2>4. /\ orphanTimers' \in [Components -> 0 .. MaxOverlap]
        /\ checking' \in [Components -> 0 .. MaxOverlap]
        /\ retrying' \in [Components -> 0 .. MaxOverlap]
        /\ retryCount' \in [Components -> 0 .. RecoveryMaxRetries - 1 + MaxOverlap]
    BY <2>1, <2>2, <2>3
  <2>5. /\ status' \in [Components -> {"healthy", "unhealthy", "degraded"}]
        /\ escalations' \in [Components -> Nat]
    BY <1>0 DEF TypeOK, RetryTimerFires
  <2>6. /\ recovering' \subseteq Components /\ alertSent' \subseteq Components
        /\ escalationAlertSent' \subseteq Components
        /\ retryTimer' \subseteq Components /\ alertTimer' \subseteq Components
        /\ scheduler' \in BOOLEAN /\ stopped' \in BOOLEAN
    BY <1>0 DEF TypeOK, RetryTimerFires
  <2> QED  BY <2>4, <2>5, <2>6 DEF TypeOK
<1>2. OverlapBounded'
  BY <1>0 DEF TypeOK, OverlapBounded, Overlap, RetryTimerFires, RunRetry
<1>3. RetriesBounded'
  BY <1>0 DEF TypeOK, RetriesBounded, PendingRetries, RetryTimerFires, RunRetry
<1>4. DegradedMeansExhausted'
  BY <1>0 DEF TypeOK, DegradedMeansExhausted, RetryTimerFires, RunRetry
<1>5. EscalationsCounted'
  BY <1>0 DEF EscalationsCounted, RetryTimerFires
<1>6. TimersBelongToOutages'
  BY <1>0 DEF TimersBelongToOutages, RetryTimerFires
<1>7. OutageIsAlerted'
  BY <1>0 DEF OutageIsAlerted, RetryTimerFires
<1> QED  BY <1>1, <1>2, <1>3, <1>4, <1>5, <1>6, <1>7 DEF IInv

\* The alert timer trades its entry for the alert of the open episode.
LEMMA AlertTimerFiresPreserves ==
    ASSUME IInv, NEW c \in Components, AlertTimerFires(c)
    PROVE  IInv'
<1> USE MonitorAssumption DEF recoveryVars, timerVars
<1>0. TypeOK /\ OverlapBounded /\ RetriesBounded /\ DegradedMeansExhausted
      /\ EscalationsCounted /\ TimersBelongToOutages /\ OutageIsAlerted
  BY DEF IInv
<1>1. TypeOK'
  BY <1>0 DEF TypeOK, AlertTimerFires
<1>2. OverlapBounded'
  BY <1>0 DEF OverlapBounded, Overlap, AlertTimerFires
<1>3. RetriesBounded'
  BY <1>0 DEF RetriesBounded, PendingRetries, AlertTimerFires
<1>4. DegradedMeansExhausted'
  BY <1>0 DEF DegradedMeansExhausted, AlertTimerFires
<1>5. EscalationsCounted'
  BY <1>0 DEF EscalationsCounted, AlertTimerFires
<1>6. TimersBelongToOutages'
  BY <1>0 DEF TimersBelongToOutages, AlertTimerFires
<1>7. OutageIsAlerted'
  BY <1>0 DEF OutageIsAlerted, AlertTimerFires
<1> QED  BY <1>1, <1>2, <1>3, <1>4, <1>5, <1>6, <1>7 DEF IInv

\* No component has an episode, a timer or a check under way at first.
LEMMA InitEstablishesIInv ==
    ASSUME Init
    PROVE  IInv
<1> USE MonitorAssumption DEF Init
<1>1. TypeOK
  <2>1. 0 \in 0 .. MaxOverlap /\ 0 \in 0 .. RecoveryMaxRetries - 1 + MaxOverlap
    OBVIOUS
  <2> QED  BY <2>1 DEF TypeOK
<1>2. OverlapBounded /\ RetriesBounded
  BY DEF OverlapBounded, Overlap, RetriesBounded, PendingRetries
<1>3. DegradedMeansExhausted /\ EscalationsCounted
  BY DEF DegradedMeansExhausted, EscalationsCounted
<1>4. TimersBelongToOutages /\ OutageIsAlerted
  BY DEF TimersBelongToOutages, OutageIsAlerted
<1> QED  BY <1>1, <1>2, <1>3, <1>4 DEF IInv

LEMMA StutteringPreserves ==
    ASSUME IInv, UNCHANGED vars
    PROVE  IInv'
BY DEF vars, recoveryVars, timerVars, IInv, TypeOK, OverlapBounded, Overlap,
       RetriesBounded, PendingRetries, DegradedMeansExhausted, EscalationsCounted,
       TimersBelongToOutages, OutageIsAlerted

\* Every step preserves the invariant: one case for each action.
LEMMA NextPreservesIInv == IInv /\ [Next]_vars => IInv'
<1> SUFFICES ASSUME IInv, [Next]_vars
             PROVE  IInv'
  OBVIOUS
<1>1. CASE Start
  BY <1>1, StartPreserves
<1>2. CASE Stop
  BY <1>2, StopPreserves
<1>3. CASE ScheduledCheck \/ CheckNow
  BY <1>3, CheckAllComponentsPreserves DEF ScheduledCheck, CheckNow
<1>4. ASSUME NEW c \in Components, CheckSettles(c)
      PROVE  IInv'
  BY <1>4, CheckSucceedsPreserves, CheckFailsPreserves DEF CheckSettles
<1>5. ASSUME NEW c \in Components, RetrySettles(c)
      PROVE  IInv'
  BY <1>5, RetrySucceedsPreserves, RetryFailsPreserves DEF RetrySettles
<1>6. ASSUME NEW c \in Components, RetryTimerFires(c)
      PROVE  IInv'
  BY <1>6, RetryTimerFiresPreserves
<1>7. ASSUME NEW c \in Components, AlertTimerFires(c)
      PROVE  IInv'
  BY <1>7, AlertTimerFiresPreserves
<1>8. CASE UNCHANGED vars
  BY <1>8, StutteringPreserves
<1> QED  BY <1>1, <1>2, <1>3, <1>4, <1>5, <1>6, <1>7, <1>8 DEF Next

\* The inductive invariant of the monitor, for every value of the constants:
\* it carries the safety properties below over every interleaving of scheduled
\* checks, checkNow() and recovery retries.
THEOREM InductiveInvariant == Spec => []IInv
<1>1. Init => IInv
  BY InitEstablishesIInv
<1> QED  BY <1>1, NextPreservesIInv, PTL DEF Spec

\* The states, episodes and timers have their types; in particular the retry
\* counter exceeds its limit at most by the retries that overlap.
THEOREM TypeCorrect == Spec => []TypeOK
<1>1. IInv => TypeOK
  BY DEF IInv
<1> QED  BY <1>1, InductiveInvariant, PTL

\* In an open episode a component is degraded exactly when its retries are
\* used up and its escalation alert is out.
THEOREM DegradedAfterExhaustion == Spec => []DegradedMeansExhausted
<1>1. IInv => DegradedMeansExhausted
  BY DEF IInv
<1> QED  BY <1>1, InductiveInvariant, PTL

\* However many chains of retries overlap, an episode escalates at most once.
THEOREM OneEscalation == Spec => []EscalatedOnce
<1>1. IInv => EscalatedOnce
  <2> SUFFICES ASSUME EscalationsCounted, NEW c \in recovering
               PROVE  escalations[c] <= 1
    BY DEF IInv, EscalatedOnce
  <2> QED  BY DEF EscalationsCounted
<1> QED  BY <1>1, InductiveInvariant, PTL

\* The timers that stop() and a recovery can clear belong to open episodes.
THEOREM TimersOnlyInOutages == Spec => []TimersBelongToOutages
<1>1. IInv => TimersBelongToOutages
  BY DEF IInv
<1> QED  BY <1>1, InductiveInvariant, PTL

\* No open episode has lost its alert.
THEOREM AlertIsNeverLost == Spec => []OutageIsAlerted
<1>1. IInv => OutageIsAlerted
  BY DEF IInv
<1> QED  BY <1>1, InductiveInvariant, PTL

\* Only the action RetryFails could turn a degraded component unhealthy in an
\* open episode, and there the retries of a degraded component are used up.
LEMMA StepKeepsDegraded ==
    ASSUME IInv, [Next]_vars, NEW c \in recovering, status[c] = "degraded"
    PROVE  status'[c] # "unhealthy"
<1>1. TypeOK /\ DegradedMeansExhausted
  BY DEF IInv
<1>2. c \in Components /\ retryCount[c] >= RecoveryMaxRetries
  BY <1>1 DEF TypeOK, DegradedMeansExhausted
<1>3. ASSUME NEW d \in Components, CheckSucceeds(d) \/ RetrySucceeds(d)
      PROVE  status'[c] # "unhealthy"
  BY <1>1, <1>3 DEF TypeOK, CheckSucceeds, RetrySucceeds, Healthy
<1>4. ASSUME NEW d \in Components, CheckFails(d)
      PROVE  status'[c] # "unhealthy"
  BY <1>1, <1>4 DEF TypeOK, CheckFails, StaysDegraded, OpenEpisode
<1>5. ASSUME NEW d \in Components, RetryFails(d)
      PROVE  status'[c] # "unhealthy"
  BY <1>1, <1>2, <1>5 DEF TypeOK, RetryFails, RetriesUsedUp, Exhausted
<1>6. CASE Start \/ Stop \/ ScheduledCheck \/ CheckNow
  BY <1>6 DEF Start, Stop, ScheduledCheck, CheckNow, CheckAllComponents
<1>7. ASSUME NEW d \in Components, RetryTimerFires(d) \/ AlertTimerFires(d)
      PROVE  status'[c] # "unhealthy"
  BY <1>7 DEF RetryTimerFires, AlertTimerFires
<1>8. CASE UNCHANGED vars
  BY <1>8 DEF vars
<1> QED  BY <1>3, <1>4, <1>5, <1>6, <1>7, <1>8 DEF Next, CheckSettles, RetrySettles

\* No late failure takes a component back from degraded to unhealthy.
THEOREM DegradedStays == Spec => DegradedIsSticky
<1>1. IInv /\ [Next]_vars =>
        [\A c \in recovering : status[c] = "degraded" => status'[c] # "unhealthy"]_vars
  BY StepKeepsDegraded
<1> QED  BY <1>1, InductiveInvariant, PTL DEF Spec, DegradedIsSticky

---------------------------------------------------------------------------
\* The refinement of OutageEpisodes.  Where no outage begins, ends, escalates or
\* is alerted, its phase and its alert are what they were.
LEMMA OutagesUntouched ==
    ASSUME recovering' = recovering, escalations' = escalations,
           alertTimer' = alertTimer, alertSent' = alertSent
    PROVE  OutagePhase' = OutagePhase /\ OutageAlert' = OutageAlert
BY DEF OutagePhase, OutageAlert

\* A check or a retry that succeeds ends the outage, if there is one.
LEMMA SuccessIsRecovery ==
    ASSUME IInv, NEW c \in Components, CheckSucceeds(c) \/ RetrySucceeds(c)
    PROVE  Outages!Recover(c)
<1>1. status' = [status EXCEPT ![c] = "healthy"]
      /\ escalations' = escalations /\ alertSent' = alertSent
  BY DEF CheckSucceeds, RetrySucceeds, Healthy
<1>2. recovering' = recovering \ {c}
  BY DEF CheckSucceeds, RetrySucceeds, CloseEpisode
<1>3. \A d \in Components \ {c} : d \in alertTimer' <=> d \in alertTimer
  BY DEF CheckSucceeds, RetrySucceeds, CloseEpisode, timerVars
<1>4. OutagePhase' = [OutagePhase EXCEPT ![c] = "none"]
  BY <1>1, <1>2 DEF OutagePhase
<1>5. OutageAlert' = [OutageAlert EXCEPT ![c] = "none"]
  BY <1>1, <1>2, <1>3 DEF OutageAlert
<1> QED  BY <1>1, <1>4, <1>5 DEF Outages!Recover

\* A check that fails begins an outage, unless there is one already.
LEMMA FailedCheckBeginsOutage ==
    ASSUME IInv, NEW c \in Components, CheckFails(c)
    PROVE  Outages!Begin(c) \/ UNCHANGED Outages!outageVars
<1>0. TypeOK /\ TimersBelongToOutages
  BY DEF IInv
<1>1. CASE StaysDegraded(c)
  BY <1>1, OutagesUntouched DEF StaysDegraded, recoveryVars, timerVars, Outages!outageVars
<1>2. CASE status[c] # "degraded" /\ c \in recovering
  <2>1. status[c] = "unhealthy"
    BY <1>0, <1>2 DEF TypeOK, TimersBelongToOutages
  <2>2. status' = [status EXCEPT ![c] = "unhealthy"] /\ UNCHANGED <<recoveryVars, timerVars>>
    BY <1>2 DEF CheckFails, StaysDegraded
  <2>3. status' = status
    BY <1>0, <2>1, <2>2 DEF TypeOK
  <2> QED  BY <2>2, <2>3, OutagesUntouched DEF recoveryVars, timerVars, Outages!outageVars
<1>3. CASE status[c] # "degraded" /\ c \notin recovering
  <2>1. OpenEpisode(c)
    BY <1>3 DEF CheckFails, StaysDegraded
  <2>2. OutagePhase[c] = "none"
    BY <1>3 DEF OutagePhase
  <2>3. OutagePhase' = [OutagePhase EXCEPT ![c] = "open"]
    BY <1>0, <2>1 DEF OpenEpisode, OutagePhase, TypeOK
  <2>4. OutageAlert' = [OutageAlert EXCEPT ![c] = "due"]
    BY <1>0, <2>1 DEF OpenEpisode, OutageAlert, TypeOK
  <2> QED  BY <1>3, <2>1, <2>2, <2>3, <2>4 DEF OpenEpisode, Outages!Begin
<1> QED  BY <1>1, <1>2, <1>3 DEF CheckFails

\* The first retry that fails at the limit exhausts the outage; those that come
\* after it change nothing, and one that comes when the outage is over is late.
LEMMA FailedRetryExhaustsOutage ==
    ASSUME IInv, NEW c \in Components, RetryFails(c)
    PROVE  \/ Outages!ReportLateFailure(c) \/ Outages!Exhaust(c)
           \/ UNCHANGED Outages!outageVars
<1>0. TypeOK /\ TimersBelongToOutages /\ DegradedMeansExhausted /\ EscalationsCounted
  BY DEF IInv
<1>1. UNCHANGED <<recovering, alertSent, alertTimer>>
  BY DEF RetryFails, Exhausted, ScheduleTimer, timerVars
<1>2. CASE c \notin recovering
  <2>1. UNCHANGED escalations /\ status' = [status EXCEPT ![c] = "unhealthy"]
    BY <1>2 DEF RetryFails
  <2>2. OutagePhase[c] = "none"
    BY <1>2 DEF OutagePhase
  <2> QED  BY <1>1, <2>1, <2>2, OutagesUntouched DEF Outages!ReportLateFailure
<1>3. CASE c \in recovering /\ ~RetriesUsedUp(c)
  <2>1. UNCHANGED escalations /\ status' = [status EXCEPT ![c] = "unhealthy"]
    BY <1>3 DEF RetryFails
  <2>2. status[c] = "unhealthy"
    BY <1>0, <1>3 DEF TypeOK, TimersBelongToOutages, DegradedMeansExhausted, RetriesUsedUp
  <2>3. status' = status
    BY <1>0, <2>1, <2>2 DEF TypeOK
  <2> QED  BY <1>1, <2>1, <2>3, OutagesUntouched DEF Outages!outageVars
<1>4. CASE c \in recovering /\ RetriesUsedUp(c) /\ c \in escalationAlertSent
  <2>1. status[c] = "degraded"
    BY <1>0, <1>4 DEF DegradedMeansExhausted
  <2>2. status' = status /\ escalations' = escalations
    BY <1>0, <1>4, <2>1 DEF TypeOK, RetryFails, Exhausted, Escalate
  <2> QED  BY <1>1, <2>2, OutagesUntouched DEF Outages!outageVars
<1>5. CASE c \in recovering /\ RetriesUsedUp(c) /\ c \notin escalationAlertSent
  <2>1. escalations[c] = 0
    BY <1>0, <1>5 DEF EscalationsCounted
  <2>2. escalations' = [escalations EXCEPT ![c] = 1]
        /\ status' = [status EXCEPT ![c] = "degraded"]
    BY <1>5, <2>1 DEF RetryFails, Exhausted, Escalate
  <2>3. OutagePhase[c] = "open"
    BY <1>5, <2>1 DEF OutagePhase
  <2>4. OutagePhase' = [OutagePhase EXCEPT ![c] = "exhausted"]
    <3>1. \A d \in Components : escalations'[d] = IF d = c THEN 1 ELSE escalations[d]
      BY <1>0, <2>2 DEF TypeOK
    <3>2. OutagePhase'[c] = "exhausted"
      BY <1>1, <1>5, <3>1 DEF OutagePhase
    <3>3. \A d \in Components \ {c} : OutagePhase'[d] = OutagePhase[d]
      BY <1>1, <3>1 DEF OutagePhase
    <3> QED  BY <3>2, <3>3 DEF OutagePhase
  <2>5. OutageAlert' = OutageAlert
    BY <1>1 DEF OutageAlert
  <2> QED  BY <2>2, <2>3, <2>4, <2>5 DEF Outages!Exhaust
<1> QED  BY <1>2, <1>3, <1>4, <1>5

\* The alert timer that fires is that of an outage, whose alert goes out.
LEMMA AlertTimerSendsAlert ==
    ASSUME IInv, NEW c \in Components, AlertTimerFires(c)
    PROVE  Outages!SendAlert(c)
<1>1. c \in recovering
  BY DEF IInv, TimersBelongToOutages, AlertTimerFires
<1>2. OutageAlert[c] = "due"
  BY <1>1 DEF OutageAlert, AlertTimerFires
<1>3. OutageAlert' = [OutageAlert EXCEPT ![c] = "sent"]
  BY <1>1 DEF OutageAlert, AlertTimerFires
<1>4. OutagePhase' = OutagePhase
  BY DEF OutagePhase, AlertTimerFires
<1> QED  BY <1>2, <1>3, <1>4 DEF Outages!SendAlert, AlertTimerFires

\* stop() forgets all outages.
LEMMA StopForgets ==
    ASSUME Stop
    PROVE  Outages!Forget
BY DEF Stop, Outages!Forget, OutagePhase, OutageAlert

LEMMA StepImplementsOutages ==
    ASSUME IInv, [Next]_vars
    PROVE  [Outages!Next]_(Outages!outageVars)
<1>1. CASE Stop
  BY <1>1, StopForgets DEF Outages!Next
<1>2. CASE Start \/ ScheduledCheck \/ CheckNow
  BY <1>2, OutagesUntouched
     DEF Start, ScheduledCheck, CheckNow, CheckAllComponents, recoveryVars, timerVars,
         Outages!outageVars
<1>3. ASSUME NEW c \in Components, CheckSettles(c)
      PROVE  [Outages!Next]_(Outages!outageVars)
  BY <1>3, SuccessIsRecovery, FailedCheckBeginsOutage DEF CheckSettles, Outages!Next
<1>4. ASSUME NEW c \in Components, RetrySettles(c)
      PROVE  [Outages!Next]_(Outages!outageVars)
  BY <1>4, SuccessIsRecovery, FailedRetryExhaustsOutage DEF RetrySettles, Outages!Next
<1>5. ASSUME NEW c \in Components, RetryTimerFires(c)
      PROVE  [Outages!Next]_(Outages!outageVars)
  BY <1>5, OutagesUntouched DEF RetryTimerFires, Outages!outageVars
<1>6. ASSUME NEW c \in Components, AlertTimerFires(c)
      PROVE  [Outages!Next]_(Outages!outageVars)
  BY <1>6, AlertTimerSendsAlert DEF Outages!Next
<1>7. CASE UNCHANGED vars
  BY <1>7, OutagesUntouched DEF vars, recoveryVars, timerVars, Outages!outageVars
<1> QED  BY <1>1, <1>2, <1>3, <1>4, <1>5, <1>6, <1>7 DEF Next

\* The monitor implements OutageEpisodes: every step of the checks, retries and
\* timers, however late, begins, alerts, exhausts or ends an outage as promised,
\* or leaves the outages alone.
THEOREM MonitorImplementsOutages == Spec => ImplementsOutageEpisodes
<1>1. Init => Outages!Init
  BY DEF Init, Outages!Init, OutagePhase, OutageAlert
<1>2. IInv /\ [Next]_vars => [Outages!Next]_(Outages!outageVars)
  BY StepImplementsOutages
<1> QED  BY <1>1, <1>2, InductiveInvariant, PTL DEF Spec, ImplementsOutageEpisodes, Outages!Spec

---------------------------------------------------------------------------
\* Only a check in flight can open an episode, and only an open episode gets
\* timers.
LEMMA StopStaysInEffect ==
    ASSUME IInv, [Next]_vars, stopped', stopped => Idle,
           \A c \in Components : checking[c] = 0
    PROVE  Idle'
<1>0. TypeOK
  BY DEF IInv
<1>1. CASE Stop
  BY <1>1 DEF Stop, Idle
<1>2. stopped => ~Start /\ ~ScheduledCheck /\ ~CheckNow
  BY DEF Start, ScheduledCheck, CheckNow, CheckAllComponents
<1>3. ~Start /\ ~ScheduledCheck /\ ~CheckNow
  BY DEF Start, ScheduledCheck, CheckNow, CheckAllComponents
<1>4. ASSUME NEW c \in Components, CheckSettles(c)
      PROVE  FALSE
  <2>1. checking[c] > 0
    BY <1>4 DEF CheckSettles, CheckSucceeds, CheckFails
  <2>2. checking[c] = 0
    OBVIOUS
  <2> QED  BY <2>1, <2>2
<1>5. CASE stopped' = stopped
  <2>0. /\ recovering = {} /\ retryTimer = {} /\ alertTimer = {}
    BY <1>5 DEF Idle
  <2>1. ASSUME NEW c \in Components, RetrySettles(c)
        PROVE  Idle'
    BY <1>0, <2>0, <2>1 DEF RetrySettles, RetrySucceeds, RetryFails, CloseEpisode, Idle, timerVars
  <2>2. ASSUME NEW c \in Components, RetryTimerFires(c)
        PROVE  Idle'
    BY <2>0, <2>2 DEF RetryTimerFires, Idle
  <2>3. ASSUME NEW c \in Components, AlertTimerFires(c)
        PROVE  Idle'
    BY <2>0, <2>3 DEF AlertTimerFires
  <2>4. CASE UNCHANGED vars
    BY <2>0, <2>4 DEF vars, recoveryVars, timerVars, Idle
  <2> QED  BY <1>1, <1>3, <1>4, <2>1, <2>2, <2>3, <2>4 DEF Next
<1>6. CASE stopped' # stopped
  BY <1>1, <1>3, <1>4, <1>6 DEF Next, RetrySettles, RetrySucceeds, RetryFails, Healthy,
     RetryTimerFires, AlertTimerFires, vars
<1> QED  BY <1>5, <1>6

\* The limit of what the comment in stop() says: without checks in flight it is
\* true, whatever recovery checks and forgotten timers are still to come.
THEOREM StopWithoutChecksIsFinal == Spec => StopTakesHold
<1>1. IInv /\ [Next]_vars =>
        [stopped' /\ (\A c \in Components : checking[c] = 0) /\ (stopped => Idle)
           => Idle']_vars
  BY StopStaysInEffect
<1> QED  BY <1>1, InductiveInvariant, PTL DEF Spec, StopTakesHold

=============================================================================
