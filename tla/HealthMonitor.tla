---------------------------- MODULE HealthMonitor ----------------------------
(***************************************************************************)
(* createHealthMonitor (agent/health-monitor.ts).  A check of a component  *)
(* is awaited for up to ten seconds, and nothing keeps the checks of one   *)
(* component apart: the scheduler, checkNow() and the recovery retries may *)
(* each have some in flight, and each applies its result to whatever state *)
(* it finds when it returns.                                               *)
(*                                                                         *)
(* recoveryTimers remembers one retry timer and one alert timer for each   *)
(* component.  A retry timer that is scheduled while another one is        *)
(* pending takes its entry; the other one stays pending, but nothing can   *)
(* clear it any more.  It is then an orphan.                               *)
(*                                                                         *)
(* All intervals are configurable, so a pending timer may fire at any time.*)
(***************************************************************************)
EXTENDS Integers

CONSTANTS
    Components,         \* registered components
    RecoveryMaxRetries, \* recoveryMaxRetries
    MaxOverlap          \* bound of the model: checks of a component in flight
                        \* and retries of it in flight or pending

\* index.ts leaves recoveryMaxRetries at its default of 3.
ASSUME MonitorAssumption ==
    RecoveryMaxRetries \in Nat \ {0} /\ MaxOverlap \in Nat

VARIABLES
    status,                 \* componentStates
    recovering,             \* components with an entry in recoveryStates
    retryCount,             \* the fields of that entry
    alertSent,
    escalationAlertSent,
    retryTimer,             \* components with a pending timer in recoveryTimers
    orphanTimers,           \* pending retry timers that recoveryTimers has forgotten
    alertTimer,             \* components with a pending alert timer
    checking,               \* checkComponent() calls in flight
    retrying,               \* recovery checks in flight
    scheduler,              \* schedulerInterval is set
    \* history, which the code does not keep
    escalations,            \* escalation alerts sent in the current episode
    stopped                 \* nothing was started since stop() was called

recoveryVars == <<recovering, retryCount, alertSent, escalationAlertSent, escalations>>
timerVars == <<retryTimer, orphanTimers, alertTimer>>
vars == <<status, recoveryVars, timerVars, checking, retrying, scheduler, stopped>>

---------------------------------------------------------------------------
Init ==
    /\ status = [c \in Components |-> "healthy"]
    /\ recovering = {}
    /\ retryCount = [c \in Components |-> 0]
    /\ alertSent = {}
    /\ escalationAlertSent = {}
    /\ retryTimer = {}
    /\ orphanTimers = [c \in Components |-> 0]
    /\ alertTimer = {}
    /\ checking = [c \in Components |-> 0]
    /\ retrying = [c \in Components |-> 0]
    /\ scheduler = FALSE
    /\ escalations = [c \in Components |-> 0]
    /\ stopped = FALSE

Start ==
    /\ ~scheduler
    /\ scheduler' = TRUE
    /\ stopped' = FALSE
    /\ UNCHANGED <<status, recoveryVars, timerVars, checking, retrying>>

\* stop() clears the timers that recoveryTimers holds and forgets all episodes.
\* The checks in flight go on.
Stop ==
    /\ scheduler' = FALSE
    /\ stopped' = TRUE
    /\ recovering' = {}
    /\ retryTimer' = {}
    /\ alertTimer' = {}
    /\ UNCHANGED <<status, retryCount, alertSent, escalationAlertSent, escalations,
                   orphanTimers, checking, retrying>>

\* Checks of a component in flight, and its retries in flight or pending.
Overlap(c) ==
    checking[c] + retrying[c] + orphanTimers[c] + IF c \in retryTimer THEN 1 ELSE 0

\* checkAllComponents: a check of every component gets under way.
CheckAllComponents ==
    /\ \A c \in Components : Overlap(c) < MaxOverlap
    /\ checking' = [c \in Components |-> checking[c] + 1]
    /\ stopped' = FALSE
    /\ UNCHANGED <<status, recoveryVars, timerVars, retrying, scheduler>>

ScheduledCheck == scheduler /\ CheckAllComponents
CheckNow == CheckAllComponents

\* Fault: the timers of an outage that is over stay pending.
CloseKeepingTimers(c) ==
    /\ recovering' = recovering \ {c}
    /\ UNCHANGED timerVars

\* The component has recovered: forget the episode and clear its timers.
CloseEpisode(c) ==
    /\ recovering' = recovering \ {c}
    /\ retryTimer' = retryTimer \ {c}
    /\ alertTimer' = alertTimer \ {c}
    /\ UNCHANGED orphanTimers

\* A check, scheduled or part of a recovery, finds the component healthy.
Healthy(c) ==
    /\ status' = [status EXCEPT ![c] = "healthy"]
    /\ UNCHANGED <<retryCount, alertSent, escalationAlertSent, escalations,
                   scheduler, stopped>>

\* Fault: a check that succeeds leaves the episode to the retries.
CheckSucceedsQuietly(c) ==
    /\ checking[c] > 0
    /\ checking' = [checking EXCEPT ![c] = @ - 1]
    /\ Healthy(c)
    /\ UNCHANGED <<recovering, timerVars, retrying>>

CheckSucceeds(c) ==
    /\ checking[c] > 0
    /\ checking' = [checking EXCEPT ![c] = @ - 1]
    /\ Healthy(c)
    /\ \/ c \in recovering /\ CloseEpisode(c)
       \/ c \notin recovering /\ UNCHANGED <<recovering, timerVars>>
    /\ UNCHANGED retrying

\* A recovery check clears the timers whether or not its episode is still open.
RetrySucceeds(c) ==
    /\ retrying[c] > 0
    /\ retrying' = [retrying EXCEPT ![c] = @ - 1]
    /\ Healthy(c)
    /\ CloseEpisode(c)
    /\ UNCHANGED checking

\* scheduleRecoveryRetry before exhaustion: a new timer takes the entry.
ScheduleTimer(c) ==
    /\ retryTimer' = retryTimer \cup {c}
    /\ orphanTimers' = [orphanTimers EXCEPT ![c] = IF c \in retryTimer THEN @ + 1 ELSE @]

\* Fault: every chain of retries that is exhausted escalates anew.
EscalateAgain(c) ==
    /\ escalationAlertSent' = escalationAlertSent \cup {c}
    /\ escalations' = [escalations EXCEPT ![c] = @ + 1]

\* The escalation alert goes out once in an episode.
Escalate(c) ==
    /\ escalationAlertSent' = escalationAlertSent \cup {c}
    /\ escalations' =
         [escalations EXCEPT ![c] = IF c \in escalationAlertSent THEN @ ELSE @ + 1]

\* checkComponent's catch block for a degraded component: only the timestamp
\* and the message change.
StaysDegraded(c) ==
    /\ status[c] = "degraded"
    /\ UNCHANGED <<status, recoveryVars, timerVars>>

\* The first failure outside an episode opens one, and with it the first chain
\* of retries and the alert.
OpenEpisode(c) ==
    /\ status' = [status EXCEPT ![c] = "unhealthy"]
    /\ recovering' = recovering \cup {c}
    /\ retryCount' = [retryCount EXCEPT ![c] = 0]
    /\ alertSent' = alertSent \ {c}
    /\ escalationAlertSent' = escalationAlertSent \ {c}
    /\ escalations' = [escalations EXCEPT ![c] = 0]
    /\ ScheduleTimer(c)
    /\ alertTimer' = alertTimer \cup {c}

CheckFails(c) ==
    /\ checking[c] > 0
    /\ checking' = [checking EXCEPT ![c] = @ - 1]
    /\ \/ StaysDegraded(c)
       \/ /\ status[c] # "degraded" /\ c \in recovering
          /\ status' = [status EXCEPT ![c] = "unhealthy"]
          /\ UNCHANGED <<recoveryVars, timerVars>>
       \/ /\ status[c] # "degraded" /\ c \notin recovering
          /\ OpenEpisode(c)
    /\ UNCHANGED <<retrying, scheduler, stopped>>

\* scheduleRecoveryRetry after the last retry.
Exhausted(c) ==
    /\ status' = [status EXCEPT ![c] = "degraded"]
    /\ Escalate(c)
    /\ UNCHANGED timerVars

\* Fault: one retry too few.
RetriesUsedUpEarly(c) == retryCount[c] + 1 >= RecoveryMaxRetries

RetriesUsedUp(c) == retryCount[c] >= RecoveryMaxRetries

\* Fault: a failed retry is not followed by another one.
RetryFailsQuietly(c) ==
    /\ retrying[c] > 0
    /\ retrying' = [retrying EXCEPT ![c] = @ - 1]
    /\ status' = [status EXCEPT ![c] = "unhealthy"]
    /\ UNCHANGED <<recoveryVars, timerVars, checking, scheduler, stopped>>

\* Fault: a failed retry schedules the next one without looking for its episode.
RetryFailsOnwards(c) ==
    /\ retrying[c] > 0
    /\ retrying' = [retrying EXCEPT ![c] = @ - 1]
    /\ status' = [status EXCEPT ![c] = "unhealthy"]
    /\ ScheduleTimer(c)
    /\ UNCHANGED <<recoveryVars, alertTimer, checking, scheduler, stopped>>

\* A recovery check fails: the component is unhealthy, whatever it was before,
\* and the episode, if there is one now, goes on.
RetryFails(c) ==
    /\ retrying[c] > 0
    /\ retrying' = [retrying EXCEPT ![c] = @ - 1]
    /\ \/ /\ c \notin recovering
          /\ status' = [status EXCEPT ![c] = "unhealthy"]
          /\ UNCHANGED <<escalationAlertSent, escalations, timerVars>>
       \/ /\ c \in recovering /\ RetriesUsedUp(c)
          /\ Exhausted(c)
       \/ /\ c \in recovering /\ ~RetriesUsedUp(c)
          /\ status' = [status EXCEPT ![c] = "unhealthy"]
          /\ ScheduleTimer(c)
          /\ UNCHANGED <<alertTimer, escalationAlertSent, escalations>>
    /\ UNCHANGED <<recovering, retryCount, alertSent, checking, scheduler, stopped>>

\* The callback of a retry timer.  Without an episode it does nothing.
RunRetry(c) ==
    IF c \in recovering
    THEN /\ retryCount' = [retryCount EXCEPT ![c] = @ + 1]
         /\ retrying' = [retrying EXCEPT ![c] = @ + 1]
    ELSE UNCHANGED <<retryCount, retrying>>

RetryTimerFires(c) ==
    /\ \/ /\ c \in retryTimer
          /\ retryTimer' = retryTimer \ {c}
          /\ UNCHANGED orphanTimers
       \/ /\ orphanTimers[c] > 0
          /\ orphanTimers' = [orphanTimers EXCEPT ![c] = @ - 1]
          /\ UNCHANGED retryTimer
    /\ RunRetry(c)
    /\ UNCHANGED <<status, recovering, alertSent, escalationAlertSent, escalations,
                   alertTimer, checking, scheduler, stopped>>

\* Fault: no alert once the component is marked degraded.
AlertUnlessDegraded(c) ==
    /\ c \in alertTimer
    /\ alertTimer' = alertTimer \ {c}
    /\ alertSent' = IF c \in recovering /\ status[c] # "degraded"
                    THEN alertSent \cup {c} ELSE alertSent
    /\ UNCHANGED <<status, recovering, retryCount, escalationAlertSent, escalations,
                   retryTimer, orphanTimers, checking, retrying, scheduler, stopped>>

\* The callback of the alert timer.
AlertTimerFires(c) ==
    /\ c \in alertTimer
    /\ alertTimer' = alertTimer \ {c}
    /\ alertSent' = IF c \in recovering THEN alertSent \cup {c} ELSE alertSent
    /\ UNCHANGED <<status, recovering, retryCount, escalationAlertSent, escalations,
                   retryTimer, orphanTimers, checking, retrying, scheduler, stopped>>

CheckSettles(c) == CheckSucceeds(c) \/ CheckFails(c)
RetrySettles(c) == RetrySucceeds(c) \/ RetryFails(c)

Next ==
    \/ Start \/ Stop \/ ScheduledCheck \/ CheckNow
    \/ \E c \in Components :
          CheckSettles(c) \/ RetrySettles(c) \/ RetryTimerFires(c) \/ AlertTimerFires(c)

Spec == Init /\ [][Next]_vars

\* Timers fire, and createTimeout settles every check.
Fairness ==
    /\ WF_vars(ScheduledCheck)
    /\ \A c \in Components :
          /\ WF_vars(CheckSettles(c)) /\ WF_vars(RetrySettles(c))
          /\ WF_vars(RetryTimerFires(c)) /\ WF_vars(AlertTimerFires(c))

FairSpec == Spec /\ Fairness

---------------------------------------------------------------------------
\* Type invariant of the component states, the episodes and the timers.
TypeOK ==
    /\ status \in [Components -> {"healthy", "unhealthy", "degraded"}]
    /\ recovering \subseteq Components
    /\ retryCount \in [Components -> 0 .. RecoveryMaxRetries - 1 + MaxOverlap]
    /\ alertSent \subseteq Components
    /\ escalationAlertSent \subseteq Components
    /\ retryTimer \subseteq Components
    /\ orphanTimers \in [Components -> 0 .. MaxOverlap]
    /\ alertTimer \subseteq Components
    /\ checking \in [Components -> 0 .. MaxOverlap]
    /\ retrying \in [Components -> 0 .. MaxOverlap]
    /\ scheduler \in BOOLEAN
    /\ escalations \in [Components -> Nat]
    /\ stopped \in BOOLEAN

\* Within an episode a component is degraded exactly when its retries are used
\* up and the escalation alert is out, whichever of several overlapping checks
\* and chains of retries reported last (health-monitor.ts:121).
DegradedMeansExhausted ==
    \A c \in recovering :
        /\ status[c] = "degraded" <=> c \in escalationAlertSent
        /\ status[c] = "degraded" => retryCount[c] >= RecoveryMaxRetries

\* Chains of retries that overlap reach exhaustion one after the other, but
\* send one escalation alert for the episode.
EscalatedOnce == \A c \in recovering : escalations[c] <= 1

\* An episode is open only for a component that is not reported as healthy, and
\* the timers that recoveryTimers holds belong to an open episode: no result
\* that arrives late leaves an alert pending for an outage that is over.
TimersBelongToOutages ==
    /\ retryTimer \cup alertTimer \subseteq recovering
    /\ \A c \in recovering : status[c] # "healthy"

\* Whatever happens to the checks and retries of an outage, its alert has been
\* sent or is still going to be (health-monitor.ts:120).
OutageIsAlerted == recovering \subseteq alertSent \cup alertTimer

\* No check or retry that fails late takes a component back from degraded to
\* unhealthy while its episode is open (health-monitor.ts:187).
DegradedIsSticky ==
    [][\A c \in recovering : status[c] = "degraded" => status'[c] # "unhealthy"]_vars

\* While the scheduler keeps running, no component stays unhealthy: it recovers
\* or is marked degraded.  A late failure may leave it unhealthy without an
\* episode, and then the next check opens one.
OutageResolves ==
    <>[]scheduler =>
        \A c \in Components : status[c] = "unhealthy" ~> status[c] # "unhealthy"

\* A component whose checks stop failing for good is reported healthy again and
\* stays so, even if it was marked degraded in the meantime: neither a late
\* result nor a forgotten timer keeps the outage alive.
RecoveredIsHealthy ==
    <>[]scheduler /\ <>[][\A c \in Components : ~CheckFails(c) /\ ~RetryFails(c)]_vars
        => \A c \in Components : <>[](status[c] = "healthy" /\ c \notin recovering)

\* What the comment in stop() says: it clears all recovery timers
\* (health-monitor.ts:344), so none is pending until something is started again.
StopClearsTimers ==
    stopped => retryTimer = {} /\ alertTimer = {}

\* No outage is open or about to be found, and no timer of one is remembered.
Idle ==
    /\ recovering = {} /\ retryTimer = {} /\ alertTimer = {}
    /\ \A c \in Components : checking[c] = 0

\* A stop() that finds no check in flight does clear all timers (health-monitor.ts:338),
\* and none is set until something is started again: neither the recovery checks
\* still in flight nor the retry timers that recoveryTimers has forgotten bring
\* an outage back.
StopTakesHold ==
    [][stopped' /\ (\A c \in Components : checking[c] = 0) /\ (stopped => Idle)
          => Idle']_vars

---------------------------------------------------------------------------
\* Strengthening of the invariants above to an inductive one.

\* Retry timers that are pending, remembered or not.
PendingRetries(c) == orphanTimers[c] + IF c \in retryTimer THEN 1 ELSE 0

\* The guard of CheckAllComponents bounds what may be under way at once: a
\* check turns into at most one retry, and a retry into at most one timer.
OverlapBounded == \A c \in Components : Overlap(c) <= MaxOverlap

\* A retry that is counted was pending before, and none is scheduled once the
\* count has reached the limit: only pending ones can exceed it.
RetriesBounded ==
    \A c \in Components :
        retryCount[c] + PendingRetries(c) <= RecoveryMaxRetries - 1 + MaxOverlap

EscalationsCounted ==
    \A c \in recovering :
        escalations[c] = IF c \in escalationAlertSent THEN 1 ELSE 0

IInv ==
    /\ TypeOK
    /\ OverlapBounded
    /\ RetriesBounded
    /\ DegradedMeansExhausted
    /\ EscalationsCounted
    /\ TimersBelongToOutages
    /\ OutageIsAlerted

---------------------------------------------------------------------------
\* Outages in terms of what the monitor promises about them.
OutagePhase ==
    [c \in Components |-> IF c \notin recovering THEN "none"
                          ELSE IF escalations[c] = 0 THEN "open"
                          ELSE IF escalations[c] = 1 THEN "exhausted"
                          ELSE "escalated again"]

OutageAlert ==
    [c \in Components |-> IF c \notin recovering THEN "none"
                          ELSE IF c \in alertTimer THEN "due"
                          ELSE IF c \in alertSent THEN "sent"
                          ELSE "lost"]

Outages == INSTANCE OutageEpisodes WITH
              report <- status, outage <- OutagePhase, alert <- OutageAlert

\* The monitor keeps the promise of OutageEpisodes: whatever overlaps or comes
\* late, an outage is alerted once, escalated once and ended by a recovery or
\* by stop().
ImplementsOutageEpisodes == Outages!Spec

=============================================================================
