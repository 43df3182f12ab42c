------------------------------- MODULE Config -------------------------------
(***************************************************************************)
(* The configuration of the agent (config.ts) and what index.ts hands on   *)
(* to the components.  The leaf settings have different names, so the      *)
(* configuration is one flat record; endpoints and the API token are left  *)
(* out.  Settings are integers here.                                       *)
(***************************************************************************)
EXTENDS Integers

DefaultConfig ==
    [intervalMinutes |-> 60,                        \* discovery
     intervalSeconds |-> 30,                        \* healthCheck
     responseTimeoutSeconds |-> 5,
     componentTimeoutSeconds |-> 10,
     maxHoneytokensPerPod |-> 5,                    \* deployment
     deploymentTimeoutSeconds |-> 30,
     isolationTimeoutSeconds |-> 10,                \* response
     isolationMaxRetries |-> 3,
     isolationRetryIntervalSeconds |-> 5,
     ipBlockMaxRetries |-> 3,
     ipBlockRetryIntervalSeconds |-> 5,
     reportRetentionDays |-> 90,                    \* reporting
     reportGenerationTimeoutSeconds |-> 60,
     reportGenerationMaxRetries |-> 3,
     retrainingIntervalHours |-> 24,                \* learning
     minimumOutcomeRecords |-> 50,
     outcomeSubmissionTimeoutSeconds |-> 60,
     retentionDays |-> 90,                          \* auditLog
     requestTimeoutSeconds |-> 10,                  \* dynatraceIngestion
     maxRetries |-> 5,
     initialBackoffSeconds |-> 2,
     backoffMultiplier |-> 2,
     maxBackoffSeconds |-> 32,
     maxBatchSize |-> 100,
     flushIntervalSeconds |-> 5]

Settings == DOMAIN DefaultConfig

Configs == [Settings -> Int]

\* Partial configurations: a value for each of some settings.
Overrides == UNION {[given -> Int] : given \in SUBSET Settings}

\* deepMerge of two configurations that have the same sections.
DeepMerge(target, source) ==
    [s \in DOMAIN target |-> IF s \in DOMAIN source THEN source[s] ELSE target[s]]

\* validateConfig.  minimumOutcomeRecords, requestTimeoutSeconds,
\* maxBackoffSeconds and the retries and intervals of response and reporting
\* may have any value.
ValidateConfig(config) ==
    /\ config.intervalMinutes \in 5 .. 1440
    /\ config.retrainingIntervalHours \in 1 .. 168
    /\ config.intervalSeconds > 0
    /\ config.responseTimeoutSeconds > 0
    /\ config.componentTimeoutSeconds > 0
    /\ config.maxHoneytokensPerPod \in 1 .. 5
    /\ config.deploymentTimeoutSeconds > 0
    /\ config.isolationTimeoutSeconds > 0
    /\ config.retentionDays >= 90
    /\ config.reportRetentionDays > 0
    /\ config.maxRetries >= 0
    /\ config.initialBackoffSeconds > 0
    /\ config.backoffMultiplier >= 1
    /\ config.maxBatchSize > 0
    /\ config.flushIntervalSeconds > 0

Merged(overrides) == DeepMerge(DefaultConfig, overrides)

\* loadConfig: the merged configuration, or none when the validation throws.
LoadConfig(overrides) ==
    IF ValidateConfig(Merged(overrides)) THEN {Merged(overrides)} ELSE {}

---------------------------------------------------------------------------
\* What createComponents passes on.  The settings of deployment, response and
\* reporting reach no component: those keep their own defaults.

IngestionSettings(config) ==
    [MaxBatchSize |-> config.maxBatchSize,
     FlushInterval |-> config.flushIntervalSeconds,
     MaxRetries |-> config.maxRetries,
     InitialBackoff |-> config.initialBackoffSeconds,
     BackoffMultiplier |-> config.backoffMultiplier,
     MaxBackoff |-> config.maxBackoffSeconds]

MonitorSettings(config) ==
    [checkIntervalSeconds |-> config.intervalSeconds,
     componentTimeoutSeconds |-> config.componentTimeoutSeconds]

TrainerSettings(config) ==
    [retrainingIntervalHours |-> config.retrainingIntervalHours,
     minimumOutcomeRecords |-> config.minimumOutcomeRecords]

SchedulerInterval(config) == config.intervalMinutes

AuditRetention(config) == config.retentionDays
=============================================================================
