# A TLA+ model of ebeecontrol

ebeecontrol is an agent in TypeScript (Node.js) that deploys honeytokens into
Kubernetes pods, watches accesses to them, grades each access as a threat, responds
by isolating and blocking pods, writes forensic reports, learns from the outcomes
and publishes everything to Dynatrace. This directory models the part of it that
is hard to test: handlers that interleave at every `await`, calls that time out
although they were carried out, buffers at their limit, timers that outlive what
they were started for, and plans in which one of several steps fails.

All paths below are relative to the repository's own `src/` directory, unless they
say otherwise.

## 1. Inventory

JavaScript runs one handler at a time, so all state changes between two `await`s
are atomic; every `await` is a point at which any other handler may run. Nothing is
persisted: a crash loses everything but what external systems hold.

| Component | State it keeps | Operations | Hard behaviour | Correct when |
|---|---|---|---|---|
| Log and metrics ingestion clients (`dynatrace-ingestion/log-client.ts`, `metrics-client.ts`) | `pendingBatch`, `retryBuffer`, discard counter, flush timer; each suspended `flush()` holds items in a local | `push*`, `flush`, start/stop timer, `getBufferStatus` | overlapping flushes, lost or late answers, retries with backoff | no item is lost or sent more often than the limit; every item is settled |
| Event buffer (`tetragon/event-buffer.ts`) | circular array, head, size, overflow count | `add`, `getAll`, `clear` | wrap-around at capacity | it is a bounded first-in first-out queue |
| Event forwarder (`tetragon/event-forwarder.ts`) | the buffer, `pendingOverflowWarning`, locals of each `forward()` | `forward` | overlapping calls share buffer and flag; drain then clear; warning without timeout | an undelivered event stays buffered unless it is evicted or cleared by a drain; evictions are reported |
| Threat classification (`agent/threat-classifier.ts`, `threat-assessment-workflow.ts`) | none | `classifyThreat`, `classifyThreatWithDefaults`, `assessThreat` | contexts with missing fields, or none | grading is monotone, defaults are the worst case |
| Response (`agent/response-planner.ts`, `response-executor.ts`, `koney/k8s-response.ts`) | network policies in the cluster | plan, execute with retries and alerts | partial failure of a plan, rejected alerts, calls carried out but reported failed | what is called contained is isolated; every action is audited |
| Incident workflow (`agent/workflow.ts`) | registry, audit log, reports, dataset, locals of each call | `processAccessEvent`, `runDiscoveryAndDeployment` | one workflow per event, interleaving at every await | each incident goes through its whole plan and is closed or its failure logged |
| Registry, audit log (`agent/registry.ts`, `audit-log.ts`) | maps and lists | synchronous methods | shared by all workflows, retention | an access is credited to one entry, and counted once; nothing retained is purged |
| Report generator (`agent/report-generator.ts`, `gemini-report-generator.ts`) | stored reports, fallback flag | `generate` | timeout, retries | one report per completed incident |
| Health monitor (`agent/health-monitor.ts`) | component states, recovery episodes, recovery timers | `start`, `stop`, `checkNow`, periodic checks, recovery retries, alerts | overlapping checks and retries, results out of order, timers overwritten, stop with checks in flight | degraded exactly after exhaustion; one escalation; no lost alert; no stale timer |
| Learning (`agent/learning-feedback.ts`, `vertex/trainer.ts`) | dataset, counters, model versions | `submitOutcome`, `triggerRetraining`, `applyModelUpdate` | rejected and manual retrainings between outcomes, versions told apart by their id | models only improve; every outcome counts for one training; every new version is noticed |
| Discovery and deployment (`agent/orchestrator.ts`, `deployment-orchestrator.ts`, `koney/*deployer.ts`) | cycle flag, map of deployed honeytokens, Secrets, watched paths | discovery cycle, deploy, undeploy | cycles overlap in their second half; partial failure between registry, cluster and Tetragon | registry, cluster and watch list agree; a pod gets all its honeytokens or none |
| Tetragon side (`tetragon/tetragon-client.ts`, `policy-manager.ts`, `monitor.ts`) | connection, stream, reconnect timer; tracing policy | connect, disconnect, add/remove/sync paths | late errors of old streams; read-modify-write over an await | a lost connection is retried; one live stream unless one reports late; a path added undisturbed stays watched |
| Dynatrace client (`dynatrace/client.ts`) | callbacks | context query, event subscription, queries with retries | timeouts | null or an answer within the time limit |
| Broadcaster, feeds, queries (`dynatrace-ingestion/*`) | circular feed of recent events | `broadcast*`, status, search and pagination | two clients in sequence, the feed at its capacity, rounding at page boundaries | every push returns; a loss is reported; pages partition the result |
| Lifecycle and configuration (`index.ts`, `config.ts`) | the components | `loadConfig`, `createComponents`, `startAgent`, `stopAgent` | stop with work in progress, settings nobody checks | accepted settings are safe for the components; nothing runs after a stop |

How they interact: `index.ts` creates the components and starts the discovery scheduler,
the health monitor and the flush timers. It does not create a workflow controller: only
`src/scripts/demo.ts` and the tests wire `connectEventFlow`. An access event reaches
`connectEventFlow`, which starts a workflow; the workflow awaits the Dynatrace
client, the Kubernetes and Koney calls, the alert channel, the report generator and
the broadcaster, and through the broadcaster the ingestion clients. The registry, the
audit log, the dataset and the cluster are shared by all workflows. The event
forwarder, the Tetragon client and the policy manager are complete but not wired in `index.ts`
either. Methods that nothing in `src/` calls: `submitForensicReport`, `undeploy`, `remove` of the registry, the queries and
`purgeExpired` of the audit log, `triggerRetraining`, `applyModelUpdate`, `getHealthStatus`,
`broadcastHealthStatusChange` and `broadcastLearningMetrics`.

`PROJECT.json` lists the components with their status, and under "hazards" every
place in the code where the behaviours of the table bite, with the properties that
would catch each going wrong.

## 2. Modules

    SequenceFilter          Array.filter                SequenceFilterLemmas    (lemmas)
    BoundedDelivery         abstract promise
    IngestionClient         implements BoundedDelivery  IngestionClientProofs   (proofs)
    EventBroadcaster        operators: who is sent what, and the ingestion status
    BoundedFifo             abstract promise
    EventBuffer             implements BoundedFifo
    EventForwarder          extends EventBuffer         EventForwarderProofs    (proofs)
    ThreatClassifier        operators: the grading
    K8sResponse             the cluster's policies
    HoneytokenRegistry      operators: the registry
    IncidentResponse        abstract promise
    IncidentWorkflow        extends the three before it,
                            implements IncidentResponse IncidentWorkflowProofs  (proofs)
    MCIncidentWorkflow      constants for TLC
    OutageEpisodes          abstract promise
    HealthMonitor           implements OutageEpisodes   HealthMonitorProofs     (proofs)
    HoneytokenLifecycle     abstract promise
    Deployment              implements HoneytokenLifecycle
                                                        DeploymentProofs        (proofs)
    PolicyManager           the tracing policy
    TetragonClient          the event stream
    TetragonFeed            composes the two            TetragonFeedProofs      (proofs)
    Learning                trainer and feedback loop
    QuerySupport, AuditLog, Config, MemoryDeployer,
    AccessEventFeed, ForensicReport, TetragonMonitor
                            operators only              OperatorProofs          (proofs)

`OperatorProofs` holds the proofs about everything that runs without an await: the operator
modules (`ThreatClassifier` and `HoneytokenRegistry` too), and `Learning`, all of whose actions are single method calls.

Definitions named with a comment that starts with "Fault:" are deliberate bugs. No
specification uses them; each stands next to the definition it would replace, and
shows that a property notices that bug.

### IngestionClient

`pendingBatch`, `retryBuffer`, `totalDiscardedCount` and `flushTimer` are the fields
of the class. `inFlight[f]` is the local `itemsToSend` of the suspended call `f` from
the current batch on; `age[f]` is the time since that call captured `now`. The
actions are the segments of the code between awaits: `Push` and `PushAndFlush` (the
methods that enqueue, which start a flush when the batch is full), `PeriodicFlush`,
`BatchSucceeds` and `BatchFails` (the two continuations after `sendToApi`), and
`StartPeriodicFlush`/`StopPeriodicFlush`. `ApiAccepts` is the API ingesting a request
whose answer may still time out: that is how duplicates arise. `Tick` is the clock;
timestamps are relative, because the code only compares and adds them. `enqueued`, `confirmed`,
`discarded` and `copies` are history variables.

### EventBuffer and EventForwarder

`EventBuffer` has the array, `head`, `size` and `overflowCount` of the code and one
operator for each method. `EventForwarder` adds the flag and one process for each call of
`forward()`, named by its event: `first` (first attempt), `retry`, `sleep`, `warn`
(awaiting the overflow warning), `drain` (with the rest of its snapshot), `done`. A rejected
attempt may have arrived (`MayArrive`), because the two-second timeout does not
cancel the call.

### ThreatClassifier, K8sResponse, HoneytokenRegistry, IncidentWorkflow

`ThreatClassifier` translates the four rules, the defaults and the choice between them (`AssessThreat`);
a missing field makes every comparison false, as in JavaScript. `K8sResponse`
models the cluster as the pod id that the policy of each name selects by; creating
a policy under a taken name changes nothing and succeeds. Every policy is created in the namespace `default`
(`k8s-response.ts:30` and `:74`, with a TODO to resolve it from the registry) and selects by the label that
StatefulSets give their pods, so it can act only on a pod of `default` with that label (`Selectable`; `LabelledPods` are the ids
of those pods). Accesses name a namespace and a pod id, and `Isolated` and `Blocked` are about both. For a pod elsewhere, or of a
Deployment, creating the policies succeeds, isolates nothing (or a namesake of the pod in `default`), and the incident is
reported as contained: the claims of containment below are about selectable pods only (`InReach`). `HoneytokenRegistry` has every method of the
registry on the sequence of its entries, which a `Map` keeps in the order of their insertion.

`IncidentWorkflow` has a record for
each `processAccessEvent` call (its locals and the await it is suspended at), and
the registry, audit log, stored reports, dataset and timelines they share. `Accesses` are the paths of pods that
may be accessed, `Contexts` what Dynatrace may answer, and `Deployed` the registry as the discovery cycles left it: since every
cycle deploys under the same paths, a path may have several entries, and an access is credited to the first
(`MarkTriggered`, `AccessesAreCounted`). Its actions follow the code: `Receive`, `Assess`, `Announced` (after the first broadcast: registry,
plan, first action), `ActionSucceeds`, `ActionFails` (the effect may
have happened), `WakeUp`, `ExhaustionAlertDelivered`/`Rejected`, `Publish`,
`ReportGenerated`, `ReportFails`, `ReportRetry`, `ReportPublished`, `Complete`. A
rejected retry alert is a rejected promise that nobody handles, and the Node version of the
Dockerfile ends the process on it: `RetryAlertRejected`. Latency bookkeeping and
the wording of reports and alerts are left out. The workflow tells Dynatrace no change of the registry after an access: it never broadcasts
`triggered`, so there is nothing about it in the model.

### HealthMonitor

The variables are the maps of the code: `status`, the recovery episodes (`recovering`
and its fields), the timers that `recoveryTimers` remembers (`retryTimer`,
`alertTimer`), plus what the code has no variable for: retry timers whose map entry was
overwritten (`orphanTimers`) and the checks in flight. The intervals are configurable, so a
pending timer may fire at any time; this covers every setting. `OutageEpisodes` is what an operator may rely on, told without timers
and checks: one alert for each outage, at most one escalation, and `degraded` until the component recovers. The phase of an outage and its
alert are read off the monitor's maps (`OutagePhase`, `OutageAlert`).

### Deployment

Each call of `runDiscoveryAndDeployment` is a cycle; `Scheduler` is the caller behind
`setInterval`, which asks for discovery only and drops the result. `phase[k]` is the await a
caller is suspended at. The guard `cycleInProgress` covers the query alone, so cycles overlap in
everything after it. `todo`, `work` and `results` are locals of a cycle: the pods not finished, the
array `deployed` of the running `deploy()`, and the entries waiting for their broadcast. `deployed`,
`registry`, `watched` and `reported` are the maps of the deployer, the registry and the monitor
and what Dynatrace was told; `secrets` is the cluster. A honeytoken is named by its cycle, pod and
number, because its id is a UUID. The actions are the two outcomes of each
awaited call, and an action runs to the next await: when `CreateSucceeds` creates the last Secret, `deploy()` returns and the pod is counted in the same step. They are a query attempt, `CreateSucceeds`/`CreateFails`, `DeleteSettles` (which cannot
tell success from failure), `RegisterHoneytoken`, `BroadcastRegistryChange`. A failed creation may have been
carried out. `HoneytokenLifecycle` is the promise about each honeytoken: placed, then armed,
then reported; given up only before it is armed.

### Learning

`VertexAiTrainer` and the feedback loop. All their methods are synchronous, so each is one
action: `SubmitOutcome` (with the validation), `PublishModel` and `RejectModel` (the outcomes of `triggerRetraining`;
one that is refused for too few records changes nothing), `ApplyModelUpdate`. `ShouldRetrain` is a query no component calls. What training achieves is any of
`Accuracies`. No code in `src/` calls `triggerRetraining` or `applyModelUpdate`, so
the model calls them at any time. A version id is a record of its three numbers. An interval
counts from the last model that was *published*: section 3 says what documents promise instead.

### PolicyManager, TetragonClient, TetragonFeed

`PolicyManager` has the policy in the cluster and one record of locals for each suspended call of
`addPaths`, `removePaths` or `syncWithRegistry`; `ReadAnswered` and `ReadEndsCall` are what follows
`getTracingPolicy`, `ApplySucceeds` and `ApplyFails` what follows `applyTracingPolicy`. `TetragonClient` has the
three variables of the closure and the state of every stream, because the handlers of a stream
outlive its replacement. `ReportsAgain` is an error or end that arrives after a stream was over or
cancelled: it marks the connection as lost whatever stream is current, and even after `disconnect()`
it connects again. `TetragonFeed` puts both beside each other; they share nothing in the
agent and meet in the kernel, which reports the accesses to the paths of the policy on every
live stream (`Invocations`).

Two behaviours the properties must make room for. Paths of calls that overlap get lost: both
read the same list and the second write wins. `settled` holds the paths that were added while no other
call was suspended, and `UndisturbedPathsStay` says that nothing later loses these. And a late report
opens a second stream, on which every access is heard twice: `lateReport` remembers one.

### The operator modules

Operators only, on which no run depends (but for the ones that `IncidentWorkflow` extends): what they compute is proved for all arguments.

- `QuerySupport`: a field that may be missing
  is a set with at most one element (`OrDefault`), `Array.filter` is `KeepIn`, and `includes` on lower-case text is
  the constant `Includes`. A filter is a predicate (`ReportMatches`, `IncidentMatches`); the five filters of a
  timeline query, which the code applies one after the other, are its conjuncts.
- `AuditLog`: the methods of the log on the list of its entries, `PurgeExpired` what its loop leaves.
- `Config`: the defaults, the merge and the validation of `config.ts` on a flat record of integers, and what `createComponents` of `index.ts` hands
  to each component. The validation leaves `minimumOutcomeRecords`, `requestTimeoutSeconds`, `maxBackoffSeconds` and all retries and
  intervals of response and reporting unchecked, and a setting that is not a number passes every comparison; the model has integers only. The settings of
  deployment, response and reporting reach no component.
- `MemoryDeployer`: the deployer outside Kubernetes. None of its methods awaits anything, so a call is one step; the failure simulation is the argument that says at which position a batch fails.
- `TetragonMonitor`: the paths, the events it generates and their validation. `monitor.ts:178` says that events are validated; `generateAccessEvent` does not call the validation.
- `AccessEventFeed`: the circular array of recent events.
- `ForensicReport`: the timeline (a stable sort by time), the recommended actions, and the choice of the text generator. The fallback is sticky and does not fail, so
  with it a report is missing only after a timeout.
- `EventBroadcaster`: a broadcast is the sequence of pushes it awaits; the status of ingestion is computed from both buffers. The summary "No buffered items" only says that
  nothing waits for a retry, and a buffer status leaves out what a suspended flush holds.

## 3. Runs

| Run | Question | Bounds | Result |
|---|---|---|---|
| `ingestion` | do overlapping flushes lose, multiply or strand items, and does every push return? | 3 items, 2 flushes, batches of 2, 2 attempts, backoff 1 and 2 s | passes, 101 876 states |
| `ingestion_retries` | is an item given up only after the documented retries? | 1 item, 1 flush, the settings of the code: 5 retries, 2 to 32 s | violated: it is given up after 4 retries |
| `forwarder` | what can be lost, and is the array a queue? | 3 calls, capacity 2, 2 retries | passes, 75 119 states |
| `forwarder_exhausted` | does an exhausted event remain in the buffer? | 3 calls, capacity 3 | violated: another call's drain clears it |
| `workflow` | are containment claims true, accesses counted, audit gaps confined and incidents wound up and closed? | 2 events, 2 pods, one of which policies can select, 3 registry entries (2 for one path), 1 retry each | passes, 480 902 states |
| `workflow_audit_gap` | is every executed action audited? | 1 event | violated: not when its alert is rejected |
| `workflow_shared_name` | does containment hold when policy names collide? | 2 pods, one name | violated: the second pod is not isolated |
| `health` | is an outage seen from outside an episode of `OutageEpisodes`, whatever checks and retries overlap, what may still happen after stop(), and does a recovered component become healthy? | 1 component, 3 retries, 4 overlapping checks or retries | passes, 5 414 states |
| `health_stop` | does stop() clear all timers? | as above | violated: a check in flight starts new ones |
| `deployment` | do overlapping cycles and failing calls keep registry, cluster and watch list in step? | 2 cycles and the scheduler, 2 pods, 2 honeytokens per pod, 1 retry, 2 failing calls | passes, 276 974 states |
| `learning` | are updates noticed, outcomes counted once and models never worse? | 7 records, minimum 2, 3 accuracies, versions wrap at 3 records and 2 ms | passes, 3 252 states |
| `tetragon` | do watched paths stay watched, and does the client stay connected, once? | 2 calls, 2 paths, 2 streams | passes, 344 258 states |

Why the bounds are enough. Two flushes are the least that overlap; with three items and
batches of two, a flush has a full batch, a second batch, and something left for the other
flush; two attempts give both the retry and the discard. With a capacity
of two and three calls the buffer wraps around and evicts. Two incidents on the
same or different pods are what sharing needs, and one retry shows both a
failure that is retried and one that is final; the number of retries is a
constant of the model, 3 in the audit run. One path has two entries in the
registry, one an entry of its own, and one pod is accessed where nothing is deployed. One pod
is in `default` with the label of a StatefulSet, the other in another namespace without it. The components of the health monitor
do not share any state, so one is enough. Two cycles on two pods are
the least that deploy to the same pod at the same time and have a pod before and after the one that
fails; with two honeytokens per pod the second creation can fail after the first, and two
failing calls let the clean-up fail too (the code always deploys three;
the proofs hold for any number). Overlap 4 lets two chains of
retries run with checks between them, and both exhaust. Seven records
publish up to three models, and the numbers of their versions wrap around twice. Two
calls with two paths are the least that lose an update; two names of streams do, because a stream that is over gives its
name back, and they let one late report leave two streams live. All counters are
bounded by the guards of the code, except `MaxRecords` and `MaxTime` (of `Learning`), `MaxOverlap`
(checks in flight), `MaxConcurrent` (suspended calls of forward) and `MaxFaults` (honeytokens
with a failed call to Kubernetes), which are bounds of the models, and `Flushes`, a push that fills a batch needs a free one.

`ExhaustedEventStaysBuffered`, `ExecutedActionsAreAudited`,
`ContainedMeansIsolated` (under shared names), `StopClearsTimers` and `DiscardsFollowRetries` state what a comment of
the code says. Their counterexamples are the findings in `PROJECT.json`.

Other places where documents and code disagree, found while modelling, and where they are settled
(requirements and design are in `.kiro/specs/ebeecontrol/`):

- After a rejected model retraining is due again at once, because neither timestamp nor counter moves (`RejectModel`); Requirement 7.6
  (`requirements.md:115`) has the trainer "retry retraining at the next scheduled interval", and `trainer.ts:164` says "since last training".
  Nothing in `src/` acts on `shouldRetrain`. No property depends on it: `OutcomesCountOnce` and `ModelsImprove` hold with either reading.
- A context that arrives with a field missing is graded as it is, while `design.md:933` says that threats are never under-classified due to missing data.
  `NeverUnderClassified` states that; `GradedBelowDefaults` and `NeverUnderClassifiedUnless` (section 4) prove exactly when it fails.
- An incident in a pod that policies cannot select is reported as contained (see `K8sResponse` in section 2); `k8s-response.ts:27` says that the pod is isolated.
- Requirement 3.6 (`requirements.md:62`) promises a warning for a buffer overflow upon the next successful connection, without exception. `SequentialOverflowIsReported` holds for calls in turn only: when
  calls of `forward()` overlap, an overflow during the warning about an earlier one is forgotten until the next overflow, because the flag is reset after the await (`event-forwarder.ts:148`). No property covers that case.

Requirement 2.5 (`.kiro/specs/ebeecontrol/requirements.md`), that a deployment that failed in part leaves nothing behind, holds only up to `OnlyLostAnswersLeak`: a creation that is
reported as failed but was carried out, or a deletion that fails, leaves its Secret.

Type correctness of every module, and a few invariants (`OneQueryAtATime`, `DiscardedAtLimit`, and `EscalatedOnce` and `DegradedIsSticky`, which
`ImplementsOutageEpisodes` contains), are proved for every instance (section 4), so the runs do not repeat them.

An item is given up at its failure number `maxRetries` (`AttemptLimit`; `log-client.ts:179`), so after 4 retries, although
`log-client.ts:54`, Requirement 9.16 and `design.md:147` promise 5 retries: the finding `ingestion_retries`. The bounds in
`BoundedDuplication` and `BoundedDelivery` are those of the code; with the documented retries they would be one higher.

Invariants that exclude a case say so: `SequentialCallsLoseNothing` and
`SequentialOverflowIsReported` are about calls that do not overlap, because with overlap
both fail; what remains true then is `OnlyClearLosesEvents`. `ContainedMeansIsolated` holds in
the run `workflow` because its pods have distinct names, and for the pod that policies can select.
`RankedTargets` of `Deployment` takes Dynatrace to name a pod once in an answer: the code does not remove duplicates (`client.ts:139`,
`deployment-orchestrator.ts:99`), and would deploy twice to a pod named twice, beyond `maxHoneytokensPerPod`, and count it twice.

### Fairness

- Ingestion: the interval timer fires while it runs, the AbortController ends every request, time
  passes. `EventuallySettled` assumes that the timer is not stopped for good; `PushesReturn`, that every push and with it every
  broadcast ends, does not.
- Forwarder: `withTimeout` settles attempts, `setTimeout` fires. The warning has no timeout
  and gets no fairness, and `ForwardReturns` says that a call may wait there forever.
- Workflow: the context query, the report attempts and the pauses are ended by timers, and a
  broadcast ends because the requests of the ingestion client do. Calls to Kubernetes, Koney and the alert
  channel have no timeout and get no fairness; `IncidentsAreClosed` names them as the
  exception.
- Deployment: each query attempt has a timeout and their number is limited. The calls to Kubernetes have no
  timeout; `CyclesEnd` assumes of the cluster's client that it answers or refuses each of them.
- Tetragon: the reconnection timer fires, and `grpcConnect` does not throw every time. `Reconnects` assumes no
  more: streams may fail again at once.
- Health: timers fire and `createTimeout` ends every check; no fairness says that a component
  recovers, or that it keeps failing. `RecoveredIsHealthy` assumes of the component, not of the code, that its checks stop failing.

Deadlock checking is on in all runs: the models stop only in their explicit `Finished`
steps (forwarder, workflow), or never.

## 4. Proofs

`SequenceFilterLemmas` proves what filtering, cutting, appending and concatenating do to the elements of a sequence and
to its freedom from repetitions, and induction on a set of naturals from the least-number principle, which the lemmas rest on.

`IngestionClientProofs` proves, for every set of items and flushes and all integer settings of `IngestionAssumption` (those that
`validateConfig` accepts with a maximal backoff that is not negative), that the client is type correct,
satisfies `NoItemLost`, `OneHolder`, `BoundedDuplication` and `DiscardedAtLimit`, and implements
`BoundedDelivery`. The invariants are not inductive alone: that an item is not held
twice after a failed batch needs to know that an item in the retry buffer has failed
at least once and one in the pending batch never (the code removes the retrying
items by that count), and the bound on copies needs the number of copies for each attempt in each stage. `AttemptStages` and
`CopiesPerAttempt` say this; `IInv` is the conjunction, and the proof has one lemma for each
action and conjunct. `StatusIsTruthful` adds what `EventBroadcaster` makes of two clients' counters: a loss is always reported, and a delay when there is no loss.

`HealthMonitorProofs` proves, for every set of components, number of retries and bound on
the overlap (`MonitorAssumption`), type correctness, `DegradedMeansExhausted`, `EscalatedOnce`,
`TimersBelongToOutages`, `OutageIsAlerted` and the action property `DegradedIsSticky`. The strengthening counts
escalations exactly and bounds the retry counter: a counted retry was pending, and a new one is scheduled only below the
limit, so the counter and the pending retries together never exceed the limit
by more than what overlaps (`RetriesBounded`). From the same invariant the monitor implements `OutageEpisodes`
(`MonitorImplementsOutages`): a late result of a check or a retry that overlapped is a stutter of the outage or one of its steps. `StopWithoutChecksIsFinal` is the
other side of the finding `health_stop`: after `stop()` only a check that was in flight can set a timer or
open an episode; where none was, the stop is final, although recovery checks and forgotten retry timers are still under way.

`EventForwarderProofs` proves, for every capacity and any number of events, calls and retries (`ForwarderAssumption`, `BufferAssumption`), type
correctness, `OnlyClearLosesEvents`, both properties of calls that do not overlap, and that the array is a `BoundedFifo`. The refinement rests on the slots of the
array: modulo the capacity, the positions from `head` on are distinct (`Slots`), so writing behind the last element appends (`InsertAppends`) and overwriting
the first one rotates the queue (`OverwriteRotates`). For the losses it has to be known where each event past its first attempt is (`EventsAreAccountedFor`), and
for calls in turn that the one that drains finds in the buffer what its snapshot says (`CallsTakeTurns`). `EveryForwardWindsDown`
bounds a call by 2 * `MaxRetries` + `Capacity` + 2 steps, each of which brings it closer to its end: a drain sends its snapshot, which the buffer
bounds, and nothing that others add meanwhile.

`IncidentWorkflowProofs` proves, for every set of events, pods, accesses, contexts and registry entries and any number of retries
(`WorkflowAssumption`), type correctness, `FailuresWereAlerted`, `ReportedMeansWholePlan` and `AccessesAreCounted`. Their
strengthening: what was done and what is left are together the plan of the class (`OnPlan`), a returned action has its audit entry
(`ActionsAreAudited`), a report comes after the response (`OutcomesAreReported`), and entries stay at their places
(`RegistryKeepsPlaces`), so that the first entry for a path is always the same. Under `DistinctNames`, the assumption that no two pods share a
policy name, it proves `ContainedMeansIsolated`, for the pods that policies can select: then a policy selects by the pod id it is named after and
AlreadyExists tells the truth (`EffectInv`). The run `workflow_shared_name` shows what happens without that assumption. When, besides, no accessed pod of another
namespace has the id of a selectable pod (`NoNamesakes`), `IncidentWorkflow` implements `IncidentResponse` for the selectable pods; a namesake would have the other
pod isolated without an incident there. For all other pods neither theorem claims anything about containment, and nothing is isolated.

Three more results say how far the workflow's weak points reach.

- `EveryCallWindsDown`: every step of `processAccessEvent` lowers `StepsLeft`, which never falls below 0 and starts at 4 * `MaxRetries` + 2 * `MaxReportRetries`
  + 12 (`StepsOfANewCall`). This is the safety half of `IncidentsAreClosed`. It needs `CallInv`: attempts stay within the limit of what is being tried (`AttemptsCounted`), and what failed is a part of the plan (`FailedOnPlan`).
- `UnauditedAreUnalerted`: the one executed action that an incident which is over may lack in the audit log, as `workflow_audit_gap` shows, is an isolation or block whose exhaustion
  alert was rejected, so nobody was alerted about it either. It needs that alerts are only about results (`AlertsAreOfResults`).
- `GradedBelowDefaults` characterises the contexts with missing fields that are graded below what the documented defaults come to (`UnderGraded`), and `NeverUnderClassifiedUnless` proves that
  without such an answer `NeverUnderClassified` holds: a missing field that the comparisons skip is the only cause of a grade that is too low.

`DeploymentProofs` proves, for every set of cycles and pods, every number of honeytokens per pod and of
failing calls (`DeploymentAssumption`): type correctness, `OneQueryAtATime`, `RegisteredIsDeployed`,
`OnlyLostAnswersLeak`, `PodsAllOrNothing` and that `Deployment` implements `HoneytokenLifecycle`. That a registered
honeytoken stays deployed rests on what each cycle holds: the honeytokens in `work` are placed, unregistered
and its own (`WorkIsUnregistered`, `WorkOfCurrentPod`), and no honeytoken exists yet for the pods
still to come (`FreshPods`), so a new one is really new. The proof shows once that a step of one
cycle spares all others (`DeploySpares`), and then goes through the acting cycle action by action.
`PodsAllOrNothing` rests on `PodsAreWhole`: while `deploy()` creates, `work` is a prefix of the pod's list (`Batch`); while it registers, the registry and `work`
together are the whole list; every pod the cycle has been through has its whole list or nothing; and the counter is the number of the pods that do.
`EveryCycleWindsDown` is the safety half of `CyclesEnd`: each step of a cycle lowers `StepsLeft`, at first
|Pods| * (3 * `NumSpecs` + 1) + `MaxRetries` + 3, because a honeytoken is created, registered and reported, or created and deleted, and no pod is taken up twice.

`OperatorProofs` proves, for all arguments:

- Grading is monotone in all three inputs (`Monotone`), and the highest-risk defaults are an upper bound for every way to complete a
  context (`DefaultsNeverLower`). What that does not say: `assessThreat` uses the defaults only if there is no context at all (see `GradedBelowDefaults` above).
- `PagesPartition`: for every list and page size the pages 1 to
  `totalPages` hold every entry exactly once; it rests on the two halves of division rounded up (`RoundedUp`,
  `PageOfEntry`) and on `PagesAreDisjoint`. `QueryIsComplete` adds, with what `KeepIn` returns, that a timeline query loses no
  match and shows nothing else, 500 entries a page at most. The page size is assumed
  to be positive; the code does not check it.
- `PurgeHidesNothingRetained`: whatever the configuration, no entry
  of the last 90 days is purged, and a query inside the retention period does not notice a purge.
- `AcceptedSettings`: whatever integers override the defaults, settings that the validation lets pass give the components positive batch sizes, backoffs, multipliers, timers and
  retraining intervals, no negative number of retries, and at least 90 days of retention. Two conditions that `IngestionAssumption` and `LearningAssumption` put on settings do not follow: a maximal backoff
  that is not negative and a positive minimum of outcome records. `UncheckedSettings` proves that they really are open: any value of either is accepted and reaches its component.
- `OneEntryPerId` and `OldestEntryAnswers` (registry), `FailedBatchLeavesNoTrace` and `SuccessfulBatchIsDeployed` (in-memory deployer), `FeedKeepsNewest` (the circular feed is the
  list of the newest events, for every capacity) and `TimelineIsChronological` (the sort by time is a stable permutation).
- All properties of `Learning`, for every setting with a positive minimum of records
  (`LearningAssumption`; `validateConfig` does not check it, see `UncheckedSettings`). That no update is missed rests on `VersionsTellSize`:
  major and minor number determine the size of the dataset, and a published model has a larger one than its predecessor.

`TetragonFeedProofs` proves, for any number of calls, paths and streams (`PolicyAssumption`, `StreamAssumption`), type
correctness and all four invariants of the run. `UndisturbedPathsStay` is not inductive alone: it
rests on the writes under way, which contain every settled path (`WritesKeepSettled`), on the removals that have yet to
compute their paths, which drop none (`RemovalsSpareSettled`), and on `AloneIsAlone`: only a call without any other
beside it settles paths, so no write can be under way that does not know them. `OnlyLateReportsAddStreams`
follows from `OneStream`: without late reports only the current stream can be live. `Reconnects` is left to TLC.

Only model-checked: liveness (`EventuallySettled`, `PushesReturn`, `ForwardReturns`, `IncidentsAreClosed`, `OutageResolves`,
`RecoveredIsHealthy`, `CyclesEnd`, `Reconnects`), which is out of the prover's reach. For `ForwardReturns`, `IncidentsAreClosed` and `CyclesEnd` the proofs contain the half that is
safety: a decreasing bound on the steps of a call, so that what remains to TLC and to the fairness assumed is that a call which can step does. Every other property of a passing run is also a theorem.

## 5. Not modelled

- Formatting: `view-models.ts`, `learning-metrics-view.ts`, the wording of reports, prompts, alerts and logs, latency bookkeeping.
- Input and output: the HTTP and Gist clients, the gRPC and Kubernetes clients (external in the models), Helm charts and Terraform, the demonstration scripts.
- What no code of the agent reaches: `undeploy` and the failure simulation of the Kubernetes deployer, the catch of `deployToTargets` (neither the
  deployer nor the monitor it gets ever rejects), `submitForensicReport`.
- Settings that are not integers, and page sizes below 1, which the code does not check.
- The end of the process: after `stopAgent` `index.ts` calls `process.exit(0)`, so items that still wait in the ingestion buffers are lost. The models of the components show
  what is held when they are stopped (`IngestionClient` goes on after `StopPeriodicFlush`), not the loss, which is plain.
- Restarts. Nothing is persisted, so a new process starts in the initial states of the models, but the Secrets and policies of the old one are still in the
  cluster; the models start with a cluster that has none.
- The health checks that `index.ts` registers never reject, so in that wiring no component ever becomes unhealthy, and no alert is wired; `HealthMonitor` takes checks of any outcome, as the monitor does.

What a continuation could add: a composition of `Deployment` and `IncidentWorkflow` in one state space, in which accesses arrive while a cycle
registers honeytokens. Today the registry of `IncidentWorkflow` is any result of finished cycles.
