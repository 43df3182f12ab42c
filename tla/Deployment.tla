----------------------------- MODULE Deployment -----------------------------
(***************************************************************************)
(* Discovery cycles and the deployment of honeytokens: the scheduler and   *)
(* its guard (agent/orchestrator.ts), runDiscoveryAndDeployment            *)
(* (agent/workflow.ts), deployToTargets (agent/deployment-orchestrator.ts) *)
(* and the deployer that creates one Secret per honeytoken                 *)
(* (koney/k8s-deployer.ts).                                                *)
(*                                                                         *)
(* The guard covers only the query: a second cycle may run its query while *)
(* the first one is still deploying, and deploys to the same pods again.   *)
(* Honeytoken ids are UUIDs, so a honeytoken is named by the cycle that    *)
(* creates it, its pod and its place in the list of specs of that pod.     *)
(*                                                                         *)
(* An action is the code from the answer to one awaited call to the next   *)
(* await.  A call that is reported as failed may have been carried out.    *)
(***************************************************************************)
EXTENDS Integers, FiniteSets, SequenceFilter

CONSTANTS
    Cycles,         \* calls of runDiscoveryAndDeployment
    Scheduler,      \* the caller behind setInterval, which drops the result
    Pods,           \* pods of the high-risk services
    NumSpecs,       \* honeytokens per pod, generateDefaultHoneytokenSpecs
    MaxRetries,     \* retries of the discovery query
    MaxFaults       \* bound of the model: Kubernetes calls that fail

\* deploy() accepts from 1 to 5 honeytokens per pod (k8s-deployer.ts:145-151).
ASSUME DeploymentAssumption ==
    /\ Scheduler \notin Cycles
    /\ IsFiniteSet(Cycles) /\ IsFiniteSet(Pods)
    /\ NumSpecs \in 1 .. 5
    /\ MaxRetries \in Nat /\ MaxFaults \in Nat

VARIABLES
    schedulerOn,      \* schedulerInterval is set
    cycleInProgress,  \* the guard of initiateDiscoveryCycle
    phase,            \* the await each caller is suspended at
    failedAttempts,   \* failed attempts of its query
    todo,             \* pods the cycle has not finished, the current one first
    work,             \* `deployed` of deploy(): created, or still to be
                      \* cleaned up or registered
    results,          \* result.deployedHoneytokens not yet broadcast
    successful,       \* result.successfulDeployments
    audited,          \* cycles with an entry in the audit log
    deployed,         \* the map deployedHoneytokens of the deployer
    registry,         \* the honeytoken registry
    watched,          \* registeredPaths of the Tetragon monitor
    reported,         \* honeytokens broadcast to Dynatrace
    secrets,          \* Secrets in the cluster
    uncertain         \* history: honeytokens with a create or delete that failed

cycleVars == <<phase, todo, work, results, successful>>
agentVars == <<audited, deployed, registry, watched, reported>>
clusterVars == <<secrets, uncertain>>
queryVars == <<schedulerOn, cycleInProgress, failedAttempts>>
vars == <<queryVars, cycleVars, agentVars, clusterVars>>

---------------------------------------------------------------------------
Callers == Cycles \cup {Scheduler}

Honeytokens == [cycle : Cycles, pod : Pods, spec : 1 .. NumSpecs]

Phases == {"idle", "querying", "creating", "cleaning", "registering",
           "publishing", "ended", "skipped", "failed"}

\* The pods of the ranked services in the order of deployment.  The order
\* follows from scores the model leaves out.  External: Dynatrace is taken to
\* name a pod once in an answer.  The code does not remove duplicates
\* (client.ts:139, deployment-orchestrator.ts:99-101) and would serve a pod that
\* is named twice twice, counting it twice in the audit entry.
RankedTargets ==
    UNION {{s \in [1 .. n -> Pods] : NoRepeats(s)} : n \in 0 .. Cardinality(Pods)}

Init ==
    /\ schedulerOn = FALSE
    /\ cycleInProgress = FALSE
    /\ phase = [k \in Callers |-> "idle"]
    /\ failedAttempts = [k \in Callers |-> 0]
    /\ todo = [c \in Cycles |-> << >>]
    /\ work = [c \in Cycles |-> << >>]
    /\ results = [c \in Cycles |-> << >>]
    /\ successful = [c \in Cycles |-> 0]
    /\ audited = {} /\ deployed = {} /\ registry = {}
    /\ watched = {} /\ reported = {}
    /\ secrets = {} /\ uncertain = {}

---------------------------------------------------------------------------
\* start() and stop() of the orchestrator; stop() leaves running cycles alone.
StartScheduler ==
    /\ ~schedulerOn
    /\ schedulerOn' = TRUE
    /\ UNCHANGED <<cycleInProgress, failedAttempts, cycleVars, agentVars, clusterVars>>

StopScheduler ==
    /\ schedulerOn
    /\ schedulerOn' = FALSE
    /\ UNCHANGED <<cycleInProgress, failedAttempts, cycleVars, agentVars, clusterVars>>

\* initiateDiscoveryCycle up to its first await.  A caller that finds a cycle
\* in progress gets { skipped: true }.
InitiateDiscoveryCycle(k) ==
    /\ cycleInProgress' = TRUE
    /\ phase' = [phase EXCEPT ![k] = IF ~cycleInProgress THEN "querying"
                                     ELSE IF k = Scheduler THEN "idle"
                                     ELSE "skipped"]

\* The callback of setInterval.
ScheduledCycle ==
    /\ schedulerOn
    /\ phase[Scheduler] = "idle"
    /\ InitiateDiscoveryCycle(Scheduler)
    /\ UNCHANGED <<schedulerOn, failedAttempts, todo, work, results, successful,
                   agentVars, clusterVars>>

RunDiscoveryAndDeployment(c) ==
    /\ phase[c] = "idle"
    /\ InitiateDiscoveryCycle(c)
    /\ UNCHANGED <<schedulerOn, failedAttempts, todo, work, results, successful,
                   agentVars, clusterVars>>

\* An attempt of the query fails or runs into its timeout; another follows.
QueryAttemptFails(k) ==
    /\ phase[k] = "querying"
    /\ failedAttempts[k] < MaxRetries
    /\ failedAttempts' = [failedAttempts EXCEPT ![k] = @ + 1]
    /\ UNCHANGED <<schedulerOn, cycleInProgress, cycleVars, agentVars, clusterVars>>

\* The `finally` of initiateDiscoveryCycle.
EndQuery(k) ==
    /\ cycleInProgress' = FALSE
    /\ failedAttempts' = [failedAttempts EXCEPT ![k] = 0]
    /\ UNCHANGED schedulerOn

\* Fault: the flag is only reset when the query succeeds.
QueryFailsHoldingFlag(k) ==
    /\ phase[k] = "querying"
    /\ failedAttempts[k] = MaxRetries
    /\ phase' = [phase EXCEPT ![k] = IF k = Scheduler THEN "idle" ELSE "failed"]
    /\ UNCHANGED <<queryVars, todo, work, results, successful, agentVars, clusterVars>>

\* The last attempt fails: initiateDiscoveryCycle rethrows, the scheduler logs
\* that, and runDiscoveryAndDeployment rejects.
QueryFails(k) ==
    /\ phase[k] = "querying"
    /\ failedAttempts[k] = MaxRetries
    /\ EndQuery(k)
    /\ phase' = [phase EXCEPT ![k] = IF k = Scheduler THEN "idle" ELSE "failed"]
    /\ UNCHANGED <<todo, work, results, successful, agentVars, clusterVars>>

\* The scheduler drops what its cycles find.
ScheduledAnswer ==
    /\ phase[Scheduler] = "querying"
    /\ EndQuery(Scheduler)
    /\ phase' = [phase EXCEPT ![Scheduler] = "idle"]
    /\ UNCHANGED <<todo, work, results, successful, agentVars, clusterVars>>

\* No service was found: nothing is deployed, broadcast or audited.
NothingFound(c) ==
    /\ phase[c] = "querying"
    /\ EndQuery(c)
    /\ phase' = [phase EXCEPT ![c] = "skipped"]
    /\ UNCHANGED <<todo, work, results, successful, agentVars, clusterVars>>

\* Services were found, and deployToTargets begins.  They may have no pods.
TargetsFound(c, pods) ==
    /\ phase[c] = "querying"
    /\ EndQuery(c)
    /\ phase' = [phase EXCEPT ![c] = IF pods = << >> THEN "publishing" ELSE "creating"]
    /\ todo' = [todo EXCEPT ![c] = pods]
    /\ UNCHANGED <<work, results, successful, agentVars, clusterVars>>

---------------------------------------------------------------------------
\* The honeytoken whose Secret deploy() is creating.
Candidate(c) == [cycle |-> c, pod |-> Head(todo[c]), spec |-> Len(work[c]) + 1]

CanFail == Cardinality(uncertain) < MaxFaults

LastSpec(c) == Len(work[c]) + 1 = NumSpecs

\* The Secrets after the API server carried out the next creation.
CreateHoneytokenSecret(c) == secrets \cup {Candidate(c)}

\* With the last one deploy() returns, and the pod counts as a success.
CreateSucceeds(c) ==
    /\ phase[c] = "creating"
    /\ secrets' = CreateHoneytokenSecret(c)
    /\ deployed' = deployed \cup {Candidate(c)}
    /\ work' = [work EXCEPT ![c] = Append(@, Candidate(c))]
    /\ phase' = [phase EXCEPT ![c] = IF LastSpec(c) THEN "registering" ELSE "creating"]
    /\ successful' = [successful EXCEPT ![c] = IF LastSpec(c) THEN @ + 1 ELSE @]
    /\ UNCHANGED <<queryVars, todo, results, audited, registry, watched, reported, uncertain>>

\* Fault: what was created before the failure is reported as deployed.
CreateFailsKeepingPart(c) ==
    /\ phase[c] = "creating"
    /\ CanFail
    /\ secrets' \in {secrets, CreateHoneytokenSecret(c)}
    /\ uncertain' = uncertain \cup {Candidate(c)}
    /\ phase' = [phase EXCEPT ![c] = "registering"]
    /\ UNCHANGED <<queryVars, todo, work, results, successful, agentVars>>

\* Fault: the pod is given up without deleting what was created before.
CreateFailsWithoutCleanup(c) ==
    /\ phase[c] = "creating"
    /\ CanFail
    /\ secrets' \in {secrets, CreateHoneytokenSecret(c)}
    /\ uncertain' = uncertain \cup {Candidate(c)}
    /\ phase' = [phase EXCEPT ![c] = "cleaning"]
    /\ work' = [work EXCEPT ![c] = << >>]
    /\ UNCHANGED <<queryVars, todo, results, successful, agentVars>>

\* The Secrets created before are cleaned up, but not the one that failed.
CreateFails(c) ==
    /\ phase[c] = "creating"
    /\ CanFail
    /\ secrets' \in {secrets, CreateHoneytokenSecret(c)}
    /\ uncertain' = uncertain \cup {Candidate(c)}
    /\ phase' = [phase EXCEPT ![c] = "cleaning"]
    /\ UNCHANGED <<queryVars, todo, work, results, successful, agentVars>>

\* Fault: the clean-up goes by pod and not by id.
DoomedByPod(c) == {t \in deployed : t.pod = Head(work[c]).pod}

\* What the current turn of the clean-up loop deletes.
Doomed(c) == {Head(work[c])}

\* deleteHoneytokenSecret returns even if the Secret is still there: it swallows
\* every error.
DeleteSettles(c) ==
    /\ phase[c] = "cleaning" /\ work[c] # << >>
    /\ \/ secrets' = secrets \ Doomed(c) /\ UNCHANGED uncertain
       \/ CanFail /\ UNCHANGED secrets /\ uncertain' = uncertain \cup Doomed(c)
    /\ deployed' = deployed \ Doomed(c)
    /\ work' = [work EXCEPT ![c] = Tail(@)]
    /\ UNCHANGED <<queryVars, phase, todo, results, successful, audited, registry,
                   watched, reported>>

\* addEntry, deployedHoneytokens.push and registerHoneytokenPath, which enters
\* the path before it returns its promise.
RegisterHoneytoken(c) ==
    /\ phase[c] = "registering" /\ work[c] # << >>
    /\ registry' = registry \cup {Head(work[c])}
    /\ watched' = watched \cup {Head(work[c])}
    /\ results' = [results EXCEPT ![c] = Append(@, Head(work[c]))]
    /\ work' = [work EXCEPT ![c] = Tail(@)]
    /\ UNCHANGED <<queryVars, phase, todo, successful, audited, deployed, reported,
                   clusterVars>>

\* The inner loops of a pod are over; the cycle goes on to the next pod.
PodDone(c) ==
    /\ phase[c] \in {"registering", "cleaning"} /\ work[c] = << >>
    /\ todo' = [todo EXCEPT ![c] = Tail(@)]
    /\ phase' = [phase EXCEPT ![c] = IF Len(todo[c]) = 1 THEN "publishing" ELSE "creating"]
    /\ UNCHANGED <<queryVars, work, results, successful, agentVars, clusterVars>>

\* broadcastHoneytokenRegistryChange of the next registered honeytoken, for the
\* loop of runDiscoveryAndDeployment.  The clients buffer what they cannot
\* deliver, so it does not reject.
BroadcastRegistryChange(c) ==
    /\ phase[c] = "publishing" /\ results[c] # << >>
    /\ reported' = reported \cup {Head(results[c])}
    /\ results' = [results EXCEPT ![c] = Tail(@)]
    /\ UNCHANGED <<queryVars, phase, todo, work, successful, audited, deployed,
                   registry, watched, clusterVars>>

FinishCycle(c) ==
    /\ phase[c] = "publishing" /\ results[c] = << >>
    /\ audited' = audited \cup {c}
    /\ phase' = [phase EXCEPT ![c] = "ended"]
    /\ UNCHANGED <<queryVars, todo, work, results, successful, deployed, registry,
                   watched, reported, clusterVars>>

---------------------------------------------------------------------------
QuerySettles(k) ==
    \/ QueryAttemptFails(k)
    \/ QueryFails(k)
    \/ k = Scheduler /\ ScheduledAnswer
    \/ k \in Cycles /\ NothingFound(k)
    \/ k \in Cycles /\ \E pods \in RankedTargets : TargetsFound(k, pods)

Deploy(c) ==
    \/ CreateSucceeds(c) \/ CreateFails(c) \/ DeleteSettles(c)
    \/ RegisterHoneytoken(c) \/ PodDone(c)
    \/ BroadcastRegistryChange(c) \/ FinishCycle(c)

Next ==
    \/ StartScheduler
    \/ StopScheduler
    \/ ScheduledCycle
    \/ \E c \in Cycles : RunDiscoveryAndDeployment(c)
    \/ \E k \in Callers : QuerySettles(k)
    \/ \E c \in Cycles : Deploy(c)

Spec == Init /\ [][Next]_vars

\* The query has a timeout and a bounded number of attempts.  The calls to
\* Kubernetes have no timeout in this code; that each is answered or refused in
\* the end is assumed of its client.
Fairness ==
    /\ \A k \in Callers : WF_vars(QuerySettles(k))
    /\ \A c \in Cycles : WF_vars(Deploy(c))

FairSpec == Spec /\ Fairness

---------------------------------------------------------------------------
\* Type invariant of the cycles, the agent's maps and the cluster.
TypeOK ==
    /\ schedulerOn \in BOOLEAN /\ cycleInProgress \in BOOLEAN
    /\ phase \in [Callers -> Phases]
    /\ failedAttempts \in [Callers -> 0 .. MaxRetries]
    /\ todo \in [Cycles -> Seq(Pods)]
    /\ work \in [Cycles -> Seq(Honeytokens)]
    /\ results \in [Cycles -> Seq(Honeytokens)]
    /\ successful \in [Cycles -> Nat]
    /\ audited \subseteq Cycles
    /\ deployed \subseteq Honeytokens /\ registry \subseteq Honeytokens
    /\ watched \subseteq Honeytokens /\ reported \subseteq Honeytokens
    /\ secrets \subseteq Honeytokens /\ uncertain \subseteq Honeytokens

\* The flag is set exactly while a query runs, and there is never more than one,
\* whether the scheduler or a call of the workflow began it.
OneQueryAtATime ==
    /\ cycleInProgress <=> \E k \in Callers : phase[k] = "querying"
    /\ \A j, k \in Callers : phase[j] = "querying" /\ phase[k] = "querying" => j = k

\* A registered honeytoken exists in the cluster, is watched, and can still be
\* undeployed: no clean-up of an overlapping cycle takes it away.
RegisteredIsDeployed ==
    registry \subseteq secrets \cap watched \cap deployed

\* At its end a cycle has registered and reported all honeytokens of a pod or
\* none, and its audit entry counts the pods that have theirs.
PodsAllOrNothing ==
    \A c \in Cycles : phase[c] = "ended" =>
        LET of(p) == {t \in registry : t.cycle = c /\ t.pod = p}
        IN  /\ c \in audited
            /\ \A p \in Pods : of(p) \in
                  {{}, {t \in reported : t.cycle = c /\ t.pod = p}}
            /\ \A p \in Pods : Cardinality(of(p)) \in {0, NumSpecs}
            /\ successful[c] = Cardinality({p \in Pods : of(p) # {}})

\* Only an unanswered or refused call leaves a Secret behind that is not in
\* the registry once no cycle is deploying.
OnlyLostAnswersLeak ==
    (\A c \in Cycles : phase[c] \notin {"creating", "cleaning", "registering"}) =>
        secrets \ registry \subseteq uncertain

\* Every query ends and releases the guard, and every cycle that began ends: the
\* agent comes to rest again and again.
CyclesEnd ==
    []<>(/\ ~cycleInProgress
         /\ \A c \in Cycles : phase[c] \in {"idle", "ended", "skipped", "failed"})

---------------------------------------------------------------------------
\* Strengthening to an inductive invariant, for each cycle.

\* `work` is in use only while a pod is dealt with; while deploy() creates, it
\* holds what was created for that pod so far.
WorkOfCurrentPod(c) ==
    /\ NoRepeats(work[c])
    /\ \A t \in Range(work[c]) : t.cycle = c
    /\ IF phase[c] \in {"creating", "cleaning", "registering"}
       THEN todo[c] # << >> ELSE work[c] = << >>
    /\ phase[c] = "creating" =>
          /\ Len(work[c]) < NumSpecs
          /\ \A t \in Range(work[c]) : t.pod = Head(todo[c]) /\ t.spec <= Len(work[c])

WorkIsUnregistered(c) == Range(work[c]) \subseteq (secrets \cap deployed) \ registry

\* No honeytoken exists yet for the pods that come later.
FreshPods(c) ==
    /\ NoRepeats(todo[c])
    /\ \A t \in secrets \cup deployed \cup registry : t.cycle = c =>
          /\ phase[c] \notin {"idle", "querying"}
          /\ todo[c] # << >> => t.pod \notin Range(Tail(todo[c]))
          /\ phase[c] = "creating" /\ t.pod = Head(todo[c]) => t \in Range(work[c])

ResultsAreUnreported(c) ==
    /\ NoRepeats(results[c])
    /\ \A t \in Range(results[c]) : t.cycle = c /\ t \in registry \ reported

\* What is neither registered nor in the hands of its cycle had a failed call.
LeftoversAreUncertain ==
    \A t \in secrets : t \in registry \cup uncertain \cup Range(work[t.cycle])

CycleInv(c) ==
    /\ WorkOfCurrentPod(c)
    /\ WorkIsUnregistered(c)
    /\ FreshPods(c)
    /\ ResultsAreUnreported(c)

IInv ==
    /\ TypeOK
    /\ OneQueryAtATime
    /\ RegisteredIsDeployed
    /\ reported \subseteq registry
    /\ LeftoversAreUncertain
    /\ \A c \in Cycles : CycleInv(c)

\* The honeytokens of a pod, up to the n-th of its list of specs.
Batch(c, p, n) == {[cycle |-> c, pod |-> p, spec |-> i] : i \in 1 .. n}

RegisteredOf(c, p) == {t \in registry : t.cycle = c /\ t.pod = p}

\* The pods a cycle has been through that have honeytokens.
ServedPods(c) == {p \in Pods \ Range(todo[c]) : RegisteredOf(c, p) # {}}

\* The current pod counts as soon as its deploy() has returned.
CountedPods(c) ==
    ServedPods(c) \cup (IF phase[c] = "registering" THEN {Head(todo[c])} ELSE {})

\* Pods that are done have all their honeytokens or none; those of the current
\* pod are in `work` until each is registered; none is lost before its report.
PodsAreWhole(c) ==
    /\ phase[c] \in {"publishing", "ended"} => todo[c] = << >>
    /\ phase[c] = "ended" => c \in audited /\ results[c] = << >>
    /\ \A t \in Range(work[c]) : t.pod = Head(todo[c])
    /\ phase[c] = "creating" => Range(work[c]) = Batch(c, Head(todo[c]), Len(work[c]))
    /\ phase[c] \in {"creating", "cleaning"} => RegisteredOf(c, Head(todo[c])) = {}
    /\ phase[c] = "registering" =>
          RegisteredOf(c, Head(todo[c])) \cup Range(work[c]) = Batch(c, Head(todo[c]), NumSpecs)
    /\ \A p \in Pods \ Range(todo[c]) : RegisteredOf(c, p) \in {{}, Batch(c, p, NumSpecs)}
    /\ successful[c] = Cardinality(CountedPods(c))
    /\ \A t \in registry : t.cycle = c => t \in reported \cup Range(results[c])

PodsInv == \A c \in Cycles : PodsAreWhole(c)

---------------------------------------------------------------------------
\* Where a honeytoken is in the terms of HoneytokenLifecycle.
Stage ==
    [t \in Honeytokens |-> IF t \in reported THEN "reported"
                           ELSE IF t \in registry THEN "armed"
                           ELSE IF t \in deployed THEN "placed"
                           ELSE "absent"]

Lifecycle == INSTANCE HoneytokenLifecycle WITH stage <- Stage, present <- secrets

\* Deployment implements the promise of HoneytokenLifecycle.
ImplementsHoneytokenLifecycle == Lifecycle!Spec
===========================================================================
