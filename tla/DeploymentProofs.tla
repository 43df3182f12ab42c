-------------------------- MODULE DeploymentProofs --------------------------
(***************************************************************************)
(* For every set of cycles and pods, every number of honeytokens per pod   *)
(* and of failing calls: the safety properties of Deployment, and that it  *)
(* implements HoneytokenLifecycle.                                         *)
(***************************************************************************)
EXTENDS Deployment, SequenceFilterLemmas, FiniteSetTheorems

USE DEF CreateHoneytokenSecret

\* What deploy() creates next is a honeytoken of cycle c.
LEMMA CandidateIsHoneytoken ==
  ASSUME TypeOK, NEW c \in Cycles, WorkOfCurrentPod(c), phase[c] = "creating"
  PROVE  /\ Candidate(c) \in Honeytokens
         /\ Candidate(c).cycle = c /\ Candidate(c).pod = Head(todo[c])
         /\ Candidate(c).spec = Len(work[c]) + 1
         /\ Candidate(c) \notin Range(work[c])
<1>1. Head(todo[c]) \in Pods
  <2>1. todo[c] \in Seq(Pods) /\ todo[c] # << >>
    BY DEF TypeOK, WorkOfCurrentPod
  <2> QED BY <2>1, TailElements
<1>2. Len(work[c]) \in Nat /\ Len(work[c]) < NumSpecs /\ NumSpecs \in Nat
  <2>1. work[c] \in Seq(Honeytokens)
    BY DEF TypeOK
  <2>2. Len(work[c]) \in Nat
    BY <2>1
  <2> QED BY <2>2, DeploymentAssumption DEF WorkOfCurrentPod
<1>3. Len(work[c]) + 1 \in 1 .. NumSpecs
  BY <1>2
<1>4. \A t \in Range(work[c]) : t.spec <= Len(work[c])
  BY DEF WorkOfCurrentPod
<1>5. /\ Candidate(c).cycle = c /\ Candidate(c).pod = Head(todo[c])
      /\ Candidate(c).spec = Len(work[c]) + 1
  BY DEF Candidate
<1>6. Candidate(c) \notin Range(work[c])
  BY <1>2, <1>4, <1>5
<1> QED BY <1>1, <1>3, <1>5, <1>6 DEF Candidate, Honeytokens

\* The first honeytoken of a non-empty `work`, and the rest.
LEMMA WorkElements ==
  ASSUME TypeOK, NEW c \in Cycles, WorkOfCurrentPod(c), work[c] # << >>
  PROVE  /\ Head(work[c]) \in Honeytokens /\ Head(work[c]).cycle = c
         /\ Tail(work[c]) \in Seq(Honeytokens)
         /\ Range(work[c]) = {Head(work[c])} \cup Range(Tail(work[c]))
         /\ NoRepeats(Tail(work[c])) /\ Head(work[c]) \notin Range(Tail(work[c]))
<1>1. work[c] \in Seq(Honeytokens)
  BY DEF TypeOK
<1>2. /\ NoRepeats(work[c])
      /\ \A t \in Range(work[c]) : t.cycle = c
  BY DEF WorkOfCurrentPod
<1> HIDE DEF Honeytokens
<1> QED BY <1>1, <1>2, TailElements

LEMMA TargetsArePods ==
  ASSUME NEW pods \in RankedTargets
  PROVE  pods \in Seq(Pods) /\ NoRepeats(pods)
<1>1. Cardinality(Pods) \in Nat
  BY DeploymentAssumption, FS_CardinalityType
<1>2. PICK n \in 0 .. Cardinality(Pods) : pods \in [1 .. n -> Pods] /\ NoRepeats(pods)
  BY Zenon DEF RankedTargets
<1>3. n \in Nat
  BY <1>1
<1>4. pods \in Seq(Pods)
  BY <1>2, <1>3, SeqDef, Zenon
<1> QED BY <1>2, <1>4

---------------------------------------------------------------------------
\* Each step keeps the types.  Deployment steps need the shape of `work`.
LEMMA TypeStep ==
  ASSUME TypeOK, \A c \in Cycles : WorkOfCurrentPod(c), [Next]_vars
  PROVE  TypeOK'
<1> USE DEF TypeOK
<1>1. CASE StartScheduler \/ StopScheduler
  BY <1>1 DEF StartScheduler, StopScheduler, cycleVars, agentVars, clusterVars
<1>2. ASSUME NEW k \in Callers, InitiateDiscoveryCycle(k),
             UNCHANGED <<schedulerOn, failedAttempts, todo, work, results, successful,
                         agentVars, clusterVars>>
      PROVE  TypeOK'
  BY <1>2 DEF InitiateDiscoveryCycle, Phases, agentVars, clusterVars
<1>3. CASE ScheduledCycle
  BY <1>2, <1>3 DEF ScheduledCycle, Callers
<1>4. CASE \E c \in Cycles : RunDiscoveryAndDeployment(c)
  BY <1>2, <1>4 DEF RunDiscoveryAndDeployment, Callers
<1>5. ASSUME NEW k \in Callers, QuerySettles(k) PROVE TypeOK'
  <2> USE DEF EndQuery, Phases, cycleVars, agentVars, clusterVars
  <2>1. MaxRetries \in Nat /\ 0 \in 0 .. MaxRetries
    BY DeploymentAssumption
  <2>2. CASE QueryAttemptFails(k)
    <3>1. failedAttempts[k] + 1 \in 0 .. MaxRetries
      BY <2>1, <2>2, <1>5 DEF QueryAttemptFails
    <3> QED BY <2>2, <3>1 DEF QueryAttemptFails
  <2>3. CASE QueryFails(k)
    BY <2>1, <2>3 DEF QueryFails
  <2>4. CASE k = Scheduler /\ ScheduledAnswer
    BY <2>1, <2>4 DEF ScheduledAnswer
  <2>5. CASE k \in Cycles /\ NothingFound(k)
    BY <2>1, <2>5 DEF NothingFound
  <2>6. ASSUME k \in Cycles, NEW pods \in RankedTargets, TargetsFound(k, pods)
        PROVE  TypeOK'
    <3>1. pods \in Seq(Pods)
      BY TargetsArePods
    <3> QED BY <2>1, <2>6, <3>1 DEF TargetsFound
  <2> QED BY <1>5, <2>2, <2>3, <2>4, <2>5, <2>6 DEF QuerySettles
<1>6. ASSUME NEW c \in Cycles, Deploy(c) PROVE TypeOK'
  <2> USE DEF Phases, queryVars, agentVars, clusterVars
  <2>1. WorkOfCurrentPod(c) /\ c \in Callers
    BY DEF Callers
  <2>2. CASE CreateSucceeds(c)
    <3>1. Candidate(c) \in Honeytokens
      BY <2>1, <2>2, CandidateIsHoneytoken DEF CreateSucceeds
    <3>2. Append(work[c], Candidate(c)) \in Seq(Honeytokens)
      BY <3>1
    <3>3. successful[c] + 1 \in Nat
      OBVIOUS
    <3> QED BY <2>2, <3>1, <3>2, <3>3 DEF CreateSucceeds
  <2>3. CASE CreateFails(c)
    <3>1. Candidate(c) \in Honeytokens
      BY <2>1, <2>3, CandidateIsHoneytoken DEF CreateFails
    <3> QED BY <2>3, <3>1 DEF CreateFails
  <2>4. CASE DeleteSettles(c)
    <3>1. Head(work[c]) \in Honeytokens /\ Tail(work[c]) \in Seq(Honeytokens)
      BY <2>1, <2>4, WorkElements DEF DeleteSettles
    <3> QED BY <2>4, <3>1 DEF DeleteSettles, Doomed
  <2>5. CASE RegisterHoneytoken(c)
    <3>1. Head(work[c]) \in Honeytokens /\ Tail(work[c]) \in Seq(Honeytokens)
      BY <2>1, <2>5, WorkElements DEF RegisterHoneytoken
    <3>2. Append(results[c], Head(work[c])) \in Seq(Honeytokens)
      BY <3>1
    <3> QED BY <2>5, <3>1, <3>2 DEF RegisterHoneytoken
  <2>6. CASE PodDone(c)
    <3>1. todo[c] \in Seq(Pods) /\ todo[c] # << >>
      BY <2>1, <2>6 DEF PodDone, WorkOfCurrentPod
    <3>2. Tail(todo[c]) \in Seq(Pods)
      BY <3>1, TailElements
    <3> QED BY <2>1, <2>6, <3>2 DEF PodDone
  <2>7. CASE BroadcastRegistryChange(c)
    <3>1. results[c] \in Seq(Honeytokens) /\ results[c] # << >>
      BY <2>7 DEF BroadcastRegistryChange
    <3>2. Head(results[c]) \in Honeytokens /\ Tail(results[c]) \in Seq(Honeytokens)
      BY <3>1
    <3> QED BY <2>7, <3>2 DEF BroadcastRegistryChange
  <2>8. CASE FinishCycle(c)
    BY <2>1, <2>8 DEF FinishCycle
  <2> QED BY <1>6, <2>2, <2>3, <2>4, <2>5, <2>6, <2>7, <2>8 DEF Deploy
<1>7. CASE UNCHANGED vars
  BY <1>7 DEF vars, queryVars, cycleVars, agentVars, clusterVars
<1> QED BY <1>1, <1>3, <1>4, <1>5, <1>6, <1>7 DEF Next

---------------------------------------------------------------------------
\* The flag follows the queries.
LEMMA GuardStep ==
  ASSUME TypeOK, OneQueryAtATime, [Next]_vars
  PROVE  OneQueryAtATime'
<1> DEFINE Querying == {k \in Callers : phase[k] = "querying"}
<1>1. /\ cycleInProgress <=> Querying # {}
      /\ \A j, k \in Querying : j = k
  BY DEF OneQueryAtATime
<1>2. SUFFICES /\ cycleInProgress' <=> Querying' # {}
               /\ \A j, k \in Querying' : j = k
  BY DEF OneQueryAtATime
<1>3. ASSUME UNCHANGED cycleInProgress, Querying' = Querying
      PROVE  /\ cycleInProgress' <=> Querying' # {}
             /\ \A j, k \in Querying' : j = k
  BY <1>1, <1>3
<1>4. phase \in [Callers -> Phases]
  BY DEF TypeOK
<1>5. ASSUME NEW k \in Callers, InitiateDiscoveryCycle(k), phase[k] = "idle"
      PROVE  /\ cycleInProgress' <=> Querying' # {}
             /\ \A j, k1 \in Querying' : j = k1
  <2>1. CASE cycleInProgress
    <3>1. Querying' = Querying
      BY <1>4, <1>5, <2>1 DEF InitiateDiscoveryCycle
    <3> QED BY <1>1, <1>5, <2>1, <3>1 DEF InitiateDiscoveryCycle
  <2>2. CASE ~cycleInProgress
    <3>1. phase' = [phase EXCEPT ![k] = "querying"] /\ cycleInProgress' = TRUE
      BY <1>5, <2>2 DEF InitiateDiscoveryCycle
    <3>2. Querying' = Querying \cup {k}
      BY <1>4, <3>1
    <3> QED BY <1>1, <2>2, <3>1, <3>2
  <2> QED BY <2>1, <2>2
<1>6. ASSUME NEW k \in Callers, phase[k] = "querying", cycleInProgress' = FALSE,
             NEW after \in Phases \ {"querying"}, phase' = [phase EXCEPT ![k] = after]
      PROVE  /\ cycleInProgress' <=> Querying' # {}
             /\ \A j, k1 \in Querying' : j = k1
  <2>1. Querying' = Querying \ {k}
    BY <1>4, <1>6
  <2> QED BY <1>1, <1>6, <2>1
<1>7. ASSUME NEW c \in Cycles, phase[c] # "querying", UNCHANGED cycleInProgress,
             NEW after \in Phases \ {"querying"}, phase' = [phase EXCEPT ![c] = after]
      PROVE  /\ cycleInProgress' <=> Querying' # {}
             /\ \A j, k1 \in Querying' : j = k1
  <2>1. Querying' = Querying
    BY <1>4, <1>7 DEF Callers
  <2> QED BY <1>3, <1>7, <2>1
<1>8. CASE UNCHANGED <<phase, cycleInProgress>>
  BY <1>1, <1>8
<1> HIDE DEF Querying
<1>9. CASE StartScheduler \/ StopScheduler \/ UNCHANGED vars
  BY <1>8, <1>9 DEF StartScheduler, StopScheduler, vars, queryVars, cycleVars
<1>10. CASE ScheduledCycle \/ \E c \in Cycles : RunDiscoveryAndDeployment(c)
  BY <1>5, <1>10 DEF ScheduledCycle, RunDiscoveryAndDeployment, Callers
<1>11. ASSUME NEW k \in Callers, QuerySettles(k)
       PROVE  /\ cycleInProgress' <=> Querying' # {}
              /\ \A j, k1 \in Querying' : j = k1
  <2> USE DEF Callers, Phases
  <2>1. CASE QueryAttemptFails(k)
    BY <1>8, <2>1 DEF QueryAttemptFails, cycleVars
  <2>2. CASE QueryFails(k)
    <3> DEFINE after == IF k = Scheduler THEN "idle" ELSE "failed"
    <3>1. /\ after \in Phases \ {"querying"} /\ cycleInProgress' = FALSE
          /\ phase[k] = "querying" /\ phase' = [phase EXCEPT ![k] = after]
      BY <2>2 DEF QueryFails, EndQuery
    <3> HIDE DEF after
    <3> QED BY <1>6, <3>1
  <2>3. CASE k = Scheduler /\ ScheduledAnswer
    BY <1>6, <2>3 DEF ScheduledAnswer, EndQuery
  <2>4. CASE k \in Cycles /\ NothingFound(k)
    BY <1>6, <2>4 DEF NothingFound, EndQuery
  <2>5. ASSUME k \in Cycles, NEW pods \in RankedTargets, TargetsFound(k, pods)
        PROVE  /\ cycleInProgress' <=> Querying' # {}
               /\ \A j, k1 \in Querying' : j = k1
    <3> DEFINE after == IF pods = << >> THEN "publishing" ELSE "creating"
    <3>1. /\ after \in Phases \ {"querying"} /\ cycleInProgress' = FALSE
          /\ phase[k] = "querying" /\ phase' = [phase EXCEPT ![k] = after]
      BY <2>5 DEF TargetsFound, EndQuery
    <3> HIDE DEF after
    <3> QED BY <1>6, <3>1
  <2> QED BY <1>11, <2>1, <2>2, <2>3, <2>4, <2>5 DEF QuerySettles
<1>12. ASSUME NEW c \in Cycles, Deploy(c)
       PROVE  /\ cycleInProgress' <=> Querying' # {}
              /\ \A j, k1 \in Querying' : j = k1
  <2> USE DEF Phases, queryVars
  <2>1. CASE CreateSucceeds(c)
    BY <1>7, <2>1 DEF CreateSucceeds
  <2>2. CASE CreateFails(c)
    BY <1>7, <2>2 DEF CreateFails
  <2>3. CASE DeleteSettles(c) \/ RegisterHoneytoken(c) \/ BroadcastRegistryChange(c)
    BY <1>8, <2>3 DEF DeleteSettles, RegisterHoneytoken, BroadcastRegistryChange
  <2>4. CASE PodDone(c)
    BY <1>7, <2>4 DEF PodDone
  <2>5. CASE FinishCycle(c)
    BY <1>7, <2>5 DEF FinishCycle
  <2> QED BY <1>12, <2>1, <2>2, <2>3, <2>4, <2>5 DEF Deploy
<1> QED BY <1>9, <1>10, <1>11, <1>12 DEF Next

---------------------------------------------------------------------------
\* A step that touches neither the locals nor the honeytokens of cycle d.
Spares(d) ==
    /\ phase'[d] = phase[d] /\ todo'[d] = todo[d]
    /\ work'[d] = work[d] /\ results'[d] = results[d]
    /\ \A t \in Honeytokens : t.cycle = d =>
          /\ t \in secrets' <=> t \in secrets
          /\ t \in deployed' <=> t \in deployed
          /\ t \in registry' <=> t \in registry
          /\ t \in reported' <=> t \in reported

LEMMA SparedCycle ==
  ASSUME TypeOK, TypeOK', NEW d \in Cycles, CycleInv(d), Spares(d)
  PROVE  CycleInv(d)'
<1>1. /\ secrets \cup deployed \cup registry \subseteq Honeytokens
      /\ secrets' \cup deployed' \cup registry' \subseteq Honeytokens
      /\ Range(work[d]) \subseteq Honeytokens /\ Range(results[d]) \subseteq Honeytokens
  <2>1. work[d] \in Seq(Honeytokens) /\ results[d] \in Seq(Honeytokens)
    BY DEF TypeOK
  <2>2. Range(work[d]) \subseteq Honeytokens /\ Range(results[d]) \subseteq Honeytokens
    <3> HIDE DEF Honeytokens
    <3> QED BY <2>1 DEF Range
  <2> QED BY <2>2 DEF TypeOK
<1> HIDE DEF Honeytokens
<1>2. WorkOfCurrentPod(d)'
  BY DEF Spares, CycleInv, WorkOfCurrentPod
<1>3. WorkIsUnregistered(d)'
  <2>1. \A t \in Range(work[d]) : t \in Honeytokens /\ t.cycle = d
    BY <1>1 DEF CycleInv, WorkOfCurrentPod
  <2> QED BY <2>1 DEF Spares, CycleInv, WorkIsUnregistered
<1>4. FreshPods(d)'
  <2>1. NoRepeats(todo[d])'
    BY DEF Spares, CycleInv, FreshPods
  <2>2. \A t \in (secrets \cup deployed \cup registry)' : t.cycle = d =>
            t \in secrets \cup deployed \cup registry
    BY <1>1 DEF Spares
  <2> QED BY <2>1, <2>2 DEF Spares, CycleInv, FreshPods
<1>5. ResultsAreUnreported(d)'
  <2>1. \A t \in Range(results[d]) : t \in Honeytokens /\ t.cycle = d
    BY <1>1 DEF CycleInv, ResultsAreUnreported
  <2> QED BY <2>1 DEF Spares, CycleInv, ResultsAreUnreported
<1> QED BY <1>2, <1>3, <1>4, <1>5 DEF CycleInv

\* A deployment step of one cycle spares the others.
LEMMA DeploySpares ==
  ASSUME TypeOK, NEW c \in Cycles, WorkOfCurrentPod(c),
         ResultsAreUnreported(c), Deploy(c), NEW d \in Cycles, d # c
  PROVE  Spares(d)
<1>1. /\ phase'[d] = phase[d] /\ todo'[d] = todo[d]
      /\ work'[d] = work[d] /\ results'[d] = results[d]
  BY DEF TypeOK, Callers, Deploy, CreateSucceeds, CreateFails, DeleteSettles,
         RegisterHoneytoken, PodDone, BroadcastRegistryChange, FinishCycle
<1> DEFINE Kept == \A t \in Honeytokens : t.cycle = d =>
                      /\ t \in secrets' <=> t \in secrets
                      /\ t \in deployed' <=> t \in deployed
                      /\ t \in registry' <=> t \in registry
                      /\ t \in reported' <=> t \in reported
<1>2. CASE CreateSucceeds(c) \/ CreateFails(c)
  <2>1. Candidate(c).cycle = c
    BY DEF Candidate
  <2>2. Kept
    BY <1>2, <2>1 DEF CreateSucceeds, CreateFails, agentVars
  <2> QED BY <1>1, <2>2 DEF Spares
<1>3. CASE DeleteSettles(c) \/ RegisterHoneytoken(c)
  <2>1. Head(work[c]).cycle = c
    BY <1>3, WorkElements DEF DeleteSettles, RegisterHoneytoken
  <2>2. Kept
    BY <1>3, <2>1 DEF DeleteSettles, RegisterHoneytoken, Doomed, clusterVars
  <2> QED BY <1>1, <2>2 DEF Spares
<1>4. CASE BroadcastRegistryChange(c)
  <2>1. results[c] \in Seq(Honeytokens) /\ results[c] # << >>
    BY <1>4 DEF TypeOK, BroadcastRegistryChange
  <2>2. Head(results[c]) \in Range(results[c])
    <3> HIDE DEF Honeytokens
    <3> QED BY <2>1, TailElements
  <2>3. Head(results[c]).cycle = c
    BY <2>2 DEF ResultsAreUnreported
  <2>4. Kept
    BY <1>4, <2>3 DEF BroadcastRegistryChange, clusterVars
  <2> QED BY <1>1, <2>4 DEF Spares
<1>5. CASE PodDone(c) \/ FinishCycle(c)
  <2>1. Kept
    BY <1>5 DEF PodDone, FinishCycle, agentVars, clusterVars
  <2> QED BY <1>1, <2>1 DEF Spares
<1> QED BY <1>2, <1>3, <1>4, <1>5 DEF Deploy

---------------------------------------------------------------------------
\* Each step of a cycle keeps that cycle's part of the invariant.

\* The steps before deployToTargets, when the cycle has no honeytokens yet.
LEMMA QueryKeepsCycle ==
  ASSUME TypeOK, NEW c \in Cycles, CycleInv(c), phase[c] \in {"idle", "querying"},
         NEW after \in Phases, phase' = [phase EXCEPT ![c] = after],
         UNCHANGED <<work, results, agentVars, clusterVars>>,
         NEW pods \in Seq(Pods), todo'[c] = pods, NoRepeats(pods),
         after \notin {"cleaning", "registering"},
         after = "creating" => pods # << >>
  PROVE  CycleInv(c)'
<1>1. phase'[c] = after
  BY DEF TypeOK, Callers
<1>2. work[c] = << >> /\ UNCHANGED work /\ UNCHANGED results
  BY DEF CycleInv, WorkOfCurrentPod
<1>3. UNCHANGED secrets /\ UNCHANGED deployed /\ UNCHANGED registry /\ UNCHANGED reported
  BY DEF agentVars, clusterVars
<1>4. \A t \in secrets \cup deployed \cup registry : t.cycle # c
  BY DEF CycleInv, FreshPods
<1>5. Range(work[c]) = {} /\ Len(work[c]) = 0 /\ NumSpecs > 0
  BY <1>2, DeploymentAssumption DEF Range
<1>6. WorkOfCurrentPod(c)'
  BY <1>1, <1>2, <1>5 DEF WorkOfCurrentPod, CycleInv
<1>7. WorkIsUnregistered(c)'
  BY <1>2, <1>5 DEF WorkIsUnregistered
<1>8. FreshPods(c)'
  BY <1>3, <1>4 DEF FreshPods
<1>9. ResultsAreUnreported(c)'
  BY <1>2, <1>3 DEF CycleInv, ResultsAreUnreported
<1> QED BY <1>6, <1>7, <1>8, <1>9 DEF CycleInv

LEMMA CreateKeepsCycle ==
  ASSUME TypeOK, NEW c \in Cycles, CycleInv(c), CreateSucceeds(c)
  PROVE  CycleInv(c)'
<1> DEFINE t0 == Candidate(c)
<1>1. phase[c] = "creating" /\ WorkOfCurrentPod(c)
  BY DEF CreateSucceeds, CycleInv
<1>2. /\ t0 \in Honeytokens /\ t0 \notin Range(work[c])
      /\ t0.cycle = c /\ t0.pod = Head(todo[c]) /\ t0.spec = Len(work[c]) + 1
  BY <1>1, CandidateIsHoneytoken
<1> HIDE DEF t0
<1>3. /\ secrets' = secrets \cup {t0} /\ deployed' = deployed \cup {t0}
      /\ UNCHANGED <<todo, results, registry, reported>>
      /\ work'[c] = Append(work[c], t0)
      /\ phase'[c] = IF LastSpec(c) THEN "registering" ELSE "creating"
  BY DEF t0, CreateSucceeds, TypeOK, Callers
<1>4. work[c] \in Seq(Honeytokens) /\ Len(work[c]) \in Nat
  BY DEF TypeOK
<1>5. /\ Range(Append(work[c], t0)) = Range(work[c]) \cup {t0}
      /\ NoRepeats(Append(work[c], t0)) /\ Append(work[c], t0) # << >>
      /\ Len(Append(work[c], t0)) = Len(work[c]) + 1
  <2> HIDE DEF Honeytokens
  <2>1. NoRepeats(work[c])
    BY <1>1 DEF WorkOfCurrentPod
  <2>2. Len(Append(work[c], t0)) = Len(work[c]) + 1
    BY <1>4
  <2> QED BY <1>2, <1>4, <2>1, <2>2, AppendElements
<1>6. todo[c] # << >> /\ NoRepeats(todo[c])
  BY <1>1 DEF WorkOfCurrentPod, CycleInv, FreshPods
<1>7. t0 \notin registry
  BY <1>1, <1>2 DEF CycleInv, FreshPods
<1>8. WorkOfCurrentPod(c)'
  <2>1. \A t \in Range(work[c]) : /\ t.cycle = c /\ t.pod = Head(todo[c])
                                  /\ t.spec <= Len(work[c])
    BY <1>1 DEF WorkOfCurrentPod
  <2>2. \A t \in Range(work[c]) \cup {t0} : t.cycle = c /\ t.pod = Head(todo[c])
    BY <1>2, <2>1
  <2>3. \A t \in Range(work[c]) \cup {t0} : t.spec <= Len(work[c]) + 1
    <3>1. Range(work[c]) \subseteq Honeytokens
      <4> HIDE DEF Honeytokens
      <4> QED BY <1>4 DEF Range
    <3>2. \A t \in Range(work[c]) : t.spec \in Int
      BY <3>1 DEF Honeytokens
    <3> QED BY <1>2, <1>4, <2>1, <3>2
  <2>4. phase'[c] = "creating" => Len(work[c]) + 1 < NumSpecs
    <3>1. Len(work[c]) < NumSpecs /\ NumSpecs \in Nat
      BY <1>1, DeploymentAssumption DEF WorkOfCurrentPod
    <3> QED BY <1>3, <1>4, <3>1 DEF LastSpec
  <2>5. phase'[c] \in {"creating", "registering"}
    BY <1>3
  <2> QED BY <1>3, <1>5, <1>6, <2>2, <2>3, <2>4, <2>5 DEF WorkOfCurrentPod
<1>9. WorkIsUnregistered(c)'
  BY <1>3, <1>5, <1>7 DEF CycleInv, WorkIsUnregistered
<1>10. FreshPods(c)'
  <2>1. t0.pod \notin Range(Tail(todo[c]))
    <3>1. todo[c] \in Seq(Pods)
      BY DEF TypeOK
    <3> QED BY <1>2, <1>6, <3>1, TailElements
  <2> QED BY <1>1, <1>2, <1>3, <1>5, <1>6, <2>1 DEF CycleInv, FreshPods
<1>11. ResultsAreUnreported(c)'
  BY <1>3 DEF CycleInv, ResultsAreUnreported
<1> QED BY <1>8, <1>9, <1>10, <1>11 DEF CycleInv

LEMMA FailureKeepsCycle ==
  ASSUME TypeOK, NEW c \in Cycles, CycleInv(c), CreateFails(c)
  PROVE  CycleInv(c)'
<1> DEFINE t0 == Candidate(c)
<1>1. phase[c] = "creating" /\ WorkOfCurrentPod(c)
  BY DEF CreateFails, CycleInv
<1>2. /\ t0.cycle = c /\ t0.pod = Head(todo[c])
  BY <1>1, CandidateIsHoneytoken
<1> HIDE DEF t0
<1>3. /\ secrets \subseteq secrets' /\ secrets' \subseteq secrets \cup {t0}
      /\ UNCHANGED <<todo, work, results, deployed, registry, reported>>
      /\ phase'[c] = "cleaning"
  BY DEF t0, CreateFails, TypeOK, Callers, agentVars
<1>4. WorkOfCurrentPod(c)'
  BY <1>1, <1>3 DEF WorkOfCurrentPod
<1>5. WorkIsUnregistered(c)'
  BY <1>3 DEF CycleInv, WorkIsUnregistered
<1>6. FreshPods(c)'
  <2>1. t0.pod \notin Range(Tail(todo[c]))
    <3>1. todo[c] \in Seq(Pods) /\ todo[c] # << >> /\ NoRepeats(todo[c])
      BY <1>1 DEF TypeOK, WorkOfCurrentPod, CycleInv, FreshPods
    <3> QED BY <1>2, <3>1, TailElements
  <2> QED BY <1>1, <1>2, <1>3, <2>1 DEF CycleInv, FreshPods
<1>7. ResultsAreUnreported(c)'
  BY <1>3 DEF CycleInv, ResultsAreUnreported
<1> QED BY <1>4, <1>5, <1>6, <1>7 DEF CycleInv

LEMMA CleanupKeepsCycle ==
  ASSUME TypeOK, NEW c \in Cycles, CycleInv(c), DeleteSettles(c)
  PROVE  CycleInv(c)'
<1> DEFINE t0 == Head(work[c])
           rest == Tail(work[c])
<1>1. phase[c] = "cleaning" /\ WorkOfCurrentPod(c) /\ work[c] # << >>
  BY DEF DeleteSettles, CycleInv
<1>2. /\ Range(work[c]) = {t0} \cup Range(rest)
      /\ NoRepeats(rest) /\ t0 \notin Range(rest)
  BY <1>1, WorkElements
<1>3. /\ secrets' \subseteq secrets /\ secrets \ {t0} \subseteq secrets'
      /\ deployed' = deployed \ {t0}
      /\ UNCHANGED <<phase, todo, results, registry, reported>> /\ work'[c] = rest
  BY DEF DeleteSettles, Doomed, TypeOK
<1> HIDE DEF t0, rest
<1>4. WorkOfCurrentPod(c)'
  BY <1>1, <1>2, <1>3 DEF WorkOfCurrentPod
<1>5. WorkIsUnregistered(c)'
  BY <1>2, <1>3 DEF CycleInv, WorkIsUnregistered
<1>6. FreshPods(c)'
  BY <1>1, <1>3 DEF CycleInv, FreshPods
<1>7. ResultsAreUnreported(c)'
  BY <1>3 DEF CycleInv, ResultsAreUnreported
<1> QED BY <1>4, <1>5, <1>6, <1>7 DEF CycleInv

LEMMA RegistrationKeepsCycle ==
  ASSUME TypeOK, reported \subseteq registry, NEW c \in Cycles, CycleInv(c),
         RegisterHoneytoken(c)
  PROVE  CycleInv(c)'
<1> DEFINE t0 == Head(work[c])
           rest == Tail(work[c])
<1>1. phase[c] = "registering" /\ WorkOfCurrentPod(c) /\ work[c] # << >>
  BY DEF RegisterHoneytoken, CycleInv
<1>2. /\ t0 \in Honeytokens /\ t0.cycle = c
      /\ Range(work[c]) = {t0} \cup Range(rest)
      /\ NoRepeats(rest) /\ t0 \notin Range(rest)
  BY <1>1, WorkElements
<1>3. /\ registry' = registry \cup {t0}
      /\ UNCHANGED <<phase, todo, deployed, secrets, reported>>
      /\ work'[c] = rest /\ results'[c] = Append(results[c], t0)
  BY DEF RegisterHoneytoken, clusterVars, TypeOK
<1> HIDE DEF t0, rest
<1>4. t0 \in deployed /\ t0 \notin registry /\ t0 \notin reported
  BY <1>2 DEF CycleInv, WorkIsUnregistered
<1>5. WorkOfCurrentPod(c)'
  BY <1>1, <1>2, <1>3 DEF WorkOfCurrentPod
<1>6. WorkIsUnregistered(c)'
  BY <1>2, <1>3 DEF CycleInv, WorkIsUnregistered
<1>7. FreshPods(c)'
  BY <1>1, <1>3, <1>4 DEF CycleInv, FreshPods
<1>8. ResultsAreUnreported(c)'
  <2>1. t0 \notin Range(results[c]) /\ NoRepeats(results[c])
    BY <1>4 DEF CycleInv, ResultsAreUnreported
  <2>2. results[c] \in Seq(Honeytokens)
    BY DEF TypeOK
  <2>3. /\ Range(Append(results[c], t0)) = Range(results[c]) \cup {t0}
        /\ NoRepeats(Append(results[c], t0))
    <3> HIDE DEF Honeytokens
    <3> QED BY <1>2, <2>1, <2>2, AppendElements
  <2> QED BY <1>2, <1>3, <1>4, <2>3 DEF CycleInv, ResultsAreUnreported
<1> QED BY <1>5, <1>6, <1>7, <1>8 DEF CycleInv

LEMMA PodDoneKeepsCycle ==
  ASSUME TypeOK, NEW c \in Cycles, CycleInv(c), PodDone(c)
  PROVE  CycleInv(c)'
<1> DEFINE rest == Tail(todo[c])
<1>1. /\ phase[c] \in {"cleaning", "registering"}
      /\ work[c] = << >> /\ todo[c] # << >> /\ NoRepeats(todo[c])
  BY DEF PodDone, CycleInv, WorkOfCurrentPod, FreshPods
<1>2. /\ todo[c] \in Seq(Pods) /\ Len(todo[c]) \in Nat
      /\ rest \in Seq(Pods) /\ NoRepeats(rest)
  <2>1. todo[c] \in Seq(Pods)
    BY DEF TypeOK
  <2> QED BY <1>1, <2>1, TailElements
<1>3. /\ UNCHANGED <<work, results, secrets, deployed, registry, reported>>
      /\ todo'[c] = rest
      /\ phase'[c] = IF Len(todo[c]) = 1 THEN "publishing" ELSE "creating"
  BY DEF PodDone, agentVars, clusterVars, TypeOK, Callers
<1>4. Len(todo[c]) # 1 => rest # << >>
  <2>1. Len(rest) = Len(todo[c]) - 1
    BY <1>1, <1>2, HeadTailProperties
  <2> HIDE DEF rest
  <2>2. rest = << >> => Len(rest) = 0
    OBVIOUS
  <2> QED BY <1>2, <2>1, <2>2
<1>5. Range(work[c]) = {} /\ Len(work[c]) = 0 /\ NumSpecs > 0
  BY <1>1, DeploymentAssumption DEF Range
<1>6. rest # << >> => Head(rest) \in Range(rest) /\ Range(Tail(rest)) \subseteq Range(rest)
  <2> HIDE DEF rest
  <2> QED BY <1>2, TailElements
<1> HIDE DEF rest
<1>7. WorkOfCurrentPod(c)'
  BY <1>1, <1>3, <1>4, <1>5 DEF CycleInv, WorkOfCurrentPod
<1>8. WorkIsUnregistered(c)'
  BY <1>3, <1>5 DEF WorkIsUnregistered
<1>9. FreshPods(c)'
  <2>1. \A t \in secrets \cup deployed \cup registry : t.cycle = c => t.pod \notin Range(rest)
    BY <1>1 DEF rest, CycleInv, FreshPods
  <2>2. phase'[c] \notin {"idle", "querying"} /\ (phase'[c] = "creating" => rest # << >>)
    BY <1>3, <1>4
  <2> QED BY <1>2, <1>3, <1>6, <2>1, <2>2 DEF FreshPods
<1>10. ResultsAreUnreported(c)'
  BY <1>3 DEF CycleInv, ResultsAreUnreported
<1> QED BY <1>7, <1>8, <1>9, <1>10 DEF CycleInv

LEMMA PublishingKeepsCycle ==
  ASSUME TypeOK, NEW c \in Cycles, CycleInv(c),
         BroadcastRegistryChange(c) \/ FinishCycle(c)
  PROVE  CycleInv(c)'
<1>1. phase[c] = "publishing" /\ phase'[c] \in {"publishing", "ended"}
  BY DEF BroadcastRegistryChange, FinishCycle, TypeOK, Callers
<1>2. UNCHANGED <<todo, work, secrets, deployed, registry>>
  BY DEF BroadcastRegistryChange, FinishCycle, clusterVars
<1>3. WorkOfCurrentPod(c)'
  BY <1>1, <1>2 DEF CycleInv, WorkOfCurrentPod
<1>4. WorkIsUnregistered(c)'
  BY <1>2 DEF CycleInv, WorkIsUnregistered
<1>5. FreshPods(c)'
  BY <1>1, <1>2 DEF CycleInv, FreshPods
<1>6. ResultsAreUnreported(c)'
  <2>1. CASE FinishCycle(c)
    BY <2>1 DEF FinishCycle, CycleInv, ResultsAreUnreported
  <2>2. CASE BroadcastRegistryChange(c)
    <3> DEFINE t0 == Head(results[c])
               rest == Tail(results[c])
    <3>1. results[c] \in Seq(Honeytokens) /\ results[c] # << >>
      BY <2>2 DEF TypeOK, BroadcastRegistryChange
    <3>2. /\ Range(results[c]) = {t0} \cup Range(rest)
          /\ NoRepeats(rest) /\ t0 \notin Range(rest)
      <4>1. NoRepeats(results[c])
        BY DEF CycleInv, ResultsAreUnreported
      <4> HIDE DEF Honeytokens
      <4> QED BY <3>1, <4>1, TailElements
    <3>3. reported' = reported \cup {t0} /\ results'[c] = rest
      BY <2>2 DEF BroadcastRegistryChange, TypeOK
    <3> HIDE DEF t0, rest
    <3> QED BY <1>2, <3>2, <3>3 DEF CycleInv, ResultsAreUnreported
  <2> QED BY <2>1, <2>2
<1> QED BY <1>3, <1>4, <1>5, <1>6 DEF CycleInv

LEMMA DeployKeepsCycle ==
  ASSUME TypeOK, reported \subseteq registry, NEW c \in Cycles, CycleInv(c), Deploy(c)
  PROVE  CycleInv(c)'
BY CreateKeepsCycle, FailureKeepsCycle, CleanupKeepsCycle, RegistrationKeepsCycle,
   PodDoneKeepsCycle, PublishingKeepsCycle DEF Deploy

\* Every step keeps the invariant of every cycle, the acting one or another.
LEMMA CyclesStep ==
  ASSUME IInv, [Next]_vars, TypeOK', NEW d \in Cycles
  PROVE  CycleInv(d)'
<1>1. /\ TypeOK /\ reported \subseteq registry /\ CycleInv(d)
      /\ \A c \in Cycles : CycleInv(c) /\ WorkOfCurrentPod(c) /\ ResultsAreUnreported(c)
  BY DEF IInv, CycleInv
<1>2. d \in Callers /\ d # Scheduler
  BY DeploymentAssumption DEF Callers
<1>3. CASE Spares(d)
  BY <1>1, <1>3, SparedCycle
<1>4. CASE UNCHANGED <<cycleVars, agentVars, clusterVars>>
  BY <1>3, <1>4 DEF Spares, cycleVars, agentVars, clusterVars
<1>5. ASSUME NEW k \in Callers, k # d, phase'[d] = phase[d], todo'[d] = todo[d],
             UNCHANGED <<work, results, agentVars, clusterVars>>
      PROVE  CycleInv(d)'
  BY <1>3, <1>5 DEF Spares, agentVars, clusterVars
<1>6. todo[d] \in Seq(Pods) /\ NoRepeats(todo[d])
  BY <1>1 DEF TypeOK, CycleInv, FreshPods
<1>7. phase \in [Callers -> Phases] /\ todo \in [Cycles -> Seq(Pods)]
  BY <1>1 DEF TypeOK
<1>8. ASSUME NEW after \in Phases, after \notin {"creating", "cleaning", "registering"},
             phase[d] \in {"idle", "querying"}, phase' = [phase EXCEPT ![d] = after],
             UNCHANGED <<todo, work, results, agentVars, clusterVars>>
      PROVE  CycleInv(d)'
  BY <1>1, <1>6, <1>8, QueryKeepsCycle
<1>9. CASE StartScheduler \/ StopScheduler \/ UNCHANGED vars
  BY <1>4, <1>9 DEF StartScheduler, StopScheduler, vars
<1>10. CASE ScheduledCycle
  <2>1. phase'[d] = phase[d]
    BY <1>2, <1>7, <1>10 DEF ScheduledCycle, InitiateDiscoveryCycle
  <2> QED BY <1>2, <1>5, <1>10, <2>1 DEF ScheduledCycle, Callers
<1>11. ASSUME NEW c \in Cycles, RunDiscoveryAndDeployment(c)
       PROVE  CycleInv(d)'
  <2> DEFINE after == IF ~cycleInProgress THEN "querying"
                      ELSE IF c = Scheduler THEN "idle" ELSE "skipped"
  <2>1. /\ phase[c] = "idle" /\ phase' = [phase EXCEPT ![c] = after]
        /\ UNCHANGED <<todo, work, results, agentVars, clusterVars>>
    BY <1>11 DEF RunDiscoveryAndDeployment, InitiateDiscoveryCycle
  <2>2. after \in Phases /\ after \notin {"creating", "cleaning", "registering"}
    BY DEF Phases
  <2> HIDE DEF after
  <2>3. CASE c = d
    BY <1>8, <2>1, <2>2, <2>3
  <2>4. CASE c # d
    BY <1>5, <1>7, <2>1, <2>4 DEF Callers
  <2> QED BY <2>3, <2>4
<1>12. ASSUME NEW k \in Callers, QuerySettles(k)
       PROVE  CycleInv(d)'
  <2>1. CASE QueryAttemptFails(k)
    BY <1>4, <2>1 DEF QueryAttemptFails
  <2>2. CASE QueryFails(k)
    <3> DEFINE after == IF k = Scheduler THEN "idle" ELSE "failed"
    <3>1. /\ phase[k] = "querying" /\ phase' = [phase EXCEPT ![k] = after]
          /\ UNCHANGED <<todo, work, results, agentVars, clusterVars>>
      BY <2>2 DEF QueryFails
    <3>2. after \in Phases /\ after \notin {"creating", "cleaning", "registering"}
      BY DEF Phases
    <3> HIDE DEF after
    <3>3. CASE k = d
      BY <1>8, <3>1, <3>2, <3>3
    <3>4. CASE k # d
      BY <1>2, <1>5, <1>7, <3>1, <3>4
    <3> QED BY <3>3, <3>4
  <2>3. CASE k = Scheduler /\ ScheduledAnswer
    BY <1>2, <1>5, <1>7, <2>3 DEF ScheduledAnswer
  <2>4. CASE k \in Cycles /\ NothingFound(k)
    <3>1. CASE k = d
      BY <1>8, <2>4, <3>1 DEF NothingFound, Phases
    <3>2. CASE k # d
      BY <1>2, <1>5, <1>7, <2>4, <3>2 DEF NothingFound
    <3> QED BY <3>1, <3>2
  <2>5. ASSUME k \in Cycles, NEW pods \in RankedTargets, TargetsFound(k, pods)
        PROVE  CycleInv(d)'
    <3> DEFINE after == IF pods = << >> THEN "publishing" ELSE "creating"
    <3>1. /\ phase[k] = "querying" /\ phase' = [phase EXCEPT ![k] = after]
          /\ todo' = [todo EXCEPT ![k] = pods]
          /\ UNCHANGED <<work, results, agentVars, clusterVars>>
      BY <2>5 DEF TargetsFound
    <3>2. /\ after \in Phases /\ after \notin {"cleaning", "registering"}
          /\ after = "creating" => pods # << >>
      BY DEF Phases
    <3>3. pods \in Seq(Pods) /\ NoRepeats(pods)
      BY TargetsArePods
    <3> HIDE DEF after
    <3>4. CASE k = d
      <4>1. todo'[d] = pods
        BY <1>7, <3>1, <3>4
      <4> QED BY <1>1, <3>1, <3>2, <3>3, <3>4, <4>1, QueryKeepsCycle
    <3>5. CASE k # d
      BY <1>2, <1>5, <1>7, <2>5, <3>1, <3>5
    <3> QED BY <3>4, <3>5
  <2> QED BY <1>12, <2>1, <2>2, <2>3, <2>4, <2>5 DEF QuerySettles
<1>13. ASSUME NEW c \in Cycles, Deploy(c)
       PROVE  CycleInv(d)'
  <2>1. CASE c = d
    BY <1>1, <1>13, <2>1, DeployKeepsCycle
  <2>2. CASE c # d
    BY <1>1, <1>3, <1>13, <2>2, DeploySpares
  <2> QED BY <2>1, <2>2
<1> QED BY <1>9, <1>10, <1>11, <1>12, <1>13 DEF Next

---------------------------------------------------------------------------
\* The parts of the invariant that relate the cycles' honeytokens to the maps.
MapsInv ==
    RegisteredIsDeployed /\ reported \subseteq registry /\ LeftoversAreUncertain

LEMMA MapsStep ==
  ASSUME IInv, [Next]_vars, TypeOK'
  PROVE  MapsInv'
<1>1. MapsInv /\ TypeOK
  BY DEF IInv, MapsInv
<1>2. /\ secrets \subseteq Honeytokens
      /\ \A t \in Honeytokens : t.cycle \in Cycles
  BY <1>1 DEF TypeOK, Honeytokens
<1>3. CASE UNCHANGED <<work, agentVars, clusterVars>>
  BY <1>1, <1>3 DEF MapsInv, agentVars, clusterVars, RegisteredIsDeployed,
                    LeftoversAreUncertain
<1>4. ASSUME NEW c \in Cycles, Deploy(c)
      PROVE  MapsInv'
  <2>1. CycleInv(c) /\ WorkOfCurrentPod(c)
    BY DEF IInv, CycleInv
  <2>2. work \in [Cycles -> Seq(Honeytokens)]
    BY <1>1 DEF TypeOK
  <2>3. CASE CreateSucceeds(c)
    <3> DEFINE t0 == Candidate(c)
    <3>1. /\ secrets' = secrets \cup {t0} /\ deployed' = deployed \cup {t0}
          /\ UNCHANGED <<registry, watched, reported, uncertain>>
          /\ work' = [work EXCEPT ![c] = Append(@, t0)]
      BY <2>3 DEF CreateSucceeds
    <3>2. t0 \in Honeytokens /\ t0.cycle = c
      BY <1>1, <2>1, <2>3, CandidateIsHoneytoken DEF CreateSucceeds
    <3> HIDE DEF t0
    <3>3. Range(Append(work[c], t0)) = Range(work[c]) \cup {t0}
      <4>1. work[c] \in Seq(Honeytokens)
        BY <2>2
      <4> HIDE DEF Honeytokens
      <4> QED BY <3>2, <4>1, AppendElements
    <3>4. /\ Range(work'[c]) = Range(work[c]) \cup {t0}
          /\ \A d \in Cycles : d # c => work'[d] = work[d]
      BY <2>2, <3>1, <3>3
    <3>5. LeftoversAreUncertain'
      BY <1>1, <1>2, <3>1, <3>2, <3>4 DEF MapsInv, LeftoversAreUncertain
    <3> QED BY <1>1, <3>1, <3>5 DEF MapsInv, RegisteredIsDeployed
  <2>4. CASE CreateFails(c)
    BY <1>1, <2>4 DEF CreateFails, agentVars, MapsInv, RegisteredIsDeployed,
                      LeftoversAreUncertain
  <2>5. CASE DeleteSettles(c) \/ RegisterHoneytoken(c)
    <3> DEFINE t0 == Head(work[c])
    <3>1. work' = [work EXCEPT ![c] = Tail(@)]
      BY <2>5 DEF DeleteSettles, RegisterHoneytoken
    <3>2. /\ t0 \in Honeytokens /\ t0.cycle = c
          /\ Range(work[c]) = {t0} \cup Range(Tail(work[c]))
      BY <1>1, <2>1, <2>5, WorkElements DEF DeleteSettles, RegisterHoneytoken
    <3>3. t0 \in secrets /\ t0 \in deployed /\ t0 \notin registry
      BY <2>1, <3>2 DEF CycleInv, WorkIsUnregistered
    <3>4. /\ Range(work[c]) = Range(work'[c]) \cup {t0}
          /\ \A d \in Cycles : d # c => work'[d] = work[d]
      BY <2>2, <3>1, <3>2
    <3>5. CASE DeleteSettles(c)
      <4>1. /\ \/ secrets' = secrets \ {t0} /\ UNCHANGED uncertain
               \/ UNCHANGED secrets /\ uncertain' = uncertain \cup {t0}
            /\ deployed' = deployed \ {t0}
            /\ UNCHANGED <<registry, watched, reported>>
        BY <3>5 DEF DeleteSettles, Doomed
      <4> HIDE DEF t0
      <4>2. LeftoversAreUncertain'
        BY <1>1, <1>2, <3>2, <3>4, <4>1 DEF MapsInv, LeftoversAreUncertain
      <4> QED BY <1>1, <3>3, <4>1, <4>2 DEF MapsInv, RegisteredIsDeployed
    <3>6. CASE RegisterHoneytoken(c)
      <4>1. /\ registry' = registry \cup {t0} /\ watched' = watched \cup {t0}
            /\ UNCHANGED <<deployed, reported, secrets, uncertain>>
        BY <3>6 DEF RegisterHoneytoken, clusterVars
      <4> HIDE DEF t0
      <4>2. LeftoversAreUncertain'
        BY <1>1, <1>2, <3>2, <3>4, <4>1 DEF MapsInv, LeftoversAreUncertain
      <4> QED BY <1>1, <3>3, <4>1, <4>2 DEF MapsInv, RegisteredIsDeployed
    <3> QED BY <2>5, <3>5, <3>6
  <2>6. CASE BroadcastRegistryChange(c)
    <3>1. results[c] \in Seq(Honeytokens) /\ results[c] # << >>
      BY <1>1, <2>6 DEF TypeOK, BroadcastRegistryChange
    <3>2. Head(results[c]) \in Range(results[c])
      <4> HIDE DEF Honeytokens
      <4> QED BY <3>1, TailElements
    <3>3. Head(results[c]) \in registry
      BY <2>1, <3>2 DEF CycleInv, ResultsAreUnreported
    <3> QED BY <1>1, <2>6, <3>3 DEF BroadcastRegistryChange, clusterVars, MapsInv,
                                    RegisteredIsDeployed, LeftoversAreUncertain
  <2>7. CASE PodDone(c) \/ FinishCycle(c)
    BY <1>1, <2>7 DEF PodDone, FinishCycle, agentVars, clusterVars, MapsInv,
                      RegisteredIsDeployed, LeftoversAreUncertain
  <2> QED BY <1>4, <2>3, <2>4, <2>5, <2>6, <2>7 DEF Deploy
<1>5. CASE \E c \in Cycles : Deploy(c)
  BY <1>4, <1>5
<1>6. CASE StartScheduler \/ StopScheduler \/ UNCHANGED vars
  BY <1>3, <1>6 DEF StartScheduler, StopScheduler, vars, cycleVars
<1>7. CASE ScheduledCycle \/ \E c \in Cycles : RunDiscoveryAndDeployment(c)
  BY <1>3, <1>7 DEF ScheduledCycle, RunDiscoveryAndDeployment
<1>8. CASE \E k \in Callers : QuerySettles(k)
  BY <1>3, <1>8 DEF QuerySettles, QueryAttemptFails, QueryFails, ScheduledAnswer,
                    NothingFound, TargetsFound, cycleVars
<1> QED BY <1>5, <1>6, <1>7, <1>8 DEF Next

---------------------------------------------------------------------------
LEMMA InitInv == Init => IInv
<1> SUFFICES ASSUME Init PROVE IInv
  OBVIOUS
<1> USE DEF Init
<1>1. TypeOK
  <2>1. << >> \in Seq(Pods) /\ << >> \in Seq(Honeytokens)
    <3> HIDE DEF Honeytokens
    <3> QED OBVIOUS
  <2>2. 0 \in 0 .. MaxRetries /\ 0 \in Nat /\ "idle" \in Phases
    BY DeploymentAssumption DEF Phases
  <2>3. /\ todo \in [Cycles -> Seq(Pods)]
        /\ work \in [Cycles -> Seq(Honeytokens)]
        /\ results \in [Cycles -> Seq(Honeytokens)]
    BY <2>1
  <2> QED BY <2>2, <2>3 DEF TypeOK
<1>2. OneQueryAtATime
  BY DEF OneQueryAtATime
<1>3. ASSUME NEW c \in Cycles PROVE CycleInv(c)
  <2>1. /\ todo[c] = << >> /\ work[c] = << >> /\ results[c] = << >>
        /\ phase[c] = "idle"
    BY DEF Callers
  <2>2. NoRepeats(<< >>) /\ Range(<< >>) = {}
    BY DEF NoRepeats, Range
  <2> QED BY <2>1, <2>2 DEF CycleInv, WorkOfCurrentPod, WorkIsUnregistered, FreshPods,
                            ResultsAreUnreported
<1> QED BY <1>1, <1>2, <1>3 DEF IInv, RegisteredIsDeployed, LeftoversAreUncertain

LEMMA NextInv == IInv /\ [Next]_vars => IInv'
<1> SUFFICES ASSUME IInv, [Next]_vars PROVE IInv'
  OBVIOUS
<1>1. TypeOK'
  BY TypeStep DEF IInv, CycleInv
<1>2. OneQueryAtATime'
  BY GuardStep DEF IInv
<1>3. MapsInv'
  BY <1>1, MapsStep
<1>4. \A c \in Cycles : CycleInv(c)'
  BY <1>1, CyclesStep
<1> QED BY <1>1, <1>2, <1>3, <1>4 DEF IInv, MapsInv

\* The inductive invariant of discovery and deployment.
THEOREM InductiveInvariant == Spec => []IInv
BY InitInv, NextInv, PTL DEF Spec

\* The agent's maps and the locals of the cycles keep their types.
THEOREM TypeCorrect == Spec => []TypeOK
<1>1. IInv => TypeOK
  BY DEF IInv
<1> QED BY <1>1, InductiveInvariant, PTL

\* However many callers there are, at most one discovery query runs, and
\* cycleInProgress says whether one does (agent/orchestrator.ts).
THEOREM OneQuery == Spec => []OneQueryAtATime
<1>1. IInv => OneQueryAtATime
  BY DEF IInv
<1> QED BY <1>1, InductiveInvariant, PTL

\* However cycles overlap and whichever calls fail, a registered honeytoken has
\* its Secret, its watched path and its entry in the deployer.
THEOREM RegisteredStaysDeployed == Spec => []RegisteredIsDeployed
<1>1. IInv => RegisteredIsDeployed
  BY DEF IInv
<1> QED BY <1>1, InductiveInvariant, PTL

\* A Secret no cycle is working on and nobody registered had a create or a
\* delete that was reported as failed (k8s-deployer.ts).
THEOREM OnlyFailedCallsLeak == Spec => []OnlyLostAnswersLeak
<1>1. ASSUME IInv PROVE OnlyLostAnswersLeak
  <2>1. SUFFICES ASSUME \A c \in Cycles :
                          phase[c] \notin {"creating", "cleaning", "registering"},
                        NEW t \in secrets, t \notin registry
                 PROVE  t \in uncertain
    BY DEF OnlyLostAnswersLeak
  <2>2. t.cycle \in Cycles
    BY <1>1 DEF IInv, TypeOK, Honeytokens
  <2>3. work[t.cycle] = << >>
    BY <1>1, <2>1, <2>2 DEF IInv, CycleInv, WorkOfCurrentPod
  <2>4. Range(work[t.cycle]) = {}
    BY <2>3 DEF Range
  <2> QED BY <1>1, <2>1, <2>4 DEF IInv, LeftoversAreUncertain
<1> QED BY <1>1, InductiveInvariant, PTL

---------------------------------------------------------------------------
\* Refinement.  In each step at most one honeytoken changes its stage.
LEMMA StageOf ==
  ASSUME NEW t \in Honeytokens
  PROVE  Stage[t] = IF t \in reported THEN "reported"
                    ELSE IF t \in registry THEN "armed"
                    ELSE IF t \in deployed THEN "placed"
                    ELSE "absent"
BY DEF Stage

LEMMA StageStep ==
  ASSUME NEW t0 \in Honeytokens,
         \A t \in Honeytokens \ {t0} : /\ t \in deployed' <=> t \in deployed
                                       /\ t \in registry' <=> t \in registry
                                       /\ t \in reported' <=> t \in reported
  PROVE  Stage' = [Stage EXCEPT ![t0] = Stage'[t0]]
<1> HIDE DEF Honeytokens
<1> QED BY DEF Stage

LEMMA LifecycleStep ==
  ASSUME IInv, [Next]_vars
  PROVE  [Lifecycle!Next]_<<Stage, secrets>>
<1>1. TypeOK /\ reported \subseteq registry /\ RegisteredIsDeployed
  BY DEF IInv
<1>2. CASE UNCHANGED <<agentVars, clusterVars>>
  BY <1>2 DEF agentVars, clusterVars, Stage
<1>3. ASSUME NEW c \in Cycles, Deploy(c)
      PROVE  [Lifecycle!Next]_<<Stage, secrets>>
  <2>1. CycleInv(c) /\ WorkOfCurrentPod(c)
    BY DEF IInv, CycleInv
  <2>2. CASE CreateSucceeds(c) \/ CreateFails(c)
    <3> DEFINE t0 == Candidate(c)
    <3>1. phase[c] = "creating"
      BY <2>2 DEF CreateSucceeds, CreateFails
    <3>2. /\ t0 \in Honeytokens /\ t0.cycle = c /\ t0.pod = Head(todo[c])
          /\ t0 \notin Range(work[c])
      BY <1>1, <2>1, <3>1, CandidateIsHoneytoken
    <3>3. t0 \notin secrets \cup deployed \cup registry \cup reported
      BY <1>1, <2>1, <3>1, <3>2 DEF CycleInv, FreshPods
    <3>4. Stage[t0] = "absent"
      BY <3>2, <3>3, StageOf
    <3>5. CASE CreateSucceeds(c)
      <4>1. /\ secrets' = secrets \cup {t0} /\ deployed' = deployed \cup {t0}
            /\ UNCHANGED <<registry, reported>>
        BY <3>5 DEF CreateSucceeds
      <4> HIDE DEF t0
      <4>2. Stage'[t0] = "placed"
        BY <3>2, <3>3, <4>1 DEF Stage
      <4>3. Stage' = [Stage EXCEPT ![t0] = "placed"]
        BY <3>2, <4>1, <4>2, StageStep
      <4>4. Lifecycle!Place(t0)
        BY <3>3, <3>4, <4>1, <4>3 DEF Lifecycle!Place
      <4> QED BY <3>2, <4>4 DEF Lifecycle!Next
    <3>6. CASE CreateFails(c)
      <4>1. /\ secrets' \in {secrets, secrets \cup {t0}}
            /\ UNCHANGED <<deployed, registry, reported>>
        BY <3>6 DEF CreateFails, agentVars
      <4> HIDE DEF t0
      <4>2. UNCHANGED Stage
        BY <4>1 DEF Stage
      <4>3. UNCHANGED secrets \/ Lifecycle!Leak(t0)
        BY <3>4, <4>1, <4>2 DEF Lifecycle!Leak
      <4> QED BY <3>2, <4>2, <4>3 DEF Lifecycle!Next
    <3> QED BY <2>2, <3>5, <3>6
  <2>3. CASE DeleteSettles(c) \/ RegisterHoneytoken(c)
    <3> DEFINE t0 == Head(work[c])
    <3>1. t0 \in Honeytokens /\ t0 \in Range(work[c])
      BY <1>1, <2>1, <2>3, WorkElements DEF DeleteSettles, RegisterHoneytoken
    <3>2. /\ t0 \in secrets /\ t0 \in deployed
          /\ t0 \notin registry /\ t0 \notin reported
      BY <1>1, <2>1, <3>1 DEF CycleInv, WorkIsUnregistered
    <3>3. Stage[t0] = "placed"
      BY <3>1, <3>2, StageOf
    <3>4. CASE DeleteSettles(c)
      <4>1. /\ secrets' \in {secrets, secrets \ {t0}} /\ deployed' = deployed \ {t0}
            /\ UNCHANGED <<registry, reported>>
        BY <3>4 DEF DeleteSettles, Doomed
      <4> HIDE DEF t0
      <4>2. Stage'[t0] = "absent"
        BY <3>1, <3>2, <4>1 DEF Stage
      <4>3. Stage' = [Stage EXCEPT ![t0] = "absent"]
        BY <3>1, <4>1, <4>2, StageStep
      <4>4. Lifecycle!GiveUp(t0)
        BY <3>3, <4>1, <4>3 DEF Lifecycle!GiveUp
      <4> QED BY <3>1, <4>4 DEF Lifecycle!Next
    <3>5. CASE RegisterHoneytoken(c)
      <4>1. registry' = registry \cup {t0} /\ UNCHANGED <<secrets, deployed, reported>>
        BY <3>5 DEF RegisterHoneytoken, clusterVars
      <4> HIDE DEF t0
      <4>2. Stage'[t0] = "armed"
        BY <3>1, <3>2, <4>1 DEF Stage
      <4>3. Stage' = [Stage EXCEPT ![t0] = "armed"]
        BY <3>1, <4>1, <4>2, StageStep
      <4>4. Lifecycle!Arm(t0)
        BY <3>2, <3>3, <4>1, <4>3 DEF Lifecycle!Arm
      <4> QED BY <3>1, <4>4 DEF Lifecycle!Next
    <3> QED BY <2>3, <3>4, <3>5
  <2>4. CASE BroadcastRegistryChange(c)
    <3> DEFINE t0 == Head(results[c])
    <3>1. results[c] \in Seq(Honeytokens) /\ results[c] # << >>
      BY <1>1, <2>4 DEF TypeOK, BroadcastRegistryChange
    <3>2. t0 \in Range(results[c]) /\ t0 \in Honeytokens
      <4> HIDE DEF Honeytokens
      <4> QED BY <3>1, TailElements
    <3>3. t0 \in registry /\ t0 \notin reported
      BY <2>1, <3>2 DEF CycleInv, ResultsAreUnreported
    <3>4. Stage[t0] = "armed"
      BY <3>2, <3>3, StageOf
    <3>5. reported' = reported \cup {t0} /\ UNCHANGED <<secrets, deployed, registry>>
      BY <2>4 DEF BroadcastRegistryChange, clusterVars
    <3> HIDE DEF t0
    <3>6. Stage'[t0] = "reported"
      BY <3>2, <3>5 DEF Stage
    <3>7. Stage' = [Stage EXCEPT ![t0] = "reported"]
      BY <3>2, <3>5, <3>6, StageStep
    <3>8. Lifecycle!Report(t0)
      BY <3>4, <3>5, <3>7 DEF Lifecycle!Report
    <3> QED BY <3>2, <3>8 DEF Lifecycle!Next
  <2>5. CASE PodDone(c)
    BY <1>2, <2>5 DEF PodDone
  <2>6. CASE FinishCycle(c)
    BY <2>6 DEF FinishCycle, clusterVars, Stage
  <2> QED BY <1>3, <2>2, <2>3, <2>4, <2>5, <2>6 DEF Deploy
<1>4. CASE StartScheduler \/ StopScheduler \/ UNCHANGED vars
  BY <1>2, <1>4 DEF StartScheduler, StopScheduler, vars
<1>5. CASE ScheduledCycle \/ \E c \in Cycles : RunDiscoveryAndDeployment(c)
  BY <1>2, <1>5 DEF ScheduledCycle, RunDiscoveryAndDeployment
<1>6. CASE \E k \in Callers : QuerySettles(k)
  BY <1>2, <1>6 DEF QuerySettles, QueryAttemptFails, QueryFails, ScheduledAnswer,
                    NothingFound, TargetsFound
<1> QED BY <1>3, <1>4, <1>5, <1>6 DEF Next

\* Discovery and deployment keep the promise of HoneytokenLifecycle: a honeytoken
\* is placed, armed and reported in this order and never withdrawn once armed.
THEOREM Implementation == Spec => ImplementsHoneytokenLifecycle
<1>1. Init => Lifecycle!Init
  BY DEF Init, Lifecycle!Init, Stage
<1>2. IInv /\ [Next]_vars => [Lifecycle!Next]_<<Stage, secrets>>
  BY LifecycleStep
<1> QED BY <1>1, <1>2, InductiveInvariant, PTL
        DEF Spec, ImplementsHoneytokenLifecycle, Lifecycle!Spec, Lifecycle!lifecycleVars

---------------------------------------------------------------------------
(* All honeytokens of a pod or none.                                       *)

\* The honeytokens of a pod, one by one.
LEMMA BatchGrows ==
  ASSUME NEW c, NEW p, NEW n \in Nat
  PROVE  /\ Batch(c, p, 0) = {}
         /\ Batch(c, p, n + 1) = Batch(c, p, n) \cup {[cycle |-> c, pod |-> p, spec |-> n + 1]}
<1>1. 1 .. 0 = {} /\ 1 .. n + 1 = 1 .. n \cup {n + 1}
  OBVIOUS
<1> QED BY <1>1 DEF Batch

LEMMA BatchSize ==
  ASSUME NEW c, NEW p
  PROVE  Cardinality(Batch(c, p, NumSpecs)) = NumSpecs /\ Batch(c, p, NumSpecs) # {}
<1> DEFINE B == Batch(c, p, NumSpecs)
           f == [i \in 1 .. NumSpecs |-> [cycle |-> c, pod |-> p, spec |-> i]]
<1>1. NumSpecs \in Nat /\ NumSpecs >= 1
  BY DeploymentAssumption
<1>2. f \in Bijection(1 .. NumSpecs, B)
  <2>1. f \in [1 .. NumSpecs -> B]
    BY DEF Batch
  <2>2. \A i, j \in 1 .. NumSpecs : f[i] = f[j] => i = j
    <3>1. \A i \in 1 .. NumSpecs : f[i].spec = i
      OBVIOUS
    <3> QED BY <3>1
  <2>3. \A t \in B : \E i \in 1 .. NumSpecs : f[i] = t
    BY DEF Batch
  <2> HIDE DEF f, B
  <2> QED BY <2>1, <2>2, <2>3 DEF Bijection, Injection, IsInjective, Surjection
<1>3. ExistsBijection(1 .. NumSpecs, B)
  BY <1>2 DEF ExistsBijection
<1>4. Cardinality(B) = NumSpecs
  BY <1>1, <1>3, FS_CountingElements
<1>5. [cycle |-> c, pod |-> p, spec |-> 1] \in Batch(c, p, NumSpecs)
  BY <1>1 DEF Batch
<1> QED BY <1>4, <1>5

LEMMA ServedAreFinite ==
  ASSUME NEW c \in Cycles
  PROVE  IsFiniteSet(ServedPods(c))
<1>1. ServedPods(c) \subseteq Pods /\ IsFiniteSet(Pods)
  BY DeploymentAssumption DEF ServedPods
<1> QED BY <1>1, FS_Subset

\* What a cycle's pods have depends on its own entries in the registry only.
LEMMA SameRegistered ==
  ASSUME registry \subseteq Honeytokens, registry' \subseteq Honeytokens, NEW d,
         \A t \in Honeytokens : t.cycle = d => (t \in registry' <=> t \in registry)
  PROVE  \A p : RegisteredOf(d, p)' = RegisteredOf(d, p)
<1> HIDE DEF Honeytokens
<1> QED BY DEF RegisteredOf

LEMMA SameServed ==
  ASSUME NEW d \in Cycles, todo'[d] = todo[d],
         \A p \in Pods : p \notin Range(todo[d]) => RegisteredOf(d, p)' = RegisteredOf(d, p)
  PROVE  ServedPods(d)' = ServedPods(d)
BY DEF ServedPods

\* A step that also spares what is counted and audited for cycle d.
LEMMA SparedPods ==
  ASSUME TypeOK, TypeOK', NEW d \in Cycles, PodsAreWhole(d), Spares(d), CycleInv(d),
         successful'[d] = successful[d], audited \subseteq audited'
  PROVE  PodsAreWhole(d)'
<1>1. \A p : RegisteredOf(d, p)' = RegisteredOf(d, p)
  BY SameRegistered DEF TypeOK, Spares
<1>2. ServedPods(d)' = ServedPods(d)
  BY <1>1, SameServed DEF Spares
<1>3. \A t \in registry' : t.cycle = d => t \in reported' \cup Range(results'[d])
  <2>1. ASSUME NEW t \in registry', t.cycle = d
        PROVE  t \in reported' \cup Range(results'[d])
    <3>1. t \in Honeytokens
      BY DEF TypeOK
    <3>2. t \in registry /\ (t \in reported => t \in reported')
      BY <2>1, <3>1 DEF Spares
    <3>3. t \in reported \cup Range(results[d])
      BY <2>1, <3>2 DEF PodsAreWhole
    <3> QED BY <3>2, <3>3 DEF Spares
  <2> QED BY <2>1
<1>4. CountedPods(d)' = CountedPods(d)
  BY <1>2 DEF CountedPods, Spares
<1> QED BY <1>1, <1>3, <1>4 DEF PodsAreWhole, Spares

\* The steps before deployToTargets.
LEMMA QueryKeepsPods ==
  ASSUME TypeOK, NEW c \in Cycles, CycleInv(c), PodsAreWhole(c),
         phase[c] \in {"idle", "querying"},
         NEW after \in Phases, phase' = [phase EXCEPT ![c] = after],
         UNCHANGED <<work, results, successful, agentVars, clusterVars>>,
         NEW pods \in Seq(Pods), todo'[c] = pods,
         after \notin {"cleaning", "registering", "ended"},
         after = "publishing" => pods = << >>
  PROVE  PodsAreWhole(c)'
<1>1. phase'[c] = after
  BY DEF TypeOK, Callers
<1>2. work[c] = << >> /\ Range(work[c]) = {} /\ Len(work[c]) = 0
  BY DEF CycleInv, WorkOfCurrentPod, Range
<1>3. UNCHANGED registry /\ work'[c] = work[c] /\ successful'[c] = successful[c]
  BY DEF agentVars
<1>4. \A t \in registry : t.cycle # c
  BY DEF CycleInv, FreshPods
<1>5. \A p : RegisteredOf(c, p) = {} /\ RegisteredOf(c, p)' = {}
  BY <1>3, <1>4 DEF RegisteredOf
<1>6. ServedPods(c) = {} /\ ServedPods(c)' = {}
  BY <1>5 DEF ServedPods
<1>7. Batch(c, Head(pods), 0) = {}
  BY BatchGrows
<1>8. successful'[c] = Cardinality(CountedPods(c)')
  <2>1. CountedPods(c) = {} /\ CountedPods(c)' = {}
    BY <1>1, <1>6 DEF CountedPods
  <2> QED BY <1>3, <2>1 DEF PodsAreWhole
<1>9. \A t \in registry' : t.cycle # c
  BY <1>3, <1>4
<1> QED BY <1>1, <1>2, <1>3, <1>5, <1>7, <1>8, <1>9 DEF PodsAreWhole

LEMMA CreateKeepsPods ==
  ASSUME TypeOK, NEW c \in Cycles, CycleInv(c), PodsAreWhole(c), CreateSucceeds(c)
  PROVE  PodsAreWhole(c)'
<1> DEFINE t0 == Candidate(c)
           h == Head(todo[c])
           n == Len(work[c])
<1>1. phase[c] = "creating" /\ WorkOfCurrentPod(c)
  BY DEF CreateSucceeds, CycleInv
<1>2. /\ t0 \in Honeytokens /\ t0.pod = h
      /\ t0 = [cycle |-> c, pod |-> h, spec |-> n + 1]
  BY <1>1, CandidateIsHoneytoken DEF Candidate
<1>3. /\ UNCHANGED <<todo, results, audited, registry, reported>>
      /\ work'[c] = Append(work[c], t0)
      /\ phase'[c] = IF n + 1 = NumSpecs THEN "registering" ELSE "creating"
      /\ successful'[c] = IF n + 1 = NumSpecs THEN successful[c] + 1 ELSE successful[c]
  BY DEF CreateSucceeds, TypeOK, Callers, LastSpec
<1>4. n \in Nat /\ Range(Append(work[c], t0)) = Range(work[c]) \cup {t0}
      /\ Len(Append(work[c], t0)) = n + 1
  <2>1. work[c] \in Seq(Honeytokens) /\ n \in Nat
    BY DEF TypeOK
  <2>2. Len(Append(work[c], t0)) = n + 1
    BY <2>1
  <2> HIDE DEF Honeytokens, t0, n
  <2> QED BY <1>2, <2>1, <2>2, AppendElements
<1>5. Batch(c, h, n + 1) = Batch(c, h, n) \cup {t0}
  <2> HIDE DEF h, n
  <2>1. PICK g, m : g = h /\ m = n
    OBVIOUS
  <2>2. Batch(c, g, m + 1) = Batch(c, g, m) \cup {[cycle |-> c, pod |-> g, spec |-> m + 1]}
    BY <1>4, <2>1, BatchGrows
  <2> HIDE DEF t0
  <2> QED BY <1>2, <2>1, <2>2, Zenon
<1> HIDE DEF t0
<1>6. Range(work'[c]) = Batch(c, h, n + 1) /\ Len(work'[c]) = n + 1
  BY <1>1, <1>3, <1>4, <1>5 DEF PodsAreWhole
<1>7. \A t \in Range(work'[c]) : t.pod = h
  BY <1>2, <1>3, <1>4 DEF PodsAreWhole
<1>8. /\ \A p : RegisteredOf(c, p)' = RegisteredOf(c, p)
      /\ ServedPods(c)' = ServedPods(c)
  BY <1>3 DEF RegisteredOf, ServedPods
<1>9. RegisteredOf(c, h) = {}
  BY <1>1 DEF PodsAreWhole
<1> HIDE DEF n
<1>10. successful'[c] = Cardinality(CountedPods(c)')
  <2>1. /\ CountedPods(c) = ServedPods(c)
        /\ CountedPods(c)' = IF n + 1 = NumSpecs THEN ServedPods(c) \cup {h} ELSE ServedPods(c)
    BY <1>1, <1>3, <1>8 DEF CountedPods
  <2>2. h \notin ServedPods(c)
    <3>1. h \in Range(todo[c])
      BY <1>1, TailElements DEF WorkOfCurrentPod, TypeOK
    <3> QED BY <3>1 DEF ServedPods
  <2>3. PICK S, g : S = ServedPods(c) /\ g = h
    OBVIOUS
  <2>4. Cardinality(S \cup {g}) = Cardinality(S) + 1
    BY <2>2, <2>3, ServedAreFinite, FS_AddElement
  <2>5. successful[c] = Cardinality(S)
    BY <2>1, <2>3 DEF PodsAreWhole
  <2> QED BY <1>3, <2>1, <2>3, <2>4, <2>5
<1> QED BY <1>3, <1>6, <1>7, <1>8, <1>9, <1>10 DEF PodsAreWhole

LEMMA RegisterKeepsPods ==
  ASSUME TypeOK, NEW c \in Cycles, CycleInv(c), PodsAreWhole(c), RegisterHoneytoken(c)
  PROVE  PodsAreWhole(c)'
<1> DEFINE t0 == Head(work[c])
           h == Head(todo[c])
<1>1. phase[c] = "registering" /\ work[c] # << >> /\ WorkOfCurrentPod(c) /\ todo[c] # << >>
  BY DEF RegisterHoneytoken, CycleInv, WorkOfCurrentPod
<1>2. /\ t0 \in Honeytokens /\ t0.cycle = c
      /\ Range(work[c]) = {t0} \cup Range(Tail(work[c]))
  BY <1>1, WorkElements
<1>3. t0.pod = h
  BY <1>2 DEF PodsAreWhole
<1>4. /\ UNCHANGED <<todo, successful, audited, reported>>
      /\ registry' = registry \cup {t0}
      /\ work'[c] = Tail(work[c]) /\ results'[c] = Append(results[c], t0)
      /\ phase'[c] = "registering"
  BY <1>1 DEF RegisterHoneytoken, TypeOK
<1>5. results[c] \in Seq(Honeytokens)
  BY DEF TypeOK
<1> HIDE DEF t0, h
<1>6. Range(results'[c]) = Range(results[c]) \cup {t0}
  <2> HIDE DEF Honeytokens
  <2> QED BY <1>2, <1>4, <1>5, AppendElements
<1>7. /\ RegisteredOf(c, h)' = RegisteredOf(c, h) \cup {t0}
      /\ \A p : p # h => RegisteredOf(c, p)' = RegisteredOf(c, p)
  <2>1. RegisteredOf(c, h)' = RegisteredOf(c, h) \cup {t0}
    <3>1. h' = h
      BY <1>4 DEF h
    <3> QED BY <1>2, <1>3, <1>4, <3>1 DEF RegisteredOf
  <2> QED BY <1>2, <1>3, <1>4, <2>1 DEF RegisteredOf
<1>8. RegisteredOf(c, h)' \cup Range(work'[c]) = Batch(c, h, NumSpecs)
  BY <1>1, <1>2, <1>4, <1>7 DEF PodsAreWhole, h
<1>9. h \in Range(todo[c])
  BY <1>1, TailElements DEF TypeOK, h
<1>10. \A p \in Pods : p \notin Range(todo[c]) => RegisteredOf(c, p)' = RegisteredOf(c, p)
  BY <1>7, <1>9
<1>11. ServedPods(c)' = ServedPods(c)
  BY <1>4, <1>10, SameServed
<1>12. \A t \in Range(work'[c]) : t.pod = h
  BY <1>2, <1>4 DEF PodsAreWhole, h
<1>13. \A t \in registry' : t.cycle = c => t \in reported' \cup Range(results'[c])
  BY <1>4, <1>6 DEF PodsAreWhole
<1>14. h = Head(todo'[c])
  BY <1>4 DEF h
<1>15. \A p \in Pods \ Range(todo'[c]) : RegisteredOf(c, p)' \in {{}, Batch(c, p, NumSpecs)}
  BY <1>4, <1>10 DEF PodsAreWhole
<1>16. RegisteredOf(c, Head(todo[c]))' \cup Range(work'[c]) = Batch(c, Head(todo'[c]), NumSpecs)
  BY <1>4, <1>8 DEF h
<1>17. CountedPods(c)' = CountedPods(c)
  BY <1>1, <1>4, <1>11 DEF CountedPods
<1> QED BY <1>4, <1>12, <1>13, <1>14, <1>15, <1>16, <1>17 DEF PodsAreWhole

LEMMA PodDoneKeepsPods ==
  ASSUME TypeOK, NEW c \in Cycles, CycleInv(c), PodsAreWhole(c), PodDone(c)
  PROVE  PodsAreWhole(c)'
<1> DEFINE h == Head(todo[c])
           rest == Tail(todo[c])
<1>1. /\ phase[c] \in {"registering", "cleaning"} /\ work[c] = << >>
      /\ Range(work[c]) = {} /\ Len(work[c]) = 0
      /\ todo[c] \in Seq(Pods) /\ todo[c] # << >> /\ NoRepeats(todo[c])
  BY DEF PodDone, CycleInv, WorkOfCurrentPod, FreshPods, TypeOK, Range
<1>2. /\ UNCHANGED <<work, results, successful, audited, registry, reported>>
      /\ todo'[c] = rest
      /\ phase'[c] = IF Len(todo[c]) = 1 THEN "publishing" ELSE "creating"
  BY DEF PodDone, TypeOK, Callers, agentVars
<1>3. /\ h \in Pods /\ Range(todo[c]) = {h} \cup Range(rest) /\ h \notin Range(rest)
      /\ rest \in Seq(Pods)
  BY <1>1, TailElements
<1>4. Len(todo[c]) = 1 => rest = << >>
  <2>1. Len(todo[c]) \in Nat /\ Len(rest) = Len(todo[c]) - 1
    BY <1>1
  <2>2. PICK r \in Seq(Pods) : r = rest
    BY <1>3
  <2>3. r = << >> <=> Len(r) = 0
    BY EmptySeq
  <2> QED BY <2>1, <2>2, <2>3
<1>5. rest # << >> => Head(rest) \in Range(rest)
  <2>1. PICK r \in Seq(Pods) : r = rest
    BY <1>3
  <2>2. r # << >> => Range(r) = {Head(r)} \cup Range(Tail(r))
    BY TailElements
  <2> HIDE DEF rest
  <2> QED BY <2>1, <2>2
<1> HIDE DEF h, rest
<1>6. \A p : RegisteredOf(c, p)' = RegisteredOf(c, p)
  BY <1>2 DEF RegisteredOf
<1>7. RegisteredOf(c, h) = IF phase[c] = "registering" THEN Batch(c, h, NumSpecs) ELSE {}
  BY <1>1 DEF PodsAreWhole, h
<1>8. \A p \in Range(rest) : RegisteredOf(c, p) = {}
  BY <1>1 DEF CycleInv, FreshPods, RegisteredOf, rest
<1>9. \A p \in Pods \ Range(todo'[c]) : RegisteredOf(c, p)' \in {{}, Batch(c, p, NumSpecs)}
  <2>1. ASSUME NEW p \in Pods \ Range(rest)
        PROVE  RegisteredOf(c, p) \in {{}, Batch(c, p, NumSpecs)}
    <3>1. CASE p = h
      BY <1>7, <3>1
    <3>2. CASE p # h
      BY <1>3, <3>2 DEF PodsAreWhole
    <3> QED BY <3>1, <3>2
  <2> QED BY <1>2, <1>6, <2>1
<1>10. ServedPods(c)' = IF phase[c] = "registering" THEN ServedPods(c) \cup {h} ELSE ServedPods(c)
  <2>1. ServedPods(c)' = {p \in Pods \ Range(rest) : RegisteredOf(c, p) # {}}
    BY <1>2, <1>6 DEF ServedPods
  <2>2. Pods \ Range(rest) = (Pods \ Range(todo[c])) \cup {h}
    BY <1>3
  <2>3. PICK g : g = h
    OBVIOUS
  <2>4. Batch(c, g, NumSpecs) # {}
    BY BatchSize
  <2>5. RegisteredOf(c, h) # {} <=> phase[c] = "registering"
    BY <1>7, <2>3, <2>4
  <2> QED BY <2>1, <2>2, <2>5 DEF ServedPods
<1>11. phase'[c] # "registering"
  BY <1>2
<1>12. CountedPods(c)' = CountedPods(c)
  BY <1>10, <1>11 DEF CountedPods, h
<1>13. rest # << >> => RegisteredOf(c, Head(rest)) = {}
  BY <1>5, <1>8
<1>14. Batch(c, Head(rest), 0) = {}
  <2>1. PICK g : g = Head(rest)
    OBVIOUS
  <2>2. Batch(c, g, 0) = {}
    BY BatchGrows
  <2> QED BY <2>1, <2>2
<1>15. phase'[c] = "creating" => RegisteredOf(c, Head(todo[c]))' = {}
  <2>1. phase'[c] = "creating" => rest # << >>
    <3>1. Len(todo[c]) # 1 => rest # << >>
      <4>1. PICK s \in Seq(Pods) : s = todo[c]
        BY <1>1
      <4>2. s # << >> /\ Len(s) # 1 => Tail(s) # << >>
        BY TailIsEmpty
      <4> QED BY <1>1, <4>1, <4>2 DEF rest
    <3> QED BY <1>2, <3>1
  <2>2. RegisteredOf(c, Head(todo[c]))' = RegisteredOf(c, Head(todo'[c]))
    BY <1>2 DEF RegisteredOf
  <2> QED BY <1>2, <1>13, <2>1, <2>2
<1>16. phase'[c] \in {"publishing", "creating"}
       /\ (phase'[c] = "publishing" => todo'[c] = << >>)
  BY <1>2, <1>4
<1>17. \A t \in registry' : t.cycle = c => t \in reported' \cup Range(results'[c])
  BY <1>2 DEF PodsAreWhole
<1> QED BY <1>1, <1>2, <1>9, <1>12, <1>14, <1>15, <1>16, <1>17 DEF PodsAreWhole

LEMMA DeployKeepsPods ==
  ASSUME TypeOK, NEW c \in Cycles, CycleInv(c), PodsAreWhole(c), Deploy(c)
  PROVE  PodsAreWhole(c)'
<1>1. WorkOfCurrentPod(c)
  BY DEF CycleInv
<1>2. ASSUME UNCHANGED <<todo, registry>>
      PROVE  (\A p : RegisteredOf(c, p)' = RegisteredOf(c, p)) /\ ServedPods(c)' = ServedPods(c)
  BY <1>2 DEF RegisteredOf, ServedPods
<1> USE DEF CountedPods
<1>3. CASE CreateFails(c)
  <2>1. /\ UNCHANGED <<todo, work, results, successful, audited, registry, reported>>
        /\ phase'[c] = "cleaning" /\ phase[c] = "creating"
    BY <1>3 DEF CreateFails, agentVars, TypeOK, Callers
  <2> QED BY <1>2, <2>1 DEF PodsAreWhole
<1>4. CASE DeleteSettles(c)
  <2>1. /\ UNCHANGED <<todo, results, successful, audited, registry, reported>>
        /\ work'[c] = Tail(work[c]) /\ phase'[c] = "cleaning" /\ phase[c] = "cleaning"
    BY <1>4 DEF DeleteSettles, TypeOK
  <2>2. Range(work[c]) = {Head(work[c])} \cup Range(Tail(work[c]))
    BY <1>1, <1>4, WorkElements DEF DeleteSettles
  <2> QED BY <1>2, <2>1, <2>2 DEF PodsAreWhole
<1>5. CASE BroadcastRegistryChange(c)
  <2>1. /\ UNCHANGED <<todo, work, successful, audited, registry>>
        /\ phase'[c] = "publishing" /\ phase[c] = "publishing"
        /\ reported' = reported \cup {Head(results[c])} /\ results'[c] = Tail(results[c])
    BY <1>5 DEF BroadcastRegistryChange, TypeOK
  <2>2. Range(results[c]) = {Head(results[c])} \cup Range(Tail(results[c]))
    <3>1. results[c] \in Seq(Honeytokens) /\ results[c] # << >>
      BY <1>5 DEF BroadcastRegistryChange, TypeOK
    <3> HIDE DEF Honeytokens
    <3> QED BY <3>1, TailElements
  <2>3. \A t \in registry' : t.cycle = c => t \in reported' \cup Range(results'[c])
    BY <2>1, <2>2 DEF PodsAreWhole
  <2> QED BY <1>2, <2>1, <2>3 DEF PodsAreWhole
<1>6. CASE FinishCycle(c)
  <2>1. /\ UNCHANGED <<todo, work, results, successful, registry, reported>>
        /\ phase'[c] = "ended" /\ phase[c] = "publishing"
        /\ audited' = audited \cup {c} /\ results[c] = << >>
    BY <1>6 DEF FinishCycle, TypeOK, Callers
  <2> QED BY <1>2, <2>1 DEF PodsAreWhole
<1> QED BY <1>3, <1>4, <1>5, <1>6, CreateKeepsPods, RegisterKeepsPods, PodDoneKeepsPods
        DEF Deploy

\* Every step keeps what every cycle's pods have.
LEMMA PodsStep ==
  ASSUME IInv, PodsInv, [Next]_vars, TypeOK', NEW d \in Cycles
  PROVE  PodsAreWhole(d)'
<1>1. /\ TypeOK /\ CycleInv(d) /\ PodsAreWhole(d)
      /\ \A c \in Cycles : CycleInv(c) /\ WorkOfCurrentPod(c) /\ ResultsAreUnreported(c)
  BY DEF IInv, CycleInv, PodsInv
<1>2. d \in Callers /\ d # Scheduler
  BY DeploymentAssumption DEF Callers
<1>3. phase \in [Callers -> Phases] /\ todo \in [Cycles -> Seq(Pods)] /\ todo[d] \in Seq(Pods)
  BY <1>1 DEF TypeOK
<1>4. ASSUME phase'[d] = phase[d], todo'[d] = todo[d],
             UNCHANGED <<work, results, successful, agentVars, clusterVars>>
      PROVE  PodsAreWhole(d)'
  <2>1. Spares(d) /\ audited \subseteq audited' /\ successful'[d] = successful[d]
    BY <1>4 DEF Spares, agentVars, clusterVars
  <2> QED BY <1>1, <2>1, SparedPods
<1>5. ASSUME NEW k \in Callers, NEW after \in Phases, phase[k] \in {"idle", "querying"},
             phase' = [phase EXCEPT ![k] = after], after \in {"idle", "querying", "skipped", "failed"},
             UNCHANGED <<todo, work, results, successful, agentVars, clusterVars>>
      PROVE  PodsAreWhole(d)'
  <2>1. CASE k = d
    BY <1>1, <1>3, <1>5, <2>1, QueryKeepsPods
  <2>2. CASE k # d
    BY <1>2, <1>3, <1>4, <1>5, <2>2
  <2> QED BY <2>1, <2>2
<1>6. CASE StartScheduler \/ StopScheduler \/ UNCHANGED vars
  BY <1>4, <1>6 DEF StartScheduler, StopScheduler, vars, cycleVars
<1>7. ASSUME NEW k \in Callers, InitiateDiscoveryCycle(k), phase[k] = "idle",
             UNCHANGED <<todo, work, results, successful, agentVars, clusterVars>>
      PROVE  PodsAreWhole(d)'
  <2> DEFINE after == IF ~cycleInProgress THEN "querying"
                      ELSE IF k = Scheduler THEN "idle" ELSE "skipped"
  <2>1. phase' = [phase EXCEPT ![k] = after]
    BY <1>7 DEF InitiateDiscoveryCycle
  <2>2. after \in Phases /\ after \in {"idle", "querying", "skipped", "failed"}
    BY DEF Phases
  <2> HIDE DEF after
  <2> QED BY <1>5, <1>7, <2>1, <2>2
<1>8. CASE ScheduledCycle
  BY <1>7, <1>8 DEF ScheduledCycle, Callers
<1>9. CASE \E c \in Cycles : RunDiscoveryAndDeployment(c)
  BY <1>7, <1>9 DEF RunDiscoveryAndDeployment, Callers
<1>10. ASSUME NEW k \in Callers, QuerySettles(k)
       PROVE  PodsAreWhole(d)'
  <2>1. CASE QueryAttemptFails(k)
    BY <1>4, <2>1 DEF QueryAttemptFails, cycleVars
  <2>2. CASE QueryFails(k)
    <3> DEFINE after == IF k = Scheduler THEN "idle" ELSE "failed"
    <3>1. /\ phase[k] = "querying" /\ phase' = [phase EXCEPT ![k] = after]
          /\ UNCHANGED <<todo, work, results, successful, agentVars, clusterVars>>
      BY <2>2 DEF QueryFails
    <3>2. after \in Phases /\ after \in {"idle", "querying", "skipped", "failed"}
      BY DEF Phases
    <3> HIDE DEF after
    <3> QED BY <1>5, <3>1, <3>2
  <2>3. CASE k = Scheduler /\ ScheduledAnswer
    BY <1>5, <2>3 DEF ScheduledAnswer, Phases
  <2>4. CASE k \in Cycles /\ NothingFound(k)
    BY <1>5, <2>4 DEF NothingFound, Phases
  <2>5. ASSUME k \in Cycles, NEW pods \in RankedTargets, TargetsFound(k, pods)
        PROVE  PodsAreWhole(d)'
    <3> DEFINE after == IF pods = << >> THEN "publishing" ELSE "creating"
    <3>1. pods \in Seq(Pods)
      BY TargetsArePods
    <3>2. /\ phase[k] = "querying" /\ phase' = [phase EXCEPT ![k] = after]
          /\ todo' = [todo EXCEPT ![k] = pods]
          /\ UNCHANGED <<work, results, successful, agentVars, clusterVars>>
      BY <2>5 DEF TargetsFound
    <3>3. /\ after \in Phases /\ after \notin {"cleaning", "registering", "ended"}
          /\ (after = "publishing" => pods = << >>)
      BY DEF Phases
    <3> HIDE DEF after
    <3>4. CASE k = d
      <4>1. todo'[d] = pods
        BY <1>3, <3>2, <3>4
      <4> QED BY <1>1, <3>1, <3>2, <3>3, <3>4, <4>1, QueryKeepsPods
    <3>5. CASE k # d
      BY <1>2, <1>3, <1>4, <2>5, <3>2, <3>5
    <3> QED BY <3>4, <3>5
  <2> QED BY <1>10, <2>1, <2>2, <2>3, <2>4, <2>5 DEF QuerySettles
<1>11. ASSUME NEW c \in Cycles, Deploy(c)
       PROVE  PodsAreWhole(d)'
  <2>1. CASE c = d
    BY <1>1, <1>11, <2>1, DeployKeepsPods
  <2>2. CASE c # d
    <3>1. Spares(d)
      BY <1>1, <1>11, <2>2, DeploySpares
    <3>2. successful'[d] = successful[d] /\ audited \subseteq audited'
      BY <1>1, <1>11, <2>2 DEF Deploy, CreateSucceeds, CreateFails, DeleteSettles,
           RegisterHoneytoken, PodDone, BroadcastRegistryChange, FinishCycle, agentVars, TypeOK
    <3> QED BY <1>1, <3>1, <3>2, SparedPods
  <2> QED BY <2>1, <2>2
<1> QED BY <1>6, <1>8, <1>9, <1>10, <1>11 DEF Next

LEMMA PodsInvariant == Spec => []PodsInv
<1>1. Init => PodsInv
  <2> SUFFICES ASSUME Init, NEW c \in Cycles PROVE PodsAreWhole(c)
    BY DEF PodsInv
  <2>1. /\ phase[c] = "idle" /\ todo[c] = << >> /\ work[c] = << >> /\ Range(work[c]) = {}
        /\ registry = {} /\ successful[c] = 0
    BY DEF Init, Callers, Range
  <2>2. ServedPods(c) = {} /\ \A p : RegisteredOf(c, p) = {}
    BY <2>1 DEF ServedPods, RegisteredOf
  <2>3. Cardinality({}) = 0
    BY FS_EmptySet
  <2> QED BY <2>1, <2>2, <2>3 DEF PodsAreWhole, CountedPods
<1>2. IInv /\ IInv' /\ PodsInv /\ [Next]_vars => PodsInv'
  <2> SUFFICES ASSUME IInv, IInv', PodsInv, [Next]_vars, NEW d \in Cycles
               PROVE  PodsAreWhole(d)'
    BY DEF PodsInv
  <2>1. TypeOK'
    BY DEF IInv
  <2> QED BY <2>1, PodsStep
<1> QED BY <1>1, <1>2, InductiveInvariant, PTL DEF Spec

\* Whatever fails and however cycles overlap, a cycle that ended has registered and
\* reported all honeytokens of a pod or none, and audited the number of pods served.
THEOREM CyclesServePodsWhole == Spec => []PodsAllOrNothing
<1>1. ASSUME IInv, PodsInv PROVE PodsAllOrNothing
  <2> SUFFICES ASSUME NEW c \in Cycles, phase[c] = "ended"
               PROVE  /\ c \in audited
                      /\ \A p \in Pods : RegisteredOf(c, p) \in
                            {{}, {t \in reported : t.cycle = c /\ t.pod = p}}
                      /\ \A p \in Pods : Cardinality(RegisteredOf(c, p)) \in {0, NumSpecs}
                      /\ successful[c] = Cardinality({p \in Pods : RegisteredOf(c, p) # {}})
    BY DEF PodsAllOrNothing, RegisteredOf
  <2>1. /\ PodsAreWhole(c) /\ c \in audited /\ todo[c] = << >> /\ results[c] = << >>
        /\ reported \subseteq registry
    BY <1>1 DEF PodsInv, PodsAreWhole, IInv
  <2>2. Range(todo[c]) = {} /\ Range(results[c]) = {}
    BY <2>1 DEF Range
  <2>3. \A t \in registry : t.cycle = c => t \in reported
    BY <2>1, <2>2 DEF PodsAreWhole
  <2>4. \A p \in Pods : RegisteredOf(c, p) = {t \in reported : t.cycle = c /\ t.pod = p}
    BY <2>1, <2>3 DEF RegisteredOf
  <2>5. \A p \in Pods : Cardinality(RegisteredOf(c, p)) \in {0, NumSpecs}
    <3>1. ASSUME NEW p \in Pods PROVE Cardinality(RegisteredOf(c, p)) \in {0, NumSpecs}
      <4>1. RegisteredOf(c, p) \in {{}, Batch(c, p, NumSpecs)}
        BY <2>1, <2>2 DEF PodsAreWhole
      <4>2. Cardinality({}) = 0
        BY FS_EmptySet
      <4>3. Cardinality(Batch(c, p, NumSpecs)) = NumSpecs
        BY BatchSize
      <4> QED BY <4>1, <4>2, <4>3
    <3> QED BY <3>1
  <2>6. CountedPods(c) = {p \in Pods : RegisteredOf(c, p) # {}}
    BY <2>2 DEF CountedPods, ServedPods
  <2> QED BY <2>1, <2>4, <2>5, <2>6 DEF PodsAreWhole
<1> QED BY <1>1, InductiveInvariant, PodsInvariant, PTL

---------------------------------------------------------------------------
(* How long a cycle can last                                               *)

\* A honeytoken takes three steps: it is created, registered and reported, or
\* created and deleted; a pod takes one more, which may be a failed creation.
StepsPerPod == 3 * NumSpecs + 1

\* The steps a cycle still takes at most: it begins, its query is tried
\* MaxRetries + 1 times, it goes through the pods, and it ends.
MostSteps == Cardinality(Pods) * StepsPerPod + MaxRetries + 3

\* `at` is the phase of the cycle, and the numbers are the failed attempts of
\* its query and the lengths of its lists.
StepsLeft(at, failed, pods, tokens, unreported) ==
    IF at = "idle" THEN MostSteps
    ELSE IF at = "querying" THEN MostSteps - 1 - failed
    ELSE IF at = "creating" THEN pods * StepsPerPod - tokens + unreported + 1
    ELSE IF at = "cleaning" THEN (pods - 1) * StepsPerPod + tokens + unreported + 2
    ELSE IF at = "registering" THEN (pods - 1) * StepsPerPod + 2 * tokens + unreported + 2
    ELSE IF at = "publishing" THEN unreported + 1
    ELSE 0

CycleState(c) == <<phase[c], failedAttempts[c], todo[c], work[c], results[c]>>

CycleStepsLeft(c) ==
    StepsLeft(phase[c], failedAttempts[c], Len(todo[c]), Len(work[c]), Len(results[c]))

\* Whatever fails and however cycles overlap, each step of a cycle brings it
\* closer to its end: a failed creation is followed by a clean-up of what was
\* created, and no pod and no query is taken up again (workflow.ts:235).
CyclesWindDown ==
    [][\A c \in Cycles : CycleState(c)' # CycleState(c) =>
           0 <= CycleStepsLeft(c)' /\ CycleStepsLeft(c)' < CycleStepsLeft(c)]_vars

\* The arithmetic of pods and their steps, for the numbers of honeytokens that
\* deploy() accepts.
LEMMA PodSteps ==
  ASSUME NEW m \in Nat, NEW n \in Nat, m <= n
  PROVE  /\ m * StepsPerPod \in Nat
         /\ m * StepsPerPod <= n * StepsPerPod
         /\ n # 0 => n * StepsPerPod = (n - 1) * StepsPerPod + 3 * NumSpecs + 1
<1>1. StepsPerPod = 3 * NumSpecs + 1 /\ NumSpecs \in 1 .. 5
  BY DeploymentAssumption DEF StepsPerPod
<1>2. CASE NumSpecs = 1
  BY <1>1, <1>2
<1>3. CASE NumSpecs = 2
  BY <1>1, <1>3
<1>4. CASE NumSpecs = 3
  BY <1>1, <1>4
<1>5. CASE NumSpecs = 4
  BY <1>1, <1>5
<1>6. CASE NumSpecs = 5
  BY <1>1, <1>6
<1> QED BY <1>1, <1>2, <1>3, <1>4, <1>5, <1>6

\* The query of a cycle is followed by the pods it found.
LEMMA QueryShrinks ==
  ASSUME NEW f \in 0 .. MaxRetries, NEW n \in Nat, NEW w \in Nat, NEW u \in Nat
  PROVE  /\ 0 <= StepsLeft("querying", f, n, w, u)
         /\ StepsLeft("querying", f, n, w, u) < StepsLeft("idle", f, n, w, u)
         /\ f < MaxRetries =>
               /\ 0 <= StepsLeft("querying", f + 1, n, w, u)
               /\ StepsLeft("querying", f + 1, n, w, u) < StepsLeft("querying", f, n, w, u)
         /\ \A g, m : \A s \in {"skipped", "failed"}, at \in {"idle", "querying"} :
               0 <= StepsLeft(s, g, m, w, u) /\ StepsLeft(s, g, m, w, u) < StepsLeft(at, f, n, w, u)
         /\ \A g : \A m \in 0 .. Cardinality(Pods) :
               /\ 0 <= StepsLeft("creating", g, m, 0, 0)
               /\ StepsLeft("creating", g, m, 0, 0) < StepsLeft("querying", f, n, w, u)
         /\ \A g, m :
               /\ 0 <= StepsLeft("publishing", g, m, 0, 0)
               /\ StepsLeft("publishing", g, m, 0, 0) < StepsLeft("querying", f, n, w, u)
<1>1. Cardinality(Pods) \in Nat /\ MaxRetries \in Nat
  BY DeploymentAssumption, FS_CardinalityType
<1>2. Cardinality(Pods) * StepsPerPod \in Nat
  BY <1>1, PodSteps
<1>3. ASSUME NEW m \in 0 .. Cardinality(Pods), NEW g
      PROVE  /\ 0 <= StepsLeft("creating", g, m, 0, 0)
             /\ StepsLeft("creating", g, m, 0, 0) < StepsLeft("querying", f, n, w, u)
  <2>1. m \in Nat /\ m <= Cardinality(Pods)
    BY <1>1
  <2>2. m * StepsPerPod \in Nat /\ m * StepsPerPod <= Cardinality(Pods) * StepsPerPod
    BY <1>1, <2>1, PodSteps
  <2> QED BY <1>1, <1>2, <2>2 DEF StepsLeft, MostSteps
<1> QED BY <1>1, <1>2, <1>3 DEF StepsLeft, MostSteps

\* From the creation of its honeytokens to the end of a pod.
LEMMA PodShrinks ==
  ASSUME NEW n \in Nat \ {0}, NEW w \in Nat, NEW u \in Nat, NEW f
  PROVE  /\ w < NumSpecs =>
               /\ w + 1 < NumSpecs =>
                     /\ 0 <= StepsLeft("creating", f, n, w + 1, u)
                     /\ StepsLeft("creating", f, n, w + 1, u) < StepsLeft("creating", f, n, w, u)
               /\ w + 1 = NumSpecs =>
                     /\ 0 <= StepsLeft("registering", f, n, w + 1, u)
                     /\ StepsLeft("registering", f, n, w + 1, u) < StepsLeft("creating", f, n, w, u)
               /\ 0 <= StepsLeft("cleaning", f, n, w, u)
               /\ StepsLeft("cleaning", f, n, w, u) < StepsLeft("creating", f, n, w, u)
         /\ w # 0 =>
               /\ 0 <= StepsLeft("cleaning", f, n, w - 1, u)
               /\ StepsLeft("cleaning", f, n, w - 1, u) < StepsLeft("cleaning", f, n, w, u)
               /\ 0 <= StepsLeft("registering", f, n, w - 1, u + 1)
               /\ StepsLeft("registering", f, n, w - 1, u + 1) < StepsLeft("registering", f, n, w, u)
         /\ \A at \in {"cleaning", "registering"} :
               /\ 0 <= StepsLeft("creating", f, n - 1, 0, u)
               /\ StepsLeft("creating", f, n - 1, 0, u) < StepsLeft(at, f, n, 0, u)
               /\ 0 <= StepsLeft("publishing", f, n - 1, 0, u)
               /\ StepsLeft("publishing", f, n - 1, 0, u) < StepsLeft(at, f, n, 0, u)
<1>1. NumSpecs \in Nat
  BY DeploymentAssumption
<1>2. n \in Nat /\ n # 0 /\ n - 1 \in Nat /\ n <= n /\ n - 1 <= n
  OBVIOUS
<1>3. n * StepsPerPod = (n - 1) * StepsPerPod + 3 * NumSpecs + 1
  BY <1>2, PodSteps
<1>4. (n - 1) * StepsPerPod \in Nat
  BY <1>2, PodSteps
<1> QED BY <1>1, <1>2, <1>3, <1>4 DEF StepsLeft

\* A cycle whose query still runs has nothing in its lists.
LEMMA QueryHoldsNothing ==
  ASSUME IInv, NEW c \in Cycles, phase[c] \in {"idle", "querying"}
  PROVE  work[c] = << >> /\ results[c] = << >>
<1>1. CycleInv(c) /\ results[c] \in Seq(Honeytokens)
  BY DEF IInv, TypeOK
<1>2. work[c] = << >>
  BY <1>1 DEF CycleInv, WorkOfCurrentPod
<1>3. results[c] = << >>
  <2> SUFFICES ASSUME results[c] # << >> PROVE FALSE
    OBVIOUS
  <2>1. Head(results[c]) \in Range(results[c])
    <3> HIDE DEF Honeytokens
    <3> QED BY <1>1, TailElements
  <2>2. Head(results[c]) \in registry /\ Head(results[c]).cycle = c
    BY <1>1, <2>1 DEF CycleInv, ResultsAreUnreported
  <2> QED BY <1>1, <2>2 DEF CycleInv, FreshPods
<1> QED BY <1>2, <1>3

\* A step of one caller leaves the cycles of the others where they are.
LEMMA OthersWait ==
  ASSUME TypeOK, NEW k \in Callers, NEW d \in Cycles, d # k,
         \/ k \in Cycles /\ (RunDiscoveryAndDeployment(k) \/ Deploy(k))
         \/ QuerySettles(k)
  PROVE  CycleState(d)' = CycleState(d)
<1>1. /\ d \in Callers
      /\ phase \in [Callers -> Phases] /\ failedAttempts \in [Callers -> 0 .. MaxRetries]
      /\ todo \in [Cycles -> Seq(Pods)] /\ work \in [Cycles -> Seq(Honeytokens)]
      /\ results \in [Cycles -> Seq(Honeytokens)]
  BY DEF TypeOK, Callers
<1> HIDE DEF Honeytokens, Callers
<1>2. CASE RunDiscoveryAndDeployment(k)
  BY <1>1, <1>2 DEF RunDiscoveryAndDeployment, InitiateDiscoveryCycle, CycleState
<1>3. CASE QuerySettles(k)
  <2>1. CASE QueryAttemptFails(k)
    BY <1>1, <2>1 DEF QueryAttemptFails, CycleState, cycleVars
  <2>2. CASE QueryFails(k) \/ NothingFound(k)
    BY <1>1, <2>2 DEF QueryFails, NothingFound, EndQuery, CycleState
  <2>3. CASE k = Scheduler /\ ScheduledAnswer
    BY <1>1, <2>3 DEF ScheduledAnswer, EndQuery, CycleState
  <2>4. CASE \E pods \in RankedTargets : TargetsFound(k, pods)
    BY <1>1, <2>4 DEF TargetsFound, EndQuery, CycleState
  <2> QED BY <1>3, <2>1, <2>2, <2>3, <2>4 DEF QuerySettles
<1>4. CASE Deploy(k)
  BY <1>1, <1>4 DEF Deploy, CreateSucceeds, CreateFails, DeleteSettles, RegisterHoneytoken,
         PodDone, BroadcastRegistryChange, FinishCycle, CycleState, queryVars
<1> QED BY <1>2, <1>3, <1>4

\* The query of a cycle, and what it found, bring the cycle closer to its end.
LEMMA QueryComesCloser ==
  ASSUME IInv, NEW c \in Cycles, RunDiscoveryAndDeployment(c) \/ QuerySettles(c)
  PROVE  0 <= CycleStepsLeft(c)' /\ CycleStepsLeft(c)' < CycleStepsLeft(c)
<1> DEFINE f == failedAttempts[c]
           n == Len(todo[c])
<1>1. /\ c \in Callers /\ c # Scheduler
      /\ phase \in [Callers -> Phases] /\ failedAttempts \in [Callers -> 0 .. MaxRetries]
      /\ todo \in [Cycles -> Seq(Pods)]
  BY DeploymentAssumption DEF IInv, TypeOK, Callers
<1>2. f \in 0 .. MaxRetries /\ n \in Nat /\ 0 \in Nat
  BY <1>1
<1>3. phase[c] \in {"idle", "querying"} /\ UNCHANGED <<work, results>>
  BY <1>1 DEF RunDiscoveryAndDeployment, QuerySettles, QueryAttemptFails, QueryFails,
         NothingFound, TargetsFound, cycleVars
<1>4. /\ work[c] = << >> /\ results[c] = << >> /\ work'[c] = << >> /\ results'[c] = << >>
      /\ Len(<< >>) = 0
  BY <1>3, QueryHoldsNothing
<1>5. /\ CycleStepsLeft(c) = StepsLeft(phase[c], f, n, 0, 0)
      /\ CycleStepsLeft(c)' =
           StepsLeft(phase'[c], failedAttempts'[c], Len(todo'[c]), 0, 0)
  BY <1>4 DEF CycleStepsLeft
<1> HIDE DEF f, n
<1>6. CASE RunDiscoveryAndDeployment(c)
  <2>1. /\ phase[c] = "idle" /\ phase'[c] \in {"querying", "skipped"}
        /\ failedAttempts'[c] = f /\ Len(todo'[c]) = n
    BY <1>1, <1>6 DEF RunDiscoveryAndDeployment, InitiateDiscoveryCycle, f, n
  <2> QED BY <1>2, <1>5, <2>1, QueryShrinks
<1>7. CASE QueryAttemptFails(c)
  <2>1. /\ phase[c] = "querying" /\ phase'[c] = "querying" /\ f < MaxRetries
        /\ failedAttempts'[c] = f + 1 /\ Len(todo'[c]) = n
    BY <1>1, <1>7 DEF QueryAttemptFails, cycleVars, f, n
  <2> QED BY <1>2, <1>5, <2>1, QueryShrinks
<1>8. CASE QueryFails(c) \/ NothingFound(c)
  <2>1. phase[c] = "querying" /\ phase'[c] \in {"skipped", "failed"}
    BY <1>1, <1>8 DEF QueryFails, NothingFound
  <2> QED BY <1>2, <1>5, <2>1, QueryShrinks
<1>9. ASSUME NEW pods \in RankedTargets, TargetsFound(c, pods)
      PROVE  0 <= CycleStepsLeft(c)' /\ CycleStepsLeft(c)' < CycleStepsLeft(c)
  <2>1. /\ phase[c] = "querying" /\ phase'[c] \in {"publishing", "creating"}
        /\ todo'[c] = pods
    BY <1>1, <1>9 DEF TargetsFound
  <2>2. Len(pods) \in 0 .. Cardinality(Pods)
    <3>1. PICK m \in 0 .. Cardinality(Pods) : pods \in [1 .. m -> Pods]
      BY Zenon DEF RankedTargets
    <3>2. m \in Nat
      BY <3>1, DeploymentAssumption, FS_CardinalityType
    <3>3. pods \in Seq(Pods) /\ DOMAIN pods = 1 .. m
      BY <3>1, TargetsArePods
    <3>4. Len(pods) = m
      BY <3>2, <3>3
    <3> QED BY <3>4
  <2> QED BY <1>2, <1>5, <2>1, <2>2, QueryShrinks
<1> QED BY <1>1, <1>6, <1>7, <1>8, <1>9 DEF QuerySettles

\* So does every step that deals with its pods and its reports.
LEMMA DeployComesCloser ==
  ASSUME IInv, NEW c \in Cycles, Deploy(c)
  PROVE  0 <= CycleStepsLeft(c)' /\ CycleStepsLeft(c)' < CycleStepsLeft(c)
<1> DEFINE f == failedAttempts[c]
           n == Len(todo[c])
           w == Len(work[c])
           u == Len(results[c])
<1>1. /\ c \in Callers /\ WorkOfCurrentPod(c) /\ TypeOK
      /\ phase \in [Callers -> Phases]
      /\ todo \in [Cycles -> Seq(Pods)] /\ work \in [Cycles -> Seq(Honeytokens)]
      /\ results \in [Cycles -> Seq(Honeytokens)]
  BY DEF IInv, TypeOK, Callers, CycleInv
<1>2. /\ n \in Nat /\ w \in Nat /\ u \in Nat /\ NumSpecs \in Nat
      /\ n = 0 <=> todo[c] = << >>
      /\ w = 0 <=> work[c] = << >>
      /\ u = 0 <=> results[c] = << >>
  <2>1. todo[c] \in Seq(Pods) /\ work[c] \in Seq(Honeytokens) /\ results[c] \in Seq(Honeytokens)
    BY <1>1
  <2> HIDE DEF Honeytokens
  <2> QED BY <2>1, DeploymentAssumption, EmptySeq
<1>3. /\ CycleStepsLeft(c) = StepsLeft(phase[c], f, n, w, u)
      /\ CycleStepsLeft(c)' = StepsLeft(phase'[c], failedAttempts'[c], Len(todo'[c]),
                                        Len(work'[c]), Len(results'[c]))
  BY DEF CycleStepsLeft
<1>4. failedAttempts'[c] = f
  BY DEF Deploy, CreateSucceeds, CreateFails, DeleteSettles, RegisterHoneytoken, PodDone,
         BroadcastRegistryChange, FinishCycle, queryVars
<1>5. phase[c] \in {"creating", "cleaning", "registering"} => n \in Nat \ {0}
  BY <1>1, <1>2 DEF WorkOfCurrentPod
<1> HIDE DEF f, n, w, u
<1>6. CASE CreateSucceeds(c)
  <2>1. /\ phase[c] = "creating" /\ Len(todo'[c]) = n /\ Len(results'[c]) = u
        /\ phase'[c] = IF LastSpec(c) THEN "registering" ELSE "creating"
        /\ work'[c] = Append(work[c], Candidate(c))
    BY <1>1, <1>6 DEF CreateSucceeds, n, u
  <2>2. Len(work'[c]) = w + 1
    <3>1. work[c] \in Seq(Honeytokens) /\ Candidate(c) \in Honeytokens
      BY <1>1, <2>1, CandidateIsHoneytoken
    <3> HIDE DEF Honeytokens
    <3> QED BY <2>1, <3>1 DEF w
  <2>3. w < NumSpecs /\ (LastSpec(c) <=> w + 1 = NumSpecs)
    BY <1>1, <2>1 DEF WorkOfCurrentPod, LastSpec, w
  <2>4. CASE LastSpec(c)
    <3>1. phase'[c] = "registering" /\ w + 1 = NumSpecs
      BY <2>1, <2>3, <2>4
    <3>2. /\ 0 <= StepsLeft("registering", f, n, w + 1, u)
          /\ StepsLeft("registering", f, n, w + 1, u) < StepsLeft("creating", f, n, w, u)
      BY <1>2, <1>5, <2>1, <2>3, <3>1, PodShrinks
    <3> QED BY <1>3, <1>4, <2>1, <2>2, <3>1, <3>2
  <2>5. CASE ~LastSpec(c)
    <3>1. phase'[c] = "creating" /\ w + 1 < NumSpecs
      BY <1>2, <2>1, <2>3, <2>5
    <3>2. /\ 0 <= StepsLeft("creating", f, n, w + 1, u)
          /\ StepsLeft("creating", f, n, w + 1, u) < StepsLeft("creating", f, n, w, u)
      BY <1>2, <1>5, <2>1, <2>3, <3>1, PodShrinks
    <3> QED BY <1>3, <1>4, <2>1, <2>2, <3>1, <3>2
  <2> QED BY <2>4, <2>5
<1>7. CASE CreateFails(c)
  <2>1. /\ phase[c] = "creating" /\ phase'[c] = "cleaning"
        /\ Len(todo'[c]) = n /\ Len(work'[c]) = w /\ Len(results'[c]) = u
    BY <1>1, <1>7 DEF CreateFails, n, w, u
  <2>2. w < NumSpecs /\ n \in Nat \ {0}
    BY <1>1, <1>5, <2>1 DEF WorkOfCurrentPod, w
  <2>3. /\ 0 <= StepsLeft("cleaning", f, n, w, u)
        /\ StepsLeft("cleaning", f, n, w, u) < StepsLeft("creating", f, n, w, u)
    BY <1>2, <2>2, PodShrinks
  <2> QED BY <1>3, <1>4, <2>1, <2>3
<1>8. CASE DeleteSettles(c)
  <2>1. /\ phase[c] = "cleaning" /\ phase'[c] = "cleaning"
        /\ Len(todo'[c]) = n /\ Len(results'[c]) = u
        /\ work[c] # << >> /\ work'[c] = Tail(work[c])
    BY <1>1, <1>8 DEF DeleteSettles, n, u
  <2>2. Len(work'[c]) = w - 1 /\ w # 0
    <3>1. work[c] \in Seq(Honeytokens)
      BY <1>1
    <3> HIDE DEF Honeytokens
    <3> QED BY <1>2, <2>1, <3>1 DEF w
  <2>3. /\ 0 <= StepsLeft("cleaning", f, n, w - 1, u)
        /\ StepsLeft("cleaning", f, n, w - 1, u) < StepsLeft("cleaning", f, n, w, u)
    BY <1>2, <1>5, <2>1, <2>2, PodShrinks
  <2> QED BY <1>3, <1>4, <2>1, <2>2, <2>3
<1>9. CASE RegisterHoneytoken(c)
  <2>1. /\ phase[c] = "registering" /\ phase'[c] = "registering" /\ Len(todo'[c]) = n
        /\ work[c] # << >> /\ work'[c] = Tail(work[c])
        /\ results'[c] = Append(results[c], Head(work[c]))
    BY <1>1, <1>9 DEF RegisterHoneytoken, n
  <2>2. Len(work'[c]) = w - 1 /\ w # 0 /\ Len(results'[c]) = u + 1
    <3>1. /\ work[c] \in Seq(Honeytokens) /\ results[c] \in Seq(Honeytokens)
          /\ Head(work[c]) \in Honeytokens
      BY <1>1, <2>1, WorkElements
    <3> HIDE DEF Honeytokens
    <3> QED BY <1>2, <2>1, <3>1 DEF w, u
  <2>3. /\ 0 <= StepsLeft("registering", f, n, w - 1, u + 1)
        /\ StepsLeft("registering", f, n, w - 1, u + 1) < StepsLeft("registering", f, n, w, u)
    BY <1>2, <1>5, <2>1, <2>2, PodShrinks
  <2> QED BY <1>3, <1>4, <2>1, <2>2, <2>3
<1>10. CASE PodDone(c)
  <2>1. /\ phase[c] \in {"registering", "cleaning"} /\ phase'[c] \in {"publishing", "creating"}
        /\ w = 0 /\ Len(work'[c]) = 0 /\ Len(results'[c]) = u
        /\ todo'[c] = Tail(todo[c])
    BY <1>1, <1>2, <1>10 DEF PodDone, w, u
  <2>2. Len(todo'[c]) = n - 1
    BY <1>1, <1>2, <1>5, <2>1 DEF n
  <2>3. /\ 0 <= StepsLeft(phase'[c], f, n - 1, 0, u)
        /\ StepsLeft(phase'[c], f, n - 1, 0, u) < StepsLeft(phase[c], f, n, 0, u)
    BY <1>2, <1>5, <2>1, <2>2, PodShrinks
  <2> QED BY <1>3, <1>4, <2>1, <2>2, <2>3
<1>11. CASE BroadcastRegistryChange(c)
  <2>1. /\ phase[c] = "publishing" /\ phase'[c] = "publishing"
        /\ results[c] # << >> /\ results'[c] = Tail(results[c])
    BY <1>1, <1>11 DEF BroadcastRegistryChange
  <2>2. Len(results'[c]) = u - 1 /\ u # 0
    <3>1. results[c] \in Seq(Honeytokens)
      BY <1>1
    <3> HIDE DEF Honeytokens
    <3> QED BY <1>2, <2>1, <3>1 DEF u
  <2> QED BY <1>2, <1>3, <2>1, <2>2 DEF StepsLeft
<1>12. CASE FinishCycle(c)
  <2>1. phase[c] = "publishing" /\ phase'[c] = "ended"
    BY <1>1, <1>12 DEF FinishCycle
  <2> QED BY <1>2, <1>3, <2>1 DEF StepsLeft
<1> QED BY <1>6, <1>7, <1>8, <1>9, <1>10, <1>11, <1>12 DEF Deploy

\* A call of runDiscoveryAndDeployment takes at most MostSteps steps, for any
\* number of pods, honeytokens and retries and whatever fails or overlaps: one
\* that does not return waits for an answer of the cluster.
THEOREM EveryCycleWindsDown == Spec => CyclesWindDown
<1> DEFINE Closer == \A c \in Cycles : CycleState(c)' # CycleState(c) =>
                        0 <= CycleStepsLeft(c)' /\ CycleStepsLeft(c)' < CycleStepsLeft(c)
<1>1. IInv /\ [Next]_vars => [Closer]_vars
  <2> SUFFICES ASSUME IInv, Next
               PROVE  Closer
    BY Zenon
  <2> SUFFICES ASSUME NEW d \in Cycles, CycleState(d)' # CycleState(d)
               PROVE  0 <= CycleStepsLeft(d)' /\ CycleStepsLeft(d)' < CycleStepsLeft(d)
    BY Zenon
  <2>1. TypeOK /\ d \in Callers /\ d # Scheduler /\ Scheduler \in Callers
    BY DeploymentAssumption DEF IInv, Callers
  <2>2. ~(StartScheduler \/ StopScheduler)
    BY DEF StartScheduler, StopScheduler, CycleState, cycleVars
  <2>3. ~ScheduledCycle
    BY <2>1 DEF ScheduledCycle, InitiateDiscoveryCycle, CycleState, TypeOK
  <2>4. ASSUME NEW c \in Cycles, RunDiscoveryAndDeployment(c) \/ Deploy(c)
        PROVE  0 <= CycleStepsLeft(d)' /\ CycleStepsLeft(d)' < CycleStepsLeft(d)
    <3>1. c \in Callers
      BY DEF Callers
    <3>2. d = c
      BY <2>1, <2>4, <3>1, OthersWait
    <3> QED BY <2>4, <3>2, QueryComesCloser, DeployComesCloser
  <2>5. ASSUME NEW k \in Callers, QuerySettles(k)
        PROVE  0 <= CycleStepsLeft(d)' /\ CycleStepsLeft(d)' < CycleStepsLeft(d)
    <3>1. d = k
      BY <2>1, <2>5, OthersWait
    <3> QED BY <2>5, <3>1, QueryComesCloser
  <2> QED BY <2>2, <2>3, <2>4, <2>5 DEF Next
<1>2. CyclesWindDown <=> [][Closer]_vars
  BY DEF CyclesWindDown
<1> QED BY <1>1, <1>2, InductiveInvariant, PTL DEF Spec

===========================================================================
