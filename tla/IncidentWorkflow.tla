-------------------------- MODULE IncidentWorkflow --------------------------
(***************************************************************************)
(* processAccessEvent (agent/workflow.ts) with everything it awaits:       *)
(* assessment, the response executor and its retries and alerts            *)
(* (agent/response-executor.ts), the report generator, the learning        *)
(* feedback loop and the broadcasts to Dynatrace.  connectEventFlow starts *)
(* one call per access event and does not wait for it, so the calls        *)
(* interleave at every await; they share the registry, the cluster, the    *)
(* audit log and the training dataset.                                     *)
(*                                                                         *)
(* The alert that accompanies a retry is sent from a callback whose        *)
(* promise nobody awaits (utils/retry.ts:112): if it is rejected, Node     *)
(* ends the process on the unhandled rejection.                            *)
(***************************************************************************)
EXTENDS ThreatClassifier, K8sResponse, HoneytokenRegistry, FiniteSets

CONSTANTS
    Events,             \* access events
    Accesses,           \* where files may be accessed: a path of a pod of a namespace
    Deployed,           \* the entries of the honeytoken registry, in order
    Contexts,           \* the pod contexts that Dynatrace may answer with
    MaxRetries,         \* retries of an isolation or a block
    MaxReportRetries    \* retries of a report generation

NoPath == "none"
NoNamespace == "none"
NoEvent == "none"

\* What registerHoneytoken adds to the registry.
NewEntry(id, pod, path) ==
    [id |-> id, pod |-> pod, path |-> path, status |-> "active",
     lastAccess |-> NoEvent, accessCount |-> 0]

ASSUME WorkflowAssumption ==
    /\ IsFiniteSet(Events)
    /\ Accesses \subseteq [namespace : {access.namespace : access \in Accesses},
                           pod : Pods, path : {access.path : access \in Accesses}]
    /\ Deployed \in Seq(Range(Deployed))
    /\ \A i \in DOMAIN Deployed :
          Deployed[i] = NewEntry(Deployed[i].id, Deployed[i].pod, Deployed[i].path)
    /\ \A i, j \in DOMAIN Deployed : Deployed[i].id = Deployed[j].id => i = j
    /\ MaxRetries \in Nat /\ MaxReportRetries \in Nat

VARIABLES
    call,           \* the local variables of each processAccessEvent
    registry,       \* the honeytoken registry (HoneytokenRegistry)
    auditLog,       \* what has been logged about each event
    storedReports,  \* events with a stored forensic report
    dataset,        \* events whose outcome the trainer has ingested
    timelines,      \* finalOutcome of each incident timeline entry
    floatingAlert,  \* a retry alert of some call has not settled
    running,        \* the process is alive
    \* history, which the code does not keep
    alerted         \* the exhaustion alerts that were delivered

agentVars == <<registry, auditLog, storedReports, dataset, timelines>>
vars == <<call, clusterVars, agentVars, floatingAlert, running, alerted>>

ActionTypes == {"pod_isolation", "ip_block", "additional_honeytokens"}

\* buildActions, in the priority order in which executeResponse runs them.
PlannedActions(class) ==
    CASE class \in {"high", "critical"} ->
           <<"pod_isolation", "ip_block", "additional_honeytokens">>
      [] class = "medium" -> <<"additional_honeytokens">>
      [] OTHER -> << >>

AllSucceeded(results) == \A k \in DOMAIN results : results[k].result = "success"

NoCall == [at |-> "new", namespace |-> NoNamespace, pod |-> NoPod, path |-> NoPath,
           answer |-> NoContext, class |-> "none", todo |-> << >>, attempt |-> 0, results |-> << >>]

---------------------------------------------------------------------------
Init ==
    /\ ClusterInit
    /\ call = [e \in Events |-> NoCall]
    /\ registry = Deployed
    /\ auditLog = {}
    /\ storedReports = {}
    /\ dataset = {}
    /\ timelines = [e \in Events |-> "none"]
    /\ floatingAlert = FALSE
    /\ running = TRUE
    /\ alerted = {}

At(e, places) == running /\ call[e].at \in places

\* connectEventFlow's callback: the call starts and queries the pod context.
Receive(e, access) ==
    /\ At(e, {"new"})
    /\ call' = [call EXCEPT ![e].at = "assess", ![e].namespace = access.namespace,
                            ![e].pod = access.pod, ![e].path = access.path]
    /\ UNCHANGED <<clusterVars, agentVars, floatingAlert, running, alerted>>

\* The context arrives or is given up: classify, and broadcast the access event.
Assess(e) ==
    /\ At(e, {"assess"})
    /\ \E answer \in Contexts \cup {NoContext} :
          call' = [call EXCEPT ![e].at = "announce", ![e].answer = answer,
                              ![e].class = AssessThreat(answer)]
    /\ UNCHANGED <<clusterVars, agentVars, floatingAlert, running, alerted>>

\* The registry after event e was recorded for the entry at position i.
Triggered(i, e) ==
    RecordAccess(UpdateStatus(registry, registry[i].id, "triggered"), registry[i].id, e)

\* Fault: an access is credited to an entry that is still active, if any.
MarkTriggeredActive(e, pod, path) ==
    LET active == {i \in PlacedAt(registry, pod, path) : registry[i].status = "active"}
    IN  IF active = {} THEN registry ELSE Triggered(CHOOSE i \in active : TRUE, e)

\* The first entry for the path of the pod, if any, is marked as triggered.
MarkTriggered(e, pod, path) ==
    IF PlacedAt(registry, pod, path) = {} THEN registry
    ELSE Triggered(FirstPlacedAt(registry, pod, path), e)

\* Mark the honeytoken, plan, and start the first action, if there is one.
Announced(e) ==
    LET c == call[e]
        actions == PlannedActions(c.class)
    IN  /\ At(e, {"announce"})
        /\ registry' = MarkTriggered(e, c.pod, c.path)
        /\ call' = [call EXCEPT ![e].todo = actions,
                                ![e].at = IF actions = << >> THEN "report" ELSE "act"]
        /\ UNCHANGED <<clusterVars, auditLog, storedReports, dataset, timelines,
                       floatingAlert, running, alerted>>

\* What a call to Kubernetes or Koney does when it is carried out.
TakesEffect(action, p) ==
    CASE action = "pod_isolation" -> IsolatePod(p)
      [] action = "ip_block" -> BlockIp(p)
      [] OTHER -> UNCHANGED clusterVars

\* Fault: after a failure the rest of the plan is skipped.
RecordStopping(e, result) ==
    LET c == call[e]
    IN  /\ call' = [call EXCEPT
              ![e].results = Append(@, [type |-> Head(c.todo), result |-> result]),
              ![e].todo = Tail(@),
              ![e].attempt = 0,
              ![e].at = IF Len(c.todo) = 1 \/ result = "failure" THEN "publish" ELSE "act"]
        /\ auditLog' = auditLog \cup {<<e, Head(c.todo)>>}

\* Fault: only what succeeded is audited.
RecordAuditingSuccess(e, result) ==
    LET c == call[e]
    IN  /\ call' = [call EXCEPT
              ![e].results = Append(@, [type |-> Head(c.todo), result |-> result]),
              ![e].todo = Tail(@),
              ![e].attempt = 0,
              ![e].at = IF Len(c.todo) = 1 THEN "publish" ELSE "act"]
        /\ auditLog' = IF result = "success" THEN auditLog \cup {<<e, Head(c.todo)>>} ELSE auditLog

\* executeSingleAction returns: audit the action and go on to the next one.
Record(e, result) ==
    LET c == call[e]
    IN  /\ call' = [call EXCEPT
              ![e].results = Append(@, [type |-> Head(c.todo), result |-> result]),
              ![e].todo = Tail(@),
              ![e].attempt = 0,
              ![e].at = IF Len(c.todo) = 1 THEN "publish" ELSE "act"]
        /\ auditLog' = auditLog \cup {<<e, Head(c.todo)>>}

ActionSucceeds(e) ==
    /\ At(e, {"act"})
    /\ TakesEffect(Head(call[e].todo), call[e].pod)
    /\ Record(e, "success")
    /\ UNCHANGED <<registry, storedReports, dataset, timelines, floatingAlert,
                   running, alerted>>

\* Fault: giving up after the retries is forgotten to be a failure.
GiveUpQuietly(e) == Record(e, "success") /\ UNCHANGED floatingAlert

\* After the last retry the exhaustion alert is awaited; a failed honeytoken
\* deployment is not retried and not alerted.
GiveUp(e) ==
    /\ \/ /\ Head(call[e].todo) = "additional_honeytokens"
          /\ Record(e, "failure")
       \/ /\ Head(call[e].todo) # "additional_honeytokens"
          /\ call' = [call EXCEPT ![e].at = "escalate"]
          /\ UNCHANGED auditLog
    /\ UNCHANGED floatingAlert

\* Fault: the retries are not counted down.
RetriableForever(e) == Head(call[e].todo) # "additional_honeytokens"

Retriable(e) ==
    Head(call[e].todo) # "additional_honeytokens" /\ call[e].attempt < MaxRetries

\* A call is rejected, although it may have been carried out.
ActionFails(e) ==
    /\ At(e, {"act"})
    /\ TakesEffect(Head(call[e].todo), call[e].pod) \/ UNCHANGED clusterVars
    /\ \/ /\ Retriable(e)
          /\ call' = [call EXCEPT ![e].at = "sleep"]
          /\ floatingAlert' = TRUE
          /\ UNCHANGED auditLog
       \/ ~Retriable(e) /\ GiveUp(e)
    /\ UNCHANGED <<registry, storedReports, dataset, timelines, running, alerted>>

WakeUp(e) ==
    /\ At(e, {"sleep"})
    /\ call' = [call EXCEPT ![e].at = "act", ![e].attempt = @ + 1]
    /\ UNCHANGED <<clusterVars, agentVars, floatingAlert, running, alerted>>

\* The last retry alert in the air was delivered.
RetryAlertDelivered ==
    /\ running /\ floatingAlert
    /\ floatingAlert' = FALSE
    /\ UNCHANGED <<call, clusterVars, agentVars, running, alerted>>

\* The unhandled rejection ends the process, and with it every call in progress.
RetryAlertRejected ==
    /\ running /\ floatingAlert
    /\ running' = FALSE
    /\ UNCHANGED <<call, clusterVars, agentVars, floatingAlert, alerted>>

ExhaustionAlertDelivered(e) ==
    /\ At(e, {"escalate"})
    /\ alerted' = alerted \cup {<<e, Head(call[e].todo)>>}
    /\ Record(e, "failure")
    /\ UNCHANGED <<clusterVars, registry, storedReports, dataset, timelines,
                   floatingAlert, running>>

\* processAccessEvent is rejected; connectEventFlow logs that and nothing else.
Abort(e) ==
    /\ call' = [call EXCEPT ![e].at = "failed"]
    /\ auditLog' = auditLog \cup {<<e, "assessment">>}
    /\ UNCHANGED <<registry, storedReports, dataset, timelines>>

\* Fault: a rejected alert is caught and forgotten.
ExhaustionAlertSwallowed(e) ==
    /\ At(e, {"escalate"})
    /\ Record(e, "failure")
    /\ UNCHANGED <<clusterVars, registry, storedReports, dataset, timelines,
                   floatingAlert, running, alerted>>

\* The exception leaves executeResponse: the later actions are not executed.
ExhaustionAlertRejected(e) ==
    /\ At(e, {"escalate"})
    /\ Abort(e)
    /\ UNCHANGED <<clusterVars, floatingAlert, running, alerted>>

\* broadcastResponseAction of every action; none of the broadcasts can fail.
Publish(e) ==
    /\ At(e, {"publish"})
    /\ call' = [call EXCEPT ![e].at = "report"]
    /\ UNCHANGED <<clusterVars, agentVars, floatingAlert, running, alerted>>

ReportGenerated(e) ==
    /\ At(e, {"report"})
    /\ storedReports' = storedReports \cup {e}
    /\ call' = [call EXCEPT ![e].at = "publishReport", ![e].attempt = 0]
    /\ UNCHANGED <<clusterVars, registry, auditLog, dataset, timelines,
                   floatingAlert, running, alerted>>

\* Gemini fails or times out: wait for the next attempt, or give up altogether.
ReportFails(e) ==
    /\ At(e, {"report"})
    /\ \/ /\ call[e].attempt < MaxReportRetries
          /\ call' = [call EXCEPT ![e].at = "reportPause"]
          /\ UNCHANGED agentVars
       \/ /\ call[e].attempt = MaxReportRetries
          /\ Abort(e)
    /\ UNCHANGED <<clusterVars, floatingAlert, running, alerted>>

\* Fault: the attempts are not counted.
ReportRetryUncounted(e) ==
    /\ At(e, {"reportPause"})
    /\ call' = [call EXCEPT ![e].at = "report"]
    /\ UNCHANGED <<clusterVars, agentVars, floatingAlert, running, alerted>>

ReportRetry(e) ==
    /\ At(e, {"reportPause"})
    /\ call' = [call EXCEPT ![e].at = "report", ![e].attempt = @ + 1]
    /\ UNCHANGED <<clusterVars, agentVars, floatingAlert, running, alerted>>

\* submitOutcome: the trainer rejects an outcome without actions, and the
\* workflow swallows the rejection.
SubmitOutcome(e) ==
    IF call[e].results = << >>
    THEN UNCHANGED <<dataset, auditLog>>
    ELSE /\ dataset' = dataset \cup {e}
         /\ auditLog' = auditLog \cup {<<e, "learning">>}

\* Fault: the timeline reports containment when any action succeeded.
FinalOutcomeOfAny(results) ==
    IF results = << >> \/ \E k \in DOMAIN results : results[k].result = "success"
    THEN "contained" ELSE "escalated"

FinalOutcome(results) == IF AllSucceeded(results) THEN "contained" ELSE "escalated"

\* The report is broadcast: submit the outcome and broadcast the timeline.
ReportPublished(e) ==
    /\ At(e, {"publishReport"})
    /\ SubmitOutcome(e)
    /\ timelines' = [timelines EXCEPT ![e] = FinalOutcome(call[e].results)]
    /\ call' = [call EXCEPT ![e].at = "timeline"]
    /\ UNCHANGED <<clusterVars, registry, storedReports, floatingAlert, running, alerted>>

Complete(e) ==
    /\ At(e, {"timeline"})
    /\ auditLog' = auditLog \cup {<<e, "response">>}
    /\ call' = [call EXCEPT ![e].at = "done"]
    /\ UNCHANGED <<clusterVars, registry, storedReports, dataset, timelines,
                   floatingAlert, running, alerted>>

\* Steps that a timer or the bounded delivery of the broadcasts guarantees.
TimedStep(e) ==
    \/ Assess(e) \/ Announced(e) \/ WakeUp(e) \/ Publish(e)
    \/ ReportGenerated(e) \/ ReportFails(e) \/ ReportRetry(e)
    \/ ReportPublished(e) \/ Complete(e)

\* Steps that wait for Kubernetes, Koney or the alert channel.
UntimedStep(e) ==
    \/ ActionSucceeds(e) \/ ActionFails(e)
    \/ ExhaustionAlertDelivered(e) \/ ExhaustionAlertRejected(e)

\* Every event has been dealt with, or the process has ended.
Finished ==
    /\ ~running \/ \A e \in Events : call[e].at \in {"done", "failed"}
    /\ UNCHANGED vars

Next ==
    \/ \E e \in Events : (\E access \in Accesses : Receive(e, access)) \/ TimedStep(e) \/ UntimedStep(e)
    \/ RetryAlertDelivered \/ RetryAlertRejected
    \/ Finished

Spec == Init /\ [][Next]_vars

\* No call to Kubernetes, Koney or the alert channel has a timeout, so only
\* the timed steps are fair.
FairSpec == Spec /\ \A e \in Events : WF_vars(TimedStep(e))

---------------------------------------------------------------------------
Places == {"new", "assess", "announce", "act", "sleep", "escalate", "publish",
           "report", "reportPause", "publishReport", "timeline", "done", "failed"}

LargestAttempt == IF MaxRetries >= MaxReportRetries THEN MaxRetries ELSE MaxReportRetries

Results == [type : ActionTypes, result : {"success", "failure"}]

Calls ==
    [at : Places,
     namespace : {access.namespace : access \in Accesses} \cup {NoNamespace},
     pod : Pods \cup {NoPod},
     path : {access.path : access \in Accesses} \cup {NoPath},
     answer : Contexts \cup {NoContext}, class : Classifications \cup {"none"},
     todo : Seq(ActionTypes), attempt : 0 .. LargestAttempt, results : Seq(Results)]

Entries ==
    [id : {entry.id : entry \in Range(Deployed)},
     pod : {entry.pod : entry \in Range(Deployed)},
     path : {entry.path : entry \in Range(Deployed)},
     status : {"active", "triggered"}, lastAccess : Events \cup {NoEvent},
     accessCount : Nat]

\* Type invariant of the calls in progress and of what they share.
TypeOK ==
    /\ ClusterTypeOK
    /\ call \in [Events -> Calls]
    /\ registry \in [DOMAIN Deployed -> Entries]
    /\ auditLog \subseteq Events \X (ActionTypes \cup {"assessment", "learning", "response"})
    /\ storedReports \subseteq Events
    /\ dataset \subseteq Events
    /\ timelines \in [Events -> {"none", "contained", "escalated"}]
    /\ floatingAlert \in BOOLEAN
    /\ running \in BOOLEAN
    /\ alerted \subseteq Events \X ActionTypes

Severe(e) == call[e].class \in {"high", "critical"}

\* The pod that was accessed is one that the policies can select.
InReach(e) == Selectable(call[e].namespace, call[e].pod)

\* A high or critical incident in a pod that policies can select is reported as
\* contained (workflow.ts:205) only if a policy isolates that very pod
\* (k8s-response.ts:27), and one blocks it: whatever was retried, rejected after
\* it took effect, or found to exist.  In any other pod, that is, outside the
\* namespace `default' (k8s-response.ts:30) or of no StatefulSet, an incident is
\* reported as contained although nothing isolates it.
ContainedMeansIsolated ==
    \A e \in Events :
        timelines[e] = "contained" /\ Severe(e) /\ InReach(e) =>
            /\ Isolated(call[e].namespace, call[e].pod)
            /\ Blocked(call[e].namespace, call[e].pod)

\* An isolation or a block is recorded as failed only after an alert that all its
\* retries are exhausted was delivered (response-executor.ts:176, :216); the one
\* about an isolation also asks for manual intervention.
FailuresWereAlerted ==
    \A e \in Events : \A k \in DOMAIN call[e].results :
        LET r == call[e].results[k]
        IN  r.result = "failure" /\ r.type # "additional_honeytokens" =>
                <<e, r.type>> \in alerted

ExecutedActions(e) == [k \in DOMAIN call[e].results |-> call[e].results[k].type]

\* An incident that is reported, learned from or put on the timeline has been
\* through its whole plan, in priority order, with every action audited: no
\* failure, retry or lost alert on the way cuts the plan short unnoticed.
ReportedMeansWholePlan ==
    \A e \in Events :
        e \in storedReports \cup dataset \/ timelines[e] # "none" =>
            /\ ExecutedActions(e) = PlannedActions(call[e].class)
            /\ \A k \in DOMAIN ExecutedActions(e) : <<e, ExecutedActions(e)[k]>> \in auditLog

\* The assessed accesses that the entry at position i has to count: those to its
\* place, unless an older entry counts them.
Counted(e) == call[e].at \notin {"new", "assess", "announce"}

Marked(i) ==
    LET pod == Deployed[i].pod
        path == Deployed[i].path
    IN  {e \in Events :
            /\ Counted(e) /\ call[e].pod = pod /\ call[e].path = path
            /\ \A j \in PlacedAt(Deployed, pod, path) : i <= j}

\* However the calls interleave, the assessed events about a path of a pod are
\* counted by its oldest entry (workflow.ts:130), which is triggered from the
\* first on and remembers one of them; the entries that later cycles added for
\* the same path stay active and count nothing.  Pods are told apart by their
\* ids alone, so accesses to a namesake in another namespace count as well.
AccessesAreCounted ==
    \A i \in DOMAIN registry :
        /\ registry[i].accessCount = Cardinality(Marked(i))
        /\ registry[i].status = IF Marked(i) = {} THEN "active" ELSE "triggered"
        /\ registry[i].lastAccess \in IF Marked(i) = {} THEN {NoEvent} ELSE Marked(i)

\* Every access event is dealt with to the end, or its failure is logged,
\* unless the process ends or a call without a timeout never returns.
IncidentsAreClosed ==
    \A e \in Events :
        call[e].at = "assess" ~>
            \/ call[e].at = "done" /\ <<e, "response">> \in auditLog
            \/ call[e].at = "failed" /\ <<e, "assessment">> \in auditLog
            \/ ~running
            \/ [](call[e].at \in {"act", "escalate"})

Begun(e) ==
    {call[e].results[k].type : k \in DOMAIN call[e].results}
      \cup IF call[e].todo = << >> THEN {} ELSE {Head(call[e].todo)}

\* An incident that is over has an audit entry for each action that was begun,
\* except the isolation or block whose exhaustion alert was rejected: what the
\* audit log lacks, no operator was told either (response-executor.ts:134).
UnauditedWereNotAlerted ==
    \A e \in Events : call[e].at \in {"done", "failed"} =>
        \A a \in Begun(e) : <<e, a>> \notin auditLog =>
            /\ call[e].at = "failed" /\ a = Head(call[e].todo)
            /\ a # "additional_honeytokens" /\ <<e, a>> \notin alerted

\* An upper bound on the steps that a call still takes.  An isolation or a block
\* takes MaxRetries + 1 attempts, the pauses between them and an alert; the rest of
\* the plan is one attempt; a report takes MaxReportRetries + 1 attempts, the
\* pauses between them, two broadcasts and the broadcasts before it.
ContainmentSteps == 2 * MaxRetries + 2
ReportingSteps == 2 * MaxReportRetries + 4
MostSteps == 2 * ContainmentSteps + ReportingSteps + 4

StepsOfAction(c) ==
    IF c.at = "escalate" \/ Len(c.todo) = 1 THEN 1
    ELSE 2 * (MaxRetries - c.attempt) + IF c.at = "act" THEN 2 ELSE 1

StepsOfLaterActions(c) ==
    IF Len(c.todo) = 1 THEN 0
    ELSE IF Len(c.todo) = 2 THEN 1 ELSE ContainmentSteps + 1

StepsLeft(c) ==
    CASE c.at = "new" -> MostSteps
      [] c.at = "assess" -> MostSteps - 1
      [] c.at = "announce" -> MostSteps - 2
      [] c.at \in {"act", "sleep", "escalate"} ->
           StepsOfAction(c) + StepsOfLaterActions(c) + ReportingSteps
      [] c.at = "publish" -> ReportingSteps
      [] c.at = "report" -> 2 * (MaxReportRetries - c.attempt) + 3
      [] c.at = "reportPause" -> 2 * (MaxReportRetries - c.attempt) + 2
      [] c.at = "publishReport" -> 2
      [] c.at = "timeline" -> 1
      [] OTHER -> 0

\* Whatever fails, is retried or interleaves, each step of a call brings it
\* closer to its end: no incident takes more than MostSteps steps, and one that
\* does not end waits for an answer from outside (workflow.ts:119).
CallsWindDown ==
    [][\A e \in Events : call'[e] # call[e] =>
           0 <= StepsLeft(call'[e]) /\ StepsLeft(call'[e]) < StepsLeft(call[e])]_vars

\* What the header of executeResponse says: all actions are logged to the audit
\* log (response-executor.ts:51), that is, every action that was executed has
\* its entry once the incident is over.
ExecutedActionsAreAudited ==
    \A e \in Events :
        call[e].at \in {"done", "failed"} => \A a \in Begun(e) : <<e, a>> \in auditLog

\* What the design says of incomplete contexts (design.md:933): assuming the
\* worst of every missing field, a threat is never graded below what the
\* context with those defaults comes to.
NeverUnderClassified ==
    \A e \in Events :
        call[e].class # "none" /\ call[e].answer # NoContext =>
            Severity(call[e].class) >= Severity(ClassifyThreatWithDefaults(call[e].answer))

---------------------------------------------------------------------------
\* Strengthening of the properties above to an inductive invariant.

Acting == {"act", "sleep", "escalate"}
Reporting == {"publish", "report", "reportPause", "publishReport", "timeline", "done"}

AccessedPods == {<<access.namespace, access.pod>> : access \in Accesses}

\* What was done and what is left to do are together the plan of the class.
OnPlan(c) ==
    LET plan == PlannedActions(c.class)
        n == Len(c.results)
    IN  /\ c.at = "new" \/ c.pod \in Pods
        /\ c.at = "new" \/ <<c.namespace, c.pod>> \in AccessedPods
        /\ c.class = "none" <=> c.at \in {"new", "assess"}
        /\ c.at \in {"new", "assess", "announce"} => c.results = << >>
        /\ c.at \in Acting => c.todo # << >>
        /\ c.at \in Reporting => c.todo = << >>
        /\ c.at \in Acting \cup Reporting =>
              /\ Len(plan) = n + Len(c.todo)
              /\ \A k \in 1 .. n : c.results[k].type = plan[k]
              /\ \A k \in 1 .. Len(c.todo) : c.todo[k] = plan[n + k]
        /\ c.at = "sleep" => c.attempt < MaxRetries
        /\ c.at = "reportPause" => c.attempt < MaxReportRetries

\* An action that returned has its audit entry.
ActionsAreAudited ==
    \A e \in Events : \A k \in DOMAIN call[e].results :
        <<e, call[e].results[k].type>> \in auditLog

\* Reports, outcomes and timelines come after the response and tell its result.
OutcomesAreReported ==
    \A e \in Events :
        /\ e \in storedReports \cup dataset =>
              call[e].at \in {"publishReport", "timeline", "done"}
        /\ timelines[e] # "none" =>
              /\ call[e].at \in {"timeline", "done"}
              /\ timelines[e] = FinalOutcome(call[e].results)

\* The entries of the registry stay where and what they are.
RegistryKeepsPlaces ==
    \A i \in DOMAIN Deployed :
        /\ registry[i].id = Deployed[i].id
        /\ registry[i].pod = Deployed[i].pod
        /\ registry[i].path = Deployed[i].path

IInv ==
    /\ TypeOK
    /\ \A e \in Events : OnPlan(call[e])
    /\ ActionsAreAudited
    /\ FailuresWereAlerted
    /\ OutcomesAreReported
    /\ RegistryKeepsPlaces
    /\ AccessesAreCounted

\* The attempts are counted within the limits of what is being attempted.
AttemptsCounted(c) ==
    /\ c.at \in {"new", "assess", "announce", "publish"} => c.attempt = 0
    /\ c.at = "act" => c.attempt <= MaxRetries
    /\ c.at = "report" => c.attempt <= MaxReportRetries

\* A call that failed keeps what was done and what was not, and what it gave up
\* is no deployment of honeytokens.
FailedOnPlan(c) ==
    LET plan == PlannedActions(c.class)
        n == Len(c.results)
    IN  /\ c.at = "failed" =>
              /\ Len(plan) = n + Len(c.todo)
              /\ \A k \in 1 .. n : c.results[k].type = plan[k]
              /\ \A k \in 1 .. Len(c.todo) : c.todo[k] = plan[n + k]
        /\ c.at \in {"sleep", "escalate", "failed"} /\ c.todo # << >> =>
              Head(c.todo) # "additional_honeytokens"

\* An alert that was delivered is about an action that has returned.
AlertsAreOfResults ==
    \A e \in Events, a \in ActionTypes : <<e, a>> \in alerted =>
        \E k \in DOMAIN call[e].results : call[e].results[k].type = a

CallInv ==
    /\ \A e \in Events : AttemptsCounted(call[e]) /\ FailedOnPlan(call[e])
    /\ AlertsAreOfResults

\* Pod ids that differ do so in the part that names their policies.
DistinctNames ==
    \A p, q \in Pods : PolicyName(p) = PolicyName(q) => p = q

\* No pod that is accessed elsewhere has the id of a pod that policies can select:
\* the policies made for the one would select the other.
NoNamesakes ==
    \A access \in Accesses :
        access.pod \in LabelledPods => access.namespace = PolicyNamespace

\* With distinct names a policy selects by the id it is named after, and an action
\* that returned success left such a policy, whatever already existed.
PoliciesFitTheirNames ==
    \A n \in PolicyNames :
        /\ isolationPolicy[n] # NoPod => PolicyName(isolationPolicy[n]) = n
        /\ blockPolicy[n] # NoPod => PolicyName(blockPolicy[n]) = n

SuccessTookEffect ==
    \A e \in Events : \A k \in DOMAIN call[e].results :
        LET r == call[e].results[k]
        IN  r.result = "success" =>
                /\ r.type = "pod_isolation" => Targeted(isolationPolicy, call[e].pod)
                /\ r.type = "ip_block" => Targeted(blockPolicy, call[e].pod)

EffectInv == PoliciesFitTheirNames /\ SuccessTookEffect

---------------------------------------------------------------------------
\* Incidents in terms of what the agent promises about them.
IncidentState ==
    [e \in Events |-> IF call[e].at = "new" THEN "unknown"
                      ELSE IF call[e].at = "failed" THEN "aborted"
                      ELSE IF timelines[e] = "none" THEN "open"
                      ELSE timelines[e]]

\* A measure is about the pod with an id in the namespace of the policies.  An
\* incident in a pod that no policy can select calls for none of these.
IncidentNeeds ==
    [e \in Events |-> IF Severe(e) /\ InReach(e)
                      THEN {"pod_isolation", "ip_block"} \X {call[e].pod} ELSE {}]

MeasuresInEffect ==
    ({"pod_isolation"} \X {p \in Pods : Isolated(PolicyNamespace, p)})
      \cup ({"ip_block"} \X {p \in Pods : Blocked(PolicyNamespace, p)})

Promise == INSTANCE IncidentResponse WITH
              Incidents <- Events,
              Measures <- {"pod_isolation", "ip_block"} \X Pods,
              state <- IncidentState,
              needs <- IncidentNeeds,
              inEffect <- MeasuresInEffect

\* For the pods that policies can select, the workflow keeps the promise of
\* IncidentResponse: incidents close once, containment claims are true, only pods
\* of open incidents are isolated or blocked, and measures are never undone.
ImplementsIncidentResponse == Promise!Spec
===========================================================================
