----------------------- MODULE IncidentWorkflowProofs -----------------------
(***************************************************************************)
(* For every set of events, pods, honeytokens and contexts, and any number *)
(* of retries: the safety properties of IncidentWorkflow; when pod ids     *)
(* have distinct policy names, that incidents which are reported as        *)
(* contained are, in the pods that policies can select; and, when no pod   *)
(* has a namesake among these, that the workflow implements                *)
(* IncidentResponse for them.                                              *)
(***************************************************************************)
EXTENDS IncidentWorkflow, SequenceFilterLemmas

LEMMA GradesAreClasses ==
  ASSUME NEW answer
  PROVE  AssessThreat(answer) \in Classifications
BY DEF AssessThreat, ClassifyThreatWithDefaults, ClassifyThreat, Classifications

LEMMA PlanType ==
  ASSUME NEW class
  PROVE  PlannedActions(class) \in Seq(ActionTypes)
<1>1. ActionTypes = {"pod_isolation", "ip_block", "additional_honeytokens"}
  BY DEF ActionTypes
<1>2. CASE class \in {"high", "critical"}
  <2>1. PlannedActions(class) = <<"pod_isolation", "ip_block", "additional_honeytokens">>
    BY <1>2 DEF PlannedActions
  <2> QED BY <1>1, <2>1
<1>3. CASE class = "medium"
  <2>1. PlannedActions(class) = <<"additional_honeytokens">>
    BY <1>3 DEF PlannedActions
  <2> QED BY <1>1, <2>1
<1>4. CASE class \notin {"high", "critical", "medium"}
  <2>1. PlannedActions(class) = << >>
    BY <1>4 DEF PlannedActions
  <2> QED BY <2>1
<1> QED BY <1>2, <1>3, <1>4

LEMMA AttemptType ==
  /\ LargestAttempt \in Nat /\ MaxRetries \in Nat /\ MaxReportRetries \in Nat
  /\ MaxRetries <= LargestAttempt /\ MaxReportRetries <= LargestAttempt
BY WorkflowAssumption DEF LargestAttempt

\* The call c at another place, or at another attempt.
Moved(c, at, n) == [c EXCEPT !.at = at, !.attempt = n]

LEMMA MovedFields ==
  ASSUME NEW c \in Calls, NEW at \in Places, NEW n \in 0 .. LargestAttempt
  PROVE  /\ Moved(c, at, n) \in Calls
         /\ Moved(c, at, n).at = at /\ Moved(c, at, n).attempt = n
         /\ Moved(c, at, n).pod = c.pod /\ Moved(c, at, n).path = c.path
         /\ Moved(c, at, n).namespace = c.namespace
         /\ Moved(c, at, n).answer = c.answer /\ Moved(c, at, n).class = c.class
         /\ Moved(c, at, n).todo = c.todo /\ Moved(c, at, n).results = c.results
<1>1. Moved(c, at, n) \in Calls
  BY DEF Moved, Calls
<1> QED BY <1>1 DEF Moved, Calls

---------------------------------------------------------------------------
(* The parts of a step                                                     *)

CallsOK == call \in [Events -> Calls] /\ \A e \in Events : OnPlan(call[e])

\* One call moves on, the others stay.
LEMMA CallReplaced ==
  ASSUME CallsOK, NEW e \in Events, NEW c \in Calls, OnPlan(c),
         call' = [call EXCEPT ![e] = c]
  PROVE  /\ CallsOK'
         /\ call'[e] = c
         /\ \A d \in Events : d # e => call'[d] = call[d]
<1>1. call' \in [Events -> Calls] /\ call'[e] = c
      /\ \A d \in Events : d # e => call'[d] = call[d]
  BY DEF CallsOK
<1>2. \A d \in Events : OnPlan(call'[d])
  BY <1>1 DEF CallsOK
<1> QED BY <1>1, <1>2 DEF CallsOK

\* Results that stay are audited and alerted as before.
LEMMA SameResults ==
  ASSUME ActionsAreAudited, FailuresWereAlerted,
         \A d \in Events : call'[d].results = call[d].results,
         auditLog \subseteq auditLog', alerted \subseteq alerted'
  PROVE  ActionsAreAudited' /\ FailuresWereAlerted'
BY DEF ActionsAreAudited, FailuresWereAlerted

\* The registry is right as long as it and the calls it counts stay as they are.
LEMMA SameCounts ==
  ASSUME RegistryKeepsPlaces, AccessesAreCounted, registry' = registry,
         \A d \in Events :
            /\ Counted(d)' <=> Counted(d)
            /\ Counted(d) => call'[d].pod = call[d].pod /\ call'[d].path = call[d].path
  PROVE  RegistryKeepsPlaces' /\ AccessesAreCounted'
<1>1. \A i \in DOMAIN registry : Marked(i)' = Marked(i)
  BY DEF Marked
<1>2. RegistryKeepsPlaces'
  BY DEF RegistryKeepsPlaces
<1> QED BY <1>1, <1>2 DEF AccessesAreCounted

\* What a step has to keep besides the types of the other variables and the
\* outcomes.
CoreInv ==
    /\ CallsOK
    /\ ActionsAreAudited /\ FailuresWereAlerted
    /\ RegistryKeepsPlaces /\ AccessesAreCounted

\* A call that is responding or reporting goes on, or fails.
LEMMA MoveStep ==
  ASSUME CoreInv, NEW e \in Events, NEW at \in Places, NEW n \in 0 .. LargestAttempt,
         call' = [call EXCEPT ![e] = Moved(call[e], at, n)],
         \/ call[e].at \in Acting /\ at \in Acting \cup {"failed"}
         \/ call[e].at \in Reporting /\ at \in Reporting \cup {"failed"},
         at = "sleep" => n < MaxRetries,
         at = "reportPause" => n < MaxReportRetries,
         registry' = registry, auditLog \subseteq auditLog', alerted' = alerted
  PROVE  /\ CoreInv'
         /\ call'[e].at = at /\ call'[e].results = call[e].results
         /\ call'[e].class = call[e].class /\ call'[e].pod = call[e].pod
         /\ call'[e].namespace = call[e].namespace
         /\ \A d \in Events : d # e => call'[d] = call[d]
<1> DEFINE c == Moved(call[e], at, n)
<1>1. call[e] \in Calls /\ OnPlan(call[e])
  BY DEF CoreInv, CallsOK
<1>2. /\ c \in Calls /\ c.at = at /\ c.attempt = n /\ c.pod = call[e].pod
      /\ c.namespace = call[e].namespace
      /\ c.path = call[e].path /\ c.class = call[e].class
      /\ c.todo = call[e].todo /\ c.results = call[e].results
  BY <1>1, MovedFields
<1> HIDE DEF c
<1>3. OnPlan(c)
  BY <1>1, <1>2 DEF OnPlan, Acting, Reporting
<1>4. call' = [call EXCEPT ![e] = c]
  BY DEF c
<1>7. CallsOK' /\ call'[e] = c /\ \A d \in Events : d # e => call'[d] = call[d]
  BY <1>2, <1>3, <1>4, CallReplaced DEF CoreInv
<1>8. \A d \in Events : call'[d].results = call[d].results
  BY <1>2, <1>7
<1>9. ActionsAreAudited' /\ FailuresWereAlerted'
  BY <1>8, SameResults DEF CoreInv
<1>10. Counted(e) /\ Counted(e)'
  BY <1>2, <1>7 DEF Counted, Acting, Reporting
<1>11. \A d \in Events :
         /\ Counted(d)' <=> Counted(d)
         /\ Counted(d) => call'[d].pod = call[d].pod /\ call'[d].path = call[d].path
  BY <1>2, <1>7, <1>10 DEF Counted
<1>12. RegistryKeepsPlaces' /\ AccessesAreCounted'
  BY <1>11, SameCounts DEF CoreInv
<1> QED BY <1>2, <1>7, <1>9, <1>12 DEF CoreInv


\* How most actions write such a step.
LEMMA WrittenMove ==
  ASSUME CallsOK, NEW e \in Events, NEW at \in Places
  PROVE  [call EXCEPT ![e].at = at] =
           [call EXCEPT ![e] = Moved(call[e], at, call[e].attempt)]
<1>1. call[e] \in Calls
  BY DEF CallsOK
<1>2. [call[e] EXCEPT !.at = at] = Moved(call[e], at, call[e].attempt)
  BY <1>1 DEF Moved, Calls
<1>3. [call EXCEPT ![e].at = at] = [call EXCEPT ![e] = [call[e] EXCEPT !.at = at]]
  BY DEF CallsOK
<1> QED BY <1>2, <1>3

---------------------------------------------------------------------------
(* An action that returns                                                  *)

\* The call c after its current action returned.
Recorded(c, result) ==
    [c EXCEPT !.results = Append(c.results, [type |-> Head(c.todo), result |-> result]),
              !.todo = Tail(c.todo),
              !.attempt = 0,
              !.at = IF Len(c.todo) = 1 THEN "publish" ELSE "act"]

LEMMA RecordedFields ==
  ASSUME NEW c \in Calls, NEW result \in {"success", "failure"}, c.todo # << >>
  PROVE  /\ Recorded(c, result) \in Calls
         /\ Recorded(c, result).at = IF Len(c.todo) = 1 THEN "publish" ELSE "act"
         /\ Recorded(c, result).pod = c.pod /\ Recorded(c, result).path = c.path
         /\ Recorded(c, result).namespace = c.namespace
         /\ Recorded(c, result).answer = c.answer /\ Recorded(c, result).class = c.class
         /\ Recorded(c, result).todo = Tail(c.todo) /\ Recorded(c, result).attempt = 0
         /\ Recorded(c, result).results =
              Append(c.results, [type |-> Head(c.todo), result |-> result])
<1>1. c.todo \in Seq(ActionTypes) /\ c.results \in Seq(Results)
  BY DEF Calls
<1>2. Head(c.todo) \in ActionTypes /\ Tail(c.todo) \in Seq(ActionTypes)
  BY <1>1
<1>3. Append(c.results, [type |-> Head(c.todo), result |-> result]) \in Seq(Results)
  BY <1>1, <1>2 DEF Results
<1> DEFINE at == IF Len(c.todo) = 1 THEN "publish" ELSE "act"
           results == Append(c.results, [type |-> Head(c.todo), result |-> result])
           todo == Tail(c.todo)
<1>4. at \in Places /\ 0 \in 0 .. LargestAttempt
  BY AttemptType DEF Places
<1>5. Recorded(c, result) =
        [c EXCEPT !.results = results, !.todo = todo, !.attempt = 0, !.at = at]
  BY DEF Recorded
<1> HIDE DEF at, results, todo
<1>6. results \in Seq(Results) /\ todo \in Seq(ActionTypes)
  BY <1>2, <1>3 DEF results, todo
<1>7. Recorded(c, result) \in Calls
  BY <1>4, <1>5, <1>6 DEF Calls
<1>8. /\ Recorded(c, result).at = at /\ Recorded(c, result).attempt = 0
      /\ Recorded(c, result).pod = c.pod /\ Recorded(c, result).path = c.path
      /\ Recorded(c, result).namespace = c.namespace
      /\ Recorded(c, result).answer = c.answer /\ Recorded(c, result).class = c.class
      /\ Recorded(c, result).todo = todo
      /\ Recorded(c, result).results = results
  BY <1>5 DEF Calls
<1> QED BY <1>7, <1>8 DEF at, results, todo

\* The plan is still what was done and what is left.
LEMMA RecordedOnPlan ==
  ASSUME NEW c \in Calls, NEW result \in {"success", "failure"}, OnPlan(c),
         c.at \in Acting
  PROVE  OnPlan(Recorded(c, result))
<1> DEFINE d == Recorded(c, result)
           plan == PlannedActions(c.class)
           n == Len(c.results)
<1>1. /\ c.todo \in Seq(ActionTypes) /\ c.results \in Seq(Results) /\ c.todo # << >>
      /\ c.pod \in Pods /\ <<c.namespace, c.pod>> \in AccessedPods
      /\ c.class # "none" /\ n \in Nat
      /\ Len(plan) = n + Len(c.todo)
      /\ \A k \in 1 .. n : c.results[k].type = plan[k]
      /\ \A k \in 1 .. Len(c.todo) : c.todo[k] = plan[n + k]
  BY DEF OnPlan, Acting, Reporting, Calls
<1>2. /\ d.at = IF Len(c.todo) = 1 THEN "publish" ELSE "act"
      /\ d.class = c.class /\ d.pod = c.pod /\ d.todo = Tail(c.todo)
      /\ d.namespace = c.namespace
      /\ d.results = Append(c.results, [type |-> Head(c.todo), result |-> result])
  BY <1>1, RecordedFields
<1>3. /\ Len(d.results) = n + 1 /\ Len(d.todo) = Len(c.todo) - 1
      /\ Len(c.todo) \in Nat /\ Len(c.todo) >= 1
      /\ d.todo = << >> <=> Len(c.todo) = 1
  <2> HIDE DEF d
  <2>1. Len(d.results) = n + 1
    BY <1>1, <1>2
  <2>2. /\ Len(d.todo) = Len(c.todo) - 1 /\ d.todo \in Seq(ActionTypes)
        /\ Len(c.todo) \in Nat /\ Len(c.todo) >= 1
    BY <1>1, <1>2
  <2>3. d.todo = << >> <=> Len(d.todo) = 0
    BY <2>2, EmptySeq
  <2> QED BY <2>1, <2>2, <2>3
<1> HIDE DEF d
<1>4. ASSUME NEW k \in 1 .. n + 1
      PROVE  d.results[k].type = plan[k]
  <2>1. CASE k = n + 1
    <3>1. d.results[k].type = Head(c.todo)
      BY <1>1, <1>2, <2>1
    <3>2. Head(c.todo) = c.todo[1] /\ 1 \in 1 .. Len(c.todo)
      BY <1>1, <1>3
    <3> QED BY <1>1, <2>1, <3>1, <3>2
  <2>2. CASE k \in 1 .. n
    BY <1>1, <1>2, <2>2
  <2> QED BY <1>1, <2>1, <2>2
<1>5. ASSUME NEW k \in 1 .. Len(d.todo)
      PROVE  d.todo[k] = plan[(n + 1) + k]
  <2>1. d.todo[k] = c.todo[k + 1]
    BY <1>1, <1>2, <1>3
  <2>2. k \in Nat /\ k + 1 \in 1 .. Len(c.todo)
    BY <1>1, <1>3
  <2> HIDE DEF n
  <2>3. n + (k + 1) = (n + 1) + k
    BY <1>1, <2>2
  <2> QED BY <1>1, <2>1, <2>2, <2>3
<1>6. d.at = "act" => d.todo # << >>
  BY <1>1, <1>2, <1>3
<1>7. d.at = "publish" => d.todo = << >>
  BY <1>1, <1>2, <1>3
<1>8. d.at \in {"act", "publish"}
  BY <1>2
<1>9. Len(plan) = Len(d.results) + Len(d.todo)
  <2> DEFINE m == Len(c.todo)
  <2>1. n \in Nat /\ m \in Nat /\ Len(plan) = n + m
    BY <1>1, <1>3
  <2>2. Len(d.results) = n + 1 /\ Len(d.todo) = m - 1
    BY <1>3
  <2> HIDE DEF n, m, plan
  <2>3. n + m = (n + 1) + (m - 1)
    BY <2>1
  <2> QED BY <2>1, <2>2, <2>3
<1> HIDE DEF plan
<1>10. OnPlan(d)
  <2>1. PlannedActions(d.class) = plan
    BY <1>2 DEF plan
  <2>2. \A k \in 1 .. Len(d.results) : d.results[k].type = plan[k]
    BY <1>3, <1>4
  <2>3. \A k \in 1 .. Len(d.todo) : d.todo[k] = plan[Len(d.results) + k]
    BY <1>3, <1>5
  <2> QED BY <1>1, <1>2, <1>6, <1>7, <1>8, <1>9, <2>1, <2>2, <2>3 DEF OnPlan, Acting, Reporting
<1> QED BY <1>10 DEF d


LEMMA RecordStep ==
  ASSUME CoreInv, NEW e \in Events, NEW result \in {"success", "failure"},
         call[e].at \in Acting, Record(e, result), registry' = registry,
         alerted \subseteq alerted',
         result = "failure" /\ Head(call[e].todo) # "additional_honeytokens" =>
            <<e, Head(call[e].todo)>> \in alerted'
  PROVE  /\ CoreInv'
         /\ call'[e] = Recorded(call[e], result)
         /\ \A d \in Events : d # e => call'[d] = call[d]
<1> DEFINE c == Recorded(call[e], result)
           done == [type |-> Head(call[e].todo), result |-> result]
<1>1. /\ call[e] \in Calls /\ OnPlan(call[e]) /\ call[e].todo # << >>
      /\ call[e].results \in Seq(Results)
  BY DEF CoreInv, CallsOK, OnPlan, Calls
<1>2. /\ c \in Calls /\ c.at \in {"act", "publish"} /\ c.pod = call[e].pod
      /\ c.namespace = call[e].namespace
      /\ c.path = call[e].path /\ c.results = Append(call[e].results, done)
  BY <1>1, RecordedFields
<1>3. OnPlan(c)
  BY <1>1, RecordedOnPlan
<1>4. call' = [call EXCEPT ![e] = c]
  BY DEF Record, Recorded, CoreInv, CallsOK
<1> HIDE DEF c
<1>5. CallsOK' /\ call'[e] = c /\ \A d \in Events : d # e => call'[d] = call[d]
  BY <1>2, <1>3, <1>4, CallReplaced DEF CoreInv
<1>6. ASSUME NEW k \in DOMAIN c.results
      PROVE  \/ c.results[k] = done
             \/ k \in DOMAIN call[e].results /\ c.results[k] = call[e].results[k]
  <2> HIDE DEF done
  <2>1. DOMAIN c.results = 1 .. Len(call[e].results) + 1
    BY <1>1, <1>2
  <2>2. CASE k = Len(call[e].results) + 1
    BY <1>1, <1>2, <2>2
  <2>3. CASE k # Len(call[e].results) + 1
    BY <1>1, <1>2, <2>1, <2>3
  <2> QED BY <2>2, <2>3
<1>7. auditLog' = auditLog \cup {<<e, Head(call[e].todo)>>}
  BY DEF Record
<1>8. ActionsAreAudited'
  <2> SUFFICES ASSUME NEW d \in Events, NEW k \in DOMAIN call'[d].results
               PROVE  <<d, call'[d].results[k].type>> \in auditLog'
    BY DEF ActionsAreAudited
  <2>1. CASE d = e
    BY <1>5, <1>6, <1>7, <2>1 DEF CoreInv, ActionsAreAudited
  <2>2. CASE d # e
    BY <1>5, <1>7, <2>2 DEF CoreInv, ActionsAreAudited
  <2> QED BY <2>1, <2>2
<1>9. FailuresWereAlerted'
  <2> SUFFICES ASSUME NEW d \in Events, NEW k \in DOMAIN call'[d].results,
                      call'[d].results[k].result = "failure",
                      call'[d].results[k].type # "additional_honeytokens"
               PROVE  <<d, call'[d].results[k].type>> \in alerted'
    BY DEF FailuresWereAlerted
  <2>1. CASE d = e
    BY <1>5, <1>6, <2>1 DEF CoreInv, FailuresWereAlerted
  <2>2. CASE d # e
    BY <1>5, <2>2 DEF CoreInv, FailuresWereAlerted
  <2> QED BY <2>1, <2>2
<1>10. Counted(e) /\ Counted(e)'
  BY <1>2, <1>5 DEF Counted, Acting
<1>11. \A d \in Events :
         /\ Counted(d)' <=> Counted(d)
         /\ Counted(d) => call'[d].pod = call[d].pod /\ call'[d].path = call[d].path
  BY <1>2, <1>5, <1>10 DEF Counted
<1>12. RegistryKeepsPlaces' /\ AccessesAreCounted'
  BY <1>11, SameCounts DEF CoreInv
<1> QED BY <1>5, <1>8, <1>9, <1>12 DEF CoreInv, c

---------------------------------------------------------------------------
(* An access is counted                                                    *)

LEMMA PlacesAreDeployed ==
  ASSUME RegistryKeepsPlaces, DOMAIN registry = DOMAIN Deployed, NEW pod, NEW path
  PROVE  PlacedAt(registry, pod, path) = PlacedAt(Deployed, pod, path)
BY DEF PlacedAt, RegistryKeepsPlaces

LEMMA DeployedPositions ==
  DOMAIN Deployed = 1 .. Len(Deployed) /\ Len(Deployed) \in Nat
BY WorkflowAssumption

\* find returns the first entry.
LEMMA FirstIsLeast ==
  ASSUME NEW pod, NEW path, PlacedAt(Deployed, pod, path) # {}
  PROVE  /\ FirstPlacedAt(Deployed, pod, path) \in PlacedAt(Deployed, pod, path)
         /\ \A j \in PlacedAt(Deployed, pod, path) :
               FirstPlacedAt(Deployed, pod, path) <= j
<1>1. PlacedAt(Deployed, pod, path) \in SUBSET Nat
  BY DeployedPositions DEF PlacedAt
<1>2. \E i \in PlacedAt(Deployed, pod, path) :
         \A j \in PlacedAt(Deployed, pod, path) : i <= j
  BY <1>1, LeastNatural
<1> QED BY <1>2 DEF FirstPlacedAt

LEMMA TriggeredEntry ==
  ASSUME RegistryKeepsPlaces, registry \in [DOMAIN Deployed -> Entries],
         NEW f \in DOMAIN Deployed, NEW e \in Events
  PROVE  /\ Triggered(f, e) \in [DOMAIN Deployed -> Entries]
         /\ \A i \in DOMAIN Deployed :
               /\ Triggered(f, e)[i].id = registry[i].id
               /\ Triggered(f, e)[i].pod = registry[i].pod
               /\ Triggered(f, e)[i].path = registry[i].path
               /\ i # f => Triggered(f, e)[i] = registry[i]
         /\ Triggered(f, e)[f].status = "triggered"
         /\ Triggered(f, e)[f].lastAccess = e
         /\ Triggered(f, e)[f].accessCount = registry[f].accessCount + 1
<1> DEFINE g == [registry[f] EXCEPT !.status = "triggered"]
           h == [g EXCEPT !.lastAccess = e, !.accessCount = @ + 1]
<1>1. \A i \in DOMAIN Deployed : registry[i].id = registry[f].id <=> i = f
  BY WorkflowAssumption DEF RegistryKeepsPlaces
<1>2. registry[f] \in Entries
  OBVIOUS
<1>3. /\ g \in Entries /\ g.id = registry[f].id /\ g.pod = registry[f].pod
      /\ g.path = registry[f].path /\ g.status = "triggered"
      /\ g.accessCount = registry[f].accessCount
  BY <1>2 DEF Entries
<1>4. UpdateStatus(registry, registry[f].id, "triggered") =
        [i \in DOMAIN Deployed |-> IF i = f THEN g ELSE registry[i]]
  BY <1>1 DEF UpdateStatus
<1> HIDE DEF g
<1>5. /\ h \in Entries /\ h.id = g.id /\ h.pod = g.pod /\ h.path = g.path
      /\ h.status = g.status /\ h.lastAccess = e /\ h.accessCount = g.accessCount + 1
  <2>1. g.accessCount \in Nat
    BY <1>3 DEF Entries
  <2>2. g.accessCount + 1 \in Nat
    BY <2>1
  <2> DEFINE n == g.accessCount + 1
  <2>3. h = [g EXCEPT !.lastAccess = e, !.accessCount = n]
    BY <1>3 DEF Entries
  <2> HIDE DEF n, h
  <2>4. n \in Nat
    BY <2>2 DEF n
  <2>5. /\ h \in Entries /\ h.id = g.id /\ h.pod = g.pod /\ h.path = g.path
        /\ h.status = g.status /\ h.lastAccess = e /\ h.accessCount = n
    BY <1>3, <2>3, <2>4 DEF Entries
  <2> QED BY <2>5 DEF n
<1> DEFINE middle == [i \in DOMAIN Deployed |-> IF i = f THEN g ELSE registry[i]]
<1>6. \A i \in DOMAIN Deployed : middle[i].id = registry[f].id <=> i = f
  BY <1>1, <1>3
<1>7. middle[f] = g /\ DOMAIN middle = DOMAIN Deployed
  OBVIOUS
<1>8. RecordAccess(middle, registry[f].id, e) =
        [i \in DOMAIN Deployed |-> IF i = f THEN h ELSE registry[i]]
  BY <1>6, <1>7 DEF RecordAccess
<1> HIDE DEF h, middle
<1>9. Triggered(f, e) = [i \in DOMAIN Deployed |-> IF i = f THEN h ELSE registry[i]]
  BY <1>4, <1>8 DEF Triggered, middle
<1> QED BY <1>3, <1>5, <1>9


\* Some call passes the point from which it counts.
LEMMA MarkedGrows ==
  ASSUME NEW e \in Events, ~Counted(e), Counted(e)', NEW i \in DOMAIN Deployed,
         call'[e].pod = call[e].pod, call'[e].path = call[e].path,
         \A d \in Events : d # e => call'[d] = call[d]
  PROVE  /\ e \notin Marked(i)
         /\ Marked(i)' = IF /\ i \in PlacedAt(Deployed, call[e].pod, call[e].path)
                            /\ \A j \in PlacedAt(Deployed, call[e].pod, call[e].path) : i <= j
                         THEN Marked(i) \cup {e} ELSE Marked(i)
<1>1. e \notin Marked(i)
  BY DEF Marked
<1>2. \A d \in Events : d # e => (Counted(d)' <=> Counted(d))
  BY DEF Counted
<1>3. \A d \in Events : d # e => (d \in Marked(i)' <=> d \in Marked(i))
  BY <1>2 DEF Marked
<1>4. e \in Marked(i)' <=> /\ i \in PlacedAt(Deployed, call[e].pod, call[e].path)
                           /\ \A j \in PlacedAt(Deployed, call[e].pod, call[e].path) : i <= j
  BY DEF Marked, PlacedAt
<1>5. Marked(i) \subseteq Events /\ Marked(i)' \subseteq Events
  BY DEF Marked
<1> QED BY <1>1, <1>3, <1>4, <1>5

LEMMA AccessCounted ==
  ASSUME RegistryKeepsPlaces, AccessesAreCounted,
         registry \in [DOMAIN Deployed -> Entries],
         NEW e \in Events, ~Counted(e), Counted(e)',
         call'[e].pod = call[e].pod, call'[e].path = call[e].path,
         \A d \in Events : d # e => call'[d] = call[d],
         registry' = MarkTriggered(e, call[e].pod, call[e].path)
  PROVE  /\ registry' \in [DOMAIN Deployed -> Entries]
         /\ RegistryKeepsPlaces' /\ AccessesAreCounted'
<1> DEFINE placed == PlacedAt(Deployed, call[e].pod, call[e].path)
<1>1. PlacedAt(registry, call[e].pod, call[e].path) = placed
  BY PlacesAreDeployed
<1>2. CASE placed = {}
  <2>1. registry' = registry
    BY <1>1, <1>2 DEF MarkTriggered
  <2>2. \A i \in DOMAIN Deployed : Marked(i)' = Marked(i)
    BY <1>2, MarkedGrows
  <2> QED BY <2>1, <2>2 DEF RegistryKeepsPlaces, AccessesAreCounted
<1>3. CASE placed # {}
  <2>0. PICK f \in DOMAIN Deployed : f = FirstPlacedAt(Deployed, call[e].pod, call[e].path)
    BY <1>3, FirstIsLeast DEF PlacedAt
  <2>1. f \in placed /\ \A j \in placed : f <= j
    BY <1>3, <2>0, FirstIsLeast
  <2>2. f \in DOMAIN Deployed
    BY <2>1 DEF PlacedAt
  <2>3. FirstPlacedAt(registry, call[e].pod, call[e].path) = f
    BY <1>1, <2>0 DEF FirstPlacedAt
  <2>4. registry' = Triggered(f, e)
    BY <1>1, <1>3, <2>3 DEF MarkTriggered
  <2>5. Marked(f)' = Marked(f) \cup {e} /\ e \notin Marked(f)
    BY <2>1, <2>2, MarkedGrows
  <2>6. ASSUME NEW i \in DOMAIN Deployed, i # f
        PROVE  Marked(i)' = Marked(i)
    <3>1. ~(i \in placed /\ \A j \in placed : i <= j)
      BY <2>1, <2>2, <2>6, DeployedPositions DEF PlacedAt
    <3> QED BY <3>1, MarkedGrows
  <2>7. /\ registry' \in [DOMAIN Deployed -> Entries]
        /\ \A i \in DOMAIN Deployed :
              /\ registry'[i].id = registry[i].id
              /\ registry'[i].pod = registry[i].pod
              /\ registry'[i].path = registry[i].path
              /\ i # f => registry'[i] = registry[i]
        /\ registry'[f].status = "triggered"
        /\ registry'[f].lastAccess = e
        /\ registry'[f].accessCount = registry[f].accessCount + 1
    BY <2>2, <2>4, TriggeredEntry
  <2>8. Cardinality(Marked(f) \cup {e}) = Cardinality(Marked(f)) + 1
    <3>1. IsFiniteSet(Marked(f))
      BY WorkflowAssumption, FS_Subset DEF Marked
    <3> QED BY <2>5, <3>1, FS_AddElement
  <2>9. AccessesAreCounted'
    <3> SUFFICES ASSUME NEW i \in DOMAIN Deployed
                 PROVE  /\ registry'[i].accessCount = Cardinality(Marked(i)')
                        /\ registry'[i].status = IF Marked(i)' = {} THEN "active" ELSE "triggered"
                        /\ registry'[i].lastAccess \in IF Marked(i)' = {} THEN {NoEvent} ELSE Marked(i)'
      BY <2>7 DEF AccessesAreCounted
    <3>1. CASE i = f
      BY <2>2, <2>5, <2>7, <2>8, <3>1 DEF AccessesAreCounted
    <3>2. CASE i # f
      BY <2>6, <2>7, <3>2 DEF AccessesAreCounted
    <3> QED BY <3>1, <3>2
  <2> QED BY <2>7, <2>9 DEF RegistryKeepsPlaces
<1> QED BY <1>2, <1>3

---------------------------------------------------------------------------
(* The beginning of a call                                                 *)

LEMMA AnnouncedStep ==
  ASSUME CoreInv, registry \in [DOMAIN Deployed -> Entries], NEW e \in Events, Announced(e)
  PROVE  /\ CoreInv' /\ registry' \in [DOMAIN Deployed -> Entries]
         /\ call'[e].at \in {"act", "report"} /\ call'[e].class = call[e].class
         /\ call'[e].pod = call[e].pod /\ call'[e].results = << >>
         /\ call'[e].namespace = call[e].namespace
         /\ \A d \in Events : d # e => call'[d] = call[d]
<1> DEFINE plan == PlannedActions(call[e].class)
           at == IF plan = << >> THEN "report" ELSE "act"
           c == [call[e] EXCEPT !.todo = plan, !.at = at]
<1>1. call[e] \in Calls /\ OnPlan(call[e]) /\ call[e].at = "announce"
  BY DEF CoreInv, CallsOK, Announced, At
<1>2. plan \in Seq(ActionTypes)
  BY PlanType
<1>3. call' = [call EXCEPT ![e] = c]
  BY DEF Announced, CoreInv, CallsOK
<1>4. at \in {"act", "report"} /\ (at = "act" <=> plan # << >>)
  OBVIOUS
<1>5. plan = PlannedActions(call[e].class)
  OBVIOUS
<1> HIDE DEF plan, at
<1>6. at \in Places
  BY <1>4 DEF Places
<1>7. /\ c \in Calls /\ c.at = at /\ c.pod = call[e].pod /\ c.path = call[e].path
      /\ c.namespace = call[e].namespace
      /\ c.class = call[e].class /\ c.todo = plan /\ c.results = call[e].results
      /\ c.attempt = call[e].attempt
  BY <1>1, <1>2, <1>6 DEF Calls
<1> HIDE DEF c
<1>8. /\ c.results = << >> /\ c.class # "none" /\ c.pod \in Pods
      /\ <<c.namespace, c.pod>> \in AccessedPods
  BY <1>1, <1>7 DEF OnPlan
<1>9. OnPlan(c)
  <2>1. Len(c.results) = 0
    BY <1>8
  <2>2. Len(plan) \in Nat
    BY <1>2
  <2>3. /\ Len(plan) = Len(c.results) + Len(c.todo)
        /\ \A k \in 1 .. Len(c.results) : c.results[k].type = plan[k]
        /\ \A k \in 1 .. Len(c.todo) : c.todo[k] = plan[Len(c.results) + k]
    BY <1>7, <2>1, <2>2
  <2> QED BY <1>4, <1>5, <1>7, <1>8, <2>3 DEF OnPlan, Acting, Reporting
<1>10. CallsOK' /\ call'[e] = c /\ \A d \in Events : d # e => call'[d] = call[d]
  BY <1>3, <1>7, <1>9, CallReplaced DEF CoreInv
<1>11. ActionsAreAudited' /\ FailuresWereAlerted'
  BY <1>7, <1>10, SameResults DEF CoreInv, Announced
<1>12. ~Counted(e) /\ Counted(e)'
  BY <1>1, <1>4, <1>7, <1>10 DEF Counted
<1>13. /\ registry' \in [DOMAIN Deployed -> Entries]
       /\ RegistryKeepsPlaces' /\ AccessesAreCounted'
  BY <1>7, <1>10, <1>12, AccessCounted DEF CoreInv, Announced
<1> QED BY <1>4, <1>7, <1>8, <1>10, <1>11, <1>13 DEF CoreInv

\* A call that has not been assessed yet, or is being assessed, goes on.
LEMMA EarlyStep ==
  ASSUME CoreInv, NEW e \in Events, NEW c \in Calls, OnPlan(c),
         call' = [call EXCEPT ![e] = c], c.results = call[e].results,
         call[e].at \in {"new", "assess"}, c.at \in {"assess", "announce"},
         UNCHANGED <<registry, auditLog, alerted>>
  PROVE  /\ CoreInv' /\ call'[e] = c
         /\ \A d \in Events : d # e => call'[d] = call[d]
<1>1. CallsOK' /\ call'[e] = c /\ \A d \in Events : d # e => call'[d] = call[d]
  BY CallReplaced DEF CoreInv
<1>2. ActionsAreAudited' /\ FailuresWereAlerted'
  BY <1>1, SameResults DEF CoreInv
<1>3. ~Counted(e) /\ ~Counted(e)'
  BY <1>1 DEF Counted
<1>4. \A d \in Events :
         /\ Counted(d)' <=> Counted(d)
         /\ Counted(d) => call'[d].pod = call[d].pod /\ call'[d].path = call[d].path
  BY <1>1, <1>3 DEF Counted
<1>5. RegistryKeepsPlaces' /\ AccessesAreCounted'
  BY <1>4, SameCounts DEF CoreInv
<1> QED BY <1>1, <1>2, <1>5 DEF CoreInv

LEMMA ReceiveStep ==
  ASSUME CoreInv, NEW e \in Events, NEW access \in Accesses, Receive(e, access)
  PROVE  /\ CoreInv' /\ call'[e].at = "assess" /\ call'[e].results = << >>
         /\ call[e].class = "none" /\ call'[e].class = "none"
         /\ \A d \in Events : d # e => call'[d] = call[d]
<1> DEFINE c == [call[e] EXCEPT !.at = "assess", !.namespace = access.namespace,
                               !.pod = access.pod, !.path = access.path]
<1>1. call[e] \in Calls /\ OnPlan(call[e]) /\ call[e].at = "new"
  BY DEF CoreInv, CallsOK, Receive, At
<1>2. /\ access.pod \in Pods /\ access.path \in {a.path : a \in Accesses}
      /\ access.namespace \in {a.namespace : a \in Accesses}
      /\ <<access.namespace, access.pod>> \in AccessedPods
  BY WorkflowAssumption DEF AccessedPods
<1>3. call' = [call EXCEPT ![e] = c]
  BY DEF Receive, CoreInv, CallsOK
<1>4. /\ c \in Calls /\ c.at = "assess" /\ c.pod = access.pod
      /\ c.namespace = access.namespace
      /\ c.class = call[e].class /\ c.results = call[e].results
      /\ c.todo = call[e].todo /\ c.attempt = call[e].attempt
  BY <1>1, <1>2 DEF Calls, Places
<1> HIDE DEF c
<1>5. c.results = << >> /\ c.class = "none"
  BY <1>1, <1>4 DEF OnPlan
<1>6. OnPlan(c)
  BY <1>2, <1>4, <1>5 DEF OnPlan, Acting, Reporting
<1>7. CoreInv' /\ call'[e] = c /\ \A d \in Events : d # e => call'[d] = call[d]
  BY <1>1, <1>3, <1>4, <1>6, EarlyStep DEF Receive, agentVars
<1> QED BY <1>4, <1>5, <1>7

LEMMA AssessStep ==
  ASSUME CoreInv, NEW e \in Events, Assess(e)
  PROVE  /\ CoreInv' /\ call'[e].at = "announce" /\ call'[e].results = << >>
         /\ call[e].class = "none" /\ call'[e].pod = call[e].pod
         /\ call'[e].namespace = call[e].namespace
         /\ \A d \in Events : d # e => call'[d] = call[d]
<1>1. call[e] \in Calls /\ OnPlan(call[e]) /\ call[e].at = "assess"
  BY DEF CoreInv, CallsOK, Assess, At
<1>2. PICK answer \in Contexts \cup {NoContext} :
        call' = [call EXCEPT ![e].at = "announce", ![e].answer = answer,
                             ![e].class = AssessThreat(answer)]
  BY DEF Assess
<1> DEFINE class == AssessThreat(answer)
           c == [call[e] EXCEPT !.at = "announce", !.answer = answer, !.class = class]
<1>3. class \in Classifications
  BY GradesAreClasses
<1>4. call' = [call EXCEPT ![e] = c]
  BY <1>2 DEF CoreInv, CallsOK
<1> HIDE DEF class
<1>5. /\ c \in Calls /\ c.at = "announce" /\ c.pod = call[e].pod
      /\ c.namespace = call[e].namespace
      /\ c.class = class /\ c.results = call[e].results
      /\ c.todo = call[e].todo /\ c.attempt = call[e].attempt
  BY <1>1, <1>3 DEF Calls, Places
<1> HIDE DEF c
<1>6. /\ c.results = << >> /\ c.class # "none" /\ call[e].class = "none" /\ c.pod \in Pods
      /\ <<c.namespace, c.pod>> \in AccessedPods
  BY <1>1, <1>3, <1>5 DEF OnPlan, Classifications
<1>7. OnPlan(c)
  BY <1>5, <1>6 DEF OnPlan, Acting, Reporting
<1>8. CoreInv' /\ call'[e] = c /\ \A d \in Events : d # e => call'[d] = call[d]
  BY <1>1, <1>4, <1>5, <1>7, EarlyStep DEF Assess, agentVars
<1> QED BY <1>5, <1>6, <1>8


---------------------------------------------------------------------------
(* Type correctness and the safety properties                              *)

\* What IInv says of the variables besides the calls and the registry.
OtherTypes ==
    /\ ClusterTypeOK
    /\ auditLog \subseteq Events \X (ActionTypes \cup {"assessment", "learning", "response"})
    /\ storedReports \subseteq Events
    /\ dataset \subseteq Events
    /\ timelines \in [Events -> {"none", "contained", "escalated"}]
    /\ floatingAlert \in BOOLEAN
    /\ running \in BOOLEAN
    /\ alerted \subseteq Events \X ActionTypes

LEMMA PartsOfIInv ==
  /\ IInv <=> /\ CoreInv /\ registry \in [DOMAIN Deployed -> Entries]
              /\ OtherTypes /\ OutcomesAreReported
  /\ IInv' <=> /\ CoreInv' /\ registry' \in [DOMAIN Deployed -> Entries]
               /\ OtherTypes' /\ OutcomesAreReported'
BY DEF IInv, CoreInv, CallsOK, TypeOK, OtherTypes

Told == {"publishReport", "timeline", "done"}

\* Nothing new is told, and what was told stays true.
LEMMA SameOutcomes ==
  ASSUME OutcomesAreReported, UNCHANGED <<storedReports, dataset, timelines>>,
         NEW e \in Events, \A d \in Events : d # e => call'[d] = call[d],
         \/ call[e].at \notin Told
         \/ /\ call[e].at \in {"timeline", "done"} /\ call'[e].at \in {"timeline", "done"}
            /\ call'[e].results = call[e].results
  PROVE  OutcomesAreReported'
<1> SUFFICES ASSUME NEW d \in Events
             PROVE  /\ d \in storedReports' \cup dataset' => call'[d].at \in Told
                    /\ timelines'[d] # "none" =>
                          /\ call'[d].at \in {"timeline", "done"}
                          /\ timelines'[d] = FinalOutcome(call'[d].results)
  BY DEF OutcomesAreReported, Told
<1>1. CASE d = e
  BY <1>1 DEF OutcomesAreReported, Told
<1>2. CASE d # e
  BY <1>2 DEF OutcomesAreReported, Told
<1> QED BY <1>1, <1>2

\* The call of an event whose steps so far are known.
LEMMA CallOf ==
  ASSUME IInv, NEW e \in Events
  PROVE  /\ call[e] \in Calls /\ OnPlan(call[e])
         /\ call[e].attempt \in 0 .. LargestAttempt
         /\ call[e].todo \in Seq(ActionTypes)
         /\ call[e].at \in Acting => Head(call[e].todo) \in ActionTypes
                                     /\ call[e].pod \in Pods
<1>1. /\ call[e] \in Calls /\ OnPlan(call[e])
      /\ call[e].attempt \in 0 .. LargestAttempt /\ call[e].todo \in Seq(ActionTypes)
  BY DEF IInv, TypeOK, Calls
<1>2. call[e].at \in Acting => call[e].todo # << >> /\ call[e].pod \in Pods
  BY <1>1 DEF OnPlan, Acting
<1> QED BY <1>1, <1>2

LEMMA EffectTypes ==
  ASSUME ClusterTypeOK, NEW action, NEW p \in Pods,
         TakesEffect(action, p) \/ UNCHANGED clusterVars
  PROVE  ClusterTypeOK'
<1>1. ASSUME NEW policies \in [PolicyNames -> Pods \cup {NoPod}]
      PROVE  Created(policies, p) \in [PolicyNames -> Pods \cup {NoPod}]
  BY DEF Created
<1>2. CASE IsolatePod(p)
  BY <1>1, <1>2 DEF IsolatePod, ClusterTypeOK
<1>3. CASE BlockIp(p)
  BY <1>1, <1>3 DEF BlockIp, ClusterTypeOK
<1>4. CASE UNCHANGED clusterVars
  BY <1>4 DEF ClusterTypeOK, clusterVars
<1> QED BY <1>2, <1>3, <1>4 DEF TakesEffect

\* Only call e changes: it moves to one of these places, or its action returns.
MovesTo(e, places) ==
    /\ call'[e].at \in places /\ call'[e].results = call[e].results
    /\ call'[e].class = call[e].class /\ call'[e].pod = call[e].pod
    /\ call'[e].namespace = call[e].namespace
    /\ \A d \in Events : d # e => call'[d] = call[d]

Returns(e, result) ==
    /\ call'[e] = Recorded(call[e], result)
    /\ \A d \in Events : d # e => call'[d] = call[d]

LEMMA BeginningKeepsIInv ==
  ASSUME IInv, NEW e \in Events,
         \/ \E access \in Accesses : Receive(e, access)
         \/ Assess(e)
         \/ Announced(e)
  PROVE  IInv'
<1>1. CoreInv' /\ \A d \in Events : d # e => call'[d] = call[d]
  BY PartsOfIInv, ReceiveStep, AssessStep, AnnouncedStep
<1>2. registry' \in [DOMAIN Deployed -> Entries]
  BY PartsOfIInv, AnnouncedStep DEF Receive, Assess, agentVars
<1>3. OtherTypes'
  BY PartsOfIInv DEF Receive, Assess, Announced, OtherTypes, ClusterTypeOK,
                     clusterVars, agentVars
<1>4. call[e].at \notin Told /\ UNCHANGED <<storedReports, dataset, timelines>>
  BY DEF Receive, Assess, Announced, At, Told, agentVars
<1>5. OutcomesAreReported'
  BY <1>1, <1>4, PartsOfIInv, SameOutcomes
<1> QED BY <1>1, <1>2, <1>3, <1>5, PartsOfIInv

\* An action returns.
LEMMA RecordKeepsIInv ==
  ASSUME IInv, NEW e \in Events, NEW result \in {"success", "failure"},
         call[e].at \in Acting, Record(e, result), ClusterTypeOK',
         \/ alerted' = alerted
         \/ alerted' = alerted \cup {<<e, Head(call[e].todo)>>},
         result = "failure" /\ Head(call[e].todo) # "additional_honeytokens" =>
            <<e, Head(call[e].todo)>> \in alerted',
         UNCHANGED <<registry, storedReports, dataset, timelines, floatingAlert, running>>
  PROVE  IInv' /\ Returns(e, result)
<1>1. Head(call[e].todo) \in ActionTypes
  BY CallOf
<1>2. /\ CoreInv' /\ call'[e] = Recorded(call[e], result)
      /\ \A d \in Events : d # e => call'[d] = call[d]
  BY PartsOfIInv, RecordStep
<1>3. auditLog' = auditLog \cup {<<e, Head(call[e].todo)>>}
  BY DEF Record
<1>4. OtherTypes'
  BY <1>1, <1>3, PartsOfIInv DEF OtherTypes
<1>5. OutcomesAreReported'
  BY <1>2, PartsOfIInv, SameOutcomes DEF Acting, Told
<1> QED BY <1>2, <1>4, <1>5, PartsOfIInv DEF Returns

\* A call goes on without a result, a report or an outcome.
LEMMA MoveKeepsIInv ==
  ASSUME IInv, NEW e \in Events, NEW at \in Places, NEW n \in 0 .. LargestAttempt,
         call' = [call EXCEPT ![e] = Moved(call[e], at, n)],
         \/ call[e].at \in Acting /\ at \in Acting \cup {"failed"}
         \/ call[e].at \in {"publish", "report", "reportPause"}
            /\ at \in Reporting \cup {"failed"}
         \/ call[e].at = "timeline" /\ at = "done",
         at = "sleep" => n < MaxRetries,
         at = "reportPause" => n < MaxReportRetries,
         \/ auditLog' = auditLog
         \/ \E what \in {"assessment", "response"} : auditLog' = auditLog \cup {<<e, what>>},
         ClusterTypeOK', floatingAlert' \in BOOLEAN,
         UNCHANGED <<registry, storedReports, dataset, timelines, running, alerted>>
  PROVE  IInv' /\ MovesTo(e, {at})
<1>1. /\ CoreInv'
      /\ call'[e].at = at /\ call'[e].results = call[e].results
      /\ call'[e].class = call[e].class /\ call'[e].pod = call[e].pod
      /\ call'[e].namespace = call[e].namespace
      /\ \A d \in Events : d # e => call'[d] = call[d]
  BY PartsOfIInv, MoveStep DEF Reporting
<1>2. OtherTypes'
  BY PartsOfIInv DEF OtherTypes
<1>3. OutcomesAreReported'
  BY <1>1, PartsOfIInv, SameOutcomes DEF Acting, Told
<1> QED BY <1>1, <1>2, <1>3, PartsOfIInv DEF MovesTo


LEMMA ActionSucceedsKeepsIInv ==
  ASSUME IInv, NEW e \in Events, ActionSucceeds(e)
  PROVE  IInv' /\ Returns(e, "success")
<1>1. call[e].at \in Acting
  BY DEF ActionSucceeds, At, Acting
<1>2. ClusterTypeOK'
  BY <1>1, CallOf, EffectTypes, PartsOfIInv DEF ActionSucceeds, OtherTypes
<1> QED BY <1>1, <1>2, RecordKeepsIInv DEF ActionSucceeds

LEMMA ActionFailsKeepsIInv ==
  ASSUME IInv, NEW e \in Events, ActionFails(e)
  PROVE  IInv' /\ (Returns(e, "failure") \/ MovesTo(e, {"sleep", "escalate"}))
<1>1. call[e].at \in Acting /\ call[e].attempt \in 0 .. LargestAttempt /\ CallsOK
  BY CallOf, PartsOfIInv DEF ActionFails, At, Acting, CoreInv
<1>2. ClusterTypeOK'
  BY <1>1, CallOf, EffectTypes, PartsOfIInv DEF ActionFails, OtherTypes
<1>3. CASE Retriable(e)
  <2>1. call' = [call EXCEPT ![e].at = "sleep"] /\ floatingAlert' = TRUE
        /\ UNCHANGED <<registry, auditLog, storedReports, dataset, timelines, running, alerted>>
    BY <1>3 DEF ActionFails
  <2>2. call' = [call EXCEPT ![e] = Moved(call[e], "sleep", call[e].attempt)]
    BY <1>1, <2>1, WrittenMove DEF Places
  <2>3. call[e].attempt < MaxRetries
    BY <1>3 DEF Retriable
  <2> QED BY <1>1, <1>2, <2>1, <2>2, <2>3, MoveKeepsIInv DEF Acting, Places, MovesTo
<1>4. CASE ~Retriable(e)
  <2>1. GiveUp(e) /\ floatingAlert' = floatingAlert
        /\ UNCHANGED <<registry, storedReports, dataset, timelines, running, alerted>>
    BY <1>4 DEF ActionFails, GiveUp
  <2>2. CASE Head(call[e].todo) = "additional_honeytokens"
    <3>1. Record(e, "failure")
      BY <2>1, <2>2 DEF GiveUp
    <3> QED BY <1>1, <1>2, <2>1, <2>2, <3>1, RecordKeepsIInv
  <2>3. CASE Head(call[e].todo) # "additional_honeytokens"
    <3>1. call' = [call EXCEPT ![e].at = "escalate"] /\ auditLog' = auditLog
      BY <2>1, <2>3 DEF GiveUp
    <3>2. call' = [call EXCEPT ![e] = Moved(call[e], "escalate", call[e].attempt)]
      BY <1>1, <3>1, WrittenMove DEF Places
    <3>3. floatingAlert' \in BOOLEAN
      BY <2>1, PartsOfIInv DEF OtherTypes
    <3> QED BY <1>1, <1>2, <2>1, <3>1, <3>2, <3>3, MoveKeepsIInv DEF Acting, Places, MovesTo
  <2> QED BY <2>2, <2>3
<1> QED BY <1>3, <1>4

LEMMA EscalationKeepsIInv ==
  ASSUME IInv, NEW e \in Events,
         ExhaustionAlertDelivered(e) \/ ExhaustionAlertRejected(e)
  PROVE  IInv' /\ (Returns(e, "failure") \/ MovesTo(e, {"failed"}))
<1>1. call[e].at \in Acting /\ call[e].attempt \in 0 .. LargestAttempt /\ CallsOK
  BY CallOf, PartsOfIInv
  DEF ExhaustionAlertDelivered, ExhaustionAlertRejected, At, Acting, CoreInv
<1>2. ClusterTypeOK' /\ floatingAlert' \in BOOLEAN
  BY PartsOfIInv DEF ExhaustionAlertDelivered, ExhaustionAlertRejected, OtherTypes,
                     ClusterTypeOK, clusterVars
<1>3. CASE ExhaustionAlertDelivered(e)
  <2>1. /\ alerted' = alerted \cup {<<e, Head(call[e].todo)>>}
        /\ Record(e, "failure")
        /\ UNCHANGED <<registry, storedReports, dataset, timelines, floatingAlert, running>>
    BY <1>3 DEF ExhaustionAlertDelivered
  <2> QED BY <1>1, <1>2, <2>1, RecordKeepsIInv
<1>4. CASE ExhaustionAlertRejected(e)
  <2>1. /\ call' = [call EXCEPT ![e].at = "failed"]
        /\ auditLog' = auditLog \cup {<<e, "assessment">>}
        /\ UNCHANGED <<registry, storedReports, dataset, timelines, running, alerted>>
    BY <1>4 DEF ExhaustionAlertRejected, Abort
  <2>2. call' = [call EXCEPT ![e] = Moved(call[e], "failed", call[e].attempt)]
    BY <1>1, <2>1, WrittenMove DEF Places
  <2> QED BY <1>1, <1>2, <2>1, <2>2, MoveKeepsIInv DEF Acting, Places
<1> QED BY <1>3, <1>4

LEMMA WakeUpKeepsIInv ==
  ASSUME IInv, NEW e \in Events, WakeUp(e)
  PROVE  IInv' /\ MovesTo(e, {"act"})
<1>1. call[e].at = "sleep" /\ CallsOK /\ call[e].attempt \in 0 .. LargestAttempt
      /\ call[e].attempt < MaxRetries
  BY CallOf, PartsOfIInv DEF WakeUp, At, CoreInv, OnPlan
<1>2. call[e].attempt + 1 \in 0 .. LargestAttempt
  BY <1>1, AttemptType
<1>3. call' = [call EXCEPT ![e].at = "act", ![e].attempt = call[e].attempt + 1]
  BY <1>1 DEF WakeUp, CallsOK
<1>4. call' = [call EXCEPT ![e] = Moved(call[e], "act", call[e].attempt + 1)]
  BY <1>1, <1>3 DEF Moved, CallsOK
<1>5. /\ ClusterTypeOK' /\ floatingAlert' \in BOOLEAN
      /\ UNCHANGED <<registry, auditLog, storedReports, dataset, timelines, running, alerted>>
  BY PartsOfIInv DEF WakeUp, agentVars, clusterVars, OtherTypes, ClusterTypeOK
<1> QED BY <1>1, <1>2, <1>4, <1>5, MoveKeepsIInv DEF Acting, Places

\* Reporting, until the report is broadcast.
LEMMA ReportingKeepsIInv ==
  ASSUME IInv, NEW e \in Events,
         Publish(e) \/ ReportFails(e) \/ ReportRetry(e) \/ Complete(e)
  PROVE  IInv' /\ MovesTo(e, {"report", "reportPause", "done", "failed"})
<1>1. CallsOK /\ call[e].attempt \in 0 .. LargestAttempt /\ OnPlan(call[e])
  BY CallOf, PartsOfIInv DEF CoreInv
<1>2. /\ ClusterTypeOK' /\ floatingAlert' \in BOOLEAN
      /\ UNCHANGED <<registry, storedReports, dataset, timelines, running, alerted>>
  BY PartsOfIInv DEF Publish, ReportFails, ReportRetry, Complete, Abort, agentVars,
                     clusterVars, OtherTypes, ClusterTypeOK
<1>3. CASE Publish(e)
  <2>1. call[e].at = "publish" /\ auditLog' = auditLog
        /\ call' = [call EXCEPT ![e].at = "report"]
    BY <1>3 DEF Publish, At, agentVars
  <2>2. call' = [call EXCEPT ![e] = Moved(call[e], "report", call[e].attempt)]
    BY <1>1, <2>1, WrittenMove DEF Places
  <2> QED BY <1>1, <1>2, <2>1, <2>2, MoveKeepsIInv DEF Reporting, Places, MovesTo
<1>4. CASE ReportFails(e)
  <2>1. call[e].at = "report"
    BY <1>4 DEF ReportFails, At
  <2>2. CASE /\ call[e].attempt < MaxReportRetries
             /\ call' = [call EXCEPT ![e].at = "reportPause"]
             /\ UNCHANGED agentVars
    <3>1. call' = [call EXCEPT ![e] = Moved(call[e], "reportPause", call[e].attempt)]
      BY <1>1, <2>2, WrittenMove DEF Places
    <3>2. auditLog' = auditLog
      BY <2>2 DEF agentVars
    <3> QED BY <1>1, <1>2, <2>1, <2>2, <3>1, <3>2, MoveKeepsIInv DEF Reporting, Places, MovesTo
  <2>3. CASE Abort(e)
    <3>1. call' = [call EXCEPT ![e].at = "failed"]
          /\ auditLog' = auditLog \cup {<<e, "assessment">>}
      BY <2>3 DEF Abort
    <3>2. call' = [call EXCEPT ![e] = Moved(call[e], "failed", call[e].attempt)]
      BY <1>1, <3>1, WrittenMove DEF Places
    <3> QED BY <1>1, <1>2, <2>1, <3>1, <3>2, MoveKeepsIInv DEF Reporting, Places, MovesTo
  <2> QED BY <1>4, <2>2, <2>3 DEF ReportFails
<1>5. CASE ReportRetry(e)
  <2>1. call[e].at = "reportPause" /\ auditLog' = auditLog
        /\ call[e].attempt < MaxReportRetries
    BY <1>1, <1>5 DEF ReportRetry, At, agentVars, OnPlan
  <2>2. call[e].attempt + 1 \in 0 .. LargestAttempt
    BY <1>1, <2>1, AttemptType
  <2>3. call' = [call EXCEPT ![e].at = "report", ![e].attempt = call[e].attempt + 1]
    BY <1>1, <1>5 DEF ReportRetry, CallsOK
  <2>4. call' = [call EXCEPT ![e] = Moved(call[e], "report", call[e].attempt + 1)]
    BY <1>1, <2>3 DEF Moved, CallsOK
  <2> QED BY <1>2, <2>1, <2>2, <2>4, MoveKeepsIInv DEF Reporting, Places, MovesTo
<1>6. CASE Complete(e)
  <2>1. call[e].at = "timeline" /\ auditLog' = auditLog \cup {<<e, "response">>}
        /\ call' = [call EXCEPT ![e].at = "done"]
    BY <1>6 DEF Complete, At
  <2>2. call' = [call EXCEPT ![e] = Moved(call[e], "done", call[e].attempt)]
    BY <1>1, <2>1, WrittenMove DEF Places
  <2> QED BY <1>1, <1>2, <2>1, <2>2, MoveKeepsIInv DEF Places, MovesTo
<1> QED BY <1>3, <1>4, <1>5, <1>6

\* The two steps that tell something new.
LEMMA TellingKeepsIInv ==
  ASSUME IInv, NEW e \in Events, ReportGenerated(e) \/ ReportPublished(e)
  PROVE  IInv' /\ MovesTo(e, {"publishReport", "timeline"})
<1>1. CallsOK /\ call[e].attempt \in 0 .. LargestAttempt /\ CoreInv
  BY CallOf, PartsOfIInv DEF CoreInv
<1>2. CASE ReportGenerated(e)
  <2>1. /\ call[e].at = "report" /\ storedReports' = storedReports \cup {e}
        /\ UNCHANGED <<clusterVars, registry, auditLog, dataset, timelines,
                       floatingAlert, running, alerted>>
        /\ call' = [call EXCEPT ![e].at = "publishReport", ![e].attempt = 0]
    BY <1>2 DEF ReportGenerated, At
  <2>2. 0 \in 0 .. LargestAttempt
    BY AttemptType
  <2>3. call' = [call EXCEPT ![e] = Moved(call[e], "publishReport", 0)]
    BY <1>1, <2>1 DEF Moved, CallsOK
  <2>4. CoreInv' /\ MovesTo(e, {"publishReport"})
    BY <1>1, <2>1, <2>2, <2>3, MoveStep DEF Reporting, Places, MovesTo
  <2>5. OtherTypes' /\ registry' \in [DOMAIN Deployed -> Entries]
    BY <2>1, PartsOfIInv DEF OtherTypes, ClusterTypeOK, clusterVars
  <2>6. OutcomesAreReported'
    BY <2>1, <2>4, PartsOfIInv DEF OutcomesAreReported, MovesTo
  <2> QED BY <2>4, <2>5, <2>6, PartsOfIInv DEF MovesTo
<1>3. CASE ReportPublished(e)
  <2>1. /\ call[e].at = "publishReport"
        /\ timelines' = [timelines EXCEPT ![e] = FinalOutcome(call[e].results)]
        /\ call' = [call EXCEPT ![e].at = "timeline"]
        /\ UNCHANGED <<clusterVars, registry, storedReports, floatingAlert, running, alerted>>
    BY <1>3 DEF ReportPublished, At
  <2>2. /\ dataset \subseteq dataset' /\ dataset' \subseteq dataset \cup {e}
        /\ auditLog \subseteq auditLog' /\ auditLog' \subseteq auditLog \cup {<<e, "learning">>}
    BY <1>3 DEF ReportPublished, SubmitOutcome
  <2>3. call' = [call EXCEPT ![e] = Moved(call[e], "timeline", call[e].attempt)]
    BY <1>1, <2>1, WrittenMove DEF Places
  <2>4. CoreInv' /\ MovesTo(e, {"timeline"})
    BY <1>1, <2>1, <2>2, <2>3, MoveStep DEF Reporting, Places, MovesTo
  <2>5. FinalOutcome(call[e].results) \in {"contained", "escalated"}
    BY DEF FinalOutcome
  <2>6. OtherTypes' /\ registry' \in [DOMAIN Deployed -> Entries]
    BY <2>1, <2>2, <2>5, PartsOfIInv DEF OtherTypes, ClusterTypeOK, clusterVars
  <2>7. OutcomesAreReported'
    BY <2>1, <2>2, <2>4, PartsOfIInv DEF OutcomesAreReported, OtherTypes, MovesTo
  <2> QED BY <2>4, <2>6, <2>7, PartsOfIInv DEF MovesTo
<1> QED BY <1>2, <1>3

\* The settlement of a retry alert, and stuttering.
LEMMA AlertsKeepIInv ==
  ASSUME IInv,
         RetryAlertDelivered \/ RetryAlertRejected \/ UNCHANGED vars
  PROVE  IInv'
<1>1. UNCHANGED <<call, clusterVars, agentVars, alerted>>
  BY DEF RetryAlertDelivered, RetryAlertRejected, vars
<1>2. CoreInv'
  <2>1. CallsOK'
    BY <1>1, PartsOfIInv DEF CoreInv, CallsOK
  <2>2. ActionsAreAudited' /\ FailuresWereAlerted'
    BY <1>1, PartsOfIInv, SameResults DEF CoreInv, agentVars
  <2>3. \A d \in Events : Counted(d)' <=> Counted(d)
    BY <1>1 DEF Counted
  <2>4. RegistryKeepsPlaces' /\ AccessesAreCounted'
    BY <1>1, <2>3, PartsOfIInv, SameCounts DEF CoreInv, agentVars
  <2> QED BY <2>1, <2>2, <2>4 DEF CoreInv
<1>3. OtherTypes'
  BY <1>1, PartsOfIInv DEF OtherTypes, ClusterTypeOK, clusterVars, agentVars, vars,
                           RetryAlertDelivered, RetryAlertRejected
<1>4. OutcomesAreReported' /\ registry' = registry
  BY <1>1, PartsOfIInv DEF OutcomesAreReported, agentVars
<1> QED BY <1>2, <1>3, <1>4, PartsOfIInv


LEMMA NewEntryFields ==
  ASSUME NEW id, NEW pod, NEW path
  PROVE  /\ NewEntry(id, pod, path).status = "active"
         /\ NewEntry(id, pod, path).lastAccess = NoEvent
         /\ NewEntry(id, pod, path).accessCount = 0
         /\ id \in {entry.id : entry \in Range(Deployed)}
            /\ pod \in {entry.pod : entry \in Range(Deployed)}
            /\ path \in {entry.path : entry \in Range(Deployed)}
            => NewEntry(id, pod, path) \in Entries
BY DEF NewEntry, Entries

LEMMA InitIInv ==
  ASSUME Init
  PROVE  IInv
<1>1. call = [e \in Events |-> NoCall] /\ NoCall \in Calls
  BY AttemptType DEF Init, NoCall, Calls, Places
<1>2. /\ NoCall.at = "new" /\ NoCall.class = "none" /\ NoCall.results = << >>
  BY DEF NoCall
<1>3. OnPlan(NoCall)
  BY <1>2 DEF OnPlan, Acting, Reporting
<1>4. CallsOK
  BY <1>1, <1>3 DEF CallsOK
<1>5. ActionsAreAudited /\ FailuresWereAlerted
  BY <1>1, <1>2 DEF ActionsAreAudited, FailuresWereAlerted
<1>6. registry = Deployed
  BY DEF Init
<1>7. RegistryKeepsPlaces
  BY <1>6 DEF RegistryKeepsPlaces
<1>8. ASSUME NEW i \in DOMAIN Deployed
      PROVE  /\ Deployed[i] \in Entries /\ Deployed[i].status = "active"
             /\ Deployed[i].lastAccess = NoEvent /\ Deployed[i].accessCount = 0
  <2>1. Deployed[i] \in Range(Deployed)
    BY DEF Range
  <2>2. PICK id, pod, path : /\ id = Deployed[i].id /\ pod = Deployed[i].pod
                             /\ path = Deployed[i].path
                             /\ Deployed[i] = NewEntry(id, pod, path)
    BY WorkflowAssumption
  <2> QED BY <2>1, <2>2, NewEntryFields
<1>9. registry \in [DOMAIN Deployed -> Entries]
  BY <1>6, <1>8, DeployedPositions, WorkflowAssumption
<1>10. \A i \in DOMAIN registry : Marked(i) = {}
  BY <1>1, <1>2 DEF Marked, Counted
<1>11. AccessesAreCounted
  BY <1>6, <1>8, <1>10, FS_EmptySet DEF AccessesAreCounted
<1>12. OtherTypes
  BY DEF Init, OtherTypes, ClusterInit, ClusterTypeOK
<1>13. OutcomesAreReported
  BY DEF Init, OutcomesAreReported
<1> QED BY <1>4, <1>5, <1>7, <1>9, <1>11, <1>12, <1>13, PartsOfIInv DEF CoreInv

LEMMA NextIInv ==
  ASSUME IInv, [Next]_vars
  PROVE  IInv'
<1>1. ASSUME NEW e \in Events, NEW access \in Accesses, Receive(e, access)
      PROVE  IInv'
  BY <1>1, BeginningKeepsIInv
<1>2. ASSUME NEW e \in Events, TimedStep(e)
      PROVE  IInv'
  BY <1>2, BeginningKeepsIInv, WakeUpKeepsIInv, ReportingKeepsIInv, TellingKeepsIInv
  DEF TimedStep
<1>3. ASSUME NEW e \in Events, UntimedStep(e)
      PROVE  IInv'
  BY <1>3, ActionSucceedsKeepsIInv, ActionFailsKeepsIInv, EscalationKeepsIInv
  DEF UntimedStep
<1>4. ASSUME RetryAlertDelivered \/ RetryAlertRejected \/ UNCHANGED vars
      PROVE  IInv'
  BY <1>4, AlertsKeepIInv
<1> QED BY <1>1, <1>2, <1>3, <1>4 DEF Next, Finished

\* The strengthened invariant holds however the calls interleave.
THEOREM WorkflowInvariant == Spec => []IInv
<1>1. Init => IInv
  BY InitIInv
<1>2. IInv /\ [Next]_vars => IInv'
  BY NextIInv
<1> QED BY <1>1, <1>2, PTL DEF Spec

\* The calls and what they share stay well-formed.
THEOREM WorkflowTypeCorrect == Spec => []TypeOK
<1>1. IInv => TypeOK
  BY DEF IInv
<1> QED BY <1>1, WorkflowInvariant, PTL

\* An isolation or a block is recorded as failed (response-executor.ts:176,
\* :216) only after its alert was delivered, for any number of retries.
THEOREM FailuresAreAlerted == Spec => []FailuresWereAlerted
<1>1. IInv => FailuresWereAlerted
  BY DEF IInv
<1> QED BY <1>1, WorkflowInvariant, PTL

\* The oldest entry of a place (workflow.ts:130) counts all accesses to it,
\* whatever the registry holds and however many calls look it up at once.
THEOREM AccessesAreAllCounted == Spec => []AccessesAreCounted
<1>1. IInv => AccessesAreCounted
  BY DEF IInv
<1> QED BY <1>1, WorkflowInvariant, PTL

\* What is reported, learned from or on the timeline has been through its whole
\* plan (response-executor.ts:62), every action audited.
THEOREM ReportsCoverThePlan == Spec => []ReportedMeansWholePlan
<1>1. ASSUME IInv, NEW e \in Events, e \in storedReports \cup dataset \/ timelines[e] # "none"
      PROVE  /\ ExecutedActions(e) = PlannedActions(call[e].class)
             /\ \A k \in DOMAIN ExecutedActions(e) :
                   <<e, ExecutedActions(e)[k]>> \in auditLog
  <2> DEFINE plan == PlannedActions(call[e].class)
             results == call[e].results
  <2>1. call[e].at \in Reporting
    BY <1>1 DEF IInv, OutcomesAreReported, Reporting
  <2>2. OnPlan(call[e]) /\ results \in Seq(Results)
    BY <1>1 DEF IInv, TypeOK, Calls
  <2>3. /\ Len(plan) = Len(results) + Len(call[e].todo) /\ call[e].todo = << >>
        /\ \A k \in 1 .. Len(results) : results[k].type = plan[k]
    BY <2>1, <2>2 DEF OnPlan
  <2>4. plan \in Seq(ActionTypes)
    BY PlanType
  <2> HIDE DEF plan
  <2>5. Len(results) \in Nat /\ Len(plan) = Len(results)
    BY <2>2, <2>3, EmptySeq
  <2>6. plan = [k \in 1 .. Len(results) |-> plan[k]]
    BY <2>4, <2>5
  <2>7. ExecutedActions(e) = [k \in 1 .. Len(results) |-> results[k].type]
    BY <2>2 DEF ExecutedActions
  <2>8. ExecutedActions(e) = plan
    BY <2>3, <2>6, <2>7
  <2>9. \A k \in DOMAIN ExecutedActions(e) : <<e, ExecutedActions(e)[k]>> \in auditLog
    BY <1>1 DEF IInv, ActionsAreAudited, ExecutedActions
  <2> QED BY <2>8, <2>9 DEF plan
<1>2. IInv => ReportedMeansWholePlan
  BY <1>1 DEF ReportedMeansWholePlan
<1> QED BY <1>2, WorkflowInvariant, PTL


---------------------------------------------------------------------------
(* What success means when policy names tell the pods apart                *)

\* What is in effect after a step: what was, and possibly what action does to p.
Adds(action, p) ==
    /\ PoliciesFitTheirNames'
    /\ \A q \in Pods :
          /\ Targeted(isolationPolicy, q)' <=>
                Targeted(isolationPolicy, q) \/ (action = "pod_isolation" /\ q = p)
          /\ Targeted(blockPolicy, q)' <=>
                Targeted(blockPolicy, q) \/ (action = "ip_block" /\ q = p)

LEMMA CreatedPolicy ==
  ASSUME DistinctNames, NEW policies \in [PolicyNames -> Pods \cup {NoPod}],
         \A n \in PolicyNames : policies[n] # NoPod => PolicyName(policies[n]) = n,
         NEW p \in Pods
  PROVE  /\ \A n \in PolicyNames :
               Created(policies, p)[n] # NoPod => PolicyName(Created(policies, p)[n]) = n
         /\ \A q \in Pods : Created(policies, p)[PolicyName(q)] = q <=>
                               policies[PolicyName(q)] = q \/ q = p
<1> DEFINE m == PolicyName(p)
           after == Created(policies, p)
<1>1. m \in PolicyNames /\ NoPod \notin Pods /\ \A q \in Pods : PolicyName(q) \in PolicyNames
  BY PolicyAssumption
<1>2. after[m] = IF policies[m] = NoPod THEN p ELSE policies[m]
  BY <1>1 DEF Created
<1>3. \A n \in PolicyNames : n # m => after[n] = policies[n]
  BY DEF Created
<1>4. after[m] = p
  BY <1>1, <1>2 DEF DistinctNames
<1> HIDE DEF after
<1>5. \A n \in PolicyNames : after[n] # NoPod => PolicyName(after[n]) = n
  BY <1>3, <1>4
<1>6. ASSUME NEW q \in Pods
      PROVE  after[PolicyName(q)] = q <=> policies[PolicyName(q)] = q \/ q = p
  <2>1. CASE PolicyName(q) = m
    BY <1>1, <1>4, <2>1 DEF DistinctNames
  <2>2. CASE PolicyName(q) # m
    BY <1>1, <1>3, <2>2
  <2> QED BY <2>1, <2>2
<1> QED BY <1>5, <1>6 DEF after

LEMMA EffectAdds ==
  ASSUME DistinctNames, ClusterTypeOK, PoliciesFitTheirNames, NEW action, NEW p \in Pods,
         TakesEffect(action, p)
  PROVE  Adds(action, p)
<1>1. CASE action = "pod_isolation"
  <2>1. /\ isolationPolicy' = Created(isolationPolicy, p) /\ blockPolicy' = blockPolicy
    BY <1>1 DEF TakesEffect, IsolatePod
  <2>2. /\ \A n \in PolicyNames :
              Created(isolationPolicy, p)[n] # NoPod =>
                PolicyName(Created(isolationPolicy, p)[n]) = n
        /\ \A q \in Pods : Created(isolationPolicy, p)[PolicyName(q)] = q <=>
                              isolationPolicy[PolicyName(q)] = q \/ q = p
    BY CreatedPolicy DEF ClusterTypeOK, PoliciesFitTheirNames
  <2> QED BY <1>1, <2>1, <2>2 DEF Adds, PoliciesFitTheirNames, Targeted
<1>2. CASE action = "ip_block"
  <2>1. /\ blockPolicy' = Created(blockPolicy, p) /\ isolationPolicy' = isolationPolicy
    BY <1>2 DEF TakesEffect, BlockIp
  <2>2. /\ \A n \in PolicyNames :
              Created(blockPolicy, p)[n] # NoPod =>
                PolicyName(Created(blockPolicy, p)[n]) = n
        /\ \A q \in Pods : Created(blockPolicy, p)[PolicyName(q)] = q <=>
                              blockPolicy[PolicyName(q)] = q \/ q = p
    BY CreatedPolicy DEF ClusterTypeOK, PoliciesFitTheirNames
  <2> QED BY <1>2, <2>1, <2>2 DEF Adds, PoliciesFitTheirNames, Targeted
<1>3. CASE action \notin {"pod_isolation", "ip_block"}
  <2>1. UNCHANGED clusterVars
    BY <1>3 DEF TakesEffect
  <2> QED BY <1>3, <2>1 DEF Adds, PoliciesFitTheirNames, Targeted, clusterVars
<1> QED BY <1>1, <1>2, <1>3

LEMMA NothingAdded ==
  ASSUME PoliciesFitTheirNames, UNCHANGED clusterVars, NEW p
  PROVE  Adds("nothing", p)
BY DEF Adds, PoliciesFitTheirNames, Targeted, clusterVars

\* The results so far belong to a pod that was accessed.
LEMMA ResultsHavePod ==
  ASSUME IInv, NEW d \in Events, NEW k \in DOMAIN call[d].results
  PROVE  call[d].pod \in Pods
<1>1. OnPlan(call[d]) /\ call[d].results # << >>
  BY DEF IInv
<1> QED BY <1>1 DEF OnPlan

\* What took effect stays in effect.
LEMMA SuccessKept ==
  ASSUME IInv, SuccessTookEffect, NEW action, NEW p, Adds(action, p),
         NEW d \in Events, NEW k \in DOMAIN call[d].results,
         call[d].results[k].result = "success"
  PROVE  /\ call[d].results[k].type = "pod_isolation" =>
              isolationPolicy'[PolicyName(call[d].pod)] = call[d].pod
         /\ call[d].results[k].type = "ip_block" =>
              blockPolicy'[PolicyName(call[d].pod)] = call[d].pod
<1>1. call[d].pod \in Pods
  BY ResultsHavePod
<1>2. PICK q \in Pods : q = call[d].pod
  BY <1>1
<1>3. /\ call[d].results[k].type = "pod_isolation" => Targeted(isolationPolicy, q)
      /\ call[d].results[k].type = "ip_block" => Targeted(blockPolicy, q)
  BY <1>2 DEF SuccessTookEffect, Targeted
<1>4. /\ Targeted(isolationPolicy, q) => Targeted(isolationPolicy, q)'
      /\ Targeted(blockPolicy, q) => Targeted(blockPolicy, q)'
  BY DEF Adds
<1> QED BY <1>2, <1>3, <1>4 DEF Targeted

LEMMA MoveKeepsEffects ==
  ASSUME IInv, EffectInv, NEW action, NEW p, Adds(action, p), NEW e \in Events,
         \/ MovesTo(e, Places)
         \/ /\ call'[e].results = << >>
            /\ \A d \in Events : d # e => call'[d] = call[d]
  PROVE  EffectInv'
<1> SUFFICES ASSUME NEW d \in Events, NEW k \in DOMAIN call'[d].results,
                    call'[d].results[k].result = "success"
             PROVE  /\ call'[d].results[k].type = "pod_isolation" =>
                         isolationPolicy'[PolicyName(call'[d].pod)] = call'[d].pod
                    /\ call'[d].results[k].type = "ip_block" =>
                         blockPolicy'[PolicyName(call'[d].pod)] = call'[d].pod
  BY DEF EffectInv, SuccessTookEffect, Targeted, Adds
<1>1. call'[d].results = call[d].results /\ call'[d].pod = call[d].pod
  BY DEF MovesTo
<1> QED BY <1>1, SuccessKept DEF EffectInv

\* An action that took effect is recorded as a success, or any as a failure.
LEMMA ReturnKeepsEffects ==
  ASSUME IInv, EffectInv, NEW action, NEW e \in Events, NEW result \in {"success", "failure"},
         call[e].at \in Acting, Adds(action, call[e].pod), Returns(e, result),
         result = "success" => action = Head(call[e].todo)
  PROVE  EffectInv'
<1> SUFFICES ASSUME NEW d \in Events, NEW k \in DOMAIN call'[d].results,
                    call'[d].results[k].result = "success"
             PROVE  /\ call'[d].results[k].type = "pod_isolation" =>
                         isolationPolicy'[PolicyName(call'[d].pod)] = call'[d].pod
                    /\ call'[d].results[k].type = "ip_block" =>
                         blockPolicy'[PolicyName(call'[d].pod)] = call'[d].pod
  BY DEF EffectInv, SuccessTookEffect, Targeted, Adds
<1>1. CASE d # e
  BY <1>1, SuccessKept DEF EffectInv, Returns
<1>2. CASE d = e
  <2> DEFINE done == [type |-> Head(call[e].todo), result |-> result]
  <2>1. call[e] \in Calls /\ call[e].todo # << >> /\ call[e].pod \in Pods
        /\ call[e].results \in Seq(Results)
    BY CallOf DEF OnPlan, Acting, Calls
  <2>2. call'[e].results = Append(call[e].results, done) /\ call'[e].pod = call[e].pod
    <3>1. /\ Recorded(call[e], result).results = Append(call[e].results, done)
          /\ Recorded(call[e], result).pod = call[e].pod
      BY <2>1, RecordedFields
    <3>2. call'[e] = Recorded(call[e], result)
      BY DEF Returns
    <3> QED BY <3>1, <3>2
  <2>3. CASE k = Len(call[e].results) + 1
    <3>1. call'[e].results[k] = done
      BY <2>1, <2>2, <2>3
    <3>2. call'[e].results[k].type = Head(call[e].todo) /\ result = "success"
      BY <1>2, <3>1
    <3>3. PICK q \in Pods : q = call[e].pod
      BY <2>1
    <3>4. action = "pod_isolation" => Targeted(isolationPolicy, q)'
      BY <3>3 DEF Adds
    <3>5. action = "ip_block" => Targeted(blockPolicy, q)'
      BY <3>3 DEF Adds
    <3> QED BY <1>2, <2>2, <3>2, <3>3, <3>4, <3>5 DEF Targeted
  <2>4. CASE k # Len(call[e].results) + 1
    <3> HIDE DEF done
    <3>1. DOMAIN call'[e].results = 1 .. Len(call[e].results) + 1
      BY <2>1, <2>2
    <3>2. k \in DOMAIN call[e].results /\ call'[e].results[k] = call[e].results[k]
      BY <1>2, <2>1, <2>2, <2>4, <3>1
    <3> QED BY <1>2, <2>2, <3>2, SuccessKept DEF EffectInv
  <2> QED BY <2>3, <2>4
<1> QED BY <1>1, <1>2


---------------------------------------------------------------------------
(* The steps in terms of IncidentResponse                                  *)

Incidentwise == <<IncidentState, IncidentNeeds, MeasuresInEffect>>

\* The state and the needs of one incident.
StateOf(c, outcome) ==
    IF c.at = "new" THEN "unknown"
    ELSE IF c.at = "failed" THEN "aborted"
    ELSE IF outcome = "none" THEN "open"
    ELSE outcome

NeedsOf(c) ==
    IF c.class \in {"high", "critical"} /\ Selectable(c.namespace, c.pod)
    THEN {"pod_isolation", "ip_block"} \X {c.pod} ELSE {}

LEMMA OneIncidentChanges ==
  ASSUME NEW e \in Events, \A d \in Events : d # e => call'[d] = call[d],
         \A d \in Events : d # e => timelines'[d] = timelines[d]
  PROVE  /\ IncidentState[e] = StateOf(call[e], timelines[e])
         /\ IncidentNeeds[e] = NeedsOf(call[e])
         /\ IncidentState' = [IncidentState EXCEPT ![e] = StateOf(call'[e], timelines'[e])]
         /\ IncidentNeeds' = [IncidentNeeds EXCEPT ![e] = NeedsOf(call'[e])]
<1>1. IncidentState = [d \in Events |-> StateOf(call[d], timelines[d])]
      /\ IncidentState' = [d \in Events |-> StateOf(call'[d], timelines'[d])]
  BY DEF IncidentState, StateOf
<1>2. IncidentNeeds = [d \in Events |-> NeedsOf(call[d])]
      /\ IncidentNeeds' = [d \in Events |-> NeedsOf(call'[d])]
  BY DEF IncidentNeeds, NeedsOf, Severe, InReach
<1> QED BY <1>1, <1>2

\* The pods that policies of a kind have in their grip.
Gripped(policies) == {q \in Pods : q \in LabelledPods /\ Targeted(policies, q)}

LEMMA MeasuresAreGrips ==
  /\ MeasuresInEffect = ({"pod_isolation"} \X Gripped(isolationPolicy))
                            \cup ({"ip_block"} \X Gripped(blockPolicy))
  /\ MeasuresInEffect' = ({"pod_isolation"} \X Gripped(isolationPolicy)')
                            \cup ({"ip_block"} \X Gripped(blockPolicy)')
BY DEF MeasuresInEffect, Isolated, Blocked, Selectable, Gripped

LEMMA SameMeasures ==
  ASSUME NEW action, NEW p \in Pods, Adds(action, p),
         action \notin {"pod_isolation", "ip_block"} \/ p \notin LabelledPods
  PROVE  MeasuresInEffect' = MeasuresInEffect
<1>1. \A q \in LabelledPods \cap Pods :
         /\ Targeted(isolationPolicy, q)' <=> Targeted(isolationPolicy, q)
         /\ Targeted(blockPolicy, q)' <=> Targeted(blockPolicy, q)
  BY DEF Adds
<1>2. /\ Gripped(isolationPolicy)' = Gripped(isolationPolicy)
      /\ Gripped(blockPolicy)' = Gripped(blockPolicy)
  BY <1>1 DEF Gripped
<1> QED BY <1>2, MeasuresAreGrips

LEMMA OneMoreMeasure ==
  ASSUME NEW action \in {"pod_isolation", "ip_block"}, NEW p \in Pods, Adds(action, p),
         p \in LabelledPods
  PROVE  MeasuresInEffect' = MeasuresInEffect \cup {<<action, p>>}
<1>1. CASE action = "pod_isolation"
  <2>1. /\ Gripped(isolationPolicy)' = Gripped(isolationPolicy) \cup {p}
        /\ Gripped(blockPolicy)' = Gripped(blockPolicy)
    BY <1>1 DEF Adds, Gripped
  <2> QED BY <1>1, <2>1, MeasuresAreGrips
<1>2. CASE action = "ip_block"
  <2>1. /\ Gripped(blockPolicy)' = Gripped(blockPolicy) \cup {p}
        /\ Gripped(isolationPolicy)' = Gripped(isolationPolicy)
    BY <1>2 DEF Adds, Gripped
  <2> QED BY <1>2, <2>1, MeasuresAreGrips
<1> QED BY <1>1, <1>2

\* Without namesakes, a label tells that policies can select the pod of a call.
LEMMA LabelledIsSelectable ==
  ASSUME NoNamesakes, IInv, NEW e \in Events, call[e].at # "new"
  PROVE  Selectable(call[e].namespace, call[e].pod) <=> call[e].pod \in LabelledPods
<1>1. <<call[e].namespace, call[e].pod>> \in AccessedPods
  BY CallOf DEF OnPlan
<1>2. PICK access \in Accesses : access.namespace = call[e].namespace /\ access.pod = call[e].pod
  BY <1>1 DEF AccessedPods
<1> QED BY <1>2 DEF NoNamesakes, Selectable

\* Where a call is tells what the incident is.
LEMMA OpenIncident ==
  ASSUME IInv, NEW e \in Events, call[e].at \notin {"new", "failed", "timeline", "done"}
  PROVE  StateOf(call[e], timelines[e]) = "open" /\ timelines[e] = "none"
BY DEF IInv, OutcomesAreReported, StateOf

\* A call that responds or reports goes on: for the incident, nothing happens.
LEMMA QuietStep ==
  ASSUME IInv, NEW e \in Events, UNCHANGED timelines,
         call[e].at \notin {"new", "failed"}, call'[e].at \notin {"new", "failed"},
         call'[e].class = call[e].class, call'[e].pod = call[e].pod,
         call'[e].namespace = call[e].namespace,
         \A d \in Events : d # e => call'[d] = call[d]
  PROVE  UNCHANGED <<IncidentState, IncidentNeeds>>
<1>1. /\ StateOf(call'[e], timelines'[e]) = StateOf(call[e], timelines[e])
      /\ NeedsOf(call'[e]) = NeedsOf(call[e])
  BY DEF StateOf, NeedsOf
<1>2. /\ IncidentState[e] = StateOf(call[e], timelines[e])
      /\ IncidentNeeds[e] = NeedsOf(call[e])
      /\ IncidentState' = [IncidentState EXCEPT ![e] = StateOf(call'[e], timelines'[e])]
      /\ IncidentNeeds' = [IncidentNeeds EXCEPT ![e] = NeedsOf(call'[e])]
  BY OneIncidentChanges
<1>3. IncidentState' = [IncidentState EXCEPT ![e] = IncidentState[e]]
      /\ IncidentNeeds' = [IncidentNeeds EXCEPT ![e] = IncidentNeeds[e]]
  BY <1>1, <1>2
<1>4. IncidentState = [d \in Events |-> IncidentState[d]]
      /\ IncidentNeeds = [d \in Events |-> IncidentNeeds[d]]
  BY DEF IncidentState, IncidentNeeds
<1> QED BY <1>3, <1>4

LEMMA PlanParts ==
  ASSUME NEW c \in Calls, OnPlan(c), c.at \in Acting \cup Reporting
  PROVE  /\ Len(c.results) \in Nat
         /\ Len(PlannedActions(c.class)) = Len(c.results) + Len(c.todo)
         /\ \A k \in 1 .. Len(c.results) : c.results[k].type = PlannedActions(c.class)[k]
         /\ \A k \in 1 .. Len(c.todo) :
               c.todo[k] = PlannedActions(c.class)[Len(c.results) + k]
         /\ c.at \in Acting => c.todo # << >>
         /\ c.at \in Reporting => c.todo = << >>
<1>1. Len(c.results) \in Nat
  BY DEF Calls
<1>2. /\ Len(PlannedActions(c.class)) = Len(c.results) + Len(c.todo)
      /\ \A k \in 1 .. Len(c.results) : c.results[k].type = PlannedActions(c.class)[k]
      /\ \A k \in 1 .. Len(c.todo) :
            c.todo[k] = PlannedActions(c.class)[Len(c.results) + k]
  BY DEF OnPlan
<1>3. (c.at \in Acting => c.todo # << >>) /\ (c.at \in Reporting => c.todo = << >>)
  BY DEF OnPlan
<1> QED BY <1>1, <1>2, <1>3

\* Only a severe incident has an isolation or a block in its plan.
LEMMA PlannedMeasures ==
  ASSUME IInv, NEW e \in Events, call[e].at \in Acting,
         Head(call[e].todo) \in {"pod_isolation", "ip_block"},
         Selectable(call[e].namespace, call[e].pod)
  PROVE  <<Head(call[e].todo), call[e].pod>> \in NeedsOf(call[e])
<1> DEFINE plan == PlannedActions(call[e].class)
           n == Len(call[e].results)
<1>1. /\ call[e] \in Calls /\ OnPlan(call[e]) /\ call[e].todo \in Seq(ActionTypes)
      /\ call[e].todo # << >>
  BY CallOf, PlanParts
<1>2. /\ n \in Nat /\ Len(plan) = n + Len(call[e].todo)
      /\ \A k \in 1 .. Len(call[e].todo) : call[e].todo[k] = plan[n + k]
  BY <1>1, PlanParts
<1>3. Head(call[e].todo) = call[e].todo[1] /\ Len(call[e].todo) \in Nat \ {0}
  BY <1>1
<1>4. Head(call[e].todo) = plan[n + 1] /\ n + 1 \in 1 .. Len(plan)
  <2> HIDE DEF n, plan
  <2> QED BY <1>2, <1>3
<1>5. CASE call[e].class \in {"high", "critical"}
  BY <1>5 DEF NeedsOf
<1>6. CASE call[e].class = "medium"
  <2>1. plan = <<"additional_honeytokens">>
    BY <1>6 DEF PlannedActions
  <2> QED BY <1>4, <2>1
<1>7. CASE call[e].class \notin {"high", "critical", "medium"}
  <2>1. plan = << >>
    BY <1>7 DEF PlannedActions
  <2> QED BY <1>4, <2>1
<1> QED BY <1>5, <1>6, <1>7

\* Containment that is about to be claimed, or was, is true.
LEMMA ContainmentIsTrue ==
  ASSUME IInv, EffectInv, NEW e \in Events, call[e].at \in Reporting,
         FinalOutcome(call[e].results) = "contained", Severe(e), InReach(e)
  PROVE  /\ Isolated(call[e].namespace, call[e].pod)
         /\ Blocked(call[e].namespace, call[e].pod)
<1> DEFINE plan == PlannedActions(call[e].class)
           n == Len(call[e].results)
<1>1. call[e] \in Calls /\ OnPlan(call[e]) /\ call[e].results \in Seq(Results)
  BY CallOf DEF Calls
<1>2. /\ n \in Nat /\ Len(plan) = n + Len(call[e].todo) /\ call[e].todo = << >>
      /\ \A k \in 1 .. n : call[e].results[k].type = plan[k]
  BY <1>1, PlanParts
<1>3. plan = <<"pod_isolation", "ip_block", "additional_honeytokens">>
  BY DEF PlannedActions, Severe
<1>4. n = 3
  BY <1>2, <1>3
<1>5. \A k \in DOMAIN call[e].results : call[e].results[k].result = "success"
  BY DEF FinalOutcome, AllSucceeded
<1>6. 1 \in DOMAIN call[e].results /\ 2 \in DOMAIN call[e].results
  BY <1>1, <1>4
<1>7. call[e].results[1].type = "pod_isolation" /\ call[e].results[2].type = "ip_block"
  BY <1>2, <1>3, <1>4
<1>8. Targeted(isolationPolicy, call[e].pod) /\ Targeted(blockPolicy, call[e].pod)
  BY <1>5, <1>6, <1>7 DEF EffectInv, SuccessTookEffect
<1> QED BY <1>8 DEF InReach, Isolated, Blocked


LEMMA SameCluster ==
  ASSUME UNCHANGED clusterVars
  PROVE  MeasuresInEffect' = MeasuresInEffect
BY DEF clusterVars, MeasuresInEffect, Isolated, Blocked, Targeted

\* processAccessEvent is rejected: the incident is closed as aborted.
LEMMA AbortCloses ==
  ASSUME IInv, NEW e \in Events, MovesTo(e, {"failed"}),
         call[e].at \notin {"new", "failed", "timeline", "done"},
         UNCHANGED <<timelines, clusterVars>>
  PROVE  Promise!Close(e)
<1>1. StateOf(call[e], timelines[e]) = "open"
  BY OpenIncident
<1>2. StateOf(call'[e], timelines'[e]) = "aborted" /\ NeedsOf(call'[e]) = NeedsOf(call[e])
  BY DEF StateOf, NeedsOf, MovesTo
<1>3. /\ IncidentState[e] = StateOf(call[e], timelines[e])
      /\ IncidentNeeds[e] = NeedsOf(call[e])
      /\ IncidentState' = [IncidentState EXCEPT ![e] = StateOf(call'[e], timelines'[e])]
      /\ IncidentNeeds' = [IncidentNeeds EXCEPT ![e] = NeedsOf(call'[e])]
  BY OneIncidentChanges DEF MovesTo
<1>4. IncidentNeeds' = IncidentNeeds
  <2>1. IncidentNeeds = [d \in Events |-> IncidentNeeds[d]]
    BY DEF IncidentNeeds
  <2> QED BY <1>2, <1>3, <2>1
<1>5. MeasuresInEffect' = MeasuresInEffect
  BY SameCluster
<1> QED BY <1>1, <1>2, <1>3, <1>4, <1>5 DEF Promise!Close

LEMMA ReceiveImplements ==
  ASSUME IInv, EffectInv, NEW e \in Events, NEW access \in Accesses, Receive(e, access)
  PROVE  EffectInv' /\ Promise!Open(e)
<1>1. /\ call[e].at = "new" /\ UNCHANGED <<clusterVars, timelines>>
  BY DEF Receive, At, agentVars
<1>2. /\ call'[e].at = "assess" /\ call'[e].results = << >>
      /\ call[e].class = "none" /\ call'[e].class = "none"
      /\ \A d \in Events : d # e => call'[d] = call[d]
  BY PartsOfIInv, ReceiveStep
<1>3. EffectInv'
  BY <1>1, <1>2, NothingAdded, MoveKeepsEffects DEF EffectInv
<1>4. timelines[e] = "none"
  BY <1>1 DEF IInv, OutcomesAreReported
<1>5. /\ StateOf(call[e], timelines[e]) = "unknown"
      /\ StateOf(call'[e], timelines'[e]) = "open"
      /\ NeedsOf(call[e]) = {} /\ NeedsOf(call'[e]) = {}
  BY <1>1, <1>2, <1>4 DEF StateOf, NeedsOf
<1>6. /\ IncidentState[e] = StateOf(call[e], timelines[e])
      /\ IncidentNeeds[e] = NeedsOf(call[e])
      /\ IncidentState' = [IncidentState EXCEPT ![e] = StateOf(call'[e], timelines'[e])]
      /\ IncidentNeeds' = [IncidentNeeds EXCEPT ![e] = NeedsOf(call'[e])]
  BY <1>1, <1>2, OneIncidentChanges
<1>7. IncidentNeeds' = IncidentNeeds
  <2>1. IncidentNeeds = [d \in Events |-> IncidentNeeds[d]]
    BY DEF IncidentNeeds
  <2> QED BY <1>5, <1>6, <2>1
<1>8. MeasuresInEffect' = MeasuresInEffect
  BY <1>1, SameCluster
<1> QED BY <1>3, <1>5, <1>6, <1>7, <1>8 DEF Promise!Open

LEMMA AssessImplements ==
  ASSUME IInv, EffectInv, NEW e \in Events, Assess(e)
  PROVE  EffectInv' /\ \E measures \in SUBSET ({"pod_isolation", "ip_block"} \X Pods) :
                          Promise!Assess(e, measures)
<1>1. /\ call[e].at = "assess" /\ UNCHANGED <<clusterVars, timelines>>
  BY DEF Assess, At, agentVars
<1>2. /\ call'[e].at = "announce" /\ call'[e].results = << >>
      /\ call[e].class = "none" /\ call'[e].pod = call[e].pod
      /\ call'[e].namespace = call[e].namespace
      /\ \A d \in Events : d # e => call'[d] = call[d]
  BY PartsOfIInv, AssessStep
<1>3. EffectInv'
  BY <1>1, <1>2, NothingAdded, MoveKeepsEffects DEF EffectInv
<1>4. StateOf(call[e], timelines[e]) = "open" /\ timelines[e] = "none"
  BY <1>1, OpenIncident
<1>5. call[e].pod \in Pods
  BY <1>1, CallOf DEF OnPlan
<1>6. /\ StateOf(call'[e], timelines'[e]) = "open"
      /\ NeedsOf(call[e]) = {}
      /\ NeedsOf(call'[e]) \in SUBSET ({"pod_isolation", "ip_block"} \X Pods)
  BY <1>1, <1>2, <1>4, <1>5 DEF StateOf, NeedsOf
<1>7. /\ IncidentState[e] = StateOf(call[e], timelines[e])
      /\ IncidentNeeds[e] = NeedsOf(call[e])
      /\ IncidentState' = [IncidentState EXCEPT ![e] = StateOf(call'[e], timelines'[e])]
      /\ IncidentNeeds' = [IncidentNeeds EXCEPT ![e] = NeedsOf(call'[e])]
  BY <1>1, <1>2, OneIncidentChanges
<1>8. IncidentState' = IncidentState
  <2>1. IncidentState = [d \in Events |-> IncidentState[d]]
    BY DEF IncidentState
  <2> QED BY <1>4, <1>6, <1>7, <2>1
<1>9. MeasuresInEffect' = MeasuresInEffect
  BY <1>1, SameCluster
<1>10. Promise!Assess(e, NeedsOf(call'[e]))
  BY <1>4, <1>6, <1>7, <1>8, <1>9 DEF Promise!Assess
<1> QED BY <1>3, <1>6, <1>10

LEMMA AnnouncedImplements ==
  ASSUME IInv, EffectInv, NEW e \in Events, Announced(e)
  PROVE  EffectInv' /\ UNCHANGED Incidentwise
<1>1. /\ call[e].at = "announce" /\ UNCHANGED <<clusterVars, timelines>>
  BY DEF Announced, At
<1>2. /\ call'[e].at \in {"act", "report"} /\ call'[e].class = call[e].class
      /\ call'[e].pod = call[e].pod /\ call'[e].results = << >>
      /\ call'[e].namespace = call[e].namespace
      /\ \A d \in Events : d # e => call'[d] = call[d]
  BY PartsOfIInv, AnnouncedStep
<1>3. EffectInv'
  BY <1>1, <1>2, NothingAdded, MoveKeepsEffects DEF EffectInv
<1>4. UNCHANGED <<IncidentState, IncidentNeeds>>
  BY <1>1, <1>2, QuietStep
<1>5. MeasuresInEffect' = MeasuresInEffect
  BY <1>1, SameCluster
<1> QED BY <1>3, <1>4, <1>5 DEF Incidentwise

\* An action that takes effect, whether or not its success is known.
LEMMA EffectImplements ==
  ASSUME NoNamesakes, IInv, NEW e \in Events, call[e].at \in Acting, UNCHANGED timelines,
         Adds(Head(call[e].todo), call[e].pod),
         UNCHANGED <<IncidentState, IncidentNeeds>>
  PROVE  \/ UNCHANGED Incidentwise
         \/ \E measure \in {"pod_isolation", "ip_block"} \X Pods : Promise!Take(e, measure)
<1> DEFINE action == Head(call[e].todo)
<1>1. call[e].pod \in Pods
  BY CallOf
<1>2. CASE action \in {"pod_isolation", "ip_block"} /\ call[e].pod \in LabelledPods
  <2>1. MeasuresInEffect' = MeasuresInEffect \cup {<<action, call[e].pod>>}
    BY <1>1, <1>2, OneMoreMeasure
  <2>2. <<action, call[e].pod>> \in NeedsOf(call[e])
    BY <1>2, PlannedMeasures, LabelledIsSelectable DEF Acting
  <2>3. IncidentNeeds[e] = NeedsOf(call[e]) /\ IncidentState[e] = StateOf(call[e], timelines[e])
    BY DEF IncidentNeeds, NeedsOf, IncidentState, StateOf, Severe, InReach
  <2>4. StateOf(call[e], timelines[e]) = "open"
    BY OpenIncident DEF Acting
  <2>5. Promise!Take(e, <<action, call[e].pod>>)
    BY <2>1, <2>2, <2>3, <2>4 DEF Promise!Take
  <2> QED BY <1>1, <1>2, <2>5
<1>3. CASE action \notin {"pod_isolation", "ip_block"} \/ call[e].pod \notin LabelledPods
  <2>1. MeasuresInEffect' = MeasuresInEffect
    BY <1>1, <1>3, SameMeasures
  <2> QED BY <2>1 DEF Incidentwise
<1> QED BY <1>2, <1>3

LEMMA ReturnIsQuiet ==
  ASSUME IInv, NEW e \in Events, NEW result \in {"success", "failure"},
         call[e].at \in Acting, Returns(e, result), UNCHANGED timelines
  PROVE  UNCHANGED <<IncidentState, IncidentNeeds>>
<1>1. call[e] \in Calls /\ call[e].todo # << >>
  BY CallOf, PlanParts
<1>2. /\ Recorded(call[e], result).at \in {"act", "publish"}
      /\ Recorded(call[e], result).class = call[e].class
      /\ Recorded(call[e], result).pod = call[e].pod
      /\ Recorded(call[e], result).namespace = call[e].namespace
  BY <1>1, RecordedFields
<1> QED BY <1>2, QuietStep DEF Returns, Acting

LEMMA ActionSucceedsImplements ==
  ASSUME DistinctNames, IInv, EffectInv, NEW e \in Events, ActionSucceeds(e)
  PROVE  /\ EffectInv'
         /\ NoNamesakes =>
              \/ UNCHANGED Incidentwise
              \/ \E measure \in {"pod_isolation", "ip_block"} \X Pods :
                    Promise!Take(e, measure)
<1>1. /\ call[e].at \in Acting /\ UNCHANGED timelines
      /\ TakesEffect(Head(call[e].todo), call[e].pod)
  BY DEF ActionSucceeds, At, Acting
<1>2. Returns(e, "success")
  BY ActionSucceedsKeepsIInv
<1>3. Adds(Head(call[e].todo), call[e].pod)
  BY <1>1, CallOf, EffectAdds, PartsOfIInv DEF EffectInv, OtherTypes
<1>4. EffectInv'
  BY <1>1, <1>2, <1>3, ReturnKeepsEffects
<1>5. UNCHANGED <<IncidentState, IncidentNeeds>>
  BY <1>1, <1>2, ReturnIsQuiet
<1> QED BY <1>1, <1>3, <1>4, <1>5, EffectImplements

LEMMA ActionFailsImplements ==
  ASSUME DistinctNames, IInv, EffectInv, NEW e \in Events, ActionFails(e)
  PROVE  /\ EffectInv'
         /\ NoNamesakes =>
              \/ UNCHANGED Incidentwise
              \/ \E measure \in {"pod_isolation", "ip_block"} \X Pods :
                    Promise!Take(e, measure)
<1>1. /\ call[e].at \in Acting /\ UNCHANGED timelines
      /\ TakesEffect(Head(call[e].todo), call[e].pod) \/ UNCHANGED clusterVars
  BY DEF ActionFails, At, Acting
<1>2. Returns(e, "failure") \/ MovesTo(e, {"sleep", "escalate"})
  BY ActionFailsKeepsIInv
<1>3. UNCHANGED <<IncidentState, IncidentNeeds>>
  <2>1. CASE Returns(e, "failure")
    BY <1>1, <2>1, ReturnIsQuiet
  <2>2. CASE MovesTo(e, {"sleep", "escalate"})
    BY <1>1, <2>2, QuietStep DEF MovesTo, Acting
  <2> QED BY <1>2, <2>1, <2>2
<1>4. ASSUME NEW action, Adds(action, call[e].pod)
      PROVE  EffectInv'
  <2>1. CASE Returns(e, "failure")
    BY <1>1, <1>4, <2>1, ReturnKeepsEffects
  <2>2. CASE MovesTo(e, {"sleep", "escalate"})
    <3>1. MovesTo(e, Places)
      BY <2>2 DEF MovesTo, Places
    <3> QED BY <1>4, <3>1, MoveKeepsEffects
  <2> QED BY <1>2, <2>1, <2>2
<1>5. CASE TakesEffect(Head(call[e].todo), call[e].pod)
  <2>1. Adds(Head(call[e].todo), call[e].pod)
    BY <1>1, <1>5, CallOf, EffectAdds, PartsOfIInv DEF EffectInv, OtherTypes
  <2> QED BY <1>1, <1>3, <1>4, <2>1, EffectImplements
<1>6. CASE UNCHANGED clusterVars
  <2>1. Adds("nothing", call[e].pod)
    BY <1>6, NothingAdded DEF EffectInv
  <2>2. MeasuresInEffect' = MeasuresInEffect
    BY <1>6, SameCluster
  <2> QED BY <1>3, <1>4, <2>1, <2>2 DEF Incidentwise
<1> QED BY <1>1, <1>5, <1>6

LEMMA EscalationImplements ==
  ASSUME IInv, EffectInv, NEW e \in Events,
         ExhaustionAlertDelivered(e) \/ ExhaustionAlertRejected(e)
  PROVE  EffectInv' /\ (UNCHANGED Incidentwise \/ Promise!Close(e))
<1>1. /\ call[e].at \in Acting /\ UNCHANGED <<timelines, clusterVars>>
  BY DEF ExhaustionAlertDelivered, ExhaustionAlertRejected, At, Acting, Abort
<1>2. Adds("nothing", call[e].pod) /\ MeasuresInEffect' = MeasuresInEffect
  BY <1>1, NothingAdded, SameCluster DEF EffectInv
<1>3. CASE Returns(e, "failure")
  <2>1. EffectInv'
    BY <1>1, <1>2, <1>3, ReturnKeepsEffects
  <2>2. UNCHANGED <<IncidentState, IncidentNeeds>>
    BY <1>1, <1>3, ReturnIsQuiet
  <2> QED BY <1>2, <2>1, <2>2 DEF Incidentwise
<1>4. CASE MovesTo(e, {"failed"})
  <2>1. EffectInv'
    <3>1. MovesTo(e, Places)
      BY <1>4 DEF MovesTo, Places
    <3> QED BY <1>2, <3>1, MoveKeepsEffects
  <2>2. Promise!Close(e)
    BY <1>1, <1>4, AbortCloses DEF Acting
  <2> QED BY <2>1, <2>2
<1> QED BY <1>3, <1>4, EscalationKeepsIInv

\* A call that waited, published or failed to report goes on, or is rejected.
LEMMA ReportingImplements ==
  ASSUME IInv, EffectInv, NEW e \in Events,
         WakeUp(e) \/ Publish(e) \/ ReportFails(e) \/ ReportRetry(e) \/ Complete(e)
  PROVE  EffectInv' /\ (UNCHANGED Incidentwise \/ Promise!Close(e))
<1>1. /\ call[e].at \in {"sleep", "publish", "report", "reportPause", "timeline"}
      /\ UNCHANGED <<timelines, clusterVars>>
      /\ call[e].at = "timeline" => call'[e].at = "done"
  <2>1. CASE Complete(e)
    <3>1. call[e].at = "timeline" /\ call' = [call EXCEPT ![e].at = "done"] /\ CallsOK
      BY <2>1, PartsOfIInv DEF Complete, At, CoreInv
    <3>2. call'[e].at = "done"
      BY <3>1, WrittenMove, CallOf, MovedFields DEF Places, CallsOK
    <3> QED BY <2>1, <3>1, <3>2 DEF Complete
  <2>2. CASE WakeUp(e) \/ Publish(e) \/ ReportFails(e) \/ ReportRetry(e)
    BY <2>2 DEF WakeUp, Publish, ReportFails, ReportRetry, Abort, At, agentVars
  <2> QED BY <2>1, <2>2
<1>2. MovesTo(e, {"act", "report", "reportPause", "done", "failed"})
  BY WakeUpKeepsIInv, ReportingKeepsIInv DEF MovesTo
<1>3. MovesTo(e, Places)
  BY <1>2 DEF MovesTo, Places
<1>4. Adds("nothing", call[e].pod) /\ MeasuresInEffect' = MeasuresInEffect
  BY <1>1, NothingAdded, SameCluster DEF EffectInv
<1>5. EffectInv'
  BY <1>3, <1>4, MoveKeepsEffects
<1>6. CASE call'[e].at = "failed"
  <2>1. MovesTo(e, {"failed"})
    BY <1>2, <1>6 DEF MovesTo
  <2> QED BY <1>1, <1>5, <1>6, <2>1, AbortCloses
<1>7. CASE call'[e].at # "failed"
  <2>1. UNCHANGED <<IncidentState, IncidentNeeds>>
    BY <1>1, <1>2, <1>7, QuietStep DEF MovesTo
  <2> QED BY <1>4, <1>5, <2>1 DEF Incidentwise
<1> QED BY <1>6, <1>7

LEMMA TellingImplements ==
  ASSUME IInv, EffectInv, NEW e \in Events, ReportGenerated(e) \/ ReportPublished(e)
  PROVE  EffectInv' /\ (UNCHANGED Incidentwise \/ Promise!Close(e))
<1>1. MovesTo(e, {"publishReport", "timeline"}) /\ UNCHANGED clusterVars
  BY TellingKeepsIInv DEF ReportGenerated, ReportPublished
<1>2. MovesTo(e, Places)
  BY <1>1 DEF MovesTo, Places
<1>3. Adds("nothing", call[e].pod) /\ MeasuresInEffect' = MeasuresInEffect
  BY <1>1, NothingAdded, SameCluster DEF EffectInv
<1>4. EffectInv'
  BY <1>2, <1>3, MoveKeepsEffects
<1>5. CASE ReportGenerated(e)
  <2>1. call[e].at = "report" /\ UNCHANGED timelines
    BY <1>5 DEF ReportGenerated, At
  <2>2. UNCHANGED <<IncidentState, IncidentNeeds>>
    BY <1>1, <2>1, QuietStep DEF MovesTo
  <2> QED BY <1>3, <1>4, <2>2 DEF Incidentwise
<1>6. CASE ReportPublished(e)
  <2> DEFINE verdict == FinalOutcome(call[e].results)
  <2>1. /\ call[e].at = "publishReport"
        /\ timelines' = [timelines EXCEPT ![e] = verdict]
        /\ call' = [call EXCEPT ![e].at = "timeline"]
    BY <1>6 DEF ReportPublished, At
  <2>2. timelines'[e] = verdict /\ \A d \in Events : d # e => timelines'[d] = timelines[d]
    BY <2>1, PartsOfIInv DEF OtherTypes
  <2>3. verdict \in {"contained", "escalated"}
    BY DEF FinalOutcome
  <2>4. StateOf(call[e], timelines[e]) = "open"
    BY <2>1, OpenIncident
  <2>5. StateOf(call'[e], timelines'[e]) = verdict /\ NeedsOf(call'[e]) = NeedsOf(call[e])
    <3> HIDE DEF verdict
    <3> QED BY <1>1, <2>2, <2>3 DEF StateOf, NeedsOf, MovesTo
  <2>6. /\ IncidentState[e] = StateOf(call[e], timelines[e])
        /\ IncidentNeeds[e] = NeedsOf(call[e])
        /\ IncidentState' = [IncidentState EXCEPT ![e] = StateOf(call'[e], timelines'[e])]
        /\ IncidentNeeds' = [IncidentNeeds EXCEPT ![e] = NeedsOf(call'[e])]
    BY <1>1, <2>2, OneIncidentChanges DEF MovesTo
  <2>7. IncidentNeeds' = IncidentNeeds
    <3>1. IncidentNeeds = [d \in Events |-> IncidentNeeds[d]]
      BY DEF IncidentNeeds
    <3> QED BY <2>5, <2>6, <3>1
  <2>8. verdict = "contained" => NeedsOf(call[e]) \subseteq MeasuresInEffect
    <3>1. CASE verdict = "contained" /\ Severe(e) /\ InReach(e)
      <4>1. /\ Isolated(call[e].namespace, call[e].pod)
            /\ Blocked(call[e].namespace, call[e].pod)
            /\ call[e].namespace = PolicyNamespace
        BY <2>1, <3>1, ContainmentIsTrue DEF Reporting, InReach, Selectable
      <4>2. call[e].pod \in Pods
        BY <2>1, CallOf DEF OnPlan
      <4> QED BY <4>1, <4>2 DEF NeedsOf, MeasuresInEffect
    <3>2. CASE ~(Severe(e) /\ InReach(e))
      BY <3>2 DEF NeedsOf, Severe, InReach
    <3> QED BY <3>1, <3>2
  <2> HIDE DEF verdict
  <2>9. Promise!Close(e)
    BY <1>3, <2>3, <2>4, <2>5, <2>6, <2>7, <2>8 DEF Promise!Close
  <2> QED BY <1>4, <2>9
<1> QED BY <1>5, <1>6

LEMMA AlertsImplement ==
  ASSUME EffectInv, RetryAlertDelivered \/ RetryAlertRejected \/ UNCHANGED vars
  PROVE  EffectInv' /\ UNCHANGED Incidentwise
<1>1. call' = call /\ timelines' = timelines /\ isolationPolicy' = isolationPolicy
      /\ blockPolicy' = blockPolicy
  BY DEF RetryAlertDelivered, RetryAlertRejected, vars, clusterVars, agentVars
<1>2. EffectInv'
  BY <1>1 DEF EffectInv, PoliciesFitTheirNames, SuccessTookEffect, Targeted
<1>3. UNCHANGED <<IncidentState, IncidentNeeds, MeasuresInEffect>>
  BY <1>1 DEF IncidentState, IncidentNeeds, MeasuresInEffect, Severe, InReach, Isolated,
                Blocked, Targeted
<1> QED BY <1>2, <1>3 DEF Incidentwise


LEMMA NextImplements ==
  ASSUME DistinctNames, IInv, EffectInv, [Next]_vars
  PROVE  EffectInv' /\ (NoNamesakes => [Promise!Next]_Incidentwise)
<1>1. ASSUME NEW e \in Events, NEW access \in Accesses, Receive(e, access)
      PROVE  EffectInv' /\ (NoNamesakes => [Promise!Next]_Incidentwise)
  BY <1>1, ReceiveImplements DEF Promise!Next
<1>2. ASSUME NEW e \in Events, TimedStep(e)
      PROVE  EffectInv' /\ (NoNamesakes => [Promise!Next]_Incidentwise)
  BY <1>2, AssessImplements, AnnouncedImplements, ReportingImplements, TellingImplements
  DEF TimedStep, Promise!Next
<1>3. ASSUME NEW e \in Events, UntimedStep(e)
      PROVE  EffectInv' /\ (NoNamesakes => [Promise!Next]_Incidentwise)
  BY <1>3, ActionSucceedsImplements, ActionFailsImplements, EscalationImplements
  DEF UntimedStep, Promise!Next
<1>4. ASSUME RetryAlertDelivered \/ RetryAlertRejected \/ UNCHANGED vars
      PROVE  EffectInv' /\ (NoNamesakes => [Promise!Next]_Incidentwise)
  BY <1>4, AlertsImplement
<1> QED BY <1>1, <1>2, <1>3, <1>4 DEF Next, Finished

LEMMA InitImplements ==
  ASSUME Init
  PROVE  EffectInv /\ Promise!Init
<1>1. \A e \in Events : /\ call[e].at = "new" /\ call[e].class = "none"
                        /\ call[e].results = << >>
  BY DEF Init, NoCall
<1>2. /\ isolationPolicy = [n \in PolicyNames |-> NoPod]
      /\ blockPolicy = [n \in PolicyNames |-> NoPod]
  BY DEF Init, ClusterInit
<1>3. \A p \in Pods : /\ ~Isolated(PolicyNamespace, p)
                      /\ ~Blocked(PolicyNamespace, p)
  BY <1>2, PolicyAssumption DEF Isolated, Blocked, Targeted
<1>4. EffectInv
  BY <1>1, <1>2 DEF EffectInv, PoliciesFitTheirNames, SuccessTookEffect
<1>5. /\ IncidentState = [e \in Events |-> "unknown"]
      /\ IncidentNeeds = [e \in Events |-> {}]
  BY <1>1 DEF IncidentState, IncidentNeeds, Severe
<1>6. MeasuresInEffect = {}
  BY <1>3 DEF MeasuresInEffect
<1> QED BY <1>4, <1>5, <1>6 DEF Promise!Init

\* When policy names tell the pods apart, a severe incident in a pod that policies
\* can select is reported as contained (workflow.ts:205) only if that pod is
\* isolated and blocked, for any number of incidents, pods and retries, and
\* whatever fails on the way.  Which pods can be selected is the limit of the
\* claim: those of the namespace `default' (k8s-response.ts:30, :74) with the label
\* of a StatefulSet (:48, :92).
THEOREM ContainmentIsReal ==
  ASSUME DistinctNames
  PROVE  Spec => []ContainedMeansIsolated
<1>1. Init => EffectInv
  BY InitImplements
<1>2. IInv /\ EffectInv /\ [Next]_vars => EffectInv'
  BY NextImplements
<1>3. IInv /\ EffectInv => ContainedMeansIsolated
  <2> SUFFICES ASSUME IInv, EffectInv, NEW e \in Events, timelines[e] = "contained",
                      Severe(e), InReach(e)
               PROVE  /\ Isolated(call[e].namespace, call[e].pod)
                      /\ Blocked(call[e].namespace, call[e].pod)
    BY DEF ContainedMeansIsolated
  <2>1. /\ call[e].at \in Reporting
        /\ FinalOutcome(call[e].results) = "contained"
    BY DEF IInv, OutcomesAreReported, Reporting
  <2> QED BY <2>1, ContainmentIsTrue
<1> QED BY <1>1, <1>2, <1>3, WorkflowInvariant, PTL DEF Spec

\* When, besides, no accessed pod of another namespace has the id of a pod that
\* policies can select, the workflow implements IncidentResponse for the pods that
\* they can: an incident closes once, is called contained only when everything it
\* needs is in effect, and only what an open incident needs is ever put in effect,
\* none of it taken back.  With such a namesake the policies made for one pod
\* would isolate another, which no incident is about.
THEOREM WorkflowImplementsPromise ==
  ASSUME DistinctNames, NoNamesakes
  PROVE  Spec => ImplementsIncidentResponse
<1>1. Init => EffectInv /\ Promise!Init
  BY InitImplements
<1>2. IInv /\ EffectInv /\ [Next]_vars => EffectInv' /\ [Promise!Next]_Incidentwise
  BY NextImplements
<1>3. [Promise!Next]_Incidentwise => [Promise!Next]_(Promise!incidentVars)
  BY DEF Incidentwise, Promise!incidentVars
<1> QED BY <1>1, <1>2, <1>3, WorkflowInvariant, PTL
        DEF Spec, ImplementsIncidentResponse, Promise!Spec

---------------------------------------------------------------------------
(* How a call goes on                                                      *)

\* The next states of the call c: what its next step makes of it, as far as its
\* place, its grade, its attempts and its plan are concerned.
Follows(c, d) ==
    \/ /\ \/ c.at = "new" /\ d.at = "assess" /\ d.class = c.class
          \/ c.at = "assess" /\ d.at = "announce" /\ d.class = AssessThreat(d.answer)
       /\ d.attempt = c.attempt /\ d.todo = c.todo /\ d.results = c.results
    \/ /\ c.at = "announce" /\ d.at = IF d.todo = << >> THEN "report" ELSE "act"
       /\ d.answer = c.answer /\ d.class = c.class
       /\ d.todo = PlannedActions(d.class) /\ d.attempt = c.attempt /\ d.results = c.results
    \/ /\ c.at \in {"act", "escalate"}
       /\ \E result \in {"success", "failure"} : d = Recorded(c, result)
    \/ /\ c.at = "act" /\ Head(c.todo) # "additional_honeytokens"
       /\ \/ c.attempt < MaxRetries /\ d = Moved(c, "sleep", c.attempt)
          \/ d = Moved(c, "escalate", c.attempt)
    \/ c.at = "sleep" /\ d = Moved(c, "act", c.attempt + 1)
    \/ c.at \in {"escalate", "report"} /\ d = Moved(c, "failed", c.attempt)
    \/ c.at = "publish" /\ d = Moved(c, "report", c.attempt)
    \/ c.at = "report" /\ d = Moved(c, "publishReport", 0)
    \/ /\ c.at = "report" /\ c.attempt < MaxReportRetries
       /\ d = Moved(c, "reportPause", c.attempt)
    \/ c.at = "reportPause" /\ d = Moved(c, "report", c.attempt + 1)
    \/ c.at = "publishReport" /\ d = Moved(c, "timeline", c.attempt)
    \/ c.at = "timeline" /\ d = Moved(c, "done", c.attempt)

\* One call at most goes on, and it does so as the code lets it.
GoesOn(e) ==
    /\ Follows(call[e], call'[e])
    /\ \A d \in Events : d # e => call'[d] = call[d]

LEMMA OneCallMoves ==
  ASSUME CallsOK, NEW e \in Events, NEW c, call' = [call EXCEPT ![e] = c]
  PROVE  call'[e] = c /\ \A d \in Events : d # e => call'[d] = call[d]
BY DEF CallsOK

LEMMA BeginningGoesOn ==
  ASSUME IInv, NEW e \in Events,
         \/ \E access \in Accesses : Receive(e, access)
         \/ Assess(e)
         \/ Announced(e)
  PROVE  GoesOn(e) /\ UNCHANGED <<auditLog, alerted>>
<1>1. call[e] \in Calls /\ CallsOK
  BY PartsOfIInv DEF CoreInv, CallsOK
<1>0. call \in [Events -> Calls]
  BY <1>1 DEF CallsOK
<1>2. ASSUME NEW access \in Accesses, Receive(e, access)
      PROVE  GoesOn(e) /\ UNCHANGED <<auditLog, alerted>>
  <2> DEFINE c == [call[e] EXCEPT !.at = "assess", !.namespace = access.namespace,
                                 !.pod = access.pod, !.path = access.path]
  <2>1. call' = [call EXCEPT ![e] = c]
    BY <1>0, <1>2 DEF Receive
  <2>2. /\ c.at = "assess" /\ c.attempt = call[e].attempt /\ c.class = call[e].class
        /\ c.todo = call[e].todo /\ c.results = call[e].results
    BY <1>1 DEF Calls
  <2> HIDE DEF c
  <2>3. call'[e] = c /\ \A d \in Events : d # e => call'[d] = call[d]
    BY <1>1, <2>1, OneCallMoves
  <2>4. call[e].at = "new" /\ UNCHANGED <<auditLog, alerted>>
    BY <1>2 DEF Receive, At, agentVars
  <2> QED BY <2>2, <2>3, <2>4 DEF GoesOn, Follows
<1>3. CASE Assess(e)
  <2>1. PICK answer \in Contexts \cup {NoContext} :
          call' = [call EXCEPT ![e].at = "announce", ![e].answer = answer,
                               ![e].class = AssessThreat(answer)]
    BY <1>3 DEF Assess
  <2> DEFINE class == AssessThreat(answer)
             c == [call[e] EXCEPT !.at = "announce", !.answer = answer, !.class = class]
  <2>2. call' = [call EXCEPT ![e] = c]
    BY <1>0, <2>1
  <2>3. class = AssessThreat(answer)
    OBVIOUS
  <2> HIDE DEF class
  <2>4. /\ c.at = "announce" /\ c.attempt = call[e].attempt
        /\ c.todo = call[e].todo /\ c.results = call[e].results
        /\ c.answer = answer /\ c.class = class
    BY <1>1 DEF Calls
  <2> HIDE DEF c
  <2>5. call'[e] = c /\ \A d \in Events : d # e => call'[d] = call[d]
    BY <1>1, <2>2, OneCallMoves
  <2>6. call[e].at = "assess" /\ UNCHANGED <<auditLog, alerted>>
    BY <1>3 DEF Assess, At, agentVars
  <2> QED BY <2>3, <2>4, <2>5, <2>6 DEF GoesOn, Follows
<1>4. CASE Announced(e)
  <2> DEFINE plan == PlannedActions(call[e].class)
             at == IF plan = << >> THEN "report" ELSE "act"
             c == [call[e] EXCEPT !.todo = plan, !.at = at]
  <2>1. call' = [call EXCEPT ![e] = c]
    BY <1>0, <1>4 DEF Announced
  <2>2. plan = PlannedActions(call[e].class) /\ at = IF plan = << >> THEN "report" ELSE "act"
    OBVIOUS
  <2> HIDE DEF plan, at
  <2>3. /\ c.at = at /\ c.attempt = call[e].attempt /\ c.class = call[e].class
        /\ c.answer = call[e].answer
        /\ c.todo = plan /\ c.results = call[e].results
    BY <1>1 DEF Calls
  <2> HIDE DEF c
  <2>4. call'[e] = c /\ \A d \in Events : d # e => call'[d] = call[d]
    BY <1>1, <2>1, OneCallMoves
  <2>5. call[e].at = "announce" /\ UNCHANGED <<auditLog, alerted>>
    BY <1>4 DEF Announced, At
  <2> QED BY <2>2, <2>3, <2>4, <2>5 DEF GoesOn, Follows
<1> QED BY <1>2, <1>3, <1>4

LEMMA ResponseGoesOn ==
  ASSUME IInv, NEW e \in Events,
         \/ ActionSucceeds(e) \/ ActionFails(e) \/ WakeUp(e)
         \/ ExhaustionAlertDelivered(e) \/ ExhaustionAlertRejected(e)
  PROVE  GoesOn(e)
<1>1. call[e] \in Calls /\ CallsOK
  BY PartsOfIInv DEF CoreInv, CallsOK
<1>2. CASE ActionSucceeds(e)
  <2>1. call[e].at = "act" /\ Returns(e, "success")
    BY <1>2, ActionSucceedsKeepsIInv DEF ActionSucceeds, At
  <2> QED BY <2>1 DEF GoesOn, Follows, Returns
<1>3. CASE ActionFails(e) /\ call' = [call EXCEPT ![e].at = "sleep"] /\ Retriable(e)
  <2>1. call' = [call EXCEPT ![e] = Moved(call[e], "sleep", call[e].attempt)]
    BY <1>1, <1>3, WrittenMove DEF Places
  <2>2. /\ call'[e] = Moved(call[e], "sleep", call[e].attempt)
        /\ \A d \in Events : d # e => call'[d] = call[d]
    BY <1>1, <2>1, OneCallMoves
  <2> QED BY <1>3, <2>2 DEF GoesOn, Follows, ActionFails, Retriable, At
<1>4. CASE ActionFails(e) /\ GiveUp(e)
  <2>1. call[e].at = "act"
    BY <1>4 DEF ActionFails, At
  <2>2. CASE Record(e, "failure") /\ Head(call[e].todo) = "additional_honeytokens"
    <3>1. CallsOK /\ call[e].at \in Acting
      BY <1>1, <2>1 DEF Acting
    <3>2. call' = [call EXCEPT ![e] = Recorded(call[e], "failure")]
      BY <1>1, <2>2 DEF Record, Recorded, CallsOK
    <3>3. call'[e] = Recorded(call[e], "failure")
          /\ \A d \in Events : d # e => call'[d] = call[d]
      BY <1>1, <3>2, OneCallMoves
    <3> QED BY <2>1, <3>3 DEF GoesOn, Follows
  <2>3. CASE /\ Head(call[e].todo) # "additional_honeytokens"
             /\ call' = [call EXCEPT ![e].at = "escalate"]
    <3>1. call' = [call EXCEPT ![e] = Moved(call[e], "escalate", call[e].attempt)]
      BY <1>1, <2>3, WrittenMove DEF Places
    <3>2. /\ call'[e] = Moved(call[e], "escalate", call[e].attempt)
          /\ \A d \in Events : d # e => call'[d] = call[d]
      BY <1>1, <3>1, OneCallMoves
    <3> QED BY <2>1, <2>3, <3>2 DEF GoesOn, Follows
  <2> QED BY <1>4, <2>2, <2>3 DEF GiveUp
<1>5. CASE WakeUp(e)
  <2>1. call[e].at = "sleep"
        /\ call' = [call EXCEPT ![e].at = "act", ![e].attempt = call[e].attempt + 1]
    BY <1>1, <1>5 DEF WakeUp, At, CallsOK
  <2>2. call' = [call EXCEPT ![e] = Moved(call[e], "act", call[e].attempt + 1)]
    BY <1>1, <2>1 DEF Moved, CallsOK
  <2>3. /\ call'[e] = Moved(call[e], "act", call[e].attempt + 1)
        /\ \A d \in Events : d # e => call'[d] = call[d]
    BY <1>1, <2>2, OneCallMoves
  <2> QED BY <2>1, <2>3 DEF GoesOn, Follows
<1>6. CASE ExhaustionAlertDelivered(e)
  <2>1. call[e].at = "escalate" /\ Record(e, "failure")
    BY <1>6 DEF ExhaustionAlertDelivered, At
  <2>2. call' = [call EXCEPT ![e] = Recorded(call[e], "failure")]
    BY <1>1, <2>1 DEF Record, Recorded, CallsOK
  <2>3. call'[e] = Recorded(call[e], "failure") /\ \A d \in Events : d # e => call'[d] = call[d]
    BY <1>1, <2>2, OneCallMoves
  <2> QED BY <2>1, <2>3 DEF GoesOn, Follows
<1>7. CASE ExhaustionAlertRejected(e)
  <2>1. call[e].at = "escalate" /\ call' = [call EXCEPT ![e].at = "failed"]
    BY <1>7 DEF ExhaustionAlertRejected, Abort, At
  <2>2. call' = [call EXCEPT ![e] = Moved(call[e], "failed", call[e].attempt)]
    BY <1>1, <2>1, WrittenMove DEF Places
  <2>3. /\ call'[e] = Moved(call[e], "failed", call[e].attempt)
        /\ \A d \in Events : d # e => call'[d] = call[d]
    BY <1>1, <2>2, OneCallMoves
  <2> QED BY <2>1, <2>3 DEF GoesOn, Follows
<1> QED BY <1>2, <1>3, <1>4, <1>5, <1>6, <1>7 DEF ActionFails

LEMMA ReportingGoesOn ==
  ASSUME IInv, NEW e \in Events,
         \/ Publish(e) \/ ReportGenerated(e) \/ ReportFails(e) \/ ReportRetry(e)
         \/ ReportPublished(e) \/ Complete(e)
  PROVE  GoesOn(e)
<1>1. call[e] \in Calls /\ CallsOK
  BY PartsOfIInv DEF CoreInv, CallsOK
<1>2. ASSUME NEW at \in Places, call' = [call EXCEPT ![e].at = at]
      PROVE  /\ call'[e] = Moved(call[e], at, call[e].attempt)
             /\ \A d \in Events : d # e => call'[d] = call[d]
  <2>1. call' = [call EXCEPT ![e] = Moved(call[e], at, call[e].attempt)]
    BY <1>1, <1>2, WrittenMove
  <2> QED BY <1>1, <2>1, OneCallMoves
<1>3. CASE Publish(e)
  BY <1>2, <1>3 DEF Publish, At, GoesOn, Follows, Places
<1>4. CASE ReportFails(e)
  BY <1>2, <1>4 DEF ReportFails, Abort, At, GoesOn, Follows, Places
<1>5. CASE ReportPublished(e)
  BY <1>2, <1>5 DEF ReportPublished, At, GoesOn, Follows, Places
<1>6. CASE Complete(e)
  BY <1>2, <1>6 DEF Complete, At, GoesOn, Follows, Places
<1>7. CASE ReportGenerated(e)
  <2>1. call[e].at = "report"
        /\ call' = [call EXCEPT ![e].at = "publishReport", ![e].attempt = 0]
    BY <1>7 DEF ReportGenerated, At
  <2>2. call' = [call EXCEPT ![e] = Moved(call[e], "publishReport", 0)]
    BY <1>1, <2>1 DEF Moved, CallsOK
  <2>3. /\ call'[e] = Moved(call[e], "publishReport", 0)
        /\ \A d \in Events : d # e => call'[d] = call[d]
    BY <1>1, <2>2, OneCallMoves
  <2> QED BY <2>1, <2>3 DEF GoesOn, Follows
<1>8. CASE ReportRetry(e)
  <2>1. call[e].at = "reportPause"
        /\ call' = [call EXCEPT ![e].at = "report", ![e].attempt = call[e].attempt + 1]
    BY <1>1, <1>8 DEF ReportRetry, At, CallsOK
  <2>2. call' = [call EXCEPT ![e] = Moved(call[e], "report", call[e].attempt + 1)]
    BY <1>1, <2>1 DEF Moved, CallsOK
  <2>3. /\ call'[e] = Moved(call[e], "report", call[e].attempt + 1)
        /\ \A d \in Events : d # e => call'[d] = call[d]
    BY <1>1, <2>2, OneCallMoves
  <2> QED BY <2>1, <2>3 DEF GoesOn, Follows
<1> QED BY <1>3, <1>4, <1>5, <1>6, <1>7, <1>8

LEMMA EveryStepGoesOn ==
  ASSUME IInv, [Next]_vars
  PROVE  UNCHANGED call \/ \E e \in Events : GoesOn(e)
<1>1. ASSUME NEW e \in Events,
             (\E access \in Accesses : Receive(e, access)) \/ TimedStep(e) \/ UntimedStep(e)
      PROVE  GoesOn(e)
  BY <1>1, BeginningGoesOn, ResponseGoesOn, ReportingGoesOn DEF TimedStep, UntimedStep
<1>2. CASE RetryAlertDelivered \/ RetryAlertRejected \/ Finished \/ UNCHANGED vars
  BY <1>2 DEF RetryAlertDelivered, RetryAlertRejected, Finished, vars
<1> QED BY <1>1, <1>2 DEF Next

\* In every plan the deployment of honeytokens is the last action, and no action
\* is planned twice.
LEMMA PlanShape ==
  ASSUME NEW class
  PROVE  LET plan == PlannedActions(class)
         IN  /\ Len(plan) \in 0 .. 3
             /\ \A k \in 1 .. Len(plan) :
                   plan[k] = "additional_honeytokens" <=> k = Len(plan)
             /\ \A k, m \in 1 .. Len(plan) : plan[k] = plan[m] => k = m
<1>1. CASE class \in {"high", "critical"}
  BY <1>1 DEF PlannedActions
<1>2. CASE class = "medium"
  BY <1>2 DEF PlannedActions
<1>3. CASE class \notin {"high", "critical", "medium"}
  BY <1>3 DEF PlannedActions
<1> QED BY <1>1, <1>2, <1>3

LEMMA PartOfThree ==
  ASSUME NEW n \in Nat, NEW m \in Nat, NEW p \in 0 .. 3, p = n + m
  PROVE  /\ m \in 0 .. 3
         /\ n + 1 = p <=> m = 1
         /\ m # 0 => n + 1 \in 1 .. p
OBVIOUS

\* What is left of the plan of a call that is acting, or that failed.
LEMMA RestOfPlan ==
  ASSUME NEW c \in Calls, OnPlan(c), FailedOnPlan(c), c.at \in Acting \cup {"failed"}
  PROVE  /\ Len(c.todo) \in 0 .. 3
         /\ c.at # "failed" => c.todo # << >>
         /\ c.todo = << >> <=> Len(c.todo) = 0
         /\ c.todo # << >> =>
              /\ Head(c.todo) = "additional_honeytokens" <=> Len(c.todo) = 1
              /\ \A k \in DOMAIN c.results : c.results[k].type # Head(c.todo)
<1> DEFINE plan == PlannedActions(c.class)
           n == Len(c.results)
           m == Len(c.todo)
           p == Len(plan)
<1>1. /\ p \in 0 .. 3
      /\ \A k \in 1 .. p : plan[k] = "additional_honeytokens" <=> k = p
      /\ \A k, l \in 1 .. p : plan[k] = plan[l] => k = l
  BY PlanShape
<1>2. /\ p = n + m
      /\ \A k \in 1 .. n : c.results[k].type = plan[k]
      /\ \A k \in 1 .. m : c.todo[k] = plan[n + k]
      /\ c.at # "failed" => c.todo # << >>
  BY DEF OnPlan, FailedOnPlan, Acting
<1>3. /\ c.todo \in Seq(ActionTypes) /\ c.results \in Seq(Results)
      /\ n \in Nat /\ m \in Nat /\ DOMAIN c.results = 1 .. n
  BY DEF Calls
<1>4. c.todo = << >> <=> m = 0
  BY <1>3, EmptySeq
<1>5. c.todo # << >> => Head(c.todo) = c.todo[1]
  BY <1>3
<1> HIDE DEF plan, n, m, p
<1>6. /\ m \in 0 .. 3
      /\ n + 1 = p <=> m = 1
      /\ m # 0 => n + 1 \in 1 .. p
  BY <1>1, <1>2, <1>3, PartOfThree
<1>7. ASSUME c.todo # << >>
      PROVE  /\ Head(c.todo) = "additional_honeytokens" <=> m = 1
             /\ \A k \in DOMAIN c.results : c.results[k].type # Head(c.todo)
  <2>1. Head(c.todo) = plan[n + 1] /\ n + 1 \in 1 .. p
    BY <1>2, <1>4, <1>5, <1>6, <1>7
  <2>2. ASSUME NEW k \in 1 .. n
        PROVE  c.results[k].type # Head(c.todo)
    <3>1. k \in 1 .. p /\ k # n + 1
      BY <1>1, <1>3, <2>1
    <3> QED BY <1>1, <1>2, <2>1, <3>1
  <2> QED BY <1>1, <1>3, <1>6, <2>1, <2>2
<1>8. /\ m \in 0 .. 3
      /\ c.at # "failed" => c.todo # << >>
      /\ c.todo = << >> <=> m = 0
      /\ c.todo # << >> => /\ Head(c.todo) = "additional_honeytokens" <=> m = 1
                           /\ \A k \in DOMAIN c.results : c.results[k].type # Head(c.todo)
  BY <1>2, <1>4, <1>6, <1>7
<1> QED BY <1>8 DEF m

\* What bounds the rest of a call, place by place.
LEMMA StepsLeftAt ==
  ASSUME NEW c \in Calls
  PROVE  /\ c.at = "new" => StepsLeft(c) = MostSteps
         /\ c.at = "assess" => StepsLeft(c) = MostSteps - 1
         /\ c.at = "announce" => StepsLeft(c) = MostSteps - 2
         /\ c.at = "act" => StepsLeft(c) =
               StepsOfAction(c) + StepsOfLaterActions(c) + ReportingSteps
         /\ c.at = "sleep" => StepsLeft(c) =
               StepsOfAction(c) + StepsOfLaterActions(c) + ReportingSteps
         /\ c.at = "escalate" => StepsLeft(c) =
               1 + StepsOfLaterActions(c) + ReportingSteps
         /\ c.at = "publish" => StepsLeft(c) = ReportingSteps
         /\ c.at = "report" => StepsLeft(c) = 2 * (MaxReportRetries - c.attempt) + 3
         /\ c.at = "reportPause" => StepsLeft(c) = 2 * (MaxReportRetries - c.attempt) + 2
         /\ c.at = "publishReport" => StepsLeft(c) = 2
         /\ c.at = "timeline" => StepsLeft(c) = 1
         /\ c.at \in {"done", "failed"} => StepsLeft(c) = 0
BY DEF StepsLeft, StepsOfAction

\* The length of what is left after the first action.
LEMMA TailLength ==
  ASSUME NEW s \in Seq(ActionTypes), s # << >>
  PROVE  Len(Tail(s)) = Len(s) - 1 /\ Len(s) \in Nat /\ Len(s) >= 1
OBVIOUS

\* The bound leaves room for each of the actions that are left of a plan.
LEMMA StepsOfRest ==
  ASSUME NEW m \in 1 .. 3, NEW c, Len(c.todo) = m
  PROVE  /\ StepsOfLaterActions(c) =
              IF m = 1 THEN 0 ELSE IF m = 2 THEN 1 ELSE 2 * MaxRetries + 3
         /\ StepsOfAction(c) =
              IF c.at = "escalate" \/ m = 1 THEN 1
              ELSE 2 * (MaxRetries - c.attempt) + IF c.at = "act" THEN 2 ELSE 1
BY AttemptType DEF StepsOfLaterActions, StepsOfAction, ContainmentSteps

\* An action that returns leaves fewer steps.
LEMMA ReturnDecreases ==
  ASSUME NEW c \in Calls, OnPlan(c), AttemptsCounted(c), FailedOnPlan(c),
         c.at \in {"act", "escalate"}, NEW result \in {"success", "failure"}
  PROVE  LET d == Recorded(c, result)
         IN  0 <= StepsLeft(d) /\ StepsLeft(d) < StepsLeft(c)
<1> DEFINE d == Recorded(c, result)
           m == Len(c.todo)
<1>1. c.todo \in Seq(ActionTypes) /\ c.attempt \in Nat
  BY AttemptType DEF Calls
<1>2. c.todo # << >> /\ m \in 1 .. 3
  BY <1>1, RestOfPlan, EmptySeq DEF Acting
<1>3. /\ d \in Calls /\ d.attempt = 0
      /\ d.at = IF m = 1 THEN "publish" ELSE "act"
      /\ Len(d.todo) = m - 1
  BY <1>1, <1>2, RecordedFields, TailLength
<1>4. c.at = "act" => c.attempt <= MaxRetries
  BY DEF AttemptsCounted
<1> HIDE DEF d, m
<1>5. /\ StepsOfLaterActions(c) =
           IF m = 1 THEN 0 ELSE IF m = 2 THEN 1 ELSE 2 * MaxRetries + 3
      /\ StepsOfAction(c) =
           IF c.at = "escalate" \/ m = 1 THEN 1
           ELSE 2 * (MaxRetries - c.attempt) + IF c.at = "act" THEN 2 ELSE 1
  BY <1>2, StepsOfRest DEF m
<1>6. StepsLeft(c) = StepsOfAction(c) + StepsOfLaterActions(c) + ReportingSteps
      /\ StepsOfAction(c) >= 1 /\ StepsOfAction(c) \in Int
  BY <1>1, <1>2, <1>4, <1>5, StepsLeftAt, AttemptType
<1>7. ReportingSteps \in Nat /\ MaxRetries \in Nat
  BY AttemptType DEF ReportingSteps
<1>8. CASE m = 1
  <2>1. StepsLeft(d) = ReportingSteps
    BY <1>3, <1>8, StepsLeftAt
  <2> QED BY <1>5, <1>6, <1>7, <1>8, <2>1 DEF d
<1>9. CASE m # 1
  <2> DEFINE l == m - 1
  <2>1. l \in 1 .. 3 /\ Len(d.todo) = l /\ d.at = "act" /\ l \in {1, 2} /\ l = m - 1
    BY <1>2, <1>3, <1>9
  <2> HIDE DEF l
  <2>2. /\ StepsOfLaterActions(d) =
             IF l = 1 THEN 0 ELSE IF l = 2 THEN 1 ELSE 2 * MaxRetries + 3
        /\ StepsOfAction(d) =
             IF d.at = "escalate" \/ l = 1 THEN 1
             ELSE 2 * (MaxRetries - d.attempt) + IF d.at = "act" THEN 2 ELSE 1
    BY <2>1, StepsOfRest
  <2>3. StepsLeft(d) = StepsOfAction(d) + StepsOfLaterActions(d) + ReportingSteps
    BY <1>3, <2>1, StepsLeftAt
  <2>4. StepsOfAction(d) + StepsOfLaterActions(d)
          = IF l = 1 THEN 1 ELSE 2 * MaxRetries + 3
    BY <1>3, <1>7, <2>1, <2>2
  <2>5. StepsOfLaterActions(c) = IF l = 1 THEN 1 ELSE 2 * MaxRetries + 3
    BY <1>2, <1>5, <1>9, <2>1
  <2> HIDE DEF d
  <2> QED BY <1>6, <1>7, <2>3, <2>4, <2>5 DEF d
<1> QED BY <1>8, <1>9

\* The call goes on with the next attempt.
LEMMA NextAttempt ==
  ASSUME NEW c \in Calls, NEW at \in Places, c.attempt + 1 \in 0 .. LargestAttempt
  PROVE  LET d == Moved(c, at, c.attempt + 1)
         IN  /\ d.at = at /\ d.attempt = c.attempt + 1
             /\ d.todo = c.todo /\ d.results = c.results /\ d.class = c.class
<1> DEFINE n == c.attempt + 1
<1>1. n \in 0 .. LargestAttempt
  OBVIOUS
<1> HIDE DEF n
<1>2. LET d == Moved(c, at, n)
      IN  /\ d.at = at /\ d.attempt = n
          /\ d.todo = c.todo /\ d.results = c.results /\ d.class = c.class
  BY <1>1, MovedFields
<1> QED BY <1>2 DEF n

\* So does every other step.
LEMMA MoveDecreases ==
  ASSUME NEW c \in Calls, NEW d \in Calls, OnPlan(c), OnPlan(d), AttemptsCounted(c),
         FailedOnPlan(c), Follows(c, d),
         c.at \in {"act", "escalate"} =>
            \A result \in {"success", "failure"} : d # Recorded(c, result)
  PROVE  0 <= StepsLeft(d) /\ StepsLeft(d) < StepsLeft(c)
<1> DEFINE m == Len(c.todo)
<1>1. /\ c.attempt \in 0 .. LargestAttempt /\ c.attempt \in Nat
      /\ d.attempt \in Nat /\ MaxRetries \in Nat /\ MaxReportRetries \in Nat
      /\ 0 \in 0 .. LargestAttempt
  BY AttemptType DEF Calls
<1>2. /\ ReportingSteps = 2 * MaxReportRetries + 4
      /\ MostSteps = 4 * MaxRetries + 2 * MaxReportRetries + 12
  BY <1>1 DEF ReportingSteps, MostSteps, ContainmentSteps
<1>3. /\ c.at = "act" => c.attempt <= MaxRetries
      /\ c.at = "report" => c.attempt <= MaxReportRetries
      /\ c.at \in {"announce", "publish"} => c.attempt = 0
      /\ c.at = "sleep" => c.attempt < MaxRetries
      /\ c.at = "reportPause" => c.attempt < MaxReportRetries
  BY DEF AttemptsCounted, OnPlan
<1>4. ASSUME NEW at \in Places, d = Moved(c, at, c.attempt)
      PROVE  d.at = at /\ d.attempt = c.attempt /\ d.todo = c.todo
  BY <1>1, <1>4, MovedFields
<1>5. CASE c.at \in {"new", "assess"}
  <2>1. \/ c.at = "new" /\ d.at = "assess"
        \/ c.at = "assess" /\ d.at = "announce"
    BY <1>5 DEF Follows
  <2>2. \/ StepsLeft(c) = MostSteps /\ StepsLeft(d) = MostSteps - 1
        \/ StepsLeft(c) = MostSteps - 1 /\ StepsLeft(d) = MostSteps - 2
    BY <2>1, StepsLeftAt
  <2> QED BY <1>1, <1>2, <2>2
<1>6. CASE c.at = "announce"
  <2>1. /\ d.at = IF d.todo = << >> THEN "report" ELSE "act"
        /\ d.attempt = 0 /\ StepsLeft(c) = MostSteps - 2
    BY <1>3, <1>6, StepsLeftAt DEF Follows
  <2>2. CASE d.at = "report"
    BY <1>1, <1>2, <2>1, <2>2, StepsLeftAt
  <2>3. CASE d.at = "act"
    <3> DEFINE l == Len(d.todo)
    <3>1. FailedOnPlan(d)
      BY <2>3 DEF FailedOnPlan
    <3>2. l \in 1 .. 3
      BY <2>3, <3>1, RestOfPlan DEF Acting
    <3>3. /\ StepsOfLaterActions(d) =
               IF l = 1 THEN 0 ELSE IF l = 2 THEN 1 ELSE 2 * MaxRetries + 3
          /\ StepsOfAction(d) =
               IF d.at = "escalate" \/ l = 1 THEN 1
               ELSE 2 * (MaxRetries - d.attempt) + IF d.at = "act" THEN 2 ELSE 1
      BY <3>2, StepsOfRest
    <3>4. StepsLeft(d) = StepsOfAction(d) + StepsOfLaterActions(d) + ReportingSteps
      BY <2>3, StepsLeftAt
    <3> HIDE DEF l
    <3>5. StepsOfAction(d) <= 2 * MaxRetries + 2 /\ 0 <= StepsOfAction(d)
          /\ StepsOfAction(d) \in Int
      BY <1>1, <2>1, <2>3, <3>2, <3>3
    <3>6. StepsOfLaterActions(d) <= 2 * MaxRetries + 3 /\ 0 <= StepsOfLaterActions(d)
          /\ StepsOfLaterActions(d) \in Int
      BY <1>1, <3>2, <3>3
    <3> QED BY <1>1, <1>2, <2>1, <3>4, <3>5, <3>6
  <2> QED BY <2>1, <2>2, <2>3
<1>7. CASE c.at \in Acting
  <2>1. m \in 1 .. 3
    BY <1>7, RestOfPlan DEF Acting
  <2>2. /\ StepsOfLaterActions(c) =
             IF m = 1 THEN 0 ELSE IF m = 2 THEN 1 ELSE 2 * MaxRetries + 3
        /\ StepsOfAction(c) =
             IF c.at = "escalate" \/ m = 1 THEN 1
             ELSE 2 * (MaxRetries - c.attempt) + IF c.at = "act" THEN 2 ELSE 1
    BY <2>1, StepsOfRest
  <2>3. StepsLeft(c) = StepsOfAction(c) + StepsOfLaterActions(c) + ReportingSteps
    BY <1>7, <2>2, StepsLeftAt DEF Acting
  <2>4. ASSUME d.at \in Acting, d.todo = c.todo
        PROVE  /\ StepsOfLaterActions(d) = StepsOfLaterActions(c)
               /\ StepsOfAction(d) =
                    IF d.at = "escalate" \/ m = 1 THEN 1
                    ELSE 2 * (MaxRetries - d.attempt) + IF d.at = "act" THEN 2 ELSE 1
               /\ StepsLeft(d) = StepsOfAction(d) + StepsOfLaterActions(d) + ReportingSteps
    <3>1. StepsOfAction(d) =
            IF d.at = "escalate" \/ m = 1 THEN 1
            ELSE 2 * (MaxRetries - d.attempt) + IF d.at = "act" THEN 2 ELSE 1
      BY <2>1, <2>4, StepsOfRest
    <3>2. StepsOfLaterActions(d) = StepsOfLaterActions(c)
      BY <2>4 DEF StepsOfLaterActions
    <3> QED BY <2>4, <3>1, <3>2, StepsLeftAt DEF Acting
  <2>5. CASE c.at = "act" /\ Head(c.todo) # "additional_honeytokens"
             /\ d = Moved(c, "sleep", c.attempt) /\ c.attempt < MaxRetries
    <3>1. d.at = "sleep" /\ d.attempt = c.attempt /\ d.todo = c.todo /\ m # 1
      BY <1>4, <1>7, <2>5, RestOfPlan DEF Places
    <3>2. d.at \in Acting
      BY <3>1 DEF Acting
    <3> HIDE DEF m
    <3> QED BY <1>1, <1>2, <2>1, <2>2, <2>3, <2>4, <2>5, <3>1, <3>2
  <2>6. CASE c.at = "act" /\ Head(c.todo) # "additional_honeytokens"
             /\ d = Moved(c, "escalate", c.attempt)
    <3>1. d.at = "escalate" /\ d.todo = c.todo /\ m # 1
      BY <1>4, <1>7, <2>6, RestOfPlan DEF Places
    <3>2. d.at \in Acting
      BY <3>1 DEF Acting
    <3> HIDE DEF m
    <3> QED BY <1>1, <1>2, <1>3, <2>1, <2>2, <2>3, <2>4, <2>6, <3>1, <3>2
  <2>7. CASE c.at = "sleep" /\ d = Moved(c, "act", c.attempt + 1)
    <3>1. c.attempt + 1 \in 0 .. LargestAttempt
      BY <1>1, <1>3, <2>7, AttemptType
    <3>2. d.at = "act" /\ d.attempt = c.attempt + 1 /\ d.todo = c.todo
      BY <2>7, <3>1, NextAttempt DEF Places
    <3>3. m # 1
      BY <1>7, <2>7, RestOfPlan DEF FailedOnPlan, Acting
    <3>4. d.at \in Acting
      BY <3>2 DEF Acting
    <3> HIDE DEF m
    <3> QED BY <1>1, <1>2, <1>3, <2>1, <2>2, <2>3, <2>4, <2>7, <3>2, <3>3, <3>4
  <2>8. CASE c.at = "escalate" /\ d = Moved(c, "failed", c.attempt)
    <3>1. d.at = "failed" /\ StepsLeft(d) = 0
      BY <1>4, <2>8, StepsLeftAt DEF Places
    <3> HIDE DEF m
    <3> QED BY <1>1, <1>2, <2>1, <2>2, <2>3, <2>8, <3>1
  <2> QED BY <1>7, <2>5, <2>6, <2>7, <2>8 DEF Follows, Acting
<1>8. CASE c.at = "publish"
  <2>1. d = Moved(c, "report", c.attempt)
    BY <1>8 DEF Follows
  <2>2. d.at = "report" /\ d.attempt = 0
    BY <1>3, <1>4, <1>8, <2>1 DEF Places
  <2> QED BY <1>1, <1>2, <1>8, <2>2, StepsLeftAt
<1>9. CASE c.at = "report"
  <2>1. StepsLeft(c) = 2 * (MaxReportRetries - c.attempt) + 3 /\ c.attempt <= MaxReportRetries
    BY <1>3, <1>9, StepsLeftAt
  <2>2. CASE d = Moved(c, "failed", c.attempt)
    <3>1. StepsLeft(d) = 0
      BY <1>4, <2>2, StepsLeftAt DEF Places
    <3> QED BY <1>1, <2>1, <3>1
  <2>3. CASE d = Moved(c, "publishReport", 0)
    <3>1. StepsLeft(d) = 2
      BY <1>1, <2>3, MovedFields, StepsLeftAt DEF Places
    <3> QED BY <1>1, <2>1, <3>1
  <2>4. CASE c.attempt < MaxReportRetries /\ d = Moved(c, "reportPause", c.attempt)
    <3>1. StepsLeft(d) = 2 * (MaxReportRetries - c.attempt) + 2
      BY <1>4, <2>4, StepsLeftAt DEF Places
    <3> QED BY <1>1, <2>1, <3>1
  <2> QED BY <1>9, <2>2, <2>3, <2>4 DEF Follows
<1>10. CASE c.at = "reportPause"
  <2>1. d = Moved(c, "report", c.attempt + 1) /\ c.attempt + 1 \in 0 .. LargestAttempt
    BY <1>1, <1>3, <1>10, AttemptType DEF Follows
  <2>2. d.at = "report" /\ d.attempt = c.attempt + 1
    BY <2>1, NextAttempt DEF Places
  <2> QED BY <1>1, <1>3, <1>10, <2>2, StepsLeftAt
<1>11. CASE c.at \in {"publishReport", "timeline"}
  <2>1. \/ c.at = "publishReport" /\ d = Moved(c, "timeline", c.attempt)
        \/ c.at = "timeline" /\ d = Moved(c, "done", c.attempt)
    BY <1>11 DEF Follows
  <2> QED BY <1>4, <2>1, StepsLeftAt DEF Places
<1>12. c.at \notin {"done", "failed"}
  BY DEF Follows
<1>13. c.at \in Places
  BY DEF Calls
<1> QED BY <1>5, <1>6, <1>7, <1>8, <1>9, <1>10, <1>11, <1>12, <1>13 DEF Places, Acting

\* Each step of a call leaves it fewer steps.
LEMMA StepsDecrease ==
  ASSUME NEW c \in Calls, NEW d \in Calls, OnPlan(c), OnPlan(d), AttemptsCounted(c),
         FailedOnPlan(c), Follows(c, d)
  PROVE  0 <= StepsLeft(d) /\ StepsLeft(d) < StepsLeft(c)
<1>1. CASE /\ c.at \in {"act", "escalate"}
           /\ \E result \in {"success", "failure"} : d = Recorded(c, result)
  BY <1>1, ReturnDecreases
<1>2. CASE c.at \in {"act", "escalate"} =>
             \A result \in {"success", "failure"} : d # Recorded(c, result)
  BY <1>2, MoveDecreases
<1> QED BY <1>1, <1>2

\* And keeps its attempts counted, and its plan when it fails.
LEMMA FollowsKeepsCount ==
  ASSUME NEW c \in Calls, NEW d \in Calls, OnPlan(c), AttemptsCounted(c), Follows(c, d)
  PROVE  AttemptsCounted(d)
<1>1. /\ c.attempt \in 0 .. LargestAttempt /\ c.attempt \in Nat
      /\ MaxRetries \in Nat /\ MaxReportRetries \in Nat /\ 0 \in 0 .. LargestAttempt
  BY AttemptType DEF Calls
<1>2. /\ c.at \in {"new", "assess", "announce", "publish"} => c.attempt = 0
      /\ c.at = "sleep" => c.attempt < MaxRetries
      /\ c.at = "reportPause" => c.attempt < MaxReportRetries
  BY DEF AttemptsCounted, OnPlan
<1>3. ASSUME NEW at \in Places, d = Moved(c, at, c.attempt)
      PROVE  d.at = at /\ d.attempt = c.attempt
  BY <1>1, <1>3, MovedFields
<1>4. CASE c.at \in {"new", "assess", "announce"}
  BY <1>1, <1>2, <1>4 DEF Follows, AttemptsCounted
<1>5. CASE /\ c.at \in {"act", "escalate"}
           /\ \E result \in {"success", "failure"} : d = Recorded(c, result)
  <2>1. PICK result \in {"success", "failure"} : d = Recorded(c, result)
    BY <1>5
  <2>2. c.todo # << >>
    BY <1>5 DEF OnPlan, Acting
  <2>3. d.attempt = 0 /\ d.at \in {"publish", "act"}
    BY <2>1, <2>2, RecordedFields
  <2> QED BY <1>1, <2>3 DEF AttemptsCounted
<1>6. CASE c.at = "publish" /\ d = Moved(c, "report", c.attempt)
  BY <1>1, <1>2, <1>3, <1>6 DEF AttemptsCounted, Places
<1>7. CASE \/ c.at = "sleep" /\ d = Moved(c, "act", c.attempt + 1)
           \/ c.at = "reportPause" /\ d = Moved(c, "report", c.attempt + 1)
  <2>1. c.attempt + 1 \in 0 .. LargestAttempt
    BY <1>1, <1>2, <1>7, AttemptType
  <2>2. /\ d.attempt = c.attempt + 1
        /\ \/ d.at = "act" /\ c.attempt < MaxRetries
           \/ d.at = "report" /\ c.attempt < MaxReportRetries
    BY <1>2, <1>7, <2>1, NextAttempt DEF Places
  <2> QED BY <1>1, <2>2 DEF AttemptsCounted
<1>8. CASE \E at \in {"sleep", "escalate", "failed", "reportPause", "timeline", "done"} :
              d = Moved(c, at, c.attempt)
  BY <1>3, <1>8 DEF AttemptsCounted, Places
<1>9. CASE d = Moved(c, "publishReport", 0)
  <2>1. "publishReport" \in Places
    BY DEF Places
  <2>2. d.at = "publishReport"
    BY <1>1, <1>9, <2>1, MovedFields
  <2> QED BY <2>2 DEF AttemptsCounted
<1> QED BY <1>4, <1>5, <1>6, <1>7, <1>8, <1>9 DEF Follows

\* The step that leads to a pause, to an alert or to failure.
LEMMA FollowsInto ==
  ASSUME NEW c \in Calls, NEW d \in Calls, OnPlan(c), Follows(c, d),
         d.at \in {"sleep", "escalate", "failed"}
  PROVE  /\ d.todo = c.todo /\ d.results = c.results /\ d.class = c.class
         /\ \/ c.at = "act" /\ d.at # "failed" /\ Head(c.todo) # "additional_honeytokens"
            \/ c.at \in {"escalate", "report"} /\ d.at = "failed"
<1>1. c.attempt \in 0 .. LargestAttempt /\ 0 \in 0 .. LargestAttempt
  BY AttemptType DEF Calls
<1>2. ASSUME NEW at \in Places, d = Moved(c, at, c.attempt)
      PROVE  d.at = at /\ d.todo = c.todo /\ d.results = c.results /\ d.class = c.class
  BY <1>1, <1>2, MovedFields
<1>3. ASSUME NEW result \in {"success", "failure"}, c.at \in {"act", "escalate"},
             d = Recorded(c, result)
      PROVE  FALSE
  <2>1. c.todo # << >>
    BY <1>3 DEF OnPlan, Acting
  <2> QED BY <1>3, <2>1, RecordedFields
<1>4. ASSUME NEW at \in {"act", "report"}, d = Moved(c, at, c.attempt + 1)
      PROVE  FALSE
  BY <1>4 DEF Moved, Calls
<1>5. d # Moved(c, "publishReport", 0)
  BY DEF Moved, Calls
<1>6. {"sleep", "escalate", "failed", "report", "reportPause", "timeline", "done"} \subseteq Places
  BY DEF Places
<1>7. \/ c.at \in {"escalate", "report"} /\ d = Moved(c, "failed", c.attempt)
      \/ /\ c.at = "act" /\ Head(c.todo) # "additional_honeytokens"
         /\ d = Moved(c, "sleep", c.attempt) \/ d = Moved(c, "escalate", c.attempt)
  BY <1>2, <1>3, <1>4, <1>5, <1>6 DEF Follows
<1> QED BY <1>2, <1>6, <1>7

LEMMA FollowsKeepsPlan ==
  ASSUME NEW c \in Calls, NEW d \in Calls, OnPlan(c), FailedOnPlan(c), Follows(c, d)
  PROVE  FailedOnPlan(d)
<1>1. CASE d.at \notin {"sleep", "escalate", "failed"}
  BY <1>1 DEF FailedOnPlan
<1>2. CASE d.at \in {"sleep", "escalate", "failed"}
  <2>1. /\ d.todo = c.todo /\ d.results = c.results /\ d.class = c.class
        /\ \/ c.at = "act" /\ d.at # "failed" /\ Head(c.todo) # "additional_honeytokens"
           \/ c.at \in {"escalate", "report"} /\ d.at = "failed"
    BY <1>2, FollowsInto
  <2>2. c.at = "report" => c.todo = << >>
    BY DEF OnPlan, Reporting
  <2>3. /\ Len(PlannedActions(c.class)) = Len(c.results) + Len(c.todo)
        /\ \A k \in 1 .. Len(c.results) : c.results[k].type = PlannedActions(c.class)[k]
        /\ \A k \in 1 .. Len(c.todo) :
              c.todo[k] = PlannedActions(c.class)[Len(c.results) + k]
    BY <2>1 DEF OnPlan, Acting, Reporting
  <2>4. c.at = "escalate" /\ c.todo # << >> => Head(c.todo) # "additional_honeytokens"
    BY DEF FailedOnPlan
  <2> QED BY <2>1, <2>2, <2>3, <2>4 DEF FailedOnPlan
<1> QED BY <1>1, <1>2

\* What a call has done stays done.
LEMMA FollowsKeepsResults ==
  ASSUME NEW c \in Calls, NEW d \in Calls, OnPlan(c), Follows(c, d),
         NEW k \in DOMAIN c.results
  PROVE  k \in DOMAIN d.results /\ d.results[k] = c.results[k]
<1>1. CASE d.results = c.results
  BY <1>1
<1>2. CASE /\ c.at \in {"act", "escalate"}
           /\ \E result \in {"success", "failure"} : d = Recorded(c, result)
  <2>1. PICK result \in {"success", "failure"} : d = Recorded(c, result)
    BY <1>2
  <2> DEFINE last == [type |-> Head(c.todo), result |-> result]
  <2>2. c.results \in Seq(Results) /\ c.todo # << >>
    BY <1>2 DEF OnPlan, Acting, Calls
  <2>3. d.results = Append(c.results, last)
    BY <2>1, <2>2, RecordedFields
  <2> HIDE DEF last
  <2> QED BY <2>2, <2>3
<1>3. c.attempt \in 0 .. LargestAttempt /\ 0 \in 0 .. LargestAttempt
  BY AttemptType DEF Calls
<1>4. ASSUME NEW at, NEW n, d = Moved(c, at, n)
      PROVE  d.results = c.results
  BY <1>4 DEF Moved, Calls
<1> QED BY <1>1, <1>2, <1>4 DEF Follows

\* An alert that is new is about the action that returns in the same step.
LEMMA NewAlerts ==
  ASSUME IInv, [Next]_vars
  PROVE  \/ UNCHANGED alerted
         \/ \E e \in Events : /\ alerted' = alerted \cup {<<e, Head(call[e].todo)>>}
                              /\ call[e].at = "escalate" /\ Returns(e, "failure")
<1>1. ASSUME NEW e \in Events,
             (\E access \in Accesses : Receive(e, access)) \/ TimedStep(e)
      PROVE  UNCHANGED alerted
  <2>1. CASE (\E access \in Accesses : Receive(e, access)) \/ Assess(e) \/ Announced(e)
    BY <2>1, BeginningGoesOn
  <2>2. CASE WakeUp(e) \/ Publish(e) \/ ReportGenerated(e) \/ ReportFails(e)
    BY <2>2 DEF WakeUp, Publish, ReportGenerated, ReportFails
  <2>3. CASE ReportRetry(e) \/ ReportPublished(e) \/ Complete(e)
    BY <2>3 DEF ReportRetry, ReportPublished, Complete
  <2> QED BY <1>1, <2>1, <2>2, <2>3 DEF TimedStep
<1>2. ASSUME NEW e \in Events,
             ActionSucceeds(e) \/ ActionFails(e) \/ ExhaustionAlertRejected(e)
      PROVE  UNCHANGED alerted
  BY <1>2 DEF ActionSucceeds, ActionFails, ExhaustionAlertRejected
<1>3. ASSUME NEW e \in Events, ExhaustionAlertDelivered(e)
      PROVE  /\ alerted' = alerted \cup {<<e, Head(call[e].todo)>>}
             /\ call[e].at = "escalate" /\ Returns(e, "failure")
  <2>1. /\ alerted' = alerted \cup {<<e, Head(call[e].todo)>>}
        /\ call[e].at = "escalate" /\ Record(e, "failure")
    BY <1>3 DEF ExhaustionAlertDelivered, At
  <2>2. CallsOK
    BY PartsOfIInv DEF CoreInv
  <2>3. call' = [call EXCEPT ![e] = Recorded(call[e], "failure")]
    BY <2>1, <2>2 DEF Record, Recorded, CallsOK
  <2>4. Returns(e, "failure")
    BY <2>2, <2>3, OneCallMoves DEF Returns
  <2> QED BY <2>1, <2>4
<1>4. CASE RetryAlertDelivered \/ RetryAlertRejected \/ Finished \/ UNCHANGED vars
  BY <1>4 DEF RetryAlertDelivered, RetryAlertRejected, Finished, vars
<1> QED BY <1>1, <1>2, <1>3, <1>4 DEF Next, UntimedStep

LEMMA NextAlerts ==
  ASSUME IInv, IInv', AlertsAreOfResults, [Next]_vars
  PROVE  AlertsAreOfResults'
<1> SUFFICES ASSUME NEW e \in Events, NEW a \in ActionTypes, <<e, a>> \in alerted'
             PROVE  \E k \in DOMAIN call'[e].results : call'[e].results[k].type = a
  BY DEF AlertsAreOfResults
<1>1. call[e] \in Calls /\ OnPlan(call[e]) /\ call'[e] \in Calls
  BY DEF IInv, TypeOK
<1>2. CASE <<e, a>> \in alerted
  <2>1. PICK k \in DOMAIN call[e].results : call[e].results[k].type = a
    BY <1>2 DEF AlertsAreOfResults
  <2>2. call'[e] = call[e] \/ Follows(call[e], call'[e])
    BY EveryStepGoesOn DEF GoesOn
  <2>3. k \in DOMAIN call'[e].results /\ call'[e].results[k] = call[e].results[k]
    BY <1>1, <2>2, FollowsKeepsResults
  <2> QED BY <2>1, <2>3
<1>3. CASE <<e, a>> \notin alerted
  <2>1. PICK d \in Events : /\ alerted' = alerted \cup {<<d, Head(call[d].todo)>>}
                            /\ call[d].at = "escalate" /\ Returns(d, "failure")
    BY <1>3, NewAlerts
  <2>2. d = e /\ a = Head(call[e].todo)
    BY <1>3, <2>1
  <2>3. call[e].todo # << >> /\ call'[e] = Recorded(call[e], "failure")
    BY <1>1, <2>1, <2>2 DEF OnPlan, Acting, Returns
  <2> DEFINE last == [type |-> Head(call[e].todo), result |-> "failure"]
             n == Len(call[e].results)
  <2>4. call'[e].results = Append(call[e].results, last) /\ last.type = a
    BY <1>1, <2>2, <2>3, RecordedFields
  <2> HIDE DEF last
  <2>5. call[e].results \in Seq(Results)
    BY <1>1 DEF Calls
  <2>6. n + 1 \in DOMAIN call'[e].results /\ call'[e].results[n + 1] = last
    BY <2>4, <2>5
  <2> QED BY <2>4, <2>6
<1> QED BY <1>2, <1>3

LEMMA NextCallInv ==
  ASSUME IInv, IInv', CallInv, [Next]_vars
  PROVE  CallInv'
<1>1. ASSUME NEW e \in Events
      PROVE  AttemptsCounted(call'[e]) /\ FailedOnPlan(call'[e])
  <2>1. /\ call[e] \in Calls /\ OnPlan(call[e]) /\ call'[e] \in Calls
        /\ AttemptsCounted(call[e]) /\ FailedOnPlan(call[e])
    BY DEF IInv, TypeOK, CallInv
  <2>2. call'[e] = call[e] \/ Follows(call[e], call'[e])
    BY EveryStepGoesOn DEF GoesOn
  <2> QED BY <2>1, <2>2, FollowsKeepsCount, FollowsKeepsPlan
<1>2. AlertsAreOfResults'
  BY NextAlerts DEF CallInv
<1> QED BY <1>1, <1>2 DEF CallInv

\* Every call counts its attempts, keeps to its plan even when it fails, and was
\* alerted only about actions that returned.
THEOREM CallInvariant == Spec => [](IInv /\ CallInv)
<1>1. Init => CallInv
  BY AttemptType DEF Init, NoCall, CallInv, AttemptsCounted, FailedOnPlan, AlertsAreOfResults
<1>2. IInv /\ IInv' /\ CallInv /\ [Next]_vars => CallInv'
  BY NextCallInv
<1> QED BY <1>1, <1>2, WorkflowInvariant, PTL DEF Spec

\* Each step of a call is one of at most MostSteps: whatever Kubernetes, Koney, Gemini
\* and the alert channel answer, processAccessEvent (workflow.ts:119) cannot go on
\* forever, for any numbers of retries and any number of incidents at once.
THEOREM EveryCallWindsDown == Spec => CallsWindDown
<1>1. IInv /\ IInv' /\ CallInv /\ [Next]_vars =>
        [\A e \in Events : call'[e] # call[e] =>
            0 <= StepsLeft(call'[e]) /\ StepsLeft(call'[e]) < StepsLeft(call[e])]_vars
  <2> SUFFICES ASSUME IInv, IInv', CallInv, [Next]_vars,
                      NEW e \in Events, call'[e] # call[e]
               PROVE  0 <= StepsLeft(call'[e]) /\ StepsLeft(call'[e]) < StepsLeft(call[e])
    OBVIOUS
  <2>1. /\ call[e] \in Calls /\ call'[e] \in Calls /\ OnPlan(call[e]) /\ OnPlan(call'[e])
        /\ AttemptsCounted(call[e]) /\ FailedOnPlan(call[e])
    BY DEF IInv, TypeOK, CallInv
  <2>2. Follows(call[e], call'[e])
    BY EveryStepGoesOn DEF GoesOn
  <2> QED BY <2>1, <2>2, StepsDecrease
<1> QED BY <1>1, CallInvariant, PTL DEF Spec, CallsWindDown

\* A new call has the whole bound before it: four steps for each retry of an
\* isolation or a block, two for each retry of the report, and twelve more.
THEOREM StepsOfANewCall ==
  /\ StepsLeft(NoCall) = MostSteps
  /\ MostSteps = 4 * MaxRetries + 2 * MaxReportRetries + 12
BY AttemptType DEF StepsLeft, NoCall, MostSteps, ContainmentSteps, ReportingSteps

\* When an incident is over, the only action that may lack its audit entry is an
\* isolation or a block whose exhaustion alert was rejected (response-executor.ts:134).
THEOREM UnauditedAreUnalerted == Spec => []UnauditedWereNotAlerted
<1>1. IInv /\ CallInv => UnauditedWereNotAlerted
  <2> SUFFICES ASSUME IInv, CallInv, NEW e \in Events, call[e].at \in {"done", "failed"},
                      NEW a \in Begun(e), <<e, a>> \notin auditLog
               PROVE  /\ call[e].at = "failed" /\ a = Head(call[e].todo)
                      /\ a # "additional_honeytokens" /\ <<e, a>> \notin alerted
    BY DEF UnauditedWereNotAlerted
  <2>1. call[e] \in Calls /\ OnPlan(call[e]) /\ FailedOnPlan(call[e])
    BY DEF IInv, TypeOK, CallInv
  <2>2. \A k \in DOMAIN call[e].results : call[e].results[k].type # a
    BY DEF IInv, ActionsAreAudited
  <2>3. a = Head(call[e].todo) /\ call[e].todo # << >>
    BY <2>2 DEF Begun
  <2>4. call[e].at = "failed"
    BY <2>1, <2>3 DEF OnPlan, Reporting
  <2>5. a # "additional_honeytokens"
    BY <2>1, <2>3, <2>4 DEF FailedOnPlan
  <2>6. a \in ActionTypes
    BY <2>1, <2>3 DEF Calls
  <2> QED BY <2>2, <2>3, <2>4, <2>5, <2>6 DEF CallInv, AlertsAreOfResults
<1> QED BY <1>1, CallInvariant, PTL

---------------------------------------------------------------------------
(* Which contexts are graded below their defaults                          *)

\* The contexts that classifyFromInputs grades below what their defaults come to: the
\* namespace is missing, unless all that is left is worth medium either way; or the
\* access is in production, something else is missing, and what is known is not
\* critical by itself.
UnderGraded(context) ==
    \/ /\ context.namespace = Missing
       /\ ~ /\ context.criticality \in 1 .. 3 /\ context.anomaly \in 0 .. 5
            /\ context.criticality = 3 \/ context.anomaly >= 3
    \/ /\ context.namespace = "production"
       /\ context.criticality = Missing \/ context.anomaly = Missing
       /\ ~IsCritical(context)

LEMMA Severities ==
  /\ Severity("low") = 0 /\ Severity("medium") = 1
  /\ Severity("high") = 2 /\ Severity("critical") = 3
BY DEF Severity

\* Of all the answers that getPodContext can give, classifyFromInputs grades these and
\* no others below what the documented defaults for missing fields come to.
THEOREM GradedBelowDefaults ==
  ASSUME NEW context \in PodContexts
  PROVE  Severity(ClassifyThreat(context)) < Severity(ClassifyThreatWithDefaults(context))
           <=> UnderGraded(context)
<1> DEFINE filled == ApplyDefaults(context)
<1>1. /\ context.namespace \in Namespaces \cup {Missing}
      /\ context.criticality \in 1 .. 5 \cup {Missing}
      /\ context.anomaly \in 0 .. 10 \cup {Missing}
  BY DEF PodContexts
<1>2. Missing \notin Namespaces /\ Missing \notin 0 .. 10 /\ Missing \notin 1 .. 5
  BY ClassifierAssumption
<1>3. /\ filled.namespace =
           IF context.namespace = Missing THEN "production" ELSE context.namespace
      /\ filled.criticality =
           IF context.criticality = Missing THEN 5 ELSE context.criticality
      /\ filled.anomaly = IF context.anomaly = Missing THEN 10 ELSE context.anomaly
  BY DEF ApplyDefaults
<1> HIDE DEF filled
<1>4. filled.criticality \in 1 .. 5 /\ filled.anomaly \in 0 .. 10
      /\ filled.anomaly # Missing /\ filled.criticality # Missing
  BY <1>1, <1>2, <1>3
<1>5. CASE context.namespace = "non-production"
  <2>1. IsLow(context) <=> IsLow(filled)
    <3>1. context.namespace # "production" /\ filled.namespace # "production"
      BY <1>2, <1>3, <1>5 DEF Namespaces
    <3>2. CASE context.criticality = Missing \/ context.anomaly = Missing
      <4>1. filled.criticality = 5 \/ filled.anomaly = 10
        BY <1>3, <3>2
      <4> QED BY <1>4, <3>2, <4>1 DEF IsLow
    <3>3. CASE context.criticality # Missing /\ context.anomaly # Missing
      <4>1. filled.criticality = context.criticality /\ filled.anomaly = context.anomaly
        BY <1>3, <3>3
      <4> QED BY <1>4, <3>1, <4>1 DEF IsLow
    <3> QED BY <3>2, <3>3
  <2>2. /\ ~IsCritical(context) /\ ~IsCritical(filled)
        /\ ~IsHigh(context) /\ ~IsHigh(filled)
    BY <1>2, <1>3, <1>5 DEF IsCritical, IsHigh, Namespaces
  <2>3. ClassifyThreat(context) = ClassifyThreat(filled)
    BY <2>1, <2>2 DEF ClassifyThreat
  <2>4. ~UnderGraded(context)
    BY <1>2, <1>5 DEF UnderGraded, Namespaces
  <2>5. ClassifyThreat(context) \in {"low", "medium"}
    BY <2>2 DEF ClassifyThreat
  <2> QED BY <2>3, <2>4, <2>5, Severities DEF ClassifyThreatWithDefaults, filled
<1>6. CASE context.namespace = "production"
  <2>1. /\ filled.namespace = "production" /\ context.namespace # Missing
        /\ ~IsLow(context) /\ ~IsLow(filled)
    BY <1>2, <1>3, <1>6 DEF IsLow, Namespaces
  <2>2. CASE context.criticality = Missing \/ context.anomaly = Missing
    <3>1. ClassifyThreat(filled) = "critical"
      BY <1>2, <1>3, <1>4, <2>1, <2>2 DEF IsCritical, ClassifyThreat
    <3>2. UnderGraded(context) <=> ~IsCritical(context)
      BY <1>6, <2>1, <2>2 DEF UnderGraded
    <3>3. ClassifyThreat(context) \in {"high", "medium", "critical"}
          /\ (ClassifyThreat(context) = "critical" <=> IsCritical(context))
      BY <2>1 DEF ClassifyThreat
    <3> QED BY <3>1, <3>2, <3>3, Severities DEF ClassifyThreatWithDefaults, filled
  <2>3. CASE context.criticality # Missing /\ context.anomaly # Missing
    <3>1. /\ IsCritical(filled) <=> IsCritical(context)
          /\ IsHigh(filled) <=> IsHigh(context)
      BY <1>3, <1>6, <2>1, <2>3, <1>4 DEF IsCritical, IsHigh
    <3>2. ClassifyThreat(filled) = ClassifyThreat(context)
          /\ ClassifyThreat(context) \in {"critical", "high", "medium"}
      BY <2>1, <3>1 DEF ClassifyThreat
    <3>3. ~UnderGraded(context)
      BY <2>1, <2>3 DEF UnderGraded
    <3> QED BY <3>2, <3>3, Severities DEF ClassifyThreatWithDefaults, filled
  <2> QED BY <2>2, <2>3
<1>7. CASE context.namespace = Missing
  <2>1. /\ filled.namespace = "production" /\ context.namespace # "production"
        /\ ~IsCritical(context) /\ ~IsHigh(context) /\ ~IsLow(filled)
    BY <1>2, <1>3, <1>7 DEF IsCritical, IsHigh, IsLow, Namespaces
  <2>2. ClassifyThreat(context) = IF IsLow(context) THEN "low" ELSE "medium"
    BY <2>1 DEF ClassifyThreat
  <2>3. UnderGraded(context) <=>
          ~ /\ context.criticality \in 1 .. 3 /\ context.anomaly \in 0 .. 5
            /\ context.criticality = 3 \/ context.anomaly >= 3
    BY <1>7, <2>1 DEF UnderGraded
  <2>4. CASE ~(context.criticality \in 1 .. 3 /\ context.anomaly \in 0 .. 5)
    <3>1. filled.criticality \in 4 .. 5 \/ filled.anomaly \in 6 .. 10
      BY <1>1, <1>2, <1>3, <2>4
    <3>2. IsCritical(filled) \/ IsHigh(filled)
      BY <1>4, <2>1, <3>1 DEF IsCritical, IsHigh
    <3>3. ClassifyThreat(filled) \in {"high", "critical"}
      BY <3>2 DEF ClassifyThreat
    <3> QED BY <2>2, <2>3, <2>4, <3>3, Severities DEF ClassifyThreatWithDefaults, filled
  <2>5. CASE context.criticality \in 1 .. 3 /\ context.anomaly \in 0 .. 5
    <3>1. filled.criticality = context.criticality /\ filled.anomaly = context.anomaly
      BY <1>2, <1>3, <2>5
    <3>2. ~IsCritical(filled) /\ ~IsHigh(filled)
      BY <2>5, <3>1 DEF IsCritical, IsHigh
    <3>3. ClassifyThreat(filled) = "medium"
      BY <2>1, <3>2 DEF ClassifyThreat
    <3>4. IsLow(context) <=> ~(context.criticality = 3 \/ context.anomaly >= 3)
      BY <1>4, <2>1, <2>5, <3>1 DEF IsLow
    <3> QED BY <2>2, <2>3, <2>5, <3>3, <3>4, Severities DEF ClassifyThreatWithDefaults, filled
  <2> QED BY <2>4, <2>5
<1> QED BY <1>1, <1>5, <1>6, <1>7 DEF Namespaces

\* The grade of a call is the one of the answer it was given.
Graded(c) ==
    c.class = IF c.at \in {"new", "assess"} THEN "none" ELSE AssessThreat(c.answer)

LEMMA FollowsKeepsGrade ==
  ASSUME NEW c \in Calls, NEW d \in Calls, OnPlan(c), Graded(c), Follows(c, d)
  PROVE  Graded(d)
<1>1. CASE c.at \in {"new", "assess", "announce"}
  BY <1>1 DEF Follows, Graded
<1>2. CASE c.at \notin {"new", "assess", "announce"}
  <2>1. c.class = AssessThreat(c.answer)
    BY <1>2 DEF Graded
  <2>2. CASE /\ c.at \in {"act", "escalate"}
             /\ \E result \in {"success", "failure"} : d = Recorded(c, result)
    <3>1. PICK result \in {"success", "failure"} : d = Recorded(c, result)
      BY <2>2
    <3>2. c.todo # << >>
      BY <2>2 DEF OnPlan, Acting
    <3>3. d.answer = c.answer /\ d.class = c.class /\ d.at \in {"publish", "act"}
      BY <3>1, <3>2, RecordedFields
    <3> QED BY <2>1, <3>3 DEF Graded
  <2>3. ASSUME NEW at \in Places \ {"new", "assess"}, NEW n, d = Moved(c, at, n)
        PROVE  Graded(d)
    <3>1. d.answer = c.answer /\ d.class = c.class /\ d.at = at
      BY <2>3 DEF Moved, Calls
    <3> QED BY <2>1, <2>3, <3>1 DEF Graded
  <2>4. {"sleep", "escalate", "act", "failed", "report", "publishReport", "reportPause",
         "timeline", "done"} \subseteq Places \ {"new", "assess"}
    BY DEF Places
  <2> QED BY <1>2, <2>2, <2>3, <2>4 DEF Follows
<1> QED BY <1>1, <1>2

\* As long as no answer is of that kind, what the design says of incomplete contexts
\* (design.md:933) is true of the workflow; IncidentUnderclassified shows that one such
\* answer is enough to break it.
THEOREM NeverUnderClassifiedUnless ==
  ASSUME \A context \in Contexts : context \in PodContexts /\ ~UnderGraded(context)
  PROVE  Spec => []NeverUnderClassified
<1> DEFINE AllGraded == \A e \in Events : Graded(call[e])
<1>1. Init => AllGraded
  BY DEF Init, NoCall, Graded
<1>2. IInv /\ IInv' /\ AllGraded /\ [Next]_vars => AllGraded'
  <2> SUFFICES ASSUME IInv, IInv', AllGraded, [Next]_vars, NEW e \in Events
               PROVE  Graded(call'[e])
    OBVIOUS
  <2>1. call[e] \in Calls /\ OnPlan(call[e]) /\ call'[e] \in Calls /\ Graded(call[e])
    BY DEF IInv, TypeOK
  <2>2. call'[e] = call[e] \/ Follows(call[e], call'[e])
    BY EveryStepGoesOn DEF GoesOn
  <2> QED BY <2>1, <2>2, FollowsKeepsGrade
<1>3. IInv /\ AllGraded => NeverUnderClassified
  <2> SUFFICES ASSUME IInv, AllGraded, NEW e \in Events,
                      call[e].class # "none", call[e].answer # NoContext
               PROVE  Severity(call[e].class)
                        >= Severity(ClassifyThreatWithDefaults(call[e].answer))
    BY DEF NeverUnderClassified
  <2> DEFINE context == call[e].answer
  <2>1. /\ context \in Contexts
        /\ call[e].class = ClassifyThreat(context)
    BY DEF IInv, TypeOK, Calls, Graded, AssessThreat
  <2>2. context \in PodContexts /\ ~UnderGraded(context)
    BY <2>1
  <2> HIDE DEF context
  <2>3. ~(Severity(ClassifyThreat(context)) < Severity(ClassifyThreatWithDefaults(context)))
    BY <2>2, GradedBelowDefaults
  <2>4. ASSUME NEW known \in PodContexts
        PROVE  Severity(ClassifyThreat(known)) \in 0 .. 3
    BY Severities DEF ClassifyThreat
  <2>5. Severity(ClassifyThreatWithDefaults(context)) \in 0 .. 3
    BY Severities DEF ClassifyThreatWithDefaults, ClassifyThreat
  <2>6. Severity(ClassifyThreat(context)) >= Severity(ClassifyThreatWithDefaults(context))
    BY <2>2, <2>3, <2>4, <2>5
  <2> QED BY <2>1, <2>6 DEF context
<1> QED BY <1>1, <1>2, <1>3, WorkflowInvariant, PTL DEF Spec

===========================================================================
