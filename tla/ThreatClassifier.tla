-------------------------- MODULE ThreatClassifier --------------------------
(***************************************************************************)
(* How the agent grades an access event: threat-classifier.ts and the      *)
(* choice that assessThreat (threat-assessment-workflow.ts) makes between  *)
(* its two entry points.                                                   *)
(*                                                                         *)
(* Anomaly scores are in tenths, because no threshold lies between two     *)
(* tenths.  The context comes from JSON without validation, so any of its  *)
(* fields may be undefined (Missing); a comparison with undefined is false *)
(* in JavaScript.                                                          *)
(***************************************************************************)
EXTENDS Integers, Sequences

CONSTANTS
    Missing,    \* a field the answer of Dynatrace does not have
    NoContext   \* null: the query timed out or failed

Namespaces == {"production", "non-production"}

\* The answers of getPodContext, and those that have all their fields.
CompleteContexts ==
    [namespace : Namespaces, criticality : 1 .. 5, anomaly : 0 .. 10]
PodContexts ==
    [namespace : Namespaces \cup {Missing},
     criticality : 1 .. 5 \cup {Missing},
     anomaly : 0 .. 10 \cup {Missing}]

ASSUME ClassifierAssumption ==
    /\ Missing \notin Namespaces
    /\ Missing \notin 0 .. 10
    /\ NoContext \notin PodContexts

Classifications == {"low", "medium", "high", "critical"}

Severity(class) ==
    CASE class = "low" -> 0 [] class = "medium" -> 1
      [] class = "high" -> 2 [] class = "critical" -> 3

---------------------------------------------------------------------------
IsCritical(context) ==
    /\ context.namespace = "production"
    /\ \/ context.anomaly # Missing /\ context.anomaly > 8
       \/ context.criticality = 5

IsHigh(context) ==
    /\ context.namespace = "production"
    /\ \/ context.anomaly # Missing /\ context.anomaly \in 6 .. 8
       \/ context.criticality = 4

IsLow(context) ==
    /\ context.namespace # "production"
    /\ context.anomaly # Missing /\ context.anomaly < 3
    /\ context.criticality # Missing /\ context.criticality <= 2

\* classifyFromInputs.  Its rule for medium and its fallback cover exactly the
\* contexts that no other rule claims.
ClassifyThreat(context) ==
    IF IsCritical(context) THEN "critical"
    ELSE IF IsHigh(context) THEN "high"
    ELSE IF IsLow(context) THEN "low"
    ELSE "medium"

ApplyDefaults(context) ==
    [namespace |-> IF context.namespace = Missing THEN "production" ELSE context.namespace,
     criticality |-> IF context.criticality = Missing THEN 5 ELSE context.criticality,
     anomaly |-> IF context.anomaly = Missing THEN 10 ELSE context.anomaly]

ClassifyThreatWithDefaults(context) == ClassifyThreat(ApplyDefaults(context))

NothingKnown ==
    [namespace |-> Missing, criticality |-> Missing, anomaly |-> Missing]

\* Defaults are applied when there is no context at all, and only then.
AssessThreat(answer) ==
    IF answer = NoContext THEN ClassifyThreatWithDefaults(NothingKnown)
    ELSE ClassifyThreat(answer)
===========================================================================
