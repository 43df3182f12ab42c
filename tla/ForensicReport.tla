--------------------------- MODULE ForensicReport ---------------------------
(***************************************************************************)
(* The content of a forensic report (agent/report-generator.ts) and the    *)
(* text generator behind it (agent/gemini-report-generator.ts).  The       *)
(* report is made from the incident data alone: the text that Gemini       *)
(* answers only decides whether there is one.  Times are integers, texts   *)
(* are named by what they are about.                                       *)
(***************************************************************************)
EXTENDS Integers, Sequences, FiniteSets

Actions ==
    [actionType : {"pod_isolation", "ip_block", "additional_honeytokens"},
     timestamp : Int, result : {"success", "failure"}]

Incidents ==
    [accessEvent : [timestamp : Int],
     threatAssessment : [classification : {"low", "medium", "high", "critical"},
                         assessmentTimestamp : Int],
     responseActions : Seq(Actions)]

---------------------------------------------------------------------------
\* Array.prototype.sort by time is stable: the position of an action is one more
\* than the number of those that are earlier, or as early and before it.
Earlier(actions, k) ==
    {j \in DOMAIN actions :
        \/ actions[j].timestamp < actions[k].timestamp
        \/ actions[j].timestamp = actions[k].timestamp /\ j < k}

Position(actions, k) == Cardinality(Earlier(actions, k)) + 1

SortedByTime(actions) ==
    [n \in DOMAIN actions |->
        actions[CHOOSE k \in DOMAIN actions : Position(actions, k) = n]]

\* The access, its assessment, and the actions in the order of their times.
BuildTimeline(incident) ==
    LET sorted == SortedByTime(incident.responseActions)
    IN  <<[about |-> "access", timestamp |-> incident.accessEvent.timestamp],
          [about |-> "assessment",
           timestamp |-> incident.threatAssessment.assessmentTimestamp]>>
          \o [n \in DOMAIN sorted |->
                [about |-> sorted[n].actionType, timestamp |-> sorted[n].timestamp]]

GenerateFollowUpActions(incident) ==
    LET class == incident.threatAssessment.classification
        actions == incident.responseActions
        failed == {k \in DOMAIN actions : actions[k].result = "failure"}
    IN  <<"review">>
          \o (IF class \in {"high", "critical"}
              THEN <<"forensic analysis", "lateral movement">> ELSE << >>)
          \o (IF class = "critical" THEN <<"incident response team">> ELSE << >>)
          \o (IF failed # {} THEN <<"manual remediation">> ELSE << >>)

\* parseResponseToReport.
Report(incident, retentionDays) ==
    [retentionDays |-> retentionDays,
     classification |-> incident.threatAssessment.classification,
     responseActions |-> incident.responseActions,
     timeline |-> BuildTimeline(incident),
     recommendedFollowUpActions |-> GenerateFollowUpActions(incident)]

---------------------------------------------------------------------------
\* createGeminiClientWithFallback: the first failure of Gemini, of a missing API
\* key or of an empty answer is the last call to it.
GenerateText(useRealGemini, geminiFails) ==
    IF useRealGemini /\ ~geminiFails
    THEN [source |-> "gemini", useRealGemini |-> TRUE]
    ELSE [source |-> "fallback", useRealGemini |-> FALSE]
=============================================================================
