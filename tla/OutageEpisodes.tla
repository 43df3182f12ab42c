--------------------------- MODULE OutageEpisodes ---------------------------
(***************************************************************************)
(* What health monitoring promises about each component: an outage is      *)
(* announced by exactly one alert; it ends in a recovery, or is declared   *)
(* exhausted, with exactly one escalation, and from then on the component  *)
(* is reported as degraded until it recovers.  Outside of outages a        *)
(* component may be reported in any state: the failure that is reported    *)
(* last may be an old one.                                                 *)
(***************************************************************************)
CONSTANTS Components

VARIABLES
    report,     \* "healthy", "unhealthy" or "degraded"
    outage,     \* "none", "open" or "exhausted"
    alert       \* of the outage: "none", "due" or "sent"

outageVars == <<report, outage, alert>>

Init ==
    /\ report = [c \in Components |-> "healthy"]
    /\ outage = [c \in Components |-> "none"]
    /\ alert = [c \in Components |-> "none"]

Begin(c) ==
    /\ outage[c] = "none" /\ report[c] # "degraded"
    /\ report' = [report EXCEPT ![c] = "unhealthy"]
    /\ outage' = [outage EXCEPT ![c] = "open"]
    /\ alert' = [alert EXCEPT ![c] = "due"]

SendAlert(c) ==
    /\ alert[c] = "due"
    /\ alert' = [alert EXCEPT ![c] = "sent"]
    /\ UNCHANGED <<report, outage>>

\* All retries have failed: the only escalation of the outage.
Exhaust(c) ==
    /\ outage[c] = "open"
    /\ report' = [report EXCEPT ![c] = "degraded"]
    /\ outage' = [outage EXCEPT ![c] = "exhausted"]
    /\ UNCHANGED alert

Recover(c) ==
    /\ report' = [report EXCEPT ![c] = "healthy"]
    /\ outage' = [outage EXCEPT ![c] = "none"]
    /\ alert' = [alert EXCEPT ![c] = "none"]

\* A failure is reported that belongs to an outage which is already over.
ReportLateFailure(c) ==
    /\ outage[c] = "none"
    /\ report' = [report EXCEPT ![c] = "unhealthy"]
    /\ UNCHANGED <<outage, alert>>

\* Monitoring is stopped; its last reports stand.
Forget ==
    /\ outage' = [c \in Components |-> "none"]
    /\ alert' = [c \in Components |-> "none"]
    /\ UNCHANGED report

Next ==
    \/ Forget
    \/ \E c \in Components :
          Begin(c) \/ SendAlert(c) \/ Exhaust(c) \/ Recover(c) \/ ReportLateFailure(c)

Spec == Init /\ [][Next]_outageVars
=============================================================================
