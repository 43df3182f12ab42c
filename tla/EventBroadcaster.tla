-------------------------- MODULE EventBroadcaster --------------------------
(***************************************************************************)
(* createEventBroadcaster (dynatrace-ingestion/event-broadcaster.ts) and   *)
(* the status of the two clients it pushes to (ingestion-status.ts).  A    *)
(* broadcast is the sequence of pushes that it awaits one after the other. *)
(* What they do is in IngestionClient; the steps of the callers that wait  *)
(* for them are in IncidentWorkflow and Deployment.                        *)
(***************************************************************************)
EXTENDS Integers, Sequences

MapRegistryStatus(status) == IF status = "decommissioned" THEN "expired" ELSE status

PushTo(client, payload) == <<[client |-> client, payload |-> payload]>>

\* A metric, and a log entry of the same payload for the queries of the dashboard.
PushBoth(payload) == PushTo("metrics", payload) \o PushTo("logs", payload)

BroadcastHoneytokenRegistryChange(entry) ==
    PushBoth([entry EXCEPT !.status = MapRegistryStatus(@)])

BroadcastHealthStatusChange(status) == PushBoth(status)

BroadcastLearningMetrics(metrics) == PushBoth(metrics)

BroadcastAccessEvent(event, classification) ==
    PushTo("logs", [timestamp |-> event.timestamp, podId |-> event.podId,
                  threatClassification |-> classification])

\* Alerts are not pushed.
BroadcastResponseAction(action) ==
    IF action.actionType = "alert" THEN << >> ELSE PushTo("logs", action)

BroadcastForensicReport(report) == PushTo("logs", report)

BroadcastIncidentTimeline(incident) == PushTo("logs", incident)

---------------------------------------------------------------------------
BufferStatuses ==
    [bufferedItemCount : Nat, retryInProgressCount : Nat, totalDiscardedCount : Nat]

\* The overall health of ingestion, from the buffer status of both clients.
ComputeIngestionHealth(metricsStatus, logsStatus) ==
    IF metricsStatus.totalDiscardedCount + logsStatus.totalDiscardedCount > 0
    THEN "unhealthy"
    ELSE IF metricsStatus.retryInProgressCount + logsStatus.retryInProgressCount > 0
    THEN "degraded"
    ELSE "healthy"

GetIngestionStatus(metricsStatus, logsStatus) ==
    [health |-> ComputeIngestionHealth(metricsStatus, logsStatus),
     totalBufferedItems |-> metricsStatus.bufferedItemCount + logsStatus.bufferedItemCount,
     totalRetryInProgress |->
        metricsStatus.retryInProgressCount + logsStatus.retryInProgressCount,
     totalDiscarded |-> metricsStatus.totalDiscardedCount + logsStatus.totalDiscardedCount]
=============================================================================
