------------------------------ MODULE AuditLog ------------------------------
(***************************************************************************)
(* The audit log (agent/audit-log.ts), as operators on its list of         *)
(* entries: appending, the queries by type and by date, and the removal of *)
(* entries whose retention period is over.  Times are in milliseconds, and *)
(* time is the clock when the method is called.                            *)
(*                                                                         *)
(* The workflows only append (IncidentWorkflow and Deployment have the log *)
(* as a variable of theirs).                                               *)
(***************************************************************************)
EXTENDS SequenceFilter

CONSTANT ConfiguredDays     \* config.retentionDays, an integer

---------------------------------------------------------------------------
MinRetentionDays == 90

\* A shorter period than the minimum is not accepted.
RetentionDays ==
    IF ConfiguredDays >= MinRetentionDays THEN ConfiguredDays ELSE MinRetentionDays

Day == 24 * 60 * 60 * 1000

Log(entries, input, time) ==
    Append(entries, [timestamp |-> time, decisionType |-> input.decisionType,
                     outcome |-> input.outcome, retentionDays |-> RetentionDays])

GetByType(entries, type) == KeepIn(entries, {e \in Range(entries) : e.decisionType = type})

GetByDateRange(entries, start, end) ==
    KeepIn(entries, {e \in Range(entries) : start <= e.timestamp /\ e.timestamp <= end})

Expired(entry, time) == time - entry.timestamp > RetentionDays * Day

\* The loop goes from the newest entry to the oldest, so that removing an entry
\* moves none it has still to look at.
PurgeExpired(entries, time) == KeepIn(entries, {e \in Range(entries) : ~ Expired(e, time)})

\* What purgeExpired returns.
PurgedCount(entries, time) == Len(entries) - Len(PurgeExpired(entries, time))
=============================================================================
