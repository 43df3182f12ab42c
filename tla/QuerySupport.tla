---------------------------- MODULE QuerySupport ----------------------------
(***************************************************************************)
(* Search and paging of forensic reports and incidents                     *)
(* (dynatrace-ingestion/query-support.ts), as operators on sequences.      *)
(*                                                                         *)
(* An optional field of a filter is a set with at most one element, and an *)
(* empty array, which the code treats like a missing one, the empty set.   *)
(* Pages and page sizes are integers; the functions do not check them, and *)
(* for a page size below 1 they return nothing sensible.                   *)
(***************************************************************************)
EXTENDS SequenceFilter

CONSTANT Includes(_, _)     \* the text, in lower case, contains the search text

---------------------------------------------------------------------------
DefaultReportPageSize == 50

MaxIncidentPageSize == 500

OrDefault(option, default) == IF option = {} THEN default ELSE CHOOSE x \in option : TRUE

AtLeastOne(page) == IF page >= 1 THEN page ELSE 1

\* Array.slice on indices that are not negative.
Slice(items, start, end) ==
    SubSeq(items, start + 1, IF end <= Len(items) THEN end ELSE Len(items))

\* At least one page, and one for each pageSize items begun.
TotalPages(count, pageSize) == AtLeastOne((count + pageSize - 1) \div pageSize)

Paginate(items, page, pageSize) ==
    [items |-> Slice(items, (page - 1) * pageSize, (page - 1) * pageSize + pageSize),
     totalCount |-> Len(items),
     page |-> page,
     pageSize |-> pageSize,
     totalPages |-> TotalPages(Len(items), pageSize)]

---------------------------------------------------------------------------
ReportMatches(report, filter) ==
    \A text \in filter.searchText :
        \/ Includes(report.reportId, text)
        \/ Includes(report.affectedPodId, text)
        \/ Includes(report.namespace, text)

SearchForensicReports(reports, filter) ==
    Paginate(KeepIn(reports, {r \in Range(reports) : ReportMatches(r, filter)}),
             AtLeastOne(filter.page),
             OrDefault(filter.pageSize, DefaultReportPageSize))

IncidentTimelineFilter ==
    [page : Int, pageSize : SUBSET Int,
     dateRangeStart : SUBSET Int, dateRangeEnd : SUBSET Int,
     threatClassification : SUBSET STRING,
     namespace : SUBSET STRING,
     responseOutcome : SUBSET STRING]

\* The five filters, which the code applies one after the other.
IncidentMatches(incident, filter) ==
    /\ \A start \in filter.dateRangeStart : incident.timestamp >= start
    /\ \A end \in filter.dateRangeEnd : incident.timestamp <= end
    /\ filter.threatClassification = {} \/ incident.threatClassification \in filter.threatClassification
    /\ \A namespace \in filter.namespace : incident.namespace = namespace
    /\ filter.responseOutcome = {} \/ incident.finalOutcome \in filter.responseOutcome

IncidentPageSize(filter) ==
    LET requested == OrDefault(filter.pageSize, MaxIncidentPageSize)
    IN  IF requested <= MaxIncidentPageSize THEN requested ELSE MaxIncidentPageSize

QueryIncidentTimeline(incidents, filter) ==
    Paginate(KeepIn(incidents, {i \in Range(incidents) : IncidentMatches(i, filter)}),
             AtLeastOne(filter.page),
             IncidentPageSize(filter))
=============================================================================
