CONSTANTS
    Events = {e1, e2}
    Pods = {p1, p2}
    NoPod = NoPod
    LabelledPods <- LocalPods
    PolicyNames = {p1, p2}
    PolicyName <- DistinctName
    Accesses <- SpreadAccesses
    Deployed <- MCDeployed
    Contexts <- MCContexts
    Missing = Missing
    NoContext = NoContext
    MaxRetries = 1
    MaxReportRetries = 1
SPECIFICATION FairSpec
INVARIANTS
    ContainedMeansIsolated
    FailuresWereAlerted
    ReportedMeansWholePlan
    AccessesAreCounted
    UnauditedWereNotAlerted
PROPERTIES
    ImplementsIncidentResponse
    CallsWindDown
    IncidentsAreClosed
