CONSTANTS
    Events = {e1, e2}
    Pods = {p1, p2}
    NoPod = NoPod
    LabelledPods = {p1, p2}
    PolicyNames = {p1, p2}
    PolicyName <- SharedName
    Accesses <- LocalAccesses
    Deployed <- MCDeployed
    Contexts <- MCContexts
    Missing = Missing
    NoContext = NoContext
    MaxRetries = 1
    MaxReportRetries = 1
SPECIFICATION Spec
INVARIANT ContainedMeansIsolated
