CONSTANTS
    Events = {e1}
    Pods = {p1}
    NoPod = NoPod
    LabelledPods = {p1}
    PolicyNames = {p1}
    PolicyName <- DistinctName
    Accesses <- LocalAccesses
    Deployed <- MCDeployed
    Contexts <- MCContexts
    Missing = Missing
    NoContext = NoContext
    MaxRetries = 3
    MaxReportRetries = 1
SPECIFICATION Spec
INVARIANT ExecutedActionsAreAudited
