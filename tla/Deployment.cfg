CONSTANTS
    Cycles = {c1, c2}
    Scheduler = scheduler
    Pods = {p1, p2}
    NumSpecs = 2
    MaxRetries = 1
    MaxFaults = 2
SPECIFICATION FairSpec
INVARIANTS
    RegisteredIsDeployed
    PodsAllOrNothing
    OnlyLostAnswersLeak
PROPERTIES
    CyclesEnd
    ImplementsHoneytokenLifecycle
