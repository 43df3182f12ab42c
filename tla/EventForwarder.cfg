CONSTANTS
    Events = {e1, e2, e3}
    Undefined = Undefined
    Capacity = 2
    MaxRetries = 2
    MaxConcurrent = 3
SPECIFICATION FairSpec
INVARIANTS
    SequentialCallsLoseNothing
    SequentialOverflowIsReported
    OnlyClearLosesEvents
PROPERTIES
    ImplementsBoundedFifo
    ForwardReturns
