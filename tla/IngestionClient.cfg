CONSTANTS
    Items = {i1, i2, i3}
    Flushes = {f1, f2}
    MaxBatchSize = 2
    MaxRetries = 2
    InitialBackoff = 1
    BackoffMultiplier = 2
    MaxBackoff = 2
SPECIFICATION FairSpec
INVARIANTS
    NoItemLost
    OneHolder
    BoundedDuplication
PROPERTIES
    ImplementsBoundedDelivery
    EventuallySettled
    PushesReturn
