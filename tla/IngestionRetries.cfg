CONSTANTS
    Items = {i1}
    Flushes = {f1}
    MaxBatchSize = 2
    MaxRetries = 5
    InitialBackoff = 2
    BackoffMultiplier = 2
    MaxBackoff = 32
SPECIFICATION Spec
INVARIANT DiscardsFollowRetries
