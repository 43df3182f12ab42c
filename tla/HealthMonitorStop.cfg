CONSTANTS
    Components = {c1}
    RecoveryMaxRetries = 3
    MaxOverlap = 4
SPECIFICATION Spec
INVARIANT StopClearsTimers
