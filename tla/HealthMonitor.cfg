CONSTANTS
    Components = {c1}
    RecoveryMaxRetries = 3
    MaxOverlap = 4
SPECIFICATION FairSpec
INVARIANTS
    DegradedMeansExhausted
    TimersBelongToOutages
    OutageIsAlerted
PROPERTIES
    ImplementsOutageEpisodes
    StopTakesHold
    OutageResolves
    RecoveredIsHealthy
