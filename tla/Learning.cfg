CONSTANTS
    MinimumOutcomeRecords = 2
    RetrainingInterval = 2
    Accuracies = {74, 76, 78}
    BaselineAccuracy = 75
    RecordsPerMajor = 3
    StampWrap = 2
    MaxRecords = 7
    MaxTime = 5

SPECIFICATION Spec

INVARIANTS
    UpdatesAreNoticed
    OutcomesCountOnce

PROPERTIES
    ModelsImprove
