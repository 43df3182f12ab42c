------------------------------ MODULE Learning ------------------------------
(***************************************************************************)
(* The trainer (vertex/trainer.ts) and the loop that feeds it and applies  *)
(* its models (agent/learning-feedback.ts).  Both are synchronous, so each *)
(* method is one step; incidents end, retraining is triggered and updates  *)
(* are applied in any order.  The log of the trainer is left out.          *)
(***************************************************************************)
EXTENDS Integers

CONSTANTS
    MinimumOutcomeRecords,  \* minimumOutcomeRecords, 50
    RetrainingInterval,     \* retrainingIntervalHours, in milliseconds
    Accuracies,             \* what training may reach, 70 to 99
    BaselineAccuracy,       \* 75
    RecordsPerMajor,        \* 100
    StampWrap,              \* 10000
    MaxRecords, MaxTime     \* bounds of the model

\* validateConfig does not look at minimumOutcomeRecords.  With 0, two models could
\* be published from one dataset within a millisecond, under one version.
ASSUME LearningAssumption ==
    /\ MinimumOutcomeRecords \in Nat \ {0} /\ RetrainingInterval \in Nat \ {0}
    /\ Accuracies \subseteq Nat /\ BaselineAccuracy \in Nat
    /\ RecordsPerMajor \in Nat \ {0} /\ StampWrap \in Nat \ {0}
    /\ MaxRecords \in Nat /\ MaxTime \in Nat

VARIABLES
    datasetSize,                \* length of outcomeDataset
    datasetSinceLastTraining,
    currentModel,
    lastRetrainingTimestamp,
    lastKnownModelVersion,      \* of the feedback loop
    now,                        \* the clock, in milliseconds
    applied                     \* history: trainingDatasetSize of the model applied last

vars == <<datasetSize, datasetSinceLastTraining, currentModel, lastRetrainingTimestamp,
          lastKnownModelVersion, now, applied>>

---------------------------------------------------------------------------
\* Fault: the number of the major version does not grow.
VersionByMinor(size, time) ==
    [major |-> 1, minor |-> size % RecordsPerMajor, stamp |-> time % StampWrap]

\* The three numbers of a version id.
GenerateVersionId(size, time) ==
    [major |-> size \div RecordsPerMajor + 1,
     minor |-> size % RecordsPerMajor,
     stamp |-> time % StampWrap]

Init ==
    /\ datasetSize = 0 /\ datasetSinceLastTraining = 0
    /\ now = 0
    /\ currentModel = [versionId |-> [major |-> 1, minor |-> 0, stamp |-> 0],
                       trainingDatasetSize |-> 0,
                       validationAccuracy |-> BaselineAccuracy]
    /\ lastRetrainingTimestamp = 0
    /\ lastKnownModelVersion = currentModel.versionId
    /\ applied = 0

\* An outcome, by those of its fields that are valid.
Fields == {"incidentId", "accessEvent", "honeytokenType", "placementLocation",
           "actionsTaken", "effectiveness", "timestamp"}

ValidateOutcomeData(valid) == valid = Fields

\* submitOutcome of a workflow; an outcome that is not valid throws and changes nothing.
SubmitOutcome(valid) ==
    /\ ValidateOutcomeData(valid)
    /\ datasetSize < MaxRecords
    /\ datasetSize' = datasetSize + 1
    /\ datasetSinceLastTraining' = datasetSinceLastTraining + 1
    /\ UNCHANGED <<currentModel, lastRetrainingTimestamp, lastKnownModelVersion, now, applied>>

EnoughRecords == datasetSinceLastTraining >= MinimumOutcomeRecords

\* shouldRetrain, a query that no component calls.
ShouldRetrain ==
    /\ now - lastRetrainingTimestamp >= RetrainingInterval
    /\ EnoughRecords

\* Fault: the guard compares with the baseline.
AboveBaseline(accuracy) == accuracy >= BaselineAccuracy

PublishGuard(accuracy) == accuracy >= currentModel.validationAccuracy

\* triggerRetraining looks at the number of records and not at the interval.
PublishModel(accuracy) ==
    /\ EnoughRecords /\ PublishGuard(accuracy)
    /\ currentModel' = [versionId |-> GenerateVersionId(datasetSize, now),
                        trainingDatasetSize |-> datasetSize,
                        validationAccuracy |-> accuracy]
    /\ lastRetrainingTimestamp' = now
    /\ datasetSinceLastTraining' = 0
    /\ UNCHANGED <<datasetSize, lastKnownModelVersion, now, applied>>

\* Fault: a rejected model uses up the records that it was trained with.
RejectForgetting(accuracy) ==
    /\ EnoughRecords /\ ~PublishGuard(accuracy)
    /\ datasetSinceLastTraining' = 0
    /\ UNCHANGED <<datasetSize, currentModel, lastRetrainingTimestamp, lastKnownModelVersion,
                   now, applied>>

\* A model that is worse is dropped, and so is training that throws.  Neither counter
\* nor timestamp moves, so ShouldRetrain, which looks at the time and the records
\* "since last training" (trainer.ts:164-165), stays true: training is due again at
\* once.  Requirement 7.6 (requirements.md:115) would have the agent "retry retraining
\* at the next scheduled interval".
RejectModel(accuracy) ==
    /\ EnoughRecords /\ ~PublishGuard(accuracy)
    /\ UNCHANGED vars

ApplyModelUpdate ==
    /\ IF currentModel.versionId = lastKnownModelVersion
       THEN UNCHANGED <<lastKnownModelVersion, applied>>
       ELSE /\ lastKnownModelVersion' = currentModel.versionId
            /\ applied' = currentModel.trainingDatasetSize
    /\ UNCHANGED <<datasetSize, datasetSinceLastTraining, currentModel, lastRetrainingTimestamp, now>>

Tick ==
    /\ now < MaxTime
    /\ now' = now + 1
    /\ UNCHANGED <<datasetSize, datasetSinceLastTraining, currentModel, lastRetrainingTimestamp,
                   lastKnownModelVersion, applied>>

Next ==
    \/ \E valid \in SUBSET Fields : SubmitOutcome(valid)
    \/ \E accuracy \in Accuracies : PublishModel(accuracy) \/ RejectModel(accuracy)
    \/ ApplyModelUpdate
    \/ Tick

Spec == Init /\ [][Next]_vars

---------------------------------------------------------------------------
VersionIds == [major : Nat, minor : Nat, stamp : Nat]

Models == [versionId : VersionIds, trainingDatasetSize : Nat, validationAccuracy : Nat]

\* Type invariant.  Training never lies in the future.
TypeOK ==
    /\ datasetSize \in Nat /\ datasetSinceLastTraining \in Nat
    /\ currentModel \in Models
    /\ now \in Nat /\ lastRetrainingTimestamp \in 0..now
    /\ lastKnownModelVersion \in VersionIds
    /\ applied \in Nat

\* Every outcome counts for exactly one training: it is in the dataset of the current
\* model or among the records since, whatever was rejected or submitted in between.
OutcomesCountOnce ==
    currentModel.trainingDatasetSize + datasetSinceLastTraining = datasetSize

\* The feedback loop tells models apart by their version alone, and still never takes
\* a new model for the one it knows: not when the stamp in the version repeats, not
\* when it missed models in between.
UpdatesAreNoticed ==
    applied # currentModel.trainingDatasetSize =>
        lastKnownModelVersion # currentModel.versionId

\* A model is replaced only by one that is no less accurate and was trained with at
\* least the minimum of new records.
ModelsImprove ==
    [][currentModel' # currentModel =>
        /\ currentModel'.validationAccuracy >= currentModel.validationAccuracy
        /\ currentModel'.trainingDatasetSize
               >= currentModel.trainingDatasetSize + MinimumOutcomeRecords]_vars

---------------------------------------------------------------------------
\* What UpdatesAreNoticed rests on: a version tells the size of its dataset.
TellsSize(version, size) ==
    /\ version.major = size \div RecordsPerMajor + 1
    /\ version.minor = size % RecordsPerMajor

VersionsTellSize ==
    /\ TellsSize(currentModel.versionId, currentModel.trainingDatasetSize)
    /\ TellsSize(lastKnownModelVersion, applied)

IInv == TypeOK /\ OutcomesCountOnce /\ VersionsTellSize
=============================================================================
