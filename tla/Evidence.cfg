SPECIFICATION EvidenceSpec
CONSTANTS
    Cameras = 1
    Offsets = {0}
    PreDelay = 1
    PostDelay = 2
    History = 5
    Skew = 1
    ArtifactTimeout = 1
    Requests = 2
    Lag = 0
    MaxChanges = 1
    ReferenceInterval = 4
    MaxTime = 6
    Inputs = {"calibration", "distortion"}
    Identifying = {"calibration", "distortion"}
    Values = {1, 2}
    Missing = 0
    MaxCalibrations = 2
    MaxFailures = 1
    MaxSessions = 2
CHECK_DEADLOCK FALSE
INVARIANTS
    ManifestInOrder
    BeforeIsNotAfter
    SampleSetupStored
    SetupFollowsBoard
PROPERTIES
    NothingForgotten
    ChangesSettle
    CalibrationRecorded
