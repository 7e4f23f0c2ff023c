SPECIFICATION Spec
CONSTANTS
    Coordinates = {a, b}
    Distance <- MCDistance
    Segments = {single}
    Near = 1
    OldestOffset = 1
    LatestOffset = 1
    PreDelay = 1
    StableFor = 2
    ArtifactTimeout = 1
    ReferenceInterval = 1
    EventAge = 3
    EventCap = 3
    StreamLag = 1
    CaptureLag = 1
    MaxRate = 1
    MaxThrows = 2
    MaxLog = 4
    MaxTime = 4
SYMMETRY MCSymmetry
CHECK_DEADLOCK FALSE
INVARIANTS
    WorldFollowsTeacher
    SameStateSameDarts
    AddedOnce
    StartupDartsNotEmitted
    ObservedWorldWasReported
    NoMotionReceivedInWindow
