SPECIFICATION Spec
CONSTANTS
    Coordinates = {a, b}
    Distance <- MCDistance
    Segments = {single}
    Near = 1
    OldestOffset = 2
    LatestOffset = 1
    PreDelay = 1
    StableFor = 1
    ArtifactTimeout = 3
    ReferenceInterval = 9
    EventAge = 5
    EventCap = 3
    StreamLag = 0
    CaptureLag = 9
    MaxRate = 9
    MaxThrows = 2
    MaxLog = 4
    MaxTime = 5
SYMMETRY MCSymmetry
CHECK_DEADLOCK FALSE
INVARIANTS
    BeforeFramesPrecedeChange
