SPECIFICATION Spec
CONSTANTS
    Coordinates = {a, b}
    Distance <- MCDistance
    Segments = {single}
    Near = 1
    OldestOffset = 3
    LatestOffset = 1
    PreDelay = 1
    StableFor = 2
    ArtifactTimeout = 1
    ReferenceInterval = 9
    EventAge = 5
    EventCap = 3
    StreamLag = 0
    CaptureLag = 9
    MaxRate = 9
    MaxThrows = 2
    MaxLog = 4
    MaxTime = 4
SYMMETRY MCSymmetry
CHECK_DEADLOCK FALSE
INVARIANTS
    ObservationWindowUnchanged
