SPECIFICATION FairSpec
CONSTANTS
    Samples = {1, 2, 3}
    Frames = {f}
    Quota = 5
    MaxCrashes = 1
    MaxFailures = 1
CHECK_DEADLOCK FALSE
INVARIANTS
    BytesAccounted
    WholeSamplesListed
    OverrunHandled
    DamageBounded
    FoldersWithinQuota
    ExportComplete
PROPERTIES
    OldestRemovedFirst
    SampleStoreKept
    CapturesEnd
