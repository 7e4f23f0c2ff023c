SPECIFICATION Spec
CONSTANTS
    Samples = {1, 2, 3}
    Frames = {f}
    Quota = 5
    MaxCrashes = 1
    MaxFailures = 0
CHECK_DEADLOCK FALSE
INVARIANTS
    DiskWithinQuota
