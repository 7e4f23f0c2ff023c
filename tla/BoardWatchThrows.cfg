SPECIFICATION Spec
CONSTANTS
    Throws = {t, u}
    EventBuffer = 2
    MaxThrows = 2
    MaxSent = 5
CHECK_DEADLOCK FALSE
INVARIANTS
    ThrowsFollowBoard
