SPECIFICATION FairSpec
CONSTANTS
    Throws = {t, u}
    EventBuffer = 1
    MaxThrows = 2
    MaxSent = 4
CHECK_DEADLOCK FALSE
INVARIANTS
    EventsInOrder
    StatusFollowsBoard
PROPERTIES
    WatchEnds
