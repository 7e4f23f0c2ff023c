SPECIFICATION ServicesSpec
CONSTANTS
    MaxMessages = 3
    MaxOrders = 3
    MaxFailures = 1
    MaxCrashes = 1
    Browser = browser
    Server = server
    MaxChunks = 2
CHECK_DEADLOCK FALSE
INVARIANTS
    CountedLinesAreStored
    StateIsRegular
PROPERTIES
    OperatorAnswered
    SessionEnds
