SPECIFICATION LoopSpec
CONSTANTS
    Size = 3
    Coordinates <- MCCoordinates
    Distance <- MCDistance
    Segments = {single}
    Near = 1
    Longest = 3
INVARIANTS OutcomeIsMatching MatchingIsOutcome
CHECK_DEADLOCK FALSE
