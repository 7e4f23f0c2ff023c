SPECIFICATION FairSpec
CONSTANTS
    Requests = {r1, r2}
    Display = display
    BoardIds = {a, b}
    NoId = none
    Tokens = {t, u}
    NoFile = nofile
    Blank = blank
    MaxOutages = 1
    MaxCrashes = 1
CHECK_DEADLOCK FALSE
INVARIANTS
    ConsumedTokenRefused
    CalibratesConfiguredBoard
PROPERTIES
    CalibrationSettles
