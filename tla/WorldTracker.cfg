SPECIFICATION Spec
CONSTANTS
    Size = 4
    Coordinates <- MCCoordinates
    Distance <- MCDistance
    Segments = {single, triple}
    Near = 1
    MaxThrows = 2
    MaxDartCounter = 4
    MaxStateCounter = 3
INVARIANT IdentitiesDistinct
PROPERTIES
    TransitionsReplay
    StateIdNamesContent
    UnmovedDartKeepsIdentity
    AddedOnlyWhenUnclaimed
    IdentityRegistry
