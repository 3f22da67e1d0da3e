SPECIFICATION Spec
CONSTANTS
    a = a
    b = b
    x = x
    Nothing = Nothing
    Chars <- MCChars
    Known <- MCKnown
    Lookahead = 3
    Chunks = {}
    MaxText = 0
    Futures = {}
    Events <- MCEvents
    MaxEvents = 5
    MaxBatch = 2
CHECK_DEADLOCK FALSE
INVARIANTS
    WholeAnswer
    ReleasedReachesClient
    WellOrdered
    ConnectionReleased
PROPERTIES
    Terminates
