SPECIFICATION Spec
CONSTANTS
    Watched <- AllQueries
    Busy <- BusyQueries
    MaxCalls = 2
    None = None
INVARIANTS OwnWritesShown
PROPERTIES BadgeCatchesUp
