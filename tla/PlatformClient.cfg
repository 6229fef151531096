SPECIFICATION FairClientSpec
CONSTANTS
    Requests = {reply, motion}
    MaxConnections = 1
    MaxRetries = 1
    MaxPairs = 2
    MaxFaults = 2
    MaxCrashes = 1
    NoOne = NoOne
INVARIANT RotatesForCause
INVARIANT SpentOnlyIfLost
PROPERTY EveryCallEnds
