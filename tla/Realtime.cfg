CONSTANTS
    Commands = {c1}
    ReplayLimit = 1
    MaxBuffer = 1
    PageLimit = 2
    MaxPending = 2
    MaxEvents = 2
    MaxTries = 2
    MaxDrops = 1
SPECIFICATION FairRealtimeSpec
CHECK_DEADLOCK FALSE
INVARIANT RealtimeSafe
PROPERTIES CatchesUp CommandsResolve
