CONSTANTS
    Commands = {}
    ReplayLimit = 3
    MaxBuffer = 3
    PageLimit = 3
    MaxPending = 2
    MaxEvents = 3
    MaxTries = 1
    MaxDrops = 0
SPECIFICATION FairRealtimeSpec
CHECK_DEADLOCK FALSE
PROPERTY EveryEventArrives
