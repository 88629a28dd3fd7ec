CONSTANTS
    r1 = r1 c1 = c1 c2 = c2 rp = rp a1 = a1 x1 = x1
    Rooms = {r1}
    Room <- MCRoom
    Order <- MCOrder
    Workers = {w1, w2}
    Jobs = {a1, x1}
    Consume = {}
    Replay = {}
    Agent = {a1}
    Closers = {x1}
    MaxAttempts = 2

    k1 = k1 k2 = k2
    Pages = {p1}
    Connections = {k1, k2}
    KeepAlive = 1
    ExpiresAfter = 2
    MaxFrames = 2

    MaxRoomEvents = 2
    MaxRows = 1
    MaxSize = 130

    Manifests = {v1, v2}
    First = v1
    FreshFor = 2
    Ahead = 1
    Lifetime = 2
    Skews = {0, 1}
    MaxClock = 4
    MaxProbes = 3
    MaxAdmitted = 1
SPECIFICATION ServerSpec
SYMMETRY MCSymmetry
CHECK_DEADLOCK FALSE
INVARIANTS AtMostOnce QueueSound PresenceHonest SavedHoldsLedger
PROPERTIES SettledForGood WholeIsSaved AdmittedHealthy
