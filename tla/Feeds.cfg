CONSTANTS
    r1 = r1 c1 = c1 c2 = c2 rp = rp
    Rooms = {r1}
    Room <- MCRoom
    Order <- MCOrder
    Workers = {w1}
    Jobs = {c1, c2, rp}
    Consume = {c1, c2}
    Replay = {rp}
    Agent = {}
    Closers = {}
    MaxAttempts = 2

    MaxRevision = 2
    MaxInstalls = 2
    MaxWire = 2
    MaxFaults = 1
    None = None

    MaxVersion = 2
    MaxArtifacts = 2
    PageSize = 1
    MaxLosses = 1
    MaxEchoes = 1

    MaxTime = 5
    MaxRuns = 2
    MaxRefreshes = 2
SPECIFICATION FeedsSpec
CHECK_DEADLOCK FALSE
INVARIANTS CommitInOrder VisibilitySafe ConsoleSafe FrameIsLatestAnswer
PROPERTIES PanelNeverRegresses FeedsSettle
