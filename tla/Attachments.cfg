CONSTANTS
    Media = {p1, p2}
    Solo = p1
    Calls = {c1, c2}
    NoCall = NoCall
    MaxAttempts = 2
    BatchSize = 1

    MaxMedia = 2
    MaxCommands = 2
    MaxSlots = 1
    MaxQueue = 2
    MaxAsks = 2
    MaxTurns = 1

    MaxVersions = 3
    MaxLosses = 1
    MaxLoads = 4
SPECIFICATION AttachmentsSpec
CHECK_DEADLOCK FALSE
INVARIANTS MediaSafe DockSafe TranscriptSafe
PROPERTIES ReadyStays AttachmentsSettle
