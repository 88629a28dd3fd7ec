CONSTANTS
    LifecycleCommands = {o1}
    MessageCommands = {}
    Students = {}
    Teacher = t
    Runs = {}
    AutoJob = auto
    MaxCalls = 0
    Workers = {w1}
    MaxAttempts = 3
SPECIFICATION MCClassSpec
CHECK_DEADLOCK FALSE
PROPERTY OverdueCloses
