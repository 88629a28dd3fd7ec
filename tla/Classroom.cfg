CONSTANTS
    LifecycleCommands = {o1, o2}
    MessageCommands = {m1}
    Students = {s1}
    Teacher = t
    Runs = {g1}
    AutoJob = auto
    MaxCalls = 1
    Workers = {w1}
    MaxAttempts = 2
SPECIFICATION MCClassSpec
CHECK_DEADLOCK FALSE
INVARIANT ClassroomSafe
PROPERTIES QueueSpec SettledRunStays RunEnds OverdueClosesOrFails
