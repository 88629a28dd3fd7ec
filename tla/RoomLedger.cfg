CONSTANTS
    LifecycleCommands = {o1, o2, o3}
    MessageCommands = {m1, m2, m3}
    Students = {s1}
    Teacher = t
    Runs = {g1}
    AutoJob = auto
    MaxCalls = 1
SPECIFICATION RoomSpec
SYMMETRY MCSymmetry
CHECK_DEADLOCK FALSE
INVARIANTS CausedOnce RevisionChain RoomSound
PROPERTY FrozenByDeletion
