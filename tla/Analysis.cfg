CONSTANTS
    m1 = m1
    m2 = m2
    a1 = a1
    ann = ann
    ben = ben
    c1 = c1
    c2 = c2
    Messages = {m1, m2, a1}
    Author <- MCAuthor
    Agent = nova
    Teacher = teacher
    Clock <- MCClock
    Links = {c1, c2}
    Says <- MCSays
    Amended = c2
    Uptakes = {m2, a1}
    Mentions = {m2}
    Room = ROOM
    None = none
    Lateness = 1
    Recent = 2
    HalfLife = 2
    ClosesAt = 5
    MaxEvents = 6
    MaxReviews = 2
SPECIFICATION Spec
CHECK_DEADLOCK FALSE
INVARIANTS CaughtUpIsExact AnalysisSafe
