CONSTANTS
    Seats = {s1}
    Tabs = {t1, t2}
    Desk = t1
    MaxMoves = 2
    MaxOutside = 1
    MaxLosses = 1

    SuiteTests = 2
    MaxEdits = 2
    MaxCrashes = 1
    MaxStrangers = 1
SPECIFICATION PremisesSpec
CHECK_DEADLOCK FALSE
INVARIANT PilotSafe
PROPERTIES AccessGuarded PremisesSettle
