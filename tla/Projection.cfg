SPECIFICATION FairProjectionSpec
CONSTANTS
  MaxEvents = 4
  MaxAttempts = 2
  MaxDeploys = 1
  MaxCrashes = 1
  Times = {"on", "old"}
  Reviews = {"suppress", "relabel"}
  None = None
CHECK_DEADLOCK FALSE
INVARIANT ProjectionSafe
PROPERTY EventsProjected
