SPECIFICATION FairSpec
CONSTANTS
  Jobs = {j1, j2}
  Executors = {"scheduler"}
  OneShots = {}
  Heartbeat = none
  Unroutable = {j1}
  MaxUpdates = 0
  MaxRaises = 0
  MaxCrashes = 0
CHECK_DEADLOCK FALSE
PROPERTY DueIsServed
