SPECIFICATION BackgroundSpec
CONSTANTS
  Jobs = {j1, hb}
  Executors = {"scheduler", "manual"}
  OneShots = {j1}
  Heartbeat = hb
  Unroutable = {}
  MaxUpdates = 1
  MaxRaises = 1
  MaxCrashes = 1
  Workers = {"w1"}
  loop = "loop"
  user = "user"
  none = "none"
  MaxRuns = 2
  MaxRestarts = 1
CHECK_DEADLOCK FALSE
INVARIANTS OneShotKept LeaseHeldByRun RowsClosed OutcomeIsOne
PROPERTY OneShotOnce
