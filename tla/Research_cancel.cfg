SPECIFICATION ResearchFairSpec
CONSTANTS
  Workers = {w1}
  loop = loop
  user = user
  none = none
  MaxRuns = 1
  MaxRestarts = 0
CHECK_DEADLOCK FALSE
PROPERTY CancelIsDurable
