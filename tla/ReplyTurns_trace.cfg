SPECIFICATION Spec
CONSTANTS
  Messages = {m1, m2}
  MaxCheckpoints = 2
  MaxCommands = 1
  MaxTrims = 1
  MaxToolRounds = 0
CHECK_DEADLOCK FALSE
INVARIANT ReplayedLeavesNoTrace
