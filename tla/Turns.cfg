SPECIFICATION TurnsSpec
CONSTANTS
  Messages = {m1, m2}
  MaxCheckpoints = 2
  MaxCommands = 2
  MaxTrims = 1
  MaxToolRounds = 1
  Endpoints = {"e1"}
  Addresses = {"a1"}
  Owner <- OneOwner
  Workspaces = {"personal", "w1", "w2"}
  personal = "personal"
  Declared <- NoneOrTwo
  MaxManaged = 4
  Saves = {"s1", "s2"}
  Text <- SameText
  Explicit = {"s1"}
  Longs = {"l1", "l2"}
  Profiles = {"s1", "s2"}
  Values = {"x", "y"}
  keeper = "keeper"
  absent = "none"
  MaxPayloads = 1
  MaxRemovals = 1
CHECK_DEADLOCK FALSE
SYMMETRY Symmetry
INVARIANTS OnlyTheStopStrays ReplayedOnce OutcomeIsOwn StrandedOnlyByEscape ExplicitKept StoreIsSound
PROPERTY MembershipsHold
