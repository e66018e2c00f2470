SPECIFICATION ServicesSpec
CONSTANTS
  Messages = {"m1", "m2", "m3"}
  Addressed = {"m1", "m3"}
  Queueable = {"m1", "m2"}
  Readers = {r1}
  MaxAttempts = 2
  MaxCrashes = 1
  Requests = {"r1", "r2", "r3"}
  Session <- AskedIn
  Confirms = {"r1", "r3"}
  Recorded = {"s1"}
  CliSession = "s1"
  none = "none"
  Keys = {"k1"}
  noKey = "no key"
  MaxMessages = 3
  MaxBranches = 2
  MaxManual = 1
  MaxFailed = 1
  Turns = {"t1"}
  Users = {"u1"}
  MaxDeltas = 1
  MaxDrops = 2
  MaxFetches = 1
  MaxVisible = 1
  Retained = 1
  Events = {"e1", "e2"}
  Notices = {"n1"}
  Chat <- OneChat
  Ignored = {}
  ReadOnly = {"e2"}
  QueueSize = 1
  MaxFaults = 1
  MaxKills = 1
  provider = "provider"
  nobody = "nobody"
  SharedCalls = {"c1"}
  SharedConns = {"k1", "k2"}
  SharedMessages = {"m1", "m2"}
  SharedAddressed = {"m1"}
  SharedQueueable = {"m1", "m2"}
  SharedLoops = {"r1", "r2"}
  SharedAttempts = 2
  SharedCrashes = 0
CHECK_DEADLOCK FALSE
INVARIANTS DeliveredIsReal StrandedOnlyByCrash ShownAtMostOnce AnswersAreKept QuestionsAreServed VersionsAreSound ReplyFollowsQuestion OneRunPerKey ListIsExact NoEventLost RepliesFollowPolicy SharedIsSafe
PROPERTIES KeepsContract NothingRewritten
