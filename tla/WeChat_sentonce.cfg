SPECIFICATION WeChatSpec
CONSTANTS
  Events = {e1}
  Notices = {n1}
  Chat <- OneChat
  Ignored = {}
  ReadOnly = {}
  QueueSize = 1
  MaxFaults = 0
  MaxKills = 0
  provider = provider
  nobody = nobody
CHECK_DEADLOCK FALSE
INVARIANT SentOnce
