SPECIFICATION MembershipSpec
CONSTANTS
  Endpoints = {"e1"}
  Addresses = {}
  Owner <- NoOwner
  Workspaces = {"personal", "w1", "w2"}
  personal = "personal"
  Declared <- TwoLists
  MaxManaged = 1
CHECK_DEADLOCK FALSE
INVARIANT OnePrimary
