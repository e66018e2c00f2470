SPECIFICATION CallsSpec
CONSTANTS
  Calls = {c1, c2}
  Conns = {k1, k2}
  SingleProvider = TRUE
  Endpoints = {"e1", "e2"}
  Addresses = {}
  Owner <- NoOwners
  Workspaces = {"personal", "w1"}
  personal = "personal"
  Declared <- OneList
  MaxManaged = 2
  Sockets = {"s1", "s2"}
  Keys <- OneKey
  Strict <- Lenient
  none = "none"
SYMMETRY Symmetry
CHECK_DEADLOCK FALSE
INVARIANTS SuccessIsReal RetryIsSafe AtMostOnce RoutesAreCurrent
PROPERTY ImplementsContract
