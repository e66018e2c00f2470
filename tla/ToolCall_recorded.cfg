SPECIFICATION Spec
CONSTANTS
  Calls = {c1}
  Conns = {k1, k2}
  SingleProvider = TRUE
CHECK_DEADLOCK FALSE
INVARIANT ResultRecorded
