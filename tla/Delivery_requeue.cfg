SPECIFICATION Spec
CONSTANTS
  Messages = {m1}
  Addressed = {m1}
  Queueable = {m1}
  Readers = {r1}
  MaxAttempts = 2
  MaxCrashes = 0
CHECK_DEADLOCK FALSE
INVARIANT FailureRequeued
