CONSTANTS
  s1 = s1
  Sessions <- MCSessions
  MaxLines = 3
  MaxRestarts = 1
SPECIFICATION Spec
INVARIANT CancelledIsTerminated
CHECK_DEADLOCK FALSE
