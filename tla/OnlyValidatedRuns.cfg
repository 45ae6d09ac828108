CONSTANTS
  a = a
  b = b
  Incidents = {a, b}
  Nobody = nobody
  MaxRetries = 1
  MaxRollbacks = 1
  MaxOutages = 1
SPECIFICATION Spec
INVARIANT OnlyValidatedRuns
CHECK_DEADLOCK FALSE
