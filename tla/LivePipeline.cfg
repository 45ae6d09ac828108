CONSTANTS
  a = a
  b = b
  Incidents = {a, b}
  Nobody = nobody
  MaxRetries = 1
  MaxRollbacks = 1
  MaxOutages = 1
SPECIFICATION FairSpec
INVARIANTS TypeOK ReportedIsRunning
PROPERTY RequestIsAnswered
CHECK_DEADLOCK FALSE
