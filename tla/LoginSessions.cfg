CONSTANTS
  s1 = s1
  Sessions <- MCSessions
  MaxLines = 3
  MaxRestarts = 1
SPECIFICATION FairSpec
INVARIANTS TypeOK NeverAwaitsAfterSubmit StatusTruthful CancelKillsAttached
PROPERTY ExitIsReported
CHECK_DEADLOCK FALSE
