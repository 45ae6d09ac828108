CONSTANTS
  s1 = s1
  Sessions <- MCSessions
  MaxLines = 3
  MaxRestarts = 1
SPECIFICATION FairSpec
PROPERTY SessionsEnd
CHECK_DEADLOCK FALSE
