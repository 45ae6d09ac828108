CONSTANTS
  a = a
  s1 = s1
  Incidents = {a}
  Smoked = {s1}
  s2 = s2
  RollbackId = rb
  NoId = none
  MAX_INCIDENTS = 2
  MaxBegun = 2
  MaxRetries = 1
  MaxPending = 2
  MaxOutages = 1
  Payloads <- MCPayloads
SPECIFICATION FairSpec
PROPERTY TelemetryEnds
CHECK_DEADLOCK FALSE
