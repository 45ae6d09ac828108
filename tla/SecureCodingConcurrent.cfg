SPECIFICATION FairSpec
CONSTANTS
  Threads = {worker, api}
  Events = {e1}
  Patches = {p1, p2}
  NoPatch = NoPatch
  Cut = Cut
  NoFile = NoFile
  Kinds = {"marked"}
  TagOf <- FixedTag
  Deliveries = 2
  MaxRetries = 1
  MaxFaults = 1
INVARIANTS
  CompletedIsRecorded
  FirstRunWritesItsPatch
PROPERTY AcceptedJobEnds
CHECK_DEADLOCK FALSE
