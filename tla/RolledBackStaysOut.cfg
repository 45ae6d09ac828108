SPECIFICATION Spec
CONSTANTS
  Threads = {worker}
  Events = {e1}
  Patches = {p1, p2}
  NoPatch = NoPatch
  Cut = Cut
  NoFile = NoFile
  Kinds = {"marked"}
  TagOf <- FixedTag
  Deliveries = 1
  MaxRetries = 2
  MaxFaults = 0
INVARIANT
  RolledBackStaysOut
