SPECIFICATION Spec
CONSTANTS
  Threads = {worker}
  Events = {e1, e2}
  Patches = {p1, p2, p3}
  NoPatch = NoPatch
  Cut = Cut
  NoFile = NoFile
  Kinds = {"marked", "plain", "broken"}
  TagOf <- FixedTag
  Deliveries = 1
  MaxRetries = 1
  MaxFaults = 1
INVARIANTS
  TypeOK
  WorkspaceCompiles
PROPERTIES
  PublishedImageHasPatch
  ImplementsTransactions
CHECK_DEADLOCK FALSE
SYMMETRY Symmetry
