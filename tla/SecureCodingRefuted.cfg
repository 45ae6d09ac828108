\* The statements at the end of SecureCodingJobs, one at a time: TLC finds each violated.
\*   INVARIANT CompletedWasPublished
\*   INVARIANT AppliedWasRechecked
\*   INVARIANT RetriesBounded
\*   PROPERTY FailedRunLeavesNoPatch
SPECIFICATION Spec
CONSTANTS
  Threads = {worker, api}
  Events = {e1}
  Patches = {p1, p2}
  NoPatch = NoPatch
  Cut = Cut
  NoFile = NoFile
  Kinds = {"marked", "broken"}
  TagOf <- FixedTag
  Deliveries = 2
  MaxRetries = 1
  MaxFaults = 1
INVARIANT
  CompletedWasPublished
CHECK_DEADLOCK FALSE
