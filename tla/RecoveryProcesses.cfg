SPECIFICATION Spec
CONSTANTS
  Threads = {worker, api}
  Api = {api}
  ProcessOf <- OwnProcess
  Patches = {p1}
  Jobs = {j1, j2}
  NoJob = NoJob
  NoCopy = NoCopy
  Torn = Torn
  RequiredStages <- TwoStages
  MaxRequests = 2
  MaxCrashes = 1
SYMMETRY Symmetry
INVARIANTS
  TypeOK
  PromotedPassedAll
  RetriedAtFirstFailure
  CompletedWasPromoted
CHECK_DEADLOCK FALSE
