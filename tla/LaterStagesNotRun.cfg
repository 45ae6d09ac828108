SPECIFICATION Spec
CONSTANTS
  Threads = {api}
  Api = {api}
  ProcessOf <- OwnProcess
  Patches = {p1}
  Jobs = {j1}
  NoJob = NoJob
  NoCopy = NoCopy
  Torn = Torn
  RequiredStages <- AllStages
  MaxRequests = 2
  MaxCrashes = 0
INVARIANT
  LaterStagesNotRun
CHECK_DEADLOCK FALSE
