CONSTANTS
  r1 = r1
  r2 = r2
  v4 = v4
  v6 = v6
  none = none
  Replicas <- MCReplicas
  Ips <- MCIps
  NoIp = none
  Endpoints <- MCEndpoints
  RouteMap <- MCRouteMap
  NameOf <- MCNameOf
  ValidNames <- MCValidNames
  Logs <- MCLogs
  ManualEvents <- MCManualEvents
  IpBlockThreshold = 2
  EndpointDisableThreshold = 3
  ApplyEnabled = TRUE
  AuthEnforced = TRUE
  ApiMayFail = FALSE
  MaxRequests = 4
  MaxRestarts = 1
SPECIFICATION Spec
SYMMETRY Symmetry
INVARIANTS DisabledIsAborted
CHECK_DEADLOCK FALSE
