SPECIFICATION Spec
CONSTANTS
  low = low
  high = high
  Incidents = {low, high}
  NoIncident = NoIncident
  RiskOf <- Risk
  Deliveries = 1
  MaxChanges = 0
  MaxRestarts = 0
PROPERTY
  HighRiskWaitsForApproval
