SPECIFICATION FairSpec
CONSTANTS
  low = low
  high = high
  Incidents = {low, high}
  NoIncident = NoIncident
  RiskOf <- Risk
  Deliveries = 2
  MaxChanges = 2
  MaxRestarts = 1
INVARIANTS
  TypeOK
  GaugeNeverUnderReports
  OutcomeKnown
PROPERTIES
  AbortsAfterTwoBreaches
  SustainedBreachAborts
