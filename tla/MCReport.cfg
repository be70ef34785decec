SPECIFICATION Spec
CONSTANTS
  Load <- AroundThreshold
  Missing = missing
  Precision = 10
  TiesUp = {}
  Logs <- SomeLogs
CHECK_DEADLOCK FALSE
INVARIANTS
  FindingsTellTheTruth
  DownEndpointIsFound
