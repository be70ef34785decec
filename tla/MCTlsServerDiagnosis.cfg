SPECIFICATION Spec
CONSTANTS
  Conns = {c1}
  NoConn = none
  Backlog = 1
  MaxRestarts = 0
  OperatorStops = FALSE
CHECK_DEADLOCK FALSE
INVARIANT LatestErrorReported
