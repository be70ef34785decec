SPECIFICATION FairSpec
CONSTANTS
  Conns = {c1, c2}
  NoConn = none
  Backlog = 1
  MaxRestarts = 1
  OperatorStops = TRUE
CHECK_DEADLOCK FALSE
INVARIANTS
  TypeOK
  NothingHeldBetweenClients
  AccountedOnce
  LoggedBeforeAnswered
  EventsTellTheHandshake
  EventsQuoteTheirFailure
PROPERTIES
  ImplementsAuditTrail
  EveryConnectionEnds
