SPECIFICATION FairSpec
CONSTANTS
  r1 = r1
  r2 = r2
  main = main
  dev = dev
  Runs = {r1, r2}
  Refs <- OneOrTwoBranches
  None = none
  MaxPolls = 1
  MaxInstances = 2
CHECK_DEADLOCK FALSE
INVARIANTS
  TypeOK
  ReportIsOfItsTime
  BranchesAreSerial
  NeverAnOlderDevice
PROPERTIES
  RunsEnd
