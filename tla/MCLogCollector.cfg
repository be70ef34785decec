SPECIFICATION FairSpec
CONSTANTS
  classic = classic
  pqc = pqc
  LOG_GROUPS <- TwoGroups
  LimitPerGroup = 3
  PageLimit = 2
  MaxStored = 4
  MaxEmpty = 1
CHECK_DEADLOCK FALSE
INVARIANTS
  TypeOK
  CollectedExactly
  CountsAgree
PROPERTIES
  CompleteUnlessTruncated
  CollectionEnds
