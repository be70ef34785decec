SPECIFICATION FairSpec
CONSTANTS
  classic = classic
  hybrid = hybrid
  pqc = pqc
  CONFIGS <- ThreeProfiles
  MaxCrashes = 2
  MaxRuns = 3
CHECK_DEADLOCK FALSE
INVARIANTS
  TypeOK
  CertificateOfItsKey
  OnlyUnrecordedAreOrphaned
PROPERTIES
  PairsAreKept
  OneDownAllDown
  BootEnds
