SPECIFICATION PipelineSpec
CONSTANTS
  MaxEvents = 3
  Malformed = {2}
  LogGroup = group
  LimitPerGroup = 4
  PageLimit = 2
  MaxEmpty = 1
CHECK_DEADLOCK FALSE
INVARIANTS
  TypeOK
  AppendedIsContiguous
  SpoiledOnlyByTorn
  ReportTellsTheLog
PROPERTIES
  ImplementsEventLog
