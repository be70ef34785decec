SPECIFICATION Spec
CHECK_DEADLOCK FALSE
INVARIANTS
  GateJudgesWhatRuns
  RequiredFieldsLoad
