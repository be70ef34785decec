SPECIFICATION Spec
CONSTANTS
  Runs = {r1, r2, r3}
  None = none
  MaxPolls = 1
  KeepImages = 1
SYMMETRY Symmetry
CONSTRAINT TwoAtATime
CHECK_DEADLOCK FALSE
INVARIANTS
  TypeOK
  OnlyGatedImagesRun
  DownOnlyWhileReplaced
  ForeignImageWasMet
