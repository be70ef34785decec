SPECIFICATION AlgorithmsSpec
CONSTANTS
  i1 = i1
  i2 = i2
  asg = asg
  image = image
  Alone = alone
  Dimensions <- FourDimensions
  Instance = i1
  Times = {1, 2, 3}
  Start = 2
  End = 3
  MaxText = 8
  MaxValues = 6
  Values = {5, 15, 21, 34}
  Precision = 10
  TiesUp <- OddNumbers
CHECK_DEADLOCK FALSE
INVARIANTS
  ExtractsFirstObject
  PercentilesSplit
  MetricIsEvidence
