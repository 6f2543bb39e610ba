SPECIFICATION Spec
CONSTANTS
  MinHoverThrust = 2
  MaxHoverThrust = 4
  InitialHoverThrust = 3
  FilterEnabled = FALSE
  SampleTimeout = 3
  LowRatePeriod = 2
  PublishPeriod = 1
  RawPeriod = 2
  FutureTolerance = 1
  BackwardTolerance = 1
  Snapshots <- SampleSnapshots
  Horizon = 9
INVARIANTS
  ConditionOfFirstRow
PROPERTIES
  LateIsForGood
  AgeingEdges
CHECK_DEADLOCK FALSE
