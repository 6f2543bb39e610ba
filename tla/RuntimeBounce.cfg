SPECIFICATION Spec
CONSTANTS
  MinHoverThrust = 2
  MaxHoverThrust = 4
  InitialHoverThrust = 3
  FilterEnabled = FALSE
  SampleTimeout = 2
  LowRatePeriod = 2
  PublishPeriod = 3
  RawPeriod = 2
  FutureTolerance = 0
  BackwardTolerance = 0
  RegressTolerance = 0
  RoundingShortfall = 0
  Candidates = {5}
  Times = {2, 4}
  Arrivals <- RosArrivals
  AppliedInputs <- NoBatches
  MaxPending = 2
PROPERTY NoEdgeOnSpuriousJump
