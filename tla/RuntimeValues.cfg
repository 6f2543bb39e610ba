SPECIFICATION OwnerSpec
CONSTANTS
  MinHoverThrust = 2
  MaxHoverThrust = 4
  InitialHoverThrust = 3
  FilterEnabled = TRUE
  SampleTimeout = 2
  LowRatePeriod = 2
  PublishPeriod = 2
  RawPeriod = 1
  FutureTolerance = 1
  BackwardTolerance = 0
  RegressTolerance = 1
  RoundingShortfall = 0
  Candidates = {1, 4}
  Times = {1, 2, 4}
  Arrivals <- ValueArrivals
  AppliedInputs <- ReadyBatches
  MaxPending = 2
INVARIANTS
  TypeOK
  StateFollowsHealth
  TurnOutputIsCurrent
  PublishedIsTheSnapshot
  WakeMissesNothing
PROPERTIES
  TrainsOnHealthyPairs
  TargetMovesWithCause
  ContractIsKept
