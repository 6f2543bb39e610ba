SPECIFICATION NodeSpec
CONSTANTS
  MinHoverThrust = 2
  MaxHoverThrust = 4
  InitialHoverThrust = 3
  FilterEnabled = FALSE
  SampleTimeout = 1
  LowRatePeriod = 2
  PublishPeriod = 3
  RawPeriod = 3
  FutureTolerance = 0
  BackwardTolerance = 0
  RegressTolerance = 0
  RoundingShortfall = 0
  Candidates = {3}
  Times = {0, 1, 2, 3}
  Arrivals <- CallbackSamples
  AppliedInputs <- NoBatches
  MaxPending = 3
  Messages <- FlightMessages
  QueueSize = 1
  MaxMessages = 3
  MaxRewinds = 0
INVARIANTS
  PastTimeoutIsEvaluated
CHECK_DEADLOCK FALSE
