SPECIFICATION Spec
CONSTANTS
  RegressTolerance = 2
  RoundingShortfall = 1
  Period = 3
  Times = {0, 1, 2, 3, 4, 5, 6, 7, 8}
  MaxTravel = 12
INVARIANTS
  TypeOK
  DeadlineNeverLate
  DeadlineAtMostOneTickEarly
  FiringsArePaidFor
