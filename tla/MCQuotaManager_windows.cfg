CONSTANTS
  d1 = d1
  d2 = d2
  Dispatches <- MCDispatches
  RequestCap = 3
  MinuteCap = 4
  DayCap = 6
  Estimates = {1, 2}
  Actuals = {0, 1, 3}
  MaxOverrun = 2
  MinutesPerDay = 2
  LastMinute = 3
  NoReservation = NoReservation
SPECIFICATION Spec
INVARIANTS
  TypeOK
  RequestsWithinCap
  OvershootBounded
  DriftExplained
PROPERTIES
  ResetsAtRollover
CHECK_DEADLOCK FALSE
