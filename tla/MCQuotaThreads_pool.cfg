CONSTANTS
  t1 = t1
  t2 = t2
  Threads <- MCThreads
  RequestCap = 2
  MinuteCap = 3
  DayCap = 4
  Estimates = {1, 2}
  Actuals = {0, 1}
  MaxGrants = 4
SPECIFICATION Spec
INVARIANTS
  OvershootByThreads
  CountsWereCharged
  ExactWithoutOverlap
SYMMETRY Symmetry
CHECK_DEADLOCK FALSE
