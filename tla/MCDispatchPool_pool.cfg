CONSTANTS
  Callers = {c1, c2, c3}
  Workers = {w1, w2}
  MaxCalls = 1
SPECIFICATION FairSpec
INVARIANTS
  EachRunsOnce
  TimeoutExplained
PROPERTIES
  EveryCallerIsAnswered
  EveryDispatchFinishes
CHECK_DEADLOCK FALSE
