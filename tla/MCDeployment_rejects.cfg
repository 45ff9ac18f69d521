CONSTANTS
  Calls = {c1}
  MaxRetries = 1
  Tenants <- MCTenants
  Instances = {i1, i2}
  Cap = 2
  MinuteCap = 4
  DayCap = 5
  Actuals = {1, 3}
  Candidates = 2
  MaxWindows = 3
  Modes <- MCModes
  Envelopes <- MCEnvelopes
SPECIFICATION Spec
INVARIANT NeverRejects
CHECK_DEADLOCK FALSE
