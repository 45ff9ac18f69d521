CONSTANTS
  Configs <- MCConfigs
SPECIFICATION FairSpec
INVARIANT ExhaustionIsHonest
PROPERTIES
  NoLateRequest
  CallSettles
CHECK_DEADLOCK FALSE
