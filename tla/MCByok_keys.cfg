CONSTANTS
  Specs <- MCSpecs
  Pasted <- MCPasted
  Cuts = {1, 4}
  Providers <- MCProviders
  FreeTier = {}
  Routes <- MCRoutes
  MaxKeys = 2
  MaxAttempts = 2
  RateLimitMaxAttempts = 1
SPECIFICATION ByokSpec
INVARIANTS
  VisitorsKeysPayFirst
  ExhaustionSpentEveryKey
  StrandedExplained
CHECK_DEADLOCK FALSE
