CONSTANTS
  free1 = free1
  free2 = free2
  paid = paid
  Providers <- MCProviders
  FreeTier <- MCFree
  Routes <- PairRoutes
  MaxKeys = 2
  MaxAttempts = 2
  RateLimitMaxAttempts = 3
SPECIFICATION FairSpec
INVARIANTS
  TypeOK
  AttemptsInOrder
  RetryBudget
  NothingAfterTerminal
  FailoverIsImmediate
  CommitMatchesWinner
  ExhaustionIsThorough
PROPERTIES
  ReserveOnlyWhenFree
  WalksInOrder
  Termination
CHECK_DEADLOCK FALSE
