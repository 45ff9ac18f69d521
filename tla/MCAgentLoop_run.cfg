CONSTANTS
  Routes <- MCRoutes
  VendorAt <- MCVendorAt
  ToolNames <- MCToolNames
  Registries <- MCRegistries
  Histories <- MCHistories
  CallLists <- MCCallLists
  TokenCounts = {1, 2}
  Sizes = {0, 1}
  MaxPayload = 2
  MaxIterations = 2
SPECIFICATION FairSpec
INVARIANTS
  CallsAnsweredInOrder
  StepsAccountForRun
  StopReasonExplainsFinal
  ResultsReachTheirCalls
PROPERTIES
  RunEnds
CHECK_DEADLOCK FALSE
