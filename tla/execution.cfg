SPECIFICATION FairSpec
CONSTANTS
  MaxCalls = 3
  MaxToolCalls = 2
  MaxIterations = 2
  MaxTurns = 2
  MaxBatch = 2
  MaxRefreshes = 1
INVARIANTS
  TypeOK
  ResultsMatch
  ChildOwned
  RequestsWellFormed
PROPERTIES
  TurnEnds
CHECK_DEADLOCK FALSE
