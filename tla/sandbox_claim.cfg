SPECIFICATION FairSpec
CONSTANTS
  MaxCalls = 1
  MaxToolCalls = 2
  MaxIterations = 1
  MaxTurns = 1
  MaxBatch = 1
  MaxRefreshes = 0
PROPERTIES
  ExecutionEnds
CHECK_DEADLOCK FALSE
