SPECIFICATION Safe
CONSTANTS
  v1 = v1
  v2 = v2
  Predictions <- MCPredictions
  NoPrediction = none
  Creators = {p1}
  Repredictors = {r1, r2}
  PoolSize = 2
  MaxImport = 2
  MaxCalls = 3
  Faults = {}
INVARIANT LatestShown
CHECK_DEADLOCK FALSE
