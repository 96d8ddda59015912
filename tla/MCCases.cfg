SPECIFICATION Spec
CONSTANTS
  v1 = v1
  v2 = v2
  Predictions <- MCPredictions
  NoPrediction = none
  Creators = {p1}
  Repredictors = {r1, r2}
  PoolSize = 2
  MaxImport = 2
  MaxCalls = 4
  Faults = {"ml", "db", "audit", "drop", "restart"}
INVARIANTS TypeOK ReportsTrue NoHoldAndWait AuditsOnlyCommitted
PROPERTIES StoreKept CallsEnd
