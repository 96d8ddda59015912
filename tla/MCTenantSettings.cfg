SPECIFICATION Spec
CONSTANTS
  f1 = f1
  f2 = f2
  Features <- MCFeatures
  Overrides <- TwoValues
  Requests <- Rows
  Readers = {r1}
  Updaters = {u1}
  Admins = {a1}
  TTL = 2
  MaxFlight = 1
  MaxWrites = 2
  Faults = {"load", "commit", "audit", "restart"}
INVARIANTS TypeOK AuditOnlyStored
PROPERTIES PolicyKept OkMeansAudited EventuallyCoherent CallsEnd
