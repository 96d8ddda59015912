SPECIFICATION Safe
CONSTANTS
  f1 = f1
  f2 = f2
  Features <- MCFeatures
  Overrides <- TwoValues
  Requests <- OneRow
  Readers = {r1}
  Updaters = {u1}
  Admins = {}
  TTL = 2
  MaxFlight = 1
  MaxWrites = 1
  Faults = {}
INVARIANT NextReadIsFresh
