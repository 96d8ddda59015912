SPECIFICATION Safe
CONSTANTS
  f1 = f1
  f2 = f2
  Features <- MCFeatures
  Overrides <- TwoValues
  Requests <- OneRow
  Readers = {}
  Updaters = {u1}
  Admins = {a1}
  TTL = 2
  MaxFlight = 1
  MaxWrites = 2
  Faults = {}
INVARIANT EveryChangeAudited
