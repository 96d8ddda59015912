SPECIFICATION Spec
CONSTANTS
  c1 = c1
  c2 = c2
  Clients <- MCClients
  Cost = 3
  Minute = 7
  PerSecond = 2
  MaxHold = 2
  MaxWindow = 8
INVARIANTS TypeOK AdmissionBound
PROPERTIES RetryHonoured
