SPECIFICATION Spec
CONSTANTS
  t1 = t1
  t2 = t2
  Operators = {o1}
  Tenants <- MCTenants
  NoTenant = noTenant
  Pats = {k1}
  NoOperator = noOperator
  Logins = {l1}
  SessionTTL = 1
  Pause = 1
  Leeway = 1
  MaxTime = 4
  MaxSessions = 1
  U32 = 64
  NoCase = noCase
  Requests = {r1}
  Inputs <- MCInputs
  Answers <- MCAnswers
SYMMETRY Symmetric
CHECK_DEADLOCK FALSE
INVARIANTS TypeOK WithdrawnInTime AdviceBracketed DearerNeverBolder FederalNeverTried
