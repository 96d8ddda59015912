SPECIFICATION Spec
CONSTANTS
  NoOne = NoOne
  Initials = {"b."}
  NoJudge = NoJudge
  NoCourt = NoCourt
  NoScore = NoScore
  Runs = {r1}
  Tenants = {t1}
  Docs = {1, 3}
  Text <- MCText
  First = {1}
  Courts <- MCCourts
  Keys <- MCKeys
  Counsel = {"abney"}
  Release <- MCRelease
  Scotus <- scotus
  Years = {0, 1, 2, 3}
  None = None
  Faults = 0
INVARIANT RecomputedFromScratch
CHECK_DEADLOCK FALSE
