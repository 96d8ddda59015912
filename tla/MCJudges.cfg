SPECIFICATION Spec
CONSTANTS
  NoOne = NoOne
  Initials = {"b."}
  NoJudge = NoJudge
  NoCourt = NoCourt
  NoScore = NoScore
  Runs = {r1, r2}
  Tenants = {t1}
  Docs = {1, 2}
  Text <- MCText
  First = {1}
  Courts <- MCCourts
  Keys <- MCKeys
  Counsel = {"abney"}
  Release <- MCRelease
  Scotus <- scotus
  Years = {0, 1, 2, 3}
  None = None
  Faults = 1
INVARIANTS TypeOK TallyOfMarked ScoresOnOwnCourt OnlyExtractDeadlocks ShownTermRight
PROPERTIES CountedWhenMarked BioKept
CHECK_DEADLOCK FALSE
