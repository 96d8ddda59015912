SPECIFICATION Spec
CONSTANTS
  Ids <- MCIds
  Courts <- MCCourts
  tax = tax
  us = us
  NoRow = NoRow
  NotFetched = NotFetched
  NotAnOpinion = NotAnOpinion
  NoDate = NoDate
  Runs = {r1, r2}
  Archive <- MCArchive
  Blank = {3}
  Undated <- MCUndated
  First <- MCFirst
  Cron = {tax}
  Target = 1
  Threshold = 1
  MinScan = 2
  MaxScan = 4
  CapVolumes <- MCCapVolumes
  CapDates <- MCCapDates
  CapStubs = {6}
  CapLimit = 1
  Window = 2
  Starts = 1
  Faults = 1
  Active = 2
INVARIANTS TypeOK NoHoleAboveCursor OwnRows EdgesInsertable CapWithinLimit WindowDrained
PROPERTIES CitesKept EdgesComplete WalkReachesBottom
CHECK_DEADLOCK FALSE
