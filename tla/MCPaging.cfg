SPECIFICATION Spec
CONSTANTS
  Rows <- MCRows
  Key <- MCKey
  First <- Evens
  Limit = 2
INVARIANTS TypeOK NothingSkipped MissedOnlyLate
PROPERTIES WalkEnds
