SPECIFICATION Safe
CONSTANTS
  Rows <- MCRows
  Key <- MCKey
  First <- Evens
  Limit = 2
INVARIANT LastPageHasLast
