\* An event moves out of the window before the window is listed anew.
SPECIFICATION Spec
CONSTANTS
  Events <- MCTwo
  Days <- MCDays
  Past = 1
  Future = 0
  PageSize = 2
  MaxEvents = 2
  TokensExpire = FALSE
  MaxToday = 1
  MaxChanges = 1
  MaxMishaps = 0
\* A stream that is off and a calendar at its bounds: nothing is left to do.
CHECK_DEADLOCK FALSE
INVARIANT NothingStale
