\* The imported data are deleted while a window is listed.
SPECIFICATION Spec
CONSTANTS
  Events <- MCTwo
  Days <- MCDays
  Past = 1
  Future = 0
  PageSize = 1
  MaxEvents = 2
  TokensExpire = FALSE
  MaxToday = 0
  MaxChanges = 0
  MaxMishaps = 1
\* A stream that is off and a calendar at its bounds: nothing is left to do.
CHECK_DEADLOCK FALSE
INVARIANT WindowComplete
