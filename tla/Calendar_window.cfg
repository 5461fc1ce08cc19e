\* Two events, pages of one or two; the second day brings the events of day 1 into the window.
SPECIFICATION FairSpec
CONSTANTS
  Events <- MCTwo
  Days <- MCDays
  Past = 1
  Future = 0
  PageSize = 2
  MaxEvents = 2
  TokensExpire = TRUE
  MaxToday = 1
  MaxChanges = 2
  MaxMishaps = 1
\* A stream that is off and a calendar at its bounds: nothing is left to do.
CHECK_DEADLOCK FALSE
INVARIANT WindowCovered
PROPERTY CatchesUp
