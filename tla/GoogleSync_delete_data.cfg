\* The imported data are deleted while a run imports.
SPECIFICATION Spec
CONSTANTS
  Messages <- MCTwo
  PageSize = 1
  MaxMessages = 9
  Consents = {TRUE}
  HistoryExpires = FALSE
  Requests = {"delete", "sync"}
  MaxAttempts = 3
  MaxRequests = 2
  MaxHistory = 2
  MaxFaults = 0
\* A stream that is off and a mailbox at its bound: nothing is left to do.
CHECK_DEADLOCK FALSE
INVARIANT CursorCovered
