\* One refresh of the grant, one disconnection or one sync now, during imports and resumes.
SPECIFICATION FairSpec
CONSTANTS
  Messages <- MCTwo
  PageSize = 1
  MaxMessages = 9
  Consents = {TRUE}
  HistoryExpires = FALSE
  Requests = {"grant", "disconnect", "sync"}
  MaxAttempts = 3
  MaxRequests = 1
  MaxHistory = 2
  MaxFaults = 1
\* A stream that is off and a mailbox at its bound: nothing is left to do.
CHECK_DEADLOCK FALSE
INVARIANT CursorCovered
INVARIANT ResumeSafe
PROPERTY CatchesUp
