\* The access token expires during a run.
SPECIFICATION Spec
CONSTANTS
  Messages <- MCTwo
  PageSize = 1
  MaxMessages = 9
  Consents = {TRUE}
  HistoryExpires = FALSE
  Requests = {"grant"}
  MaxAttempts = 3
  MaxRequests = 1
  MaxHistory = 1
  MaxFaults = 0
\* A stream that is off and a mailbox at its bound: nothing is left to do.
CHECK_DEADLOCK FALSE
INVARIANT ReconnectMeansRevoked
