\* A crash after the last page of an import that fits the limit.
SPECIFICATION Spec
CONSTANTS
  Messages <- MCMessages
  PageSize = 1
  MaxMessages = 4
  Consents = {TRUE}
  HistoryExpires = FALSE
  Requests = {}
  MaxAttempts = 3
  MaxRequests = 0
  MaxHistory = 0
  MaxFaults = 1
\* A stream that is off and a mailbox at its bound: nothing is left to do.
CHECK_DEADLOCK FALSE
INVARIANT TruncatedIsTrue
