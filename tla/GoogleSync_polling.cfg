\* Everything the user does, cursors refused as too old, at most two crashes for three attempts.
SPECIFICATION Spec
CONSTANTS
  Messages <- MCTwo
  PageSize = 1
  MaxMessages = 2
  Consents = {TRUE, FALSE}
  HistoryExpires = TRUE
  Requests = {"grant", "disconnect", "revoke", "sync", "delete"}
  MaxAttempts = 3
  MaxRequests = 2
  MaxHistory = 1
  MaxFaults = 2
\* A stream that is off and a mailbox at its bound: nothing is left to do.
CHECK_DEADLOCK FALSE
INVARIANT KeepsPolling
