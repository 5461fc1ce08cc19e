\* A chat whose identifier the application refuses.
SPECIFICATION FairSpec
CHECK_DEADLOCK FALSE
CONSTANTS
  Chats = {c1, c2}
  Refused = {c2}
  MaxMessages = 1
  Editable <- MCUnedited
  MaxPending = 2
  MaxFaults = 0
  MaxStops = 0
  Reconnects = {"none"}
  NoChat = NoChat
PROPERTY Arrives
