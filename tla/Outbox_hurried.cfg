\* Connected again before the provisioner removed the container.
SPECIFICATION FairSpec
CHECK_DEADLOCK FALSE
CONSTANTS
  Chats = {c1}
  Refused = {}
  MaxMessages = 1
  Editable <- MCUnedited
  MaxPending = 2
  MaxFaults = 0
  MaxStops = 1
  Reconnects = {"none", "stopped", "deleted"}
  NoChat = NoChat
PROPERTY Linked
