\* The handlers of a message and of its edit.
SPECIFICATION Spec
CONSTANTS
  Chats = {c1}
  Refused = {}
  MaxMessages = 2
  Editable <- MCEditable
  MaxPending = 2
  MaxFaults = 0
  MaxStops = 0
  Reconnects = {"none"}
  NoChat = NoChat
INVARIANT LastVersion
