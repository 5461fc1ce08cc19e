\* One chat, two messages of which one is edited, a fault and a removal.
SPECIFICATION FairSpec
CONSTANTS
  Chats = {c1}
  Refused = {}
  MaxMessages = 2
  Editable <- MCEditable
  MaxPending = 2
  MaxFaults = 1
  MaxStops = 1
  Reconnects = {"none"}
  NoChat = NoChat
INVARIANT TypeOK
INVARIANT MarkCovered
PROPERTY IsChannel
PROPERTY Arrives
