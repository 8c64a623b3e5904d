SPECIFICATION Spec
CONSTANTS
  talker = talker
  visitor = visitor
  Conns <- TwoConns
  Rows = {}
  ContextTurns = 1
  MaxMessages <- TalkerSpeaks
  MaxInbox = 1
PROPERTY ArchivedOnDisconnect
CHECK_DEADLOCK FALSE
