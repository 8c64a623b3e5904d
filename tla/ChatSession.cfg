SPECIFICATION LiveSpec
CONSTANTS
  talker = talker
  visitor = visitor
  Conns <- TwoConns
  Rows <- TalkerHasRow
  ContextTurns = 1
  MaxMessages <- TalkerSpeaks
  MaxInbox = 2
INVARIANTS TypeOK SessionsAreCounted PromptEndsWithQuestion HistoryIsDialogue ClientIsCurrent
PROPERTIES HistoryKeptUntilArchived HandlerEnds
CHECK_DEADLOCK FALSE
