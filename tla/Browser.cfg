SPECIFICATION LiveSpec
CONSTANTS
  Npcs = {garon, elara, rico}
  Personas = {garon, elara}
  MaxReconnectAttempts = 2
  MaxMessages = 2
  None = None
INVARIANTS TypeOK StatusTellsTruth TypingMeansAnswerDue ScreenShowsSelected
PROPERTY ReconnectsOrGivesUp
CHECK_DEADLOCK FALSE
