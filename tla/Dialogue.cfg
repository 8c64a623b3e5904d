SPECIFICATION HSpec
CONSTANTS
  Answers <- MoodAnswers
  MaxTurns = 6
INVARIANTS TypeOK FreshTurn ResponseIsCurrent CooldownHolds
CHECK_DEADLOCK FALSE
