SPECIFICATION HSpec
CONSTANTS
  Answers <- MoodAnswers
  MaxTurns = 6
INVARIANT MoodsDecay
CHECK_DEADLOCK FALSE
