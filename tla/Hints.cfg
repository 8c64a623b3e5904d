SPECIFICATION HintsSpec
CONSTANTS
  Docs = {"npc", "quest"}
  Files <- TwoFiles
  DocType <- TypeOfFile
  Titles = {"intro", "likes", "stage"}
  Untitled = "intro"
  Texts = {"smith", "ore", "sword", "rumour", "reworded", "offer"}
  Versions <- VersionsOf
  monday = monday
  tuesday = tuesday
  Reloads <- TwoReloads
  BatchSize = 2
  Quests = {"sword"}
  About <- AboutQuest
  Lead <- LeadOf
  Reports <- SomeReports
  SearchTypes = {"npc", "quest"}
  TopK = 2
  HintTopK = 1
INVARIANTS TypeOK HintsTypeOK ReloadTakesEffect
PROPERTIES AnswersAreCurrent HintsAreReached
SYMMETRY ReloadSymmetry
CHECK_DEADLOCK FALSE
