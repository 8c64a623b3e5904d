------------------------- MODULE MCDialogueHistory -------------------------
(* DialogueHistory for TLC: answers of the classifier that reach every     *)
(* branch of EmotionMachine.update, any of which the player may keep on    *)
(* repeating, with an intent that is made up and one that is a guess.      *)
EXTENDS DialogueHistory

Says(s, b, i, sure, rep) ==
  [sentiment |-> s, band |-> b, intent |-> i, sure |-> sure, repeated |-> rep]

(* One per branch; that no emotion is called for is Unclassified. *)
MoodAnswers ==
  {Says("neutral", "low", "quest_inquiry", FALSE, TRUE),
   Says("positive", "mid", "quest_inquiry", TRUE, FALSE),
   Says("positive", "high", "quest_inquiry", FALSE, FALSE),
   Says("negative", "high", "other", TRUE, FALSE),
   Says("negative", "mid", "general_chat", TRUE, FALSE),
   Says("neutral", "low", "provocation", TRUE, FALSE)}
=============================================================================
