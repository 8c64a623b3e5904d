------------------------------- MODULE Quest -------------------------------
(***************************************************************************)
(* The quest tracker of src/quest/tracker.py and the reach of a hint       *)
(* (src/quest/hint_engine.py). A quest the tracker has no entry for is an  *)
(* entry with status not_started and progress 0, as get_status and         *)
(* get_progress read it. Each method is a function from the quest's entry  *)
(* to its new entry.                                                       *)
(***************************************************************************)
EXTENDS Integers

NotStarted == [status |-> "not_started", progress |-> 0]
Started    == [status |-> "active", progress |-> 0]
Completed  == [status |-> "completed", progress |-> 100]

(* What an entry can be: a quest in progress is never at 100.              *)
Entry == {NotStarted, Completed} \cup [status : {"active"}, progress : 0 .. 99]

Clamped(p) == IF p < 0 THEN 0 ELSE IF p > 100 THEN 100 ELSE p

(* mutant: a report is trusted to be a percentage below completion.        *)
UpdateProgressUncompleted(e, p) ==
  IF e.status = "completed" THEN e
  ELSE [status |-> "active", progress |-> Clamped(p)]

(* update_progress starts an unknown quest, leaves a completed one alone   *)
(* and completes one that reaches 100.                                     *)
UpdateProgress(e, p) ==
  IF e.status = "completed" THEN e
  ELSE IF Clamped(p) >= 100 THEN Completed
  ELSE [status |-> "active", progress |-> Clamped(p)]

HintLevel(e) ==
  CASE e.status = "completed"   -> "full"
    [] e.status = "not_started" -> "ambient"
    [] e.status = "active" ->
         IF e.progress <= 25 THEN "low"
         ELSE IF e.progress <= 50 THEN "medium"
         ELSE IF e.progress <= 75 THEN "high" ELSE "full"

(* HINT_LEVEL_MAX_STAGE: the last stage a level gives access to.           *)
MaxStage == [ambient |-> 0, low |-> 1, medium |-> 2, high |-> 3, full |-> 999]

Reach(e) == MaxStage[HintLevel(e)]
=============================================================================
